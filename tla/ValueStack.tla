------------------------------ MODULE ValueStack ------------------------------
(***************************************************************************)
(* What a program sees of its data: a stack of values and the globals,      *)
(* where a value is an immediate or a list of values, and no memory at all. *)
(* Module ObgGc shows that allocation and garbage collection provide this.  *)
(***************************************************************************)
EXTENDS Integers, Sequences

CONSTANTS Imm, NULL

VARIABLES stack, globals, phase

vars == <<stack, globals, phase>>

\* An immediate is a tree of kind "imm", a list one of kind "list".
Leaf(i) == [kind |-> "imm", imm |-> i, items |-> <<>>]
Tree(s) == [kind |-> "list", imm |-> NULL, items |-> s]

Init == stack = <<>> /\ globals = <<>> /\ phase = "globals"

Push(v) == stack' = Append(stack, v) /\ UNCHANGED <<globals, phase>>

Const == \E i \in Imm : Push(Leaf(i))
Copy == \E i \in 1 .. Len(stack) : Push(stack[i])
Global == \E i \in 1 .. Len(globals) : Push(globals[i])

Drop == /\ stack # <<>>
        /\ stack' = SubSeq(stack, 1, Len(stack) - 1)
        /\ UNCHANGED <<globals, phase>>

MakeList ==
  \E n \in 0 .. Len(stack) :
    LET m == Len(stack) - n
    IN  /\ stack' = SubSeq(stack, 1, m) \o <<Tree(SubSeq(stack, m + 1, Len(stack)))>>
        /\ UNCHANGED <<globals, phase>>

Car == /\ stack # <<>>
       /\ LET l == stack[Len(stack)]
          IN  /\ l.items # <<>>
              /\ stack' = [stack EXCEPT ![Len(stack)] = l.items[1]]
       /\ UNCHANGED <<globals, phase>>

Cdr == /\ stack # <<>>
       /\ LET l == stack[Len(stack)]
          IN  /\ Len(l.items) > 1
              /\ stack' = [stack EXCEPT ![Len(stack)] = Tree(Tail(l.items))]
       /\ UNCHANGED <<globals, phase>>

\* The globals are what their initialisation left on the stack.
EndGlobals == /\ phase = "globals"
              /\ globals' = stack
              /\ stack' = <<>>
              /\ phase' = "run"

Halt == phase = "run" /\ stack' = <<>> /\ globals' = <<>> /\ phase' = "stop"

Next == \/ phase # "stop" /\ (Const \/ Copy \/ Global \/ Drop \/ MakeList \/ Car \/ Cdr)
        \/ EndGlobals \/ Halt

Spec == Init /\ [][Next]_vars
=============================================================================
