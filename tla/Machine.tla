-------------------------------- MODULE Machine --------------------------------
(***************************************************************************)
(* What the models of the interpreter and of its primitives share: the      *)
(* state of the machine, and whether the program has left the part of       *)
(* Scheme the VM answers as R7RS does.                                      *)
(***************************************************************************)
EXTENDS Integers

CONSTANTS Index,       \* integers a program passes to a primitive
          MAX_STR_LEN  \* how far os_strnlen looks for the end of a text
ASSUME IndexAssumption == Index \subseteq Int
ASSUME LengthAssumption == MAX_STR_LEN \in Nat

VARIABLES machine, \* "VM_RUN", "VM_STOP", "PANIC", or "UNDEFINED" after undefined behaviour
          strayed, \* history: a call was an error, or is answered otherwise than in R7RS
          unsafe   \* history: a call nobody checks lost a terminator or left its memory

machineVars == <<machine, strayed, unsafe>>

MachineInit == machine = "VM_RUN" /\ strayed = FALSE /\ unsafe = FALSE

Running == machine = "VM_RUN"
Strays(s) == strayed' = (strayed \/ s)
Careless(unchecked) == unsafe' = (unsafe \/ unchecked)
================================================================================
