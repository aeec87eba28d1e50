------------------------------- MODULE MCFrames -------------------------------
(***************************************************************************)
(* A small instance of HigherOrder: one closure with one captured variable. *)
(* A behaviour either has all instructions and no primitives that apply     *)
(* procedures, or has these too but fewer of the others: it jumps only      *)
(* where it calls or returns (mode).  Both together are too many states.    *)
(*                                                                          *)
(* The bytes from sp on are dead: no action reads them before writing them  *)
(* (a read that did would still see them, and fail StackIntact or           *)
(* ReturnRestores), so states that differ only there are explored once.     *)
(***************************************************************************)
EXTENDS HigherOrder

CONSTANTS a, b, c1

VARIABLE mode

MCArity == [c \in {c1} |-> 1]
MCEntry == [c \in {c1} |-> 2]
MCView == <<[i \in 0 .. sp - 1 |-> mem[i]], regs, env, stopped, acts, hdr, runVars, mode>>
MCEnv == [c \in {c1} |-> <<a>>]

MCInit == HigherInit /\ mode \in {"calls", "applies"}

\* Bounds.  Between calls and returns the program jumps only at top level, or, in
\* "applies", in an applied procedure.
Moves == pc' # pc /\ Len(acts') = Len(acts) /\ acts'[Len(acts)].phase = Top.phase
JumpsAtTop == Moves => Len(acts) = 1
JumpsApplied == Moves => InRun

\* In "applies" captured variables keep their values; no tail call of another procedure
\* and no tail recursion with one argument.
Smaller == LET top == acts'[Len(acts')] IN env' = env /\ top.phase # "tail" /\ top.n # 1

CallsNext == mode = "calls" /\ Running /\ Next /\ (JumpsAtTop = TRUE) /\ UNCHANGED <<runVars, mode>>
AppliesNext == mode = "applies" /\ HigherNext /\ (JumpsApplied = TRUE) /\ Smaller /\ UNCHANGED mode

MCNext == CallsNext \/ AppliesNext

MCSpec == MCInit /\ [][MCNext]_<<allVars, mode>>
=============================================================================
