------------------------------ MODULE CallStack ------------------------------
(***************************************************************************)
(* What compiled Scheme code expects of procedure calls, without a stack in *)
(* memory: a sequence of activations, each with its own objects.  The code  *)
(* opens an activation (prelude), pushes arguments while it still runs in   *)
(* the caller's environment, calls, and returns one object to the caller,   *)
(* who finds its environment, closure and program counter as they were.     *)
(* Module Frames shows that the registers and frames of vm.h provide this.  *)
(***************************************************************************)
EXTENDS Integers, Sequences

CONSTANTS Object,        \* objects a program can push
          Closure,       \* closures on the heap
          Code,          \* offsets in the code segment
          TailArities,   \* arities of tail-recursive calls in the program
          ClosureArity,  \* closure->arity
          ClosureEntry,  \* closure->entry
          MaxVar,        \* the largest variable number in the program
          NULL

\* The primitives that apply procedures take at most two operands.
MaxOperands == 2

VARIABLES acts,      \* the activations, oldest first; the first is the top level
          pc,        \* the code offset execution is at
          closure,   \* the closure being executed, or NULL
          env        \* env[c]: the captured variables of closure c

vars == <<acts, pc, closure, env>>

(* An activation is in one of four phases:                                  *)
(*   "args"  opened by a normal prelude, still collecting arguments: its    *)
(*           code refers to the variables of activation `home`;             *)
(*   "body"  called;                                                        *)
(*   "loop"  in its body, collecting the n arguments of a tail recursion;   *)
(*   "tail"  in its body, collecting the arguments of another tail call     *)
(*           after its first n objects.                                     *)
(* objs are its objects, of which the first variable is objs[locs + 1].     *)
(* ret and clo are what the return re-establishes; applied tells whether a  *)
(* primitive opened it, which then gets its result.                         *)
Top == acts[Len(acts)]
Exec == IF Top.phase = "args" THEN Top.home ELSE Len(acts)
WithTop(a) == [acts EXCEPT ![Len(acts)] = a]
Pushed(o) == WithTop([Top EXCEPT !.objs = Append(@, o)])
Popped == SubSeq(Top.objs, 1, Len(Top.objs) - 1)

Captured(k) == closure # NULL /\ k < Len(env[closure])
Slot(k) == acts[Exec].locs + 1 + (IF closure = NULL THEN k ELSE k - Len(env[closure]))
HasVar(k) == Captured(k) \/ Slot(k) \in 1 .. Len(acts[Exec].objs)
Var(k) == IF Captured(k) THEN env[closure][k + 1] ELSE acts[Exec].objs[Slot(k)]

Bottom == [objs |-> <<>>, locs |-> 0, phase |-> "body", n |-> 0, home |-> 1,
           ret |-> NULL, clo |-> NULL, applied |-> FALSE]

Init == /\ acts = <<Bottom>>
        /\ pc \in Code
        /\ closure = NULL
        /\ env \in [Closure -> Seq(Object)]

Push(o) == /\ acts' = Pushed(o)
           /\ UNCHANGED <<pc, closure, env>>

Ref(k) == /\ HasVar(k)
          /\ Push(Var(k))

Drop(l) == /\ Top.objs # <<>>
           /\ acts' = WithTop([Top EXCEPT !.objs = Popped])
           /\ pc' = l
           /\ UNCHANGED <<closure, env>>

Jump(l) == pc' = l /\ UNCHANGED <<acts, closure, env>>

\* Assign the top object to variable k.
Assign(k) ==
  /\ Top.objs # <<>>
  /\ LET o == Top.objs[Len(Top.objs)]
         rest == WithTop([Top EXCEPT !.objs = Popped])
     IN  \/ /\ Captured(k)
            /\ env' = [env EXCEPT ![closure][k + 1] = o]
            /\ acts' = rest
         \/ /\ ~Captured(k)
            /\ Slot(k) \in 1 .. Len(rest[Exec].objs)
            /\ acts' = [rest EXCEPT ![Exec].objs[Slot(k)] = o]
            /\ UNCHANGED env
  /\ UNCHANGED <<pc, closure>>

Opened == [objs |-> <<>>, locs |-> 0, phase |-> "args", n |-> 0, home |-> Exec,
           ret |-> NULL, clo |-> closure, applied |-> FALSE]

Open == /\ acts' = Append(acts, Opened)
        /\ UNCHANGED <<pc, closure, env>>

InBody == Len(acts) > 1 /\ Top.phase = "body"

OpenLoop(n) ==
  /\ InBody
  /\ Len(Top.objs) >= Top.locs + n
  /\ acts' = WithTop([Top EXCEPT !.objs = SubSeq(@, 1, Top.locs + n),
                                 !.phase = "loop", !.n = n])
  /\ UNCHANGED <<pc, closure, env>>

OpenTail == /\ InBody
            /\ acts' = WithTop([Top EXCEPT !.phase = "tail", !.n = Len(Top.objs)])
            /\ UNCHANGED <<pc, closure, env>>

\* The activation starts (or restarts) its body; m objects precede its variables.
Start(m, objs, ret) ==
  acts' = WithTop([Top EXCEPT !.objs = objs, !.locs = m, !.phase = "body", !.ret = ret])

\* In a tail recursion the last n objects replace the n variables in place.
Replaced == SubSeq(Top.objs, 1, Top.locs)
            \o SubSeq(Top.objs, Top.locs + Top.n + 1, Top.locs + 2 * Top.n)

CallProc(entry) ==
  /\ \/ Top.phase = "args" /\ Start(0, Top.objs, pc)
     \/ Top.phase = "tail" /\ Start(Top.n, Top.objs, Top.ret)
     \/ /\ Top.phase = "loop"
        /\ Len(Top.objs) = Top.locs + 2 * Top.n
        /\ Start(Top.locs, Replaced, Top.ret)
  /\ closure' = NULL
  /\ pc' = entry
  /\ UNCHANGED env

CallClosure(c) ==
  /\ \/ /\ Top.phase = "args"
        /\ Len(Top.objs) = ClosureArity[c]
        /\ Start(0, Top.objs, pc)
     \/ /\ Top.phase = "tail"
        /\ Len(Top.objs) = Top.n + ClosureArity[c]
        /\ Start(Top.n, Top.objs, Top.ret)
     \/ /\ Top.phase = "loop"
        /\ Len(Top.objs) = Top.locs + 2 * Top.n
        /\ Start(Top.locs, Replaced, Top.ret)
  /\ closure' = c
  /\ pc' = ClosureEntry[c]
  /\ UNCHANGED env

Closed(result) == LET i == Len(acts) - 1
                  IN  [SubSeq(acts, 1, i) EXCEPT ![i].objs = Append(@, result)]
Returns(result) ==
  /\ InBody
  /\ acts' = Closed(result)
  /\ pc' = Top.ret
  /\ closure' = Top.clo
  /\ UNCHANGED env

Return == Top.objs # <<>> /\ Returns(Top.objs[Len(Top.objs)])

------------------------------------------------------------------------------
(* Primitives that apply procedures.                                        *)

Without(m) == SubSeq(Top.objs, 1, Len(Top.objs) - m)
AppliedTo(objs) == [Opened EXCEPT !.objs = objs, !.phase = "body", !.ret = pc, !.applied = TRUE]

\* A primitive takes m operands and applies a procedure to objs.
Apply(m, objs, entry) ==
  /\ Len(Top.objs) >= m
  /\ acts' = Append(WithTop([Top EXCEPT !.objs = Without(m)]), AppliedTo(objs))
  /\ closure' = NULL
  /\ pc' = entry
  /\ UNCHANGED env

\* It gets the result and applies the procedure once more.
ApplyAgain(objs, entry) ==
  /\ InBody /\ Top.applied
  /\ acts' = WithTop([Top EXCEPT !.objs = objs, !.locs = 0])
  /\ closure' = NULL
  /\ pc' = entry
  /\ UNCHANGED env

\* It is done: the program gets result.
Deliver(result) == Top.applied /\ Returns(result)

\* A primitive takes m operands and leaves a result.
Compute(m, result) ==
  /\ Len(Top.objs) >= m
  /\ acts' = WithTop([Top EXCEPT !.objs = Append(Without(m), result)])
  /\ UNCHANGED <<pc, closure, env>>

\* A primitive takes m operands and goes on as a closure applied to objs.
Become(m, c, objs) ==
  /\ Len(acts) > 1 /\ Top.phase \in {"body", "tail"}
  /\ Len(Top.objs) >= m
  /\ Start(Len(Top.objs) - m, Without(m) \o objs, Top.ret)
  /\ closure' = c
  /\ pc' = ClosureEntry[c]
  /\ UNCHANGED env

Next == \/ \E o \in Object : Push(o)
        \/ \E k \in 0 .. MaxVar : Ref(k) \/ Assign(k)
        \/ \E l \in Code : Drop(l) \/ Jump(l) \/ CallProc(l)
        \/ Open \/ OpenTail \/ Return
        \/ \E n \in TailArities : OpenLoop(n)
        \/ \E c \in Closure : CallClosure(c)
        \/ \E m \in 1 .. MaxOperands, o, p \in Object, l \in Code :
             \/ Apply(m, <<o>>, l) \/ Apply(m, <<o, p>>, l) \/ ApplyAgain(<<o, p>>, l)
             \/ Deliver(o) \/ Compute(m, o)
             \/ \E c \in Closure : Become(m, c, [k \in 1 .. ClosureArity[c] |-> o])

Spec == Init /\ [][Next]_vars
=============================================================================
