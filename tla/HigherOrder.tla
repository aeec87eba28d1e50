----------------------------- MODULE HigherOrder ------------------------------
(***************************************************************************)
(* The primitives of call_prim that apply procedures: map, for-each, apply  *)
(* and with-exception-handler, with raise.  They run the procedure in an    *)
(* interpreter loop of their own, apply_proc, on the same stack and         *)
(* registers; that loop ends at the first `restore` it fetches.             *)
(*                                                                          *)
(* Much of this works only for a procedure that calls no other and for a    *)
(* caller that is no closure.  The guards Plain and Own keep the model to   *)
(* the programs for which it works; the README says what happens to the     *)
(* others, and why for-each, apply of a procedure, calls with optional      *)
(* arguments and resuming after raise-continuable are no actions here.      *)
(***************************************************************************)
EXTENDS Frames

CONSTANTS Prim,         \* the continuation object, GEN_PRIM (ret) or GEN_PRIM (restore)
          Listed,       \* elements of lists, and what primitives return
          Entry,        \* entries of the procedures that are applied
          MaxElements   \* bound: elements of a list

ASSUME HigherOrderAssumption ==
  Prim \in Object /\ Listed \subseteq Object /\ Entry \subseteq Code /\ MaxElements \in Nat

VARIABLES runs,    \* the calls of apply_proc on the C stack, oldest first
          state    \* vm->state

runVars == <<runs, state>>
allVars == <<vars, runVars>>

Running == ~stopped /\ state = "VM_RUN"
InRun == runs # <<>>
Run == runs[Len(runs)]

Exhausted == Overflow /\ UNCHANGED runVars

\* The operands of the primitive, the last of them on top.
Operands(n) == Len(Top.objs) >= n
Base(n) == sp - n * SizeObject

------------------------------------------------------------------------------
\* The n operands are popped; SAVE_ENV_SIMPLE, the objects for the procedure,
\* apply_proc.  It leaves closure and attr as they are.
Enters(n, objs, entry) ==
  LET o == Base(n)
      at == o + FPS
      m == Header(mem, o, pc, fp)
      size == SizeObject * Len(objs)
  IN  /\ mem' = [i \in DOMAIN m |->
                   IF i \in at .. at + size - 1
                   THEN Byte(objs[(i - at) \div SizeObject + 1], (i - at) % SizeObject, SizeObject)
                   ELSE m[i]]
      /\ sp' = at + size /\ fp' = o /\ local' = at
      /\ pc' = entry
      /\ acts' = Append(Stack!WithTop([Top EXCEPT !.objs = Stack!Without(n)]), Stack!AppliedTo(objs))
      /\ hdr' = Append(hdr, HeaderAt(o))
      /\ UNCHANGED <<attr, closure, env, stopped>>

Fits(n, objs) == Base(n) + FPS + SizeObject * Len(objs) < STKSEG_SIZE

\* A procedure applied from a closure would take the closure's captured variables
\* for its own; one applied in the arguments of a tail recursion would have them
\* moved when it calls.
Plain == closure = NULL /\ attr.shadow = 0

Applies(n, objs, entry, run) ==
  /\ Plain
  /\ IF Fits(n, objs)
     THEN /\ Enters(n, objs, entry)
          /\ runs' = Append(runs, run)
          /\ UNCHANGED state
     ELSE Exhausted

\* POP_OBJ, SAVE_ENV_SIMPLE and RESTORE_SIMPLE around nothing: the primitive leaves
\* o in the place of its n operands.
Leaves(n, o) ==
  /\ mem' = Put(mem, Base(n), SizeObject, o)
  /\ sp' = Base(n) + SizeObject
  /\ acts' = Stack!WithTop([Top EXCEPT !.objs = Append(Stack!Without(n), o)])
  /\ UNCHANGED <<fp, local, pc, attr, closure, env, stopped, hdr>>

\* RESTORE_SIMPLE with o on top.  The frame pointer comes back as it was saved.
RestoreSimple(o) ==
  /\ mem' = Put(mem, fp, SizeObject, o)
  /\ sp' = fp + SizeObject
  /\ closure' = Get(mem, fp + 3 * SizeReg + SizeAttr, SizePtr)
  /\ attr' = Get(mem, fp + 3 * SizeReg, SizeAttr)
  /\ fp' = Get(mem, fp + 2 * SizeReg, SizeReg)
  /\ local' = Get(mem, fp + SizeReg, SizeReg)
  /\ pc' = Get(mem, fp, SizeReg)
  /\ acts' = Stack!Closed(o)
  /\ hdr' = SubSeq(hdr, 1, Len(hdr) - 1)
  /\ UNCHANGED <<env, stopped>>

------------------------------------------------------------------------------
(* map.  The procedure at entry is applied to n elements in turn.           *)

Map(n, entry, e) ==
  /\ Running /\ Operands(2)
  /\ IF n = 0
     THEN IF Base(2) + FPS + SizeObject < STKSEG_SIZE
          THEN Leaves(2, e) /\ UNCHANGED runVars
          ELSE Exhausted
     ELSE Applies(2, <<Prim, e>>, entry,
                  [prim |-> "map", entry |-> entry, left |-> n - 1, depth |-> Len(acts) + 1])

\* The `restore` that ends apply_proc is that of the applied procedure only if this
\* one runs nothing else.
Own == InRun /\ Len(acts) = Run.depth
Ends(prim) == /\ Running /\ Own /\ Run.prim = prim
              /\ Stack!InBody /\ Top.objs # <<>>

\* Faulty variant: sp is not reset to local between the rounds.
RoundAtTop == sp
RoundAt == local

\* The next round: the result is in the list, sp goes back to local.  Nobody resets
\* closure or attr, if the procedure tail-called a closure or itself.
MapRound(e) ==
  /\ Ends("map") /\ Run.left > 0
  /\ Plain
  /\ IF RoundAt + 2 * SizeObject >= STKSEG_SIZE THEN Exhausted
     ELSE /\ mem' = Put(Put(mem, RoundAt, SizeObject, Prim), RoundAt + SizeObject, SizeObject, e)
          /\ sp' = RoundAt + 2 * SizeObject
          /\ pc' = Run.entry
          /\ acts' = Stack!WithTop([Top EXCEPT !.objs = <<Prim, e>>, !.locs = 0])
          /\ runs' = [runs EXCEPT ![Len(runs)].left = @ - 1]
          /\ UNCHANGED <<fp, local, attr, closure, env, stopped, hdr, state>>

\* The list is pushed, and the frame of map left.
MapEnd(lst) ==
  /\ Ends("map") /\ Run.left = 0
  /\ IF local + SizeObject >= STKSEG_SIZE THEN Exhausted
     ELSE /\ RestoreSimple(lst)
          /\ runs' = SubSeq(runs, 1, Len(runs) - 1)
          /\ UNCHANGED state

------------------------------------------------------------------------------
(* apply pushes the elements and calls without a frame of its own.          *)

\* FIX_PC completes the newest frame, which in the arguments of a call is not apply's.
ApplyPrimitive(o) ==
  /\ Running /\ Operands(2) /\ Top.phase # "args"
  /\ Leaves(2, o)
  /\ UNCHANGED runVars

\* call_closure_on_heap, whose return is that of the procedure that said apply: the
\* program does so in tail position.
ApplyClosure(c, e) ==
  LET args == [k \in 1 .. ClosureArity[c] |-> e]
      at == Base(2)
      size == SizeObject * ClosureArity[c]
  IN  /\ Running /\ Operands(2)
      /\ Len(acts) > 1 /\ Top.phase \in {"body", "tail"}
      /\ attr.shadow = 0
      /\ IF at + size >= STKSEG_SIZE THEN Exhausted
         ELSE /\ mem' = [i \in DOMAIN mem |->
                           IF i \in at .. at + size - 1
                           THEN Byte(e, (i - at) % SizeObject, SizeObject) ELSE mem[i]]
              /\ sp' = at + size /\ local' = at
              /\ closure' = c /\ pc' = ClosureEntry[c]
              /\ acts' = Stack!WithTop([Top EXCEPT !.objs = Stack!Without(2) \o args,
                                                   !.locs = Len(Top.objs) - 2, !.phase = "body"])
              /\ UNCHANGED <<fp, attr, env, stopped, hdr, runVars>>

------------------------------------------------------------------------------
(* with-exception-handler: apply_proc on the thunk, and on the handler if a *)
(* raise ended the thunk's loop.                                            *)

WithExceptionHandler(handler, thunk) ==
  /\ Running /\ Operands(2)
  /\ Applies(2, <<Prim>>, thunk,
             [prim |-> "thunk", entry |-> handler, left |-> 0, depth |-> Len(acts) + 1])

ThunkEnd ==
  /\ Ends("thunk")
  /\ RestoreSimple(Get(mem, sp - SizeObject, SizeObject))
  /\ runs' = SubSeq(runs, 1, Len(runs) - 1)
  /\ UNCHANGED state

\* raise and raise-continuable.  Every loop ends; without a handler so does the
\* program.  A map in between would take the object for its procedure's result.
Raise(excpt) ==
  /\ Running /\ Top.objs # <<>>
  /\ \/ /\ ~InRun
        /\ state' = excpt
        /\ UNCHANGED <<vars, runs>>
     \/ /\ InRun /\ Run.prim = "thunk"
        /\ Applies(1, <<Prim, Get(mem, sp - SizeObject, SizeObject)>>, Run.entry,
                   [prim |-> excpt, entry |-> Run.entry, left |-> 0, depth |-> Len(acts) + 1])

\* After the handler of a raise the VM stops; its registers matter no more.
HandlerEnd ==
  /\ Ends("VM_EXCPT")
  /\ state' = "VM_STOP"
  /\ runs' = <<>>
  /\ UNCHANGED vars

------------------------------------------------------------------------------
HigherInit == /\ Init
              /\ runs = <<>> /\ state = "VM_RUN"

HigherNext ==
  \/ Running /\ (Instruction \/ (~InRun /\ Restore)) /\ UNCHANGED runVars
  \/ \E l \in Entry, e \in Listed : \E n \in 0 .. MaxElements : Map(n, l, e)
  \/ \E e \in Listed : MapRound(e) \/ MapEnd(e) \/ ApplyPrimitive(e)
  \/ \E c \in Closure, e \in Listed : ApplyClosure(c, e)
  \/ \E l, m \in Entry : WithExceptionHandler(l, m)
  \/ \E excpt \in {"VM_EXCPT", "VM_EXCPT_CONT"} : Raise(excpt)
  \/ ThunkEnd \/ HandlerEnd

HigherSpec == HigherInit /\ [][HigherNext]_allVars

===============================================================================
