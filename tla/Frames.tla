-------------------------------- MODULE Frames --------------------------------
(***************************************************************************)
(* The VM stack of vm.h and vm.c: a byte array holding objects and call     *)
(* frames, and the registers sp, fp, local, pc, attr and closure that find  *)
(* their way in it.  Nothing in memory tells an object from a frame; only   *)
(* the offsets saved in the frames do.  A frame is                          *)
(*                                                                          *)
(*     fp ->  return address | local | last fp | attr | closure  <- local   *)
(*                                                                          *)
(* followed by the objects of the activation.  The bytecode comes from an   *)
(* external compiler; the guards on acts state what compiled code does, and *)
(* never read memory.  Widths are those of the 32-bit targets with          *)
(* PC_SIZE = 2.                                                             *)
(***************************************************************************)
EXTENDS Integers, Sequences

CONSTANTS STKSEG_SIZE,   \* VM_STKSEG_SIZE
          Object, Closure, Code, TailArities, ClosureArity, ClosureEntry, MaxVar,
          InitEnv,       \* the captured variables the closures start with
          NULL,
          JUNK           \* what a read of the wrong bytes yields

SizeReg == 2
SizeAttr == 1
SizePtr == 4
SizeObject == 1 + SizePtr
FPS == 3 * SizeReg + SizeAttr + SizePtr

NORMAL_JUMP == 65535
NO_PREV_FP == 65535

TAIL_CALL == 0
TAIL_REC == 1
NORMAL_CALL == 2

ASSUME FramesAssumption ==
  /\ STKSEG_SIZE \in 1 .. NO_PREV_FP
  /\ Code \subseteq 0 .. NORMAL_JUMP - 1
  /\ TailArities \subseteq 0 .. 63
  /\ ClosureArity \in [Closure -> 0 .. 15]
  /\ ClosureEntry \in [Closure -> Code]
  /\ MaxVar \in Nat
  /\ InitEnv \in [Closure -> Seq(Object)]
  /\ NULL \notin Closure

VARIABLES mem,       \* vm->stack, byte by byte
          sp, fp, local, pc, attr, closure,
          env,       \* env[c]: closure c's env array
          stopped,   \* PANIC ("Stack overflow!\n")
          acts,      \* ghost: the activations the program has opened
          hdr        \* ghost: where each begins and the registers it saved

regs == <<sp, fp, local, pc, attr, closure>>
vars == <<mem, regs, env, stopped, acts, hdr>>

------------------------------------------------------------------------------
(* Bytes.  A byte remembers the value it is part of, its place in it and    *)
(* the width of the value; a read succeeds only on all bytes of one write.  *)

Byte(v, k, s) == [v |-> v, k |-> k, s |-> s]

Put(m, o, s, v) ==
  [i \in DOMAIN m |-> IF i \in o .. o + s - 1 THEN Byte(v, i - o, s) ELSE m[i]]

Holds(m, o, s, v) ==
  \A k \in 0 .. s - 1 : m[o + k].s = s /\ m[o + k].k = k /\ m[o + k].v = v

Get(m, o, s) == IF Holds(m, o, s, m[o].v) THEN m[o].v ELSE JUNK

Blank == Byte(JUNK, 0, 0)

------------------------------------------------------------------------------
(* The ghost side: the same activations as in CallStack.                    *)
Stack == INSTANCE CallStack

Top == acts[Len(acts)]
Where == hdr[Len(hdr)]

\* PUSHx writes, moves sp, and vm_stack_check stops the VM when sp is at the end.
\* Faulty variant: a check that lets sp run one byte past the end.
RoomLate(n) == sp + n <= STKSEG_SIZE + 1
Room(n) == sp + n < STKSEG_SIZE

Overflow == stopped' = TRUE /\ UNCHANGED <<mem, regs, env, acts, hdr>>

PushObject(o) ==
  \/ /\ Room(SizeObject)
     /\ mem' = Put(mem, sp, SizeObject, o)
     /\ sp' = sp + SizeObject
     /\ acts' = Stack!Pushed(o)
     /\ UNCHANGED <<fp, local, pc, attr, closure, env, stopped, hdr>>
  \/ ~Room(SizeObject) /\ Overflow

\* A constant, a boolean, a symbol, a character or a global variable.
PushConst(o) == ~stopped /\ PushObject(o)

\* LOCAL (offset): the closure's captured variables come first.
FromEnv(k) == closure # NULL /\ k < Len(env[closure])
FrameSize == IF closure = NULL THEN 0 ELSE Len(env[closure])

\* Faulty variant: the captured variables are not subtracted.
LocalOffsetRaw(k) == local + SizeObject * k
LocalOffset(k) == local + SizeObject * (k - FrameSize)

LocalRef(k) ==
  /\ ~stopped
  /\ Stack!HasVar(k)
  /\ PushObject(IF FromEnv(k) THEN env[closure][k + 1]
                ELSE Get(mem, LocalOffset(k), SizeObject))

\* LOCAL_ASSIGN: the address is taken before the value is popped.
LocalAssign(k) ==
  /\ ~stopped
  /\ Top.objs # <<>>
  /\ LET o == Get(mem, sp - SizeObject, SizeObject)
         rest == Stack!WithTop([Top EXCEPT !.objs = Stack!Popped])
     IN  \/ /\ FromEnv(k)
            /\ env' = [env EXCEPT ![closure][k + 1] = o]
            /\ acts' = rest
            /\ UNCHANGED mem
         \/ /\ ~FromEnv(k)
            /\ Stack!Slot(k) \in 1 .. Len(rest[Stack!Exec].objs)
            /\ mem' = Put(mem, LocalOffset(k), SizeObject, o)
            /\ acts' = [rest EXCEPT ![Stack!Exec].objs[Stack!Slot(k)] = o]
            /\ UNCHANGED env
  /\ sp' = sp - SizeObject
  /\ UNCHANGED <<fp, local, pc, attr, closure, stopped, hdr>>

\* prim pop, and F_JMP, which pops its condition and may jump.
Drop(l) ==
  /\ ~stopped
  /\ Top.objs # <<>>
  /\ sp' = sp - SizeObject
  /\ pc' = l
  /\ acts' = Stack!WithTop([Top EXCEPT !.objs = Stack!Popped])
  /\ UNCHANGED <<mem, fp, local, attr, closure, env, stopped, hdr>>

Jump(l) ==
  /\ ~stopped
  /\ pc' = l
  /\ UNCHANGED <<mem, sp, fp, local, attr, closure, env, stopped, acts, hdr>>

------------------------------------------------------------------------------
(* PRELUDE: SAVE_ENV in its three modes.                                    *)

LastFp == IF sp = 0 THEN fp ELSE IF fp = 0 THEN NO_PREV_FP ELSE fp

\* The five pushes of SAVE_ENV at offset o.
Header(m, o, ret, last) ==
  LET m1 == Put(m, o, SizeReg, ret)
      m2 == Put(m1, o + SizeReg, SizeReg, local)
      m3 == Put(m2, o + 2 * SizeReg, SizeReg, last)
      m4 == Put(m3, o + 3 * SizeReg, SizeAttr, attr)
  IN  Put(m4, o + 3 * SizeReg + SizeAttr, SizePtr, closure)

\* What a frame pushed at offset o saves.
HeaderAt(o) == [at |-> o + FPS, fp |-> fp, local |-> local, attr |-> attr]

\* Faulty variant: the shadow count of the caller stays in force.
FreshAttrKept == [shadow |-> attr.shadow, mode |-> NORMAL_CALL]
FreshAttr == [shadow |-> 0, mode |-> NORMAL_CALL]

SaveEnvNormal ==
  /\ ~stopped
  /\ \/ /\ Room(FPS)
        /\ mem' = Header(mem, sp, NORMAL_JUMP, LastFp)
        /\ sp' = sp + FPS
        /\ fp' = sp
        /\ attr' = FreshAttr
        /\ acts' = Append(acts, Stack!Opened)
        /\ hdr' = Append(hdr, HeaderAt(sp))
        /\ UNCHANGED <<local, pc, closure, env, stopped>>
     \/ ~Room(FPS) /\ Overflow

\* The attribute's shadow field has 5 bits, PROC_ARITY yields 6.
SaveEnvTailRec(n) ==
  /\ ~stopped
  /\ Stack!OpenLoop(n)
  /\ sp' = local + n * SizeObject
  /\ attr' = [shadow |-> n % 32, mode |-> TAIL_REC]
  /\ UNCHANGED <<mem, fp, local, stopped, hdr>>

SaveEnvTailCall ==
  /\ ~stopped
  /\ attr.shadow = 0
  /\ Stack!OpenTail
  /\ attr' = [attr EXCEPT !.mode = TAIL_CALL]
  /\ UNCHANGED <<mem, sp, fp, local, stopped, hdr>>

------------------------------------------------------------------------------
(* Calls.                                                                   *)

\* FIX_PC: the frame gets its return address unless it already has one.
\* Faulty variant: the return address is stored at every call.
FixPcAlways(m) == Put(m, fp, SizeReg, pc)
FixPc(m) == IF Get(m, fp, SizeReg) = NORMAL_JUMP THEN Put(m, fp, SizeReg, pc) ELSE m

IsShadowFrame == attr.shadow # 0 /\ sp # local

\* The memcpy of COPY_SHADOW_FRAME and of call_closure_on_heap.
Shift(m, to, from, n) ==
  [i \in DOMAIN m |-> IF i \in to .. to + n - 1 THEN m[i - to + from] ELSE m[i]]

CopyShadow(m) ==
  LET size == SizeObject * attr.shadow
  IN  IF IsShadowFrame THEN Shift(m, local, sp - size, size) ELSE m

Calls(c, entry) ==
  /\ closure' = c
  /\ pc' = entry
  /\ UNCHANGED <<fp, attr, env, stopped, hdr>>

\* What the callee's activation becomes; the program calls with the arguments
\* its prelude announced.
Called(m, objs) ==
  acts' = Stack!WithTop([Top EXCEPT !.objs = objs, !.locs = m, !.phase = "body",
                                    !.ret = IF Top.phase = "args" THEN pc ELSE Top.ret])

LoopDone == Top.phase = "loop" /\ Len(Top.objs) = Top.locs + 2 * Top.n

\* CALL_PROC: FIX_PC, PROC_CALL.  A tail recursion calls the procedure that is
\* running; a tail call of another procedure is compiled only where the frame
\* is empty, because local goes back to the start of the frame.
CallProc(entry) ==
  /\ ~stopped
  /\ Len(acts) > 1
  /\ \/ /\ Top.phase = "args" \/ (Top.phase = "tail" /\ Top.n = 0)
        /\ Called(0, Top.objs)
     \/ /\ LoopDone
        /\ closure = NULL
        /\ Top.locs = 0
        /\ Called(0, Stack!Replaced)
  /\ mem' = CopyShadow(FixPc(mem))
  /\ sp' = IF IsShadowFrame THEN local + SizeObject * attr.shadow ELSE sp
  /\ local' = fp + FPS
  /\ Calls(NULL, entry)

\* call_closure_on_heap.
CallClosure(c) ==
  /\ ~stopped
  /\ Len(acts) > 1
  /\ \/ /\ Top.phase \in {"args", "tail"}
        /\ Len(Top.objs) = Top.n + ClosureArity[c]
        /\ Called(Top.n, Top.objs)
     \/ /\ LoopDone
        /\ c = closure
        /\ Top.n = ClosureArity[c]
        /\ Called(Top.locs, Stack!Replaced)
  /\ mem' = CopyShadow(FixPc(mem))
  /\ IF IsShadowFrame
     THEN sp' = sp - SizeObject * attr.shadow /\ UNCHANGED local
     ELSE local' = sp - SizeObject * ClosureArity[c] /\ UNCHANGED sp
  /\ Calls(c, ClosureEntry[c])

\* RESTORE.
PopFp == LET f == Get(mem, fp + 2 * SizeReg, SizeReg) IN IF f = NO_PREV_FP THEN 0 ELSE f

Restore ==
  /\ ~stopped
  /\ Stack!InBody
  /\ Top.objs # <<>>
  /\ LET result == Get(mem, sp - SizeObject, SizeObject)
     IN  /\ mem' = Put(mem, fp, SizeObject, result)
         /\ sp' = fp + SizeObject
         /\ acts' = Stack!Closed(result)
  /\ closure' = Get(mem, fp + 3 * SizeReg + SizeAttr, SizePtr)
  /\ attr' = Get(mem, fp + 3 * SizeReg, SizeAttr)
  /\ fp' = PopFp
  /\ local' = Get(mem, fp + SizeReg, SizeReg)
  /\ pc' = Get(mem, fp, SizeReg)
  /\ hdr' = SubSeq(hdr, 1, Len(hdr) - 1)
  /\ UNCHANGED <<env, stopped>>

------------------------------------------------------------------------------
Init == /\ mem = [i \in 0 .. STKSEG_SIZE - 1 |-> Blank]
        /\ sp = 0 /\ fp = 0 /\ local = 0
        /\ pc \in Code
        /\ attr = [shadow |-> 0, mode |-> NORMAL_CALL]
        /\ closure = NULL
        /\ env = InitEnv
        /\ stopped = FALSE
        /\ acts = <<Stack!Bottom>>
        /\ hdr = <<[at |-> 0, fp |-> 0, local |-> 0,
                    attr |-> [shadow |-> 0, mode |-> NORMAL_CALL]]>>

\* Every instruction but the return.
Instruction ==
  \/ \E o \in Object : PushConst(o)
  \/ \E k \in 0 .. MaxVar : LocalRef(k) \/ LocalAssign(k)
  \/ \E l \in Code : Drop(l) \/ Jump(l) \/ CallProc(l)
  \/ SaveEnvNormal \/ SaveEnvTailCall
  \/ \E n \in TailArities : SaveEnvTailRec(n)
  \/ \E c \in Closure : CallClosure(c)

Next == Instruction \/ Restore

Spec == Init /\ [][Next]_vars

------------------------------------------------------------------------------
Attr == [shadow : 0 .. 31, mode : 0 .. 2]

TypeOK ==
  /\ DOMAIN mem = 0 .. STKSEG_SIZE - 1
  /\ sp \in 0 .. STKSEG_SIZE - 1
  /\ fp \in 0 .. STKSEG_SIZE - 1
  /\ local \in 0 .. STKSEG_SIZE - 1
  /\ pc \in Code
  /\ attr \in Attr
  /\ closure \in Closure \cup {NULL}
  /\ env \in [Closure -> Seq(Object)]
  /\ stopped \in BOOLEAN
  /\ Len(hdr) = Len(acts)

(* Nothing an activation keeps on the stack is disturbed by the activations *)
(* above it, by tail recursion sliding arguments down or by assignments:    *)
(* memory holds, for every open activation, its header and its objects at   *)
(* the place where it put them (SAVE_ENV, COPY_SHADOW_FRAME, LOCAL).        *)
HeaderHeld(i) ==
  LET h == hdr[i]
      o == h.at - FPS
  IN  /\ Holds(mem, o, SizeReg, IF acts[i].phase = "args" THEN NORMAL_JUMP ELSE acts[i].ret)
      /\ Holds(mem, o + SizeReg, SizeReg, h.local)
      /\ \/ Holds(mem, o + 2 * SizeReg, SizeReg, h.fp) /\ h.fp # NO_PREV_FP
         \/ Holds(mem, o + 2 * SizeReg, SizeReg, NO_PREV_FP) /\ h.fp = 0
      /\ Holds(mem, o + 3 * SizeReg, SizeAttr, h.attr)
      /\ Holds(mem, o + 3 * SizeReg + SizeAttr, SizePtr, acts[i].clo)

ObjectsHeld(i) ==
  \A k \in 1 .. Len(acts[i].objs) :
     Holds(mem, hdr[i].at + SizeObject * (k - 1), SizeObject, acts[i].objs[k])

StackIntact ==
  /\ \A i \in 2 .. Len(acts) : HeaderHeld(i)
  /\ \A i \in 1 .. Len(acts) : ObjectsHeld(i)

(* sp, fp and local always point where the innermost activations say: sp    *)
(* behind the last object, fp at the newest frame (0 at top level), local   *)
(* at the first variable of the activation whose code is running.           *)
RegistersPlaced ==
  /\ sp = Where.at + SizeObject * Len(Top.objs)
  /\ fp = IF Len(acts) = 1 THEN 0 ELSE Where.at - FPS
  /\ local = hdr[Stack!Exec].at + SizeObject * acts[Stack!Exec].locs

(* A return re-establishes the registers its prelude saved, however many    *)
(* calls and tail recursions ran in between (RESTORE against SAVE_ENV).     *)
ReturnRestores ==
  [][Len(acts') < Len(acts) =>
       /\ fp' = Where.fp /\ local' = Where.local /\ attr' = Where.attr
       /\ closure' = Top.clo /\ pc' = Top.ret]_vars

(* The machine implements the abstract call discipline.                     *)
StackSpec == Stack!Spec
=============================================================================
