------------------------------- MODULE Session -------------------------------
(***************************************************************************)
(* A session of the VM on a board: animula_start, the kernel shell, the LEF *)
(* loaders, the flash, the symbol table, the VM's life cycle and the memory *)
(* they all take from the allocator.  The code is sequential; its calls are *)
(* the elements of todo, done one at a time, because what matters is which  *)
(* pointer is used after which free, which allocation fails, and where the  *)
(* power goes.  A command of the shell is the row of calls its handler      *)
(* makes; an empty row is the prompt.                                       *)
(*                                                                          *)
(* Programs are straight-line: a code segment and a globals segment made of *)
(* instructions that do nothing here ("op"), create an object that stays    *)
(* alive ("new"), or HALT.                                                  *)
(***************************************************************************)
EXTENDS MemoryTracker, Sequences

CONSTANTS Program,        \* LEF files
          CodeOf,         \* CodeOf[p]: p's code segment
          GlobalsOf,      \* GlobalsOf[p]: p's globals segment
          NamesOf,        \* NamesOf[p]: p's symbol table
          MaxCommands,    \* bound: shell commands in a behaviour
          MaxPowerLosses  \* bound: power losses in a behaviour

Instruction == {"op", "new", "halt"}

ASSUME SessionAssumption ==
  /\ Program \cap {"garbage", "none", "erased", "mixed"} = {}
  /\ CodeOf \in [Program -> Seq(Instruction)]
  /\ GlobalsOf \in [Program -> Seq(Instruction)]
  /\ NamesOf \in [Program -> Seq(STRING)]
  /\ MaxCommands \in Nat
  /\ MaxPowerLosses \in Nat

VARIABLES at,        \* at[h]: the pointer the variable or field h holds
          holds,     \* holds[b]: what block b was taken for, and for which program
          vm,        \* the registers of the VM that matter here
          names,     \* the nodes of SymbolInternTable
          objects,   \* blocks of the program's objects, in the collector's pools
          lef,       \* the program the LEF structure describes, "garbage", "none"
          bc,        \* the static bc of fetch_next_bytecode
          sizes,     \* VM_CODESEG_SIZE, VM_GLOBALSEG_SIZE
          todo,      \* the calls still to make
          flash,     \* what the flash holds at a LEF's head and at its body
          left,      \* history: the LEF blocks nobody will free
          constants, \* history: the objects made while the globals were set up
          commands, losses

ram == <<at, holds, vm, names, objects, lef, bc, sizes, left, constants>>
vars == <<trackerVars, ram, todo, flash, commands, losses>>

Holder == {"vm", "primitives", "stack", "pools", "globals", "lef", "body", "entry"}
Nothing == [for |-> "nothing", prog |-> "none"]

Alloc(h)  == [op |-> "alloc", arg |-> h]
Dealloc(h)  == [op |-> "free", arg |-> h]
Call(f)   == [op |-> f, arg |-> "none"]

------------------------------------------------------------------------------
(* The rows of calls.                                                       *)

\* vm_load_lef, then vm_run.
LoadAndRun == << Call("create_symbol_table"), Call("vm_init_globals"), Call("vm_run"),
                 Alloc("globals"), Call("vm_init_environment"), Call("vm_run") >>

FreeLef == << Dealloc("body"), Dealloc("lef") >>

\* Faulty variants: the intern table is left alone; the globals are forgotten.
VmCleanNoNames == << Dealloc("stack"), Dealloc("globals"), Dealloc("vm") >>
VmCleanNoGlobals == << Dealloc("stack"), Call("clean_symbol_table"), Dealloc("vm") >>

VmClean == << Dealloc("stack"), Dealloc("globals"), Call("clean_symbol_table"), Dealloc("vm") >>

VmInit == << Call("vm_init"), Alloc("stack") >>

\* The bytes of the head and those of the body are waited for one by one.
ReceiveLef(p) == << Alloc("lef"), [op |-> "receive", arg |-> p], Alloc("body"),
                    Call("receive_body"), Call("parse") >>

\* Faulty variant: the buffers of the file are freed before the program runs.
SloadRunEarly(p) == ReceiveLef(p) \o SubSeq(LoadAndRun, 1, 5) \o FreeLef
                      \o << Call("vm_run") >> \o VmClean \o VmInit

SloadRun(p) == ReceiveLef(p) \o LoadAndRun \o FreeLef \o VmClean \o VmInit
SloadOnce(p) == ReceiveLef(p) \o << Call("keep") >>
SloadSave(p) == ReceiveLef(p) \o << Call("store_head"), Call("store_body"), Call("keep") >>

ReadFlash == << Alloc("lef"), Call("read_flash"), Alloc("body"), Call("parse") >>
RunProgram == ReadFlash \o LoadAndRun \o FreeLef

\* animula_init, and animula_start with a loader for the flash or for a file.
AnimulaInit == << Alloc("vm"), [op |-> "calloc", arg |-> "primitives"] >> \o VmInit
                 \o << Alloc("pools") >>
StartFromFlash == AnimulaInit \o ReadFlash \o << Call("check_signature") >>
StartFromFile(p) == AnimulaInit \o ReceiveLef(p) \o LoadAndRun \o FreeLef \o << Call("leave") >>

Starts == {StartFromFlash} \cup {StartFromFile(p) : p \in Program}

------------------------------------------------------------------------------
NoPointers == [h \in Holder |-> NULL]
NothingHeld == [b \in Block |-> Nothing]
VmOff == [state |-> "VM_STOP", code |-> NULL, pc |-> 0]
NoSizes == [code |-> 0, globals |-> 0]

RamInit == /\ at = NoPointers /\ holds = NothingHeld
           /\ vm = VmOff /\ sizes = NoSizes
           /\ names = {} /\ objects = {} /\ left = {} /\ constants = {}
           /\ lef = "none" /\ bc = "op"

Init == /\ TrackerInit
        /\ RamInit
        /\ todo \in Starts
        /\ flash = [head |-> "erased", body |-> "erased"]
        /\ commands = 0
        /\ losses = 0

Running == stopped = "no"
Doing(f) == Running /\ todo # <<>> /\ Head(todo).op = f
Arg == Head(todo).arg
Done == todo' = Tail(todo) /\ UNCHANGED <<commands, losses>>

------------------------------------------------------------------------------
(* Memory.  The VM's structure is written through a pointer that vm_clean   *)
(* has freed; that works as long as nobody else was given the block.  The    *)
(* other pointer used after its block was freed is symbol_table.entry; the   *)
(* rest are set again before they are used.                                 *)

Fresh == {b \in Block : live[b] = NotLive}
Stale == {at["vm"], at["entry"]}

\* Addresses malloc may answer with: one that one of these two still names, or
\* the lowest of the others, which nobody can tell apart.
Answers == {b \in Fresh : b \in Stale \/ \A c \in Fresh \ Stale : b <= c}
Memory == {b \in Answers : ~Refuses(1)}

VmUsable == at["vm"] \in Live => holds[at["vm"]].for = "vm"

Take(b, what) == holds' = [holds EXCEPT ![b] = [for |-> what, prog |-> lef]]

TakeBlock == /\ Doing("alloc")
             /\ \E b \in Memory :
                  /\ OsMalloc(1, b)
                  /\ Take(b, Arg)
                  /\ at' = [at EXCEPT ![Arg] = b]
             /\ Done
             /\ UNCHANGED <<vm, names, objects, lef, bc, sizes, left, constants, flash>>

\* The size of a garbage body is more than there is.
NoBlock == /\ Doing("alloc")
           /\ Memory = {} \/ (Arg = "body" /\ lef = "garbage")
           /\ at' = [at EXCEPT ![Arg] = NULL]
           /\ IF Arg \in {"entry", "pools"} THEN stopped' = "panic" ELSE UNCHANGED stopped
           /\ Done
           /\ UNCHANGED <<table, live, holds, vm, names, objects, lef, bc, sizes, left,
                          constants, flash>>

TakePrimitives == /\ Doing("calloc")
                  /\ \E b \in Memory :
                       /\ OsCalloc(1, 1, b)
                       /\ Take(b, Arg)
                       /\ at' = [at EXCEPT ![Arg] = b]
                  /\ Done
                  /\ UNCHANGED <<vm, names, objects, lef, bc, sizes, left, constants, flash>>

\* os_free of a pointer; vm_clean and free_lef set the field to NULL, but the
\* shell's vm, the shell's lef and symbol_table.entry keep their values.
GiveBlock == /\ Doing("free")
             /\ Arg \in {"stack", "globals"} => VmUsable
             /\ OsFree(at[Arg])
             /\ at' = IF Arg \in {"vm", "lef", "entry"} THEN at
                      ELSE [at EXCEPT ![Arg] = NULL]
             /\ Done
             /\ UNCHANGED <<holds, vm, names, objects, lef, bc, sizes, left, constants, flash>>

------------------------------------------------------------------------------
(* The loaders.  A wrong signature ends the program; the sizes a stored LEF *)
(* is read with are not where store_lef put them.  os_getchar returns when  *)
(* the host has sent a byte, which may be never.                            *)

Waiting == Doing("receive") \/ Doing("receive_body")

Receive == /\ Doing("receive")
           /\ at["lef"] # NULL
           /\ \/ stopped' = "exit" /\ lef' = lef
              \/ stopped' = stopped /\ lef' = Arg
           /\ Done
           /\ UNCHANGED <<table, live, at, holds, vm, names, objects, bc, sizes, left, constants,
                          flash>>

\* The rest of the file; what it is worth is known when it is parsed.
ReceiveBody == /\ Doing("receive_body")
               /\ at["body"] # NULL
               /\ Done
               /\ UNCHANGED <<trackerVars, ram, flash>>

\* Where store_lef writes a field: struct LEF is packed, and the body follows it.
StoredAt == [sig |-> 0, msize |-> 6, gsize |-> 10, psize |-> 14, csize |-> 18, body |-> 34]

\* Where load_lef_from_flash looks for it.
ReadAt == [sig |-> 0, msize |-> 7, gsize |-> 11, psize |-> 15, csize |-> 19, body |-> 12]

FieldsAgree == \A f \in DOMAIN StoredAt : ReadAt[f] = StoredAt[f]

Stored == IF flash.head = flash.body /\ flash.head \in Program THEN flash.head ELSE "garbage"

ReadHead == /\ Doing("read_flash")
            /\ at["lef"] # NULL
            /\ lef' = IF FieldsAgree THEN Stored ELSE "garbage"
            /\ Done
            /\ UNCHANGED <<trackerVars, at, holds, vm, names, objects, bc, sizes, left,
                           constants, flash>>

\* The body is there (the flash is read without waiting), and its symbol table
\* and its entry are looked up.
Parse == /\ Doing("parse")
         /\ at["body"] # NULL \/ lef = "garbage"
         /\ holds' = IF at["body"] = NULL THEN holds
                     ELSE [holds EXCEPT ![at["body"]] = [for |-> "body", prog |-> lef]]
         /\ Done
         /\ UNCHANGED <<trackerVars, at, vm, names, objects, lef, bc, sizes, left,
                        constants, flash>>

\* Flash cells are written without being erased: only the same bits again give
\* what was meant.
Over(old, new) == IF old \in {"erased", new} THEN new ELSE "mixed"

\* store_lef: two writes whose results nobody looks at.
StoreHead == /\ Doing("store_head")
             /\ \/ flash' = [flash EXCEPT !.head = Over(@, lef)]
                \/ UNCHANGED flash
             /\ Done
             /\ UNCHANGED <<trackerVars, ram>>

StoreBody == /\ Doing("store_body")
             /\ \/ flash' = [flash EXCEPT !.body = Over(@, lef)]
                \/ UNCHANGED flash
             /\ Done
             /\ UNCHANGED <<trackerVars, ram>>

LefBlocks == {at["lef"], at["body"]} \ {NULL}

\* serial_load returns without freeing what it received.
Keep == /\ Doing("keep")
        /\ left' = left \cup LefBlocks
        /\ Done
        /\ UNCHANGED <<trackerVars, at, holds, vm, names, objects, lef, bc, sizes, constants,
                       flash>>

\* animula_start: a LEF is run, anything else leads to the shell.
CheckSignature ==
  /\ Doing("check_signature")
  /\ IF flash.head # "erased"
     THEN /\ todo' = LoadAndRun \o FreeLef \o << Call("leave") >>
          /\ UNCHANGED left
     ELSE /\ todo' = <<>>
          /\ left' = left \cup LefBlocks
  /\ UNCHANGED <<trackerVars, at, holds, vm, names, objects, lef, bc, sizes, constants,
                 flash, commands, losses>>

Leave == /\ Doing("leave")
         /\ stopped' = "exit"
         /\ Done
         /\ UNCHANGED <<table, live, ram, flash>>

------------------------------------------------------------------------------
(* The VM.                                                                  *)

\* vm_init and vm_init_environment.
VmInitialise == /\ Doing("vm_init")
                /\ at["vm"] # NULL /\ VmUsable
                /\ vm' = [vm EXCEPT !.state = "VM_RUN", !.code = NULL, !.pc = 0]
                /\ at' = [at EXCEPT !["stack"] = NULL, !["globals"] = NULL]
                /\ Done
                /\ UNCHANGED <<trackerVars, holds, names, objects, lef, bc, sizes, left,
                               constants, flash>>

Interns(p) == [i \in 1 .. Len(NamesOf[p]) |-> [op |-> "intern", arg |-> NamesOf[p][i]]]

\* vm_load_lef sets the sizes; create_symbol_table interns every name of the
\* file and, when there is any, copies their text.
CreateSymbolTable ==
  /\ Doing("create_symbol_table")
  /\ lef \in Program /\ VmUsable
  /\ sizes' = [code |-> Len(CodeOf[lef]), globals |-> Len(GlobalsOf[lef])]
  /\ todo' = Interns(lef) \o (IF NamesOf[lef] = <<>> THEN <<>> ELSE << Alloc("entry") >>)
               \o Tail(todo)
  /\ UNCHANGED <<trackerVars, at, holds, vm, names, objects, lef, bc, left, constants, flash,
                 commands, losses>>

\* RB_INSERT keeps the first node of a name; the node of a second one is lost.
Intern == /\ Doing("intern")
          /\ \E b \in Memory :
               /\ OsMalloc(1, b)
               /\ Take(b, "node")
               /\ names' = IF \E n \in names : n.name = Arg THEN names
                           ELSE names \cup {[name |-> Arg, of |-> lef, text |-> at["body"], node |-> b]}
          /\ Done
          /\ UNCHANGED <<at, vm, objects, lef, bc, sizes, left, constants, flash>>

\* clean_symbol_table: nothing to do for an empty tree.
CleanSymbolTable ==
  /\ Doing("clean_symbol_table")
  /\ IF names = {} THEN UNCHANGED trackerVars
     ELSE OsFreeAll({n.node : n \in names} \cup {at["entry"]})
  /\ names' = {}
  /\ Done
  /\ UNCHANGED <<at, holds, vm, objects, lef, bc, sizes, left, constants, flash>>

\* vm_init_globals up to its vm_run.
VmInitGlobals == /\ Doing("vm_init_globals")
                 /\ VmUsable
                 /\ vm' = [state |-> "VM_INIT_GLOBALS", code |-> at["body"], pc |-> 0]
                 /\ constants' = {}
                 /\ Done
                 /\ UNCHANGED <<trackerVars, at, holds, names, objects, lef, bc, sizes, left,
                                flash>>

\* The end of vm_init_globals, and the last two lines of vm_load_lef.
VmInitEnvironment == /\ Doing("vm_init_environment")
                     /\ VmUsable /\ at["globals"] # NULL
                     /\ vm' = [state |-> "VM_RUN", code |-> at["body"], pc |-> 0]
                     /\ Done
                     /\ UNCHANGED <<trackerVars, at, holds, names, objects, lef, bc, sizes,
                                    left, constants, flash>>

Interpreting == Doing("vm_run") /\ vm.state \in {"VM_RUN", "VM_INIT_GLOBALS"} /\ VmUsable

Segment(p) == IF vm.state = "VM_RUN" THEN CodeOf[p] ELSE GlobalsOf[p]
SegmentSize == IF vm.state = "VM_RUN" THEN sizes.code ELSE sizes.globals

More == vm.pc < SegmentSize

\* fetch_next_bytecode: behind the end it stops the VM but returns the byte of
\* the fetch before, which dispatch then executes.
Fetched == IF More THEN Segment(lef)[vm.pc + 1] ELSE bc

Advance(state) == /\ vm' = [vm EXCEPT !.pc = IF More THEN @ + 1 ELSE @, !.state = state]
                  /\ bc' = Fetched

\* Faulty variant: VM_PANIC leaves the state alone.
StateKept == vm.state
StateAfterFetch == IF More THEN vm.state ELSE "VM_STOP"

Step == /\ Interpreting
        /\ Fetched = "op"
        /\ at["stack"] # NULL
        /\ Advance(StateAfterFetch)
        /\ UNCHANGED <<trackerVars, at, holds, names, objects, lef, sizes, left, constants,
                       todo, flash, commands, losses>>

\* What NEW_OBJ leaves its loop with: when there is no memory the collector is
\* called again and again, and everything is alive.
\* Faulty variant: the loop is left with the NULL of os_malloc.
NewObjUnchecked == Memory \cup {NULL}
NewObj == Memory

NewObject == /\ Interpreting
             /\ Fetched = "new"
             /\ at["stack"] # NULL
             /\ \E b \in NewObj :
                  /\ OsMalloc(1, b)
                  /\ Take(b, "object")
                  /\ objects' = objects \cup {b}
                  /\ constants' = IF vm.state = "VM_INIT_GLOBALS" THEN constants \cup {b}
                                  ELSE constants
             /\ Advance(StateAfterFetch)
             /\ UNCHANGED <<at, names, lef, sizes, left, todo, flash, commands, losses>>

NoMemoryForObject == Interpreting /\ Fetched = "new" /\ at["stack"] # NULL /\ Memory = {}

\* Faulty variant: HALT cleans whenever it is met.
CleansAlways == TRUE
Cleans == StateAfterFetch # "VM_INIT_GLOBALS"

\* HALT frees every object of the program, unless it ends the globals.
Halt == /\ Interpreting
        /\ Fetched = "halt"
        /\ IF Cleans THEN OsFreeAll(objects) /\ objects' = {}
                     ELSE UNCHANGED <<trackerVars, objects>>
        /\ Advance("VM_STOP")
        /\ UNCHANGED <<at, holds, names, lef, sizes, left, constants, todo, flash, commands,
                       losses>>

\* vm_run returns when the state says so.
Return == /\ Doing("vm_run")
          /\ vm.state \notin {"VM_RUN", "VM_INIT_GLOBALS"} /\ VmUsable
          /\ Done
          /\ UNCHANGED <<trackerVars, ram, flash>>

------------------------------------------------------------------------------
(* What goes wrong in C: a store through NULL, a VM whose structure belongs *)
(* to somebody else, a program made of misread bytes.                       *)

NeedsVm == {"create_symbol_table", "vm_init_globals", "vm_init_environment", "vm_run",
            "vm_init"}

Fault == /\ Running /\ todo # <<>>
         /\ LET op == Head(todo).op IN
            \/ op \in {"receive", "read_flash"} /\ at["lef"] = NULL
            \/ op \in {"receive_body", "parse"} /\ at["body"] = NULL
            \/ op = "calloc" /\ Memory = {}
            \/ op = "intern" /\ Memory = {}
            \/ op = "vm_init" /\ at["vm"] = NULL
            \/ op = "vm_init_environment" /\ at["globals"] = NULL
            \/ Interpreting /\ at["stack"] = NULL
            \/ op \in NeedsVm /\ ~VmUsable
            \/ op = "free" /\ Arg \in {"stack", "globals"} /\ ~VmUsable
            \/ op = "create_symbol_table" /\ lef \notin Program
         /\ stopped' = IF Head(todo).op = "calloc" THEN "panic" ELSE "fault"
         /\ UNCHANGED <<table, live, ram, todo, flash, commands, losses>>

------------------------------------------------------------------------------
(* The user and the power.                                                  *)

Rows == {RunProgram} \cup UNION {{SloadRun(p), SloadOnce(p), SloadSave(p)} : p \in Program}

Prompt == Running /\ todo = <<>>

Command == /\ Prompt
           /\ commands < MaxCommands
           /\ todo' \in Rows
           /\ commands' = commands + 1
           /\ UNCHANGED <<trackerVars, ram, flash, losses>>

\* Everything but the flash is gone; the board starts again.
PowerLoss == /\ losses < MaxPowerLosses
             /\ losses' = losses + 1
             /\ table' = [i \in Slot |-> EmptySlot]
             /\ live' = [b \in Block |-> NotLive]
             /\ stopped' = "no"
             /\ at' = NoPointers /\ holds' = NothingHeld
             /\ vm' = VmOff /\ sizes' = NoSizes
             /\ names' = {} /\ objects' = {} /\ left' = {} /\ constants' = {}
             /\ lef' = "none" /\ bc' = "op"
             /\ todo' \in Starts
             /\ UNCHANGED <<flash, commands>>

Memories == TakeBlock \/ NoBlock \/ TakePrimitives \/ GiveBlock
Loaders == \/ Receive \/ ReceiveBody \/ ReadHead \/ Parse \/ StoreHead \/ StoreBody
           \/ Keep \/ CheckSignature \/ Leave
Machine == \/ VmInitialise \/ CreateSymbolTable \/ Intern \/ CleanSymbolTable
           \/ VmInitGlobals \/ VmInitEnvironment \/ Step \/ NewObject \/ Halt \/ Return

Work == Memories \/ Loaders \/ Machine \/ Fault

Next == Work \/ Command \/ PowerLoss

\* The processor goes on while it has something to do and waits for nobody;
\* nothing makes the user type, the host send or the power fail.
Fairness == WF_vars(~Waiting /\ Work)

Spec == Init /\ [][Next]_vars /\ Fairness

------------------------------------------------------------------------------
TypeOK ==
  /\ TrackerTypeOK
  /\ stopped \in {"no", "used_up", "free_of_NULL", "free_of_unknown", "panic",
                  "fault", "exit"}
  /\ at \in [Holder -> Block \cup {NULL}]
  /\ vm.state \in {"VM_RUN", "VM_STOP", "VM_INIT_GLOBALS"}
  /\ vm.code \in Block \cup {NULL}
  /\ objects \subseteq Block /\ constants \subseteq Block /\ left \subseteq Block
  /\ lef \in Program \cup {"garbage", "none"}
  /\ flash \in [{"head", "body"} -> Program \cup {"erased", "mixed"}]

(* The VM only ever fetches from a body that is still allocated, holds the  *)
(* program whose sizes are in force, and contains the pc: no run outlives   *)
(* its file and no run is measured with another program's sizes             *)
(* (vm_load_lef, vm_run, free_lef in animula.c:62 and shell.c:112).         *)
FetchesOwnCode ==
  Interpreting =>
    /\ vm.code \in Live
    /\ holds[vm.code] = [for |-> "body", prog |-> lef]
    /\ More => vm.pc + 1 \in DOMAIN Segment(lef)

(* Whenever a name is interned, every name already in the tree still has    *)
(* its text: RB_INSERT compares through str_buf, which points into the body *)
(* of a file (symbol.c:32), and bodies are freed after each run.            *)
NamesReadable ==
  Doing("intern") =>
    \A n \in names : n.text \in Live /\ holds[n.text] = [for |-> "body", prog |-> n.of]

(* While a program runs, its globals are allocated, and so is every object  *)
(* made when they were set up, although the globals segment ends with HALT, *)
(* which frees all objects (vm.c:1170).                                     *)
GlobalsAlive ==
  Interpreting /\ vm.state = "VM_RUN" =>
    /\ at["globals"] \in Live /\ holds[at["globals"]].for = "globals"
    /\ \A b \in constants : b \in Live /\ holds[b].for = "object"

(* What is allocated at the prompt: the machine's own blocks, the files     *)
(* that were received and not run, and the objects of a program that ended  *)
(* without HALT.  Nothing else is lost, whatever the row of commands, and   *)
(* the stack is never among it twice.                                       *)
NothingElseLost ==
  Prompt => Live \subseteq {at[h] : h \in {"vm", "primitives", "stack", "pools"}}
                           \cup left \cup objects

(* The machine itself never hangs in a command or a start: whatever it is   *)
(* doing ends in the prompt or in a stop, or comes to wait for bytes of the *)
(* host, and goes on from there when they come.  Falling off the end of a   *)
(* segment must stop the VM for this, and a globals segment must come back  *)
(* to its loader.  The host may stay silent for ever (os_getchar, lef.c:73), *)
(* and NEW_OBJ may ask for ever a collector that has nothing to free        *)
(* (object.h:129): both are ends of this property, so it promises nothing   *)
(* there.                                                                   *)
Answered == (Running /\ todo # <<>>)
              ~> (todo = <<>> \/ ~Running \/ Waiting \/ NoMemoryForObject)
==============================================================================
