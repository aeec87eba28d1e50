# A TLA+ model of Animula

Animula is a small virtual machine for Scheme on microcontrollers.  A compiler
on the host (Laco, not part of this repository) produces LEF files; the VM loads
one, runs the code that initialises the globals, then the program.  This
directory models the parts of the VM in which a mistake shows only after a long
run, checks them with TLC and proves what can be proved with TLAPS.

## 1. The system

| Component | Source | State | Operations | Status |
|---|---|---|---|---|
| List node stock (OLN) | `gc.c` 46-173, `inc/obg_gc.h` | array `oln`, `index` | pre-allocate, alloc, recycle, available, clean | modelled, proved |
| Stack, frames, calls | `inc/vm.h`, `vm.c` | byte stack, `sp fp local pc attr closure` | pushes, `SAVE_ENV`, `CALL`, `PROC_CALL`, `RESTORE`, `LOCAL` | partly, proved: no free variables, no optional arguments |
| map, apply, exceptions | `vm.c` 147-310, 441-496, 1442-1491 | frames of their own shape, nested runs of `apply_proc` | `map`, `apply`, `with-exception-handler`, `raise` | partly, proved: the programs for which they work |
| Collector (OBG_GC) | `gc.c`, `inc/obg_gc.h`, `inc/object.h`, `object.c` | seven pools, active root, `attr.gc` of every block | book, `gc_pool_malloc`, `gc`, `gc_try_to_recycle`, `gc_clean_cache` | partly, lists proved: objects, lists, pairs |
| Composite literals | `vm.c` 558-779 | a half made list or pair on the stack | `generate_object` | partly, lists proved: lists and pairs |
| List primitives | `list.c`, `primitives.c` | lists sharing nodes and Objects | `car cdr cons append list-ref`, predicates, `eq? eqv? equal?` | partly, proved: what `call_prim` can call |
| Interpreter loop | `vm.c` 526-1213, 1318-1392, `inc/bytecode.h` | code, `pc`, the last byte fetched | fetch, `pre_fetch`, `dispatch`, five interp functions | partly, proved: down to operation and operands |
| VM life cycle | `vm.c` 1215-1316, 1394-1440 | `state`, code segments, `globals` | init, load, run, clean | partly, proved: no restart |
| Numbers | `number.c`, `type_cast.c`, `primitives.c` 85-933, `inc/lib.h` | none | arithmetic, comparisons, rounding, predicates | partly, proved: no values of reals |
| Symbols | `symbol.c` | intern tree, symbol table | create, intern, clean | partly, proved: no symbol objects |
| LEF loader | `lef.c` | one LEF and its body | receive, read from file or flash, store, free | partly, proved: no bytes of a header |
| Flash | `storage.c`, `lef.c` | head and body of a stored LEF | erase, write, read | modelled, proved |
| Shell and start-up | `shell.c`, `animula.c` | the VM's pointer, the LEF's | the commands, `animula_start` | partly, safety proved: no `ftest` |
| Bytevectors | `bytevector.c`, `vm.c` 741-770 | blocks of bytes with a 16-bit size | make, length, ref, set, copies, append, literals | modelled, proved |
| Strings | `str.c` | NUL-terminated blocks | make, ref, set, compare, copies, append, fill, reading | modelled, proved |
| Memory tracker | `memory.c` | table of live areas | malloc, calloc, free | modelled, proved |
| Primitive table | `primitives.c` 2069-2224, `vm.c` 60-524 | table of primitives | registration with arities, `call_prim` | partly: arities; devices are pure I/O |
| Vectors | `inc/types.h` | | | not modelled: every operation stops the VM |
| Printing, OS layer, files | `print.c`, `os.c`, `file_operation.c` | none | wrappers, formatting | not modelled: pure I/O |
| TinyGC, rbtree, qlist | `tinygc.c`, `inc/rbtree.h`, `inc/qlist.h` | | | not modelled: third-party |

One thread runs everything.  What interleaves is the collector: any allocation
may find no memory (`os_malloc` returns NULL) or no list node, and then calls
`GC ()` in the middle of whatever the interpreter was doing.  The components
meet in three places: the interpreter allocates through `NEW_OBJ`,
`NEW_INNER_OBJ` and `NEW_LIST_NODE`, which book what they get; the collector
reads `fp`, `sp` and the stack bytes to find its roots; and every block booked
costs one node of the OLN.  Around them, the shell decides the order in which a
VM, a LEF file, its body, the symbol table and the globals are allocated, used
and freed, all from one allocator.

What is hard here:

* pointers into a file's body (code, names of symbols) and into a freed VM, any
  allocation that may fail, and power that goes between two writes to the flash;
* nothing in stack memory distinguishes an object from a saved register; only
  offsets saved in frames do, and three kinds of prelude share one frame layout;
* a collection between two steps of building a list or a pair;
* data shared between lists and pairs, which `free_object` frees recursively;
* references the collector does not see: the globals, C variables of primitives;
* blocks reusable in place (`gc_try_to_recycle`) next to blocks released;
* pools of fixed size that run out;
* a loop of the interpreter inside a primitive, on the same stack and registers;
* texts whose length is measured on every call, in blocks somebody else wrote;
* rationals of two 16-bit parts whose intermediate results need up to 47 bits;
* bytevectors whose block is as long as a 32-bit integer says and whose size
  field, against which every access is checked, keeps 16 bits of it.

The complete list, with lines, is under "hazards" in `PROJECT.json`.

## 2. Modules

| Module | What it is |
|---|---|
| `NodePool` | abstract: free nodes and nodes linked in pools, as sets |
| `ObjectListNodes` | the array and index of `gc.c`; refines `NodePool` |
| `ObjectListNodesProofs` | inductive invariant and refinement, proved |
| `CallStack` | abstract: a sequence of activations with their objects |
| `Frames` | byte stack, registers, preludes, calls, returns; refines `CallStack` |
| `HigherOrder` | extends `Frames` with `map`, `apply`, exception handlers and the loops of `apply_proc` |
| `FramesProofs` | `HigherOrder` keeps its frames and refines `CallStack`, proved |
| `FrameWalk` | extends `Frames` with the collector's walk from frame to frame |
| `ValueStack` | abstract: a stack of values and globals, without memory |
| `ObgGc` | collector, allocation macros, list literals, `car`, globals, `HALT` |
| `ObgGcValues` | adds the mapping on which `ObgGc` refines `ValueStack` |
| `ObgGcProofs` | no collection frees what a program can reach, or is seen by it, proved |
| `ObgGcOperands` | adds `cdr` and `append`, which allocate with their operands popped |
| `ObgGcPairs` | adds pair literals and access to pairs |
| `ObgGcReuse` | adds the recycling of `vm_run` on an empty stack |
| `Numbers` | the number primitives with their widths, against exact arithmetic |
| `NumbersProofs` | exact results are exact, answers give the order, at every width, proved |
| `ByteArrays` | abstract: arrays of exact length |
| `Bytevectors` | the bytevector primitives over blocks of memory; refines `ByteArrays` |
| `BytevectorsProofs` | accesses stay in their blocks, literals never change, `ByteArrays` is implemented, proved |
| `MemoryTracker` | `os_malloc`, `os_calloc`, `os_free` and the table of the debug build |
| `Session` | extends `MemoryTracker` with shell, loaders, flash, symbol table and life cycle |
| `SessionProofs` | the tracker's table is exact and its limit kept; a session keeps what it uses and loses nothing else, proved |
| `Machine` | what `Instructions`, `Strings` and `Lists` share: running, stopped, undefined |
| `Instructions` | the decoder, against the instruction table of `bytecode.h` |
| `InstructionsProofs` | every segment is decoded as the table says, proved |
| `Strings` | the string primitives on blocks of bytes, against texts |
| `Lists` | the list primitives on a heap that shares, against values |
| `LibraryProofs` | strings stay in their blocks, which hold the texts of R7RS; sharing lists keep their values and are compared by them, proved |
| `MC*` | instances for TLC; `MCLibrary` holds three modules side by side |

### ObjectListNodes

`oln`, `index` are the fields of `_oln`.  `linked[p]` is the set of nodes in the
SLIST of pool `p`, `heap` the nodes bought from `os_malloc`, `on` tells whether
`gc_init` ran.  `Book` is `object_list_node_alloc` followed by the SLIST insertion
of `gc_obj_book` or `gc_inner_obj_book`; `Release` is SLIST_REMOVE followed by
`object_list_node_recycle`.  A PANIC is a value of `panic` that disables
everything else.  Every client in `gc.c` recycles only a node it has just taken
out of its pool, which is the guard of `Release`.

### Frames

Memory is a function from offsets to bytes.  A byte remembers the value it is
part of, its position in it and the width; a read of n bytes gives a value only
if all n bytes come from one write of that width and value, and JUNK otherwise.
This is what makes an overwritten or misaligned frame visible.

`acts` and `hdr` are ghosts: the activations the program believes in (exactly
the variable of `CallStack`) and where each of them put its frame.  The guards
on `acts` say what compiled code does, since any byte sequence is a program for
the VM: arguments are pushed between prelude and call, a body returns with one
object on top, variables exist when they are referred to, a tail recursion calls
the running procedure with as many arguments as its prelude announced, and a
tail call of another procedure is compiled where the frame is empty and no shadow
count is in force.  No assignment reads the ghosts: registers and
memory are computed from registers and memory alone, as in the code.

The registers are `reg_t` of 16 bits (`NO_PREV_FP` and `NORMAL_JUMP` are 0xFFFF)
and pointers have 4 bytes: the 32-bit targets with `PC_SIZE` 2.  A PANIC on
overflow sets `stopped`; `vm_stack_check` runs after the write, and as PANIC does
not return the model leaves the bytes of the failed push out.

`pc` is the offset of the instruction in progress: the increments of straight
line code are left out, `Jump` and `Drop` (F_JMP and `pop`) choose any offset.

### HigherOrder

`runs` are the calls of `apply_proc` on the C stack, `state` is `vm->state`.  `Map`
pops its operands, opens a frame with `SAVE_ENV_SIMPLE` and applies the procedure;
`MapRound` is the code between two turns of the loop, `MapEnd` what follows the
last one.  The loop of `apply_proc` ends at the first `restore` it fetches, so it
returns properly only from a procedure that calls no other (`Own`), and neither
`closure` nor `attr.shadow` is reset for it (`Plain`).  What these two guards keep
out, and the primitives for which no program works, are listed under
"Disagreements"; a model of them would have nothing to promise.

### ObgGc

A block is an Object or the inner structure of a list or pair, with `gc` the two
bits of `attr.gc`.  `Gc` is `gc ()` as a whole; it is enabled whenever an
allocation is pending, because `os_malloc` may fail at any time and the node
stock may be empty.  Its parts are `ActiveRoot` (`build_active_root`),
`Condemned` (`collect_inner`, `collect`, `free_object`) and `Sweep`.  The steps
of a list literal are separate actions, one per allocation, because the
collector can run at each.

Assumptions of the instance: a build with both `OBG_GC` and `USE_OBG_GC` and
with `ANIMULA_GC_HURT` 0 (the default); the activation that runs has a frame
pointer above 0 and all its objects are scanned; memory from `os_malloc`
reads as zero where the code does not write it; `GC_RECYCLE_CURRENT_FRAME` is
off.  The nodes of lists (`NEW_LIST_NODE`, vm.c 657) are not blocks here: nobody
books them, and with `non_shared` always 0 `free_object` leaves them alone
(gc.c 232-250), so every list that is freed leaks its nodes, at HALT too.
`NothingBooked` therefore speaks of Objects and inner structures only, and the leak is
a hazard without a property.

Constants in the globals are simple objects and lists.  `generate_object` gives the
parts of a pair (vm.c 621, 626) and of a vector (689) `GEN_1_OBJ` also while the globals
are set up; no root leads to them, so a collection frees the parts of such a
constant.  `ListConstantsPermanent` is true of list constants, as its name says, and
would be false with pairs in the globals, which neither `ObgGc` nor `ObgGcPairs` has.

`TOP_OBJ_PTR_FROM` adds
`sp` to an offset that is absolute already, so the type for which `NEW_OBJ`
allocates is read from beyond the top of the stack: `StrayTypes` lists what may be
found there, a simple type (`SimpleElement`) or a composite one
(`CompositeElement`, which allocates an inner structure and forgets it).  Of the
composite types the instance has lists; pairs, vectors, closures and bytevectors
(object.c 124-165) go the same way with a pool of their own.

### Numbers

A number object is its type with a numerator and a denominator; the value word
`n << 16 | d` of a rational is read back by nobody but the code that splits it
again, so `Pack` keeps the two parts (and what `|` does to them when a part came
out negative).  `PARTS` is the number of values of a part, 2^16 in the code:
`imm_int_t` has `PARTS * PARTS` values, `s64_t` never overflows.  Every operator is a primitive and returns the set of
what it may leave; `Stop(why)` is a PANIC or the processor's trap.  `%` by zero
in `gcd` traps on Linux and leaves the dividend on a Cortex-M, and both are in the
set.  The value of a real is not modelled: comparing one is a choice, dividing by
one may find zero.  Rounding a fraction goes through a `float` in the code; its
24 bits hold both 16-bit parts, and c/d is at least 1/65535 of its own value away
from an integer, so the rounded integer is the exact one.

The state machine is a program that applies primitives to operands and to the
results of earlier ones, so that every operand is one the VM can produce.

### Bytevectors

`vecs` holds the vectors in the order of their allocation; the index is the
reference a program carries around, so two operands may be the same vector.
`vec` is the block of memory, a function on 0 to its length less one, and `size`
the field of the structure: `_make_bytevector` allocates `count` bytes and stores
`count % SIZES`.  Each primitive is an action from its operands to its result;
`call` is the primitive just done and `result` what it pushed, which `Take` pops
before the next call, as `call_prim` leaves its result on the stack.  `wild` is a
ghost: an access to a block went outside it.  No guard reads it.

`generate_object` makes the literals.  An immutable one points into the code; a
mutable one gets a block of its own into which nobody copies the bytes that
`vm->pc` then skips (vm.c 751-753), so its content is any bytes.  A negative count
is a huge `size_t`: `GC_MALLOC` collects and tries forever (`"collecting"`).  A
copy within one vector with overlapping ranges is a `memcpy` whose result is
undefined; the model lets every destination byte be any byte of the source range.
`_bytevector_append` makes the vector of the truncated sum before its two copies,
whose own range checks then stop the machine if the sum did not fit.

Not modelled here: reclaiming vectors (the collector's matter), operands of a
wrong type other than an immutable vector, and integers so large that the sum of
`bytevector.c` 152 leaves the word (listed as a hazard).

### MemoryTracker

`table` is `g_used_memory`, `live` what the library really gave, `stopped` the reason
for which the machine ended.  `OsMalloc`, `OsCalloc` and `OsFree` are the functions;
`Malloc`, `Calloc` and `Free` call them in any order with any pointer.  A full table
stops the machine after the library has given the memory.  `MEMORY_HARD_LIMIT` is that
of the debug build on a PC; on a board the same refusals come from the library.

### Session

The shell's commands and the start of the board are rows of calls, kept in `todo`
and done one at a time, because what can go wrong is which pointer is used after
which free and which allocation failed in between.  `at[h]` is the pointer that a
holder (a variable or a field) keeps, also after `os_free`: `vm_clean` frees the VM's
structure and the shell initialises it again through the same pointer, and
`symbol_table.entry` is never cleared.  `holds[b]` is what a block was taken for;
`VmUsable` says that nobody else was given the VM's.  Every allocation may be
refused (`NoBlock`), with the consequence the code draws: NULL is used (`Fault`), the
machine panics, or the shell goes on.

`lef` is the program which the LEF structure describes, `sizes` are the two segment
lengths that `vm_run` compares `pc` with, `bc` the static byte of
`fetch_next_bytecode`, returned again behind the end.  The flash keeps the head and
the body of a stored file apart, since the two writes may fail or be cut apart by
`PowerLoss`; cells written twice without an erase are "mixed".  A file stored by
`store_lef` is not found again by `load_lef_from_flash`, which reads the fields of the
header at other offsets (`StoredAt`, `ReadAt`): what is run then is "garbage", and the
model ends in a fault or for want of memory rather than guess its course.  The
hazards of a file that is stored torn, and of a stored program that was not read, have
no property for this reason: a stored file is never run as a program.

`load_lef_from_uart` waits for the host's bytes one by one (`os_getchar`, lef.c 73-105):
`Receive` is the head, `ReceiveBody` the body, and a state before either of them is
`Waiting`, in which the session may stay for ever.

Of the shell's commands `help` and `etest` change nothing; `ftest` writes six bytes
behind the image (`_flash_used`), not where a LEF is stored, and is not modelled.

Programs are straight lines of "op", "new" and HALT: control flow belongs to
`Frames`, collections to `ObgGc`.  Objects made while the globals are set up must
survive the HALT at the end of the globals segment.

### Instructions

`dispatch` cuts a code segment into operations with operands (`did`), and `call_prim`
pops `popped` objects.  Where a call, a jump or an applied procedure leads is in
`Targets`; what it does to the stack is in the other modules.  The reference is the
table in the comment of `bytecode.h`, written as bit fields (`Rows`), the layout of
the literals behind an object (`LiteralEnds`), and the arities which `primitives_init`
registers (`Registered`).  Four sets name what the code is known to do otherwise:
`Divergent` rows, the rows `Resplit`, whose operands the code cuts into other fields
than the table, `Uncalled` primitives (registered, but without a case in `call_prim`) and
`Misregistered` ones.

### Strings

`block[i]` is the memory of a string, a function on 0 to its length less one, written
byte by byte; its length is measured with `strnlen (s, MAX_STR_LEN)` on every call.
`texts`, `answer` and `promised` are the history of what R7RS says the same calls make
and return.  `strayed` remembers that a call was answered otherwise: an error in R7RS
that is not refused, or one of the calls listed below.  `unsafe` remembers the calls
nobody checks, after which a block may have no terminator.  Neither decides what a
call does.

A character object holds what the conversion of a `char` to a pointer makes of the
byte: where `char` is signed (`SignedChar`), the upper half of the `CHARS` values comes
out negative (`AsObject`).  `string-ref` and `read-char` of such a character have strayed;
a program can then pass the negative value on (`Characters`), and `string-set!` and
`make-string` refuse it as they refuse 0.

### Lists

The heap has cells (Objects), nodes, list headers and pairs; `cdr` makes a header
on the same nodes, `append` copies the first list and shares the second.  `values`
and `due` are the history: the values of R7RS, which share nothing.  Memory is always
found here; collections between the allocations are in the `ObgGc` modules.

`_equal` calls itself on the elements.  `EqualIn` is one call of it that looks the
answers for the elements up in a function, and `CellsEqual` is the function over pairs
of cells that gets its answers that way; `ValueIn` and `CellValues` are made alike.
`ListAssumption` says that atoms are Objects of no type the heap stands for.

## 3. Runs

| Run | Shows | Bounds |
|---|---|---|
| `node_stock` | array intact, nodes conserved, index exact, refinement of `NodePool` | 4 slots, 5 addresses, 2 pools: recycling in every order, a second `gc_init` with other nodes |
| `frames` | registers and frames placed, memory intact, returns restore, refinement of `CallStack`, with applied procedures too | a stack of 33 bytes: two frames with an object, or one with four; 2 objects, 1 closure with a captured variable, tail arities 0 to 2, lists of up to 2 elements |
| `collector` | booked once, list constants permanent, nothing booked after HALT, nothing dangling, a collection changes only ages, refinement of `ValueStack` | 5 blocks, 4 list nodes, 3 stack slots, 1 immediate, told from the lists that are elements too: a nested list fits, blocks and nodes run out in turn |
| `numbers` | exact results are exact and in lowest terms, answers give the order, modulo and rounding | `PARTS` = 8: all 64 integers, all 57 other literals as both operands of every primitive, then their results again; products, sums and quotients that fit and that wrap |
| `bytevectors` | accesses in their blocks, literals untouched, refinement of `ByteArrays` | `SIZES` = 4 and counts -1 to 4, so that a count and a sum of two sizes leave the field; bytes of 2 values, data -1 to 3; 3 vectors of together 5 bytes, both operands the same or not |
| `session` | the table of live areas exact and below its limit; code, sizes, names and globals alive when used; nothing but the named blocks lost; every command ends, or waits for the host or for memory | 16 addresses, 15 slots, a limit of 14 blocks; 2 programs with a common name, with and without HALT, globals and constants; 3 commands, 1 power loss, any allocation of the loaders may fail |
| `library` | the decoder executes the table of `bytecode.h`; strings behave as texts and stay in their blocks; lists that share behave as values | code: every first byte with extreme operands, every extended primitive, every type of object, literals that end in the segment, behind it or beyond `MAX_STR_LEN`, instructions cut off by the end; strings: 2 strings of up to 2 of 3 characters, the upper one negative as a signed `char`, indices -1 to 3; lists: 2 literals, 5 objects |
| `numbers_sum` | (violation) an exact sum that is wrong | the same |
| `frame_walk` | (violation) the walk misses a frame | 50 bytes: three nested preludes |
| `operands` | (violation) results lose their elements | 4 blocks |
| `pairs` | (violation) a live block is freed | 6 blocks, programs without globals |
| `reuse` | (violation) a block is freed twice | 3 blocks |

`MCFrames` has a VIEW that forgets the bytes from `sp` on.  No action reads them
before it writes them, and if one did the read value would show in `acts` or in
a register.  Addresses are interchangeable in the collector's
instances (SYMMETRY); all its properties are safety properties.  All runs say
`CHECK_DEADLOCK FALSE`: a PANIC, a full stack or HALT ends the program.

Each passing property has a mutant in `PROJECT.json`: a definition replaced by
a plausible bug, under which TLC finds the property violated.

`MCFrames` explores two kinds of program, because all of both is too much: "calls"
has every instruction but no primitive that applies a procedure, and jumps only at
top level; "applies" has both, jumps only inside applied procedures, leaves captured
variables alone, and makes no tail call of another procedure and no tail recursion
with one argument.  A jump only changes `pc`, which is compared when it is saved and
restored; the rest is exercised by the other kind.

`MCLibrary` runs `Instructions`, `Strings` and `Lists` side by side: the variable
`part` chooses one for a whole behaviour, so nothing interacts that does not in the
code, and their states add up instead of multiplying.

Liveness is checked where the code promises an end: `Answered` of `session`, under
WF of `~Waiting /\ Work`: the processor goes on while it has something to do and waits
for nobody; nothing makes the user type, the host send or the power fail.  Falling off
the end of a code segment must stop the VM, and a globals segment must come back to its
loader.  Two ways not to end are excepted because they are real.  A transfer in
progress may stay `Waiting` for a host that sends nothing; when its bytes come, the
property holds again of what follows.  And the allocation loops of `NEW_OBJ` and
`GC_MALLOC` are not guaranteed to end: when every block is alive and memory is full
they collect forever (`NoMemoryForObject`); `Answered` promises nothing there.
The other runs check safety only.

### The disagreements

Shown by a run:

* `frame_walk`: `NEXT_FP` (types.h 293) reads the second register of a frame,
  where `SAVE_ENV` stores `local`; the last fp is the third.  The comment in vm.h
  ("frame[1] is the last fp") describes an older layout.
* `operands`: `call_prim` pops operands into C variables before `_cdr` or
  `_list_append` allocate.  The `gc = GEN_1_OBJ` of `CREATE_RET_OBJ` marks an
  Object that is in no pool, so it protects nothing.
* `pairs`: `free_object` follows a dead pair to its parts without asking the
  active root.
* `reuse`: `NEW_INNER_OBJ` books a block that is still booked.
* `numbers_sum`: `gcd` truncates the 64-bit parts of a sum to 32 bits.  At full
  width, `(+ 31/65535 499/64478)` leaves the exact number 1/121.  The passing
  properties `SumExactInRange` and `QuotientExactInRange` say where the results are
  right; `nx * dy` in `_int_div` wraps in the same way, so `(/ 65536 2/65535)` leaves
  32768 on a 32-bit target.

Part of the models, with the passing properties stated around them:

* Numbers: comparing 1/2 with a negative number or with 0 stops the machine, and so
  does comparing a rational with an equal one ("No formalized rational number is
  equal to an integer!"); a sum or a product that is 0 divides by zero in `gcd`.
  `OrderExact` therefore speaks of the comparisons that answer, on operands in lowest
  terms: a zero that `gcd` failed to reduce (0/3) is negative to `negative?`.
* Session: `vm_clean` frees the VM's structure and the shell goes on with it, against
  "The allocated vm object will never be freed" (`animula.c` 34).  "Run stored
  program" (`shell.c` 32) reads a stored header at offsets at which nobody wrote it.
* Instructions: a prelude's byte is an arity of 6 bits and a mode of 2 (`PROC_ARITY`,
  vm.h 290), where the table has 8 bits of arguments; the byte for the frame of a closure
  on the heap is a size and an arity of 4 bits each (vm.c 1053), so that neither reaches
  the limit of 64, and of one on the stack it is all size, its arity masked from bits a
  byte does not have (vm.c 1067); a text longer than `MAX_STR_LEN` is cut by `os_strnlen`
  and `pc` stays inside it (vm.c 577, 585); the extended globals take their index from the fourth byte
  (`vm.c` 1001) where the table has 16 bits; the empty list, none and the vector
  instructions have no case; 13 registered primitives have no case in
  `call_prim`, and five are registered with another arity than they pop.
* Strings: `substring` and `string-copy` copy from the start of the string;
  `string-append`, `list->string` and `read-line` leave no terminator; `string-set!`
  does not check its index, `string-copy!` only against the destination,
  `make-string` accepts a negative length; `string-copy!` within one string copies
  overlapping ranges with `strncpy`; where `char` is signed `string-ref` and `read-char`
  make negative numbers of the characters from 128 on (`str.c` 27-29, 169), which
  `string-set!` then refuses.
* Lists: `cons` keeps the address of a C variable for an operand of generation 0,
  and on the empty list of `cdr` leaves a node without an element; `append` with an
  empty first list writes through NULL; `equal?` compares booleans by address and
  follows the second list past its end or stops before it.

Not in any model, because no program works that meets them:

* `for-each` pushes four registers where `RESTORE` pops five; `apply` of a procedure
  opens no frame and its `FIX_PC` completes one that is pending.
* The loop of `apply_proc` ends at the first `restore`, also one of a procedure that
  the applied one calls; `map` and the handler do not reset `closure` and
  `attr.shadow`; a raise inside `map` gives the object to `map`; resuming after
  `raise-continuable` leaves `sp` two bytes too high.
* `COUNT_ARGS` (`vm.h` 457) counts the bytes of a frame as arguments; `FREE_VAR` with
  `up` 1 or more follows the saved `local` as `NEXT_FP` does.
* A closure, a bytevector or a mutable string on a scanned stack stops the VM at
  the first collection (`gc.c` 557).

## 4. Proofs

`ObjectListNodesProofs` proves, for every number of slots, every finite set of
node addresses and every set of pools, under `OlnAssumption` (the array is not
empty, NULL and the poison are no node addresses):

* `OlnInvariant`: the inductive invariant `OlnInv`.  `Conserved` and
  `IndexCounts` need each other: without the count, `Release` could be called
  with `index` 0; without conservation the count of linked nodes would not go
  down by one.  The invariant adds that the free slots hold nodes and that an
  initialised array never has a PANIC of the two damaged-array branches.
* `OlnTypeCorrect`, `NodesConserved`, `IndexCountsLinked`, `NoDamagedSlot`: its
  consequences.
* `OlnImplementsStock`: initial states map to initial states of `NodePool` and
  every step to one of its steps or to a stutter.

`BytevectorsProofs` proves, for every width of the size field and of a byte, every
set of counts, indices and literals (`BytevectorsAssumption`: literals have fewer
bytes than the field can count):

* `BytevectorsInvariant`: the inductive invariant.  It says what no check in the
  code says, that a vector's size is at most the length of its block, and that
  blocks hold bytes.  `New` establishes it because `count % SIZES` never exceeds
  `count`; `Stored` keeps the domain of a block, so no copy disturbs it.
* `AccessesInBounds`: every primitive that passes its range check accesses its
  blocks inside them; for `_bytevector_append` this needs that both sizes were
  checked against the truncated size of the new vector.
* `BytevectorsTypeCorrect` and `LiteralsNeverChange`, the latter an action property:
  the two primitives that write to an existing vector validate its type first.
* `BytevectorsImplementArrays`: the refinement.  `Seen` takes of a vector the bytes
  its size field counts.  There is one lemma per primitive: what it pushes is what the
  array operation answers, and the arrays after it are those the operation makes.
  What a block has beyond its size never comes back, because no primitive changes a
  size.

`SessionProofs` proves of the memory tracker, for every length of the table, every
limit, set of addresses and set of sizes:

* `TableExact`: until the table is used up, an area is in it exactly when it is live,
  in one slot, with its size.  With the types this is inductive: `FirstEmpty` takes
  a slot without a pointer, a block that is answered is not live and hence in no
  slot, and so `Unrecord` clears the only slot there is.
* `LimitHolds`: what is allocated never exceeds `MEMORY_HARD_LIMIT`.  The code adds up
  the slots, the claim is about live areas; that both sums agree needs the table to be
  exact, and that a sum over a finite set does not depend on the order in which
  `MapThenSumSet` takes its elements.
* `FreeStops`: `os_free` stops the machine exactly for NULL and for areas that are not
  live.

`LibraryProofs` proves two results about `Strings` for every `MAX_STR_LEN`, character
set, set of literals and integers, and one about `Lists` for every set of atoms,
literals and indices.

`StringsStayInBlocks`: until an unchecked call is made, every string has a
terminator inside its block and no primitive leaves one.  The invariant
`StringInv` adds the types to `InBlocks`.  The argument: a terminated block has a
first NUL (the least element of a set of naturals, by well-foundedness of `<`), so
the scan of `strnlen` ends inside it; a range that passes a check against the measured
length ends before the terminator; and every write puts characters before it or a
terminator behind what it wrote.

`StringsBehaveAsTexts`: until such a call, or one this code answers otherwise than
R7RS, has been made, whether `char` is signed or not, the blocks hold the texts R7RS promises and every answer is the
promised one.  The invariant `TextsMatch` takes for a block's text what stands
in front of its first NUL; a write of a character inside the text leaves the scan
for the NUL where it was, and a copy's new terminator ends exactly the copied text.

`SharingIsInvisible`: until a call this code is known to answer otherwise, every object
the program has holds the value R7RS gives it, whatever shares its nodes, and the last
predicate answered for the values.  The code says nowhere what makes this true, that
the heap has no cycle; the invariant `ListInv` does:

* `HeapOK`: from every list header a chain of nodes leads to NULL (`IsChain`), and the
  list or pair in a cell leads to older cells only.  Every action adds to the
  heap behind what is there, so old chains and parts stay (`ChainStays`, `PartsStay`);
  `LinkedInPlace`, which would not, is the mutant of the run.
* Cells that lead to older cells have one value each, the only solution of the
  equation behind `CellValues` (`CellValuesAre`, by well-founded recursion); the
  same for the answers of `_equal` and for what it misjudges (`CellsEqualAre`,
  `CellsMisjudgedAre`).  A heap that grew gives the old cells the same values
  and answers (`NewValues`, `NewJudgements`).
* `RightStep`: if `_equal` answers for the values of the parts, where it does not
  misjudge them, it does so for two objects.  For lists that is a claim about the
  loop over the first one: it stops at the first element that differs, or at the end
  of the first list, which `IsPrefixValue` excepts.
* One lemma per primitive (`AppendKeeps`, `CdrKeeps`, ...): the object it makes has the
  value it should.

`FramesProofs` proves, for every size of the stack,
set of procedures, closures and objects, with the primitives that apply procedures:

* `FramesInvariant`: the inductive invariant `FrameInv /\ RunsFit /\ LocalsFit`.
  `RegistersPlaced` speaks of the newest activation and is not inductive: a return
  makes the one below the newest.  `FrameInv` therefore says of every activation where
  its frame and objects lie, that they do not overlap, what memory holds there, and
  what the registers were when it last ran.  `RunsFit` gives every loop of
  `apply_proc` a frame that a primitive opened, so that a `restore` ends the right
  loop.  `LocalsFit` bounds the first variable of the activations that wait; without
  it a return could make `local` leave the stack, which `TypeOK` excludes.
* `FramesTyped`, `FramesIntact`, `FramesPlaced`: what it implies.
* `ReturnsRestore`: a return gives the caller `fp`, `local`, `attr`, `closure` and `pc`
  back.
* `FramesRefineStack`: every instruction and every primitive is a step of `CallStack` or
  a stutter.

They assume `ShadowFits`: no tail recursion has 32 arguments or more.  The prelude's
operand allows 63 (`PROC_ARITY`, vm.h 290), and `attr.shadow` has 5 bits (types.h 481),
so the theorems are false without it; no document says that a compiler must obey it,
and the hazards list the line.

`ObgGcProofs` proves, for all numbers of blocks, list nodes and stack slots, under
nothing but the types of the constants:

* `CollectorInvariant`.  The conjuncts need one another: `MemoryInv` (a block is in
  memory exactly when it is booked in one pool, its parts are in memory too, and those
  of a permanent block are permanent), `DataInv` (stack and globals refer to
  memory, the globals to permanent blocks only), `BuildInv` and `HalfInv` (the list in
  the making is on the stack above the elements it still needs, and the half made node
  is its first), `StopInv`.  The globals are no root; what protects them is that nothing
  permanent leads to anything else, which `car` and the building of lists preserve
  because both only run on permanent parts while the globals are made.
* `CollectorTyped`, `CollectorBooksOnce`, `CollectorListConstants`,
  `CollectorNothingBooked`, `CollectorNothingDangling`: what it implies.
* `CollectorKeeps`: an action property.  A collection, wherever an allocation makes
  it happen, leaves every block the program can reach as it is, its age excepted.
  `free_object` frees recursively, so the proof shows that what it follows from a
  block outside the active root stays outside of it.
* `CollectorTransparent`: `ObgGc` implements `ValueStack`, so a program cannot tell that
  there is a memory at all.  What is seen of a value (`Sight`) is a recursive function
  over all values, and exists only if no reference leads back to where it came from.
  Hence a second invariant, `SeenInv`: blocks have ranks that fall along every reference
  (`Ranked`), and while a list is in the making nothing but the top of the stack leads
  to it, and its elements hold the objects below it (`Making`).  `SightExists` glues the
  solutions below each rank together; `SightSame` shows that a value is seen alike in
  two memories that agree on what it leads to.  With that every step is matched: a
  collection agrees on what the roots lead to, and a new block or node on all but the
  list in the making, which is not yet seen.  Linking a new Object into that list raises
  the ranks of both; it may be raised because nothing leads to it.

`SessionProofs` proves of the session, for any programs, addresses, limits, numbers
of commands and of power losses:

* `SessionIsSound`: the inductive invariant `SessionInv`.  What a call may rely on
  depends on the calls behind it, so an invariant of the variables alone would need a
  case for every row of every command.  `Follows (c, R)` states once what a set `R` of
  calls may contain behind a call `c`; every row of the shell and every start is shown
  to obey it, and from there on the proof speaks of the set `Rest` of calls to come.
  `Held` says which pointers are good because of what comes, `FileInv` and `NamesInv`
  that file, body, sizes and symbol table are of one program, `RunInv` what the VM
  needs while it runs, `PointersInv` that what will be allocated is not allocated yet.
* `SessionTypes`, `SessionTableExact`, `SessionLimitKept`, `OwnCodeFetched`,
  `NamesAreReadable`, `GlobalsStayAlive`: what it implies.
* `NothingElseIsLost` needs `OwnInv` on top: every block has an owner, a variable that
  some call will still free, or one of the leaks the property names.  It assumes
  `NamesOnce`, that no symbol table lists a name twice: `create_symbol_table` gives every
  entry a node without asking `is_interned`, and the node of a name that the tree has
  already is lost (`symbol.c` 28-33, 87).

`NumbersProofs` proves the results of `numbers` for parts and words of any width,
under `NumbersAssumption`: the number of values of a part is a power of two above 2, as
a number of bits makes it (stated as: every divisor of `PARTS * PARTS` above 1 is
even), and the literals are number objects of which none is a fraction over 0.

* `TypeCorrect`, from the inductive invariant `Inv` of the operands and the result;
  `NoZeroDenominator`: no primitive leaves a fraction over 0.  `Pack` keeps the
  lower bits of a denominator, so `PARTS` itself, which `only_16_bit_signed` lets
  pass when negative, would become 0.  That takes a negative divisor, so a numerator
  that `gcd` truncates to half a word, and then the denominator is half a word as
  well (`SumPacked`); no product of two denominators is, because each of them would
  divide a power of two (`DenominatorsNotHalf`).
* `Sums`, `Products`, `Quotients`: exact results that are exact, in lowest terms.
  Euclid's loop is a recursive function over pairs; that such a function exists is
  itself proved (`EuclidLoops`: the solutions below each bound agree, so they can be
  glued together), and `EuclidIsGcd` shows that it answers a common divisor which every
  other one divides.  `Reduced` turns that into lowest terms.
* `Order`: two equal rationals in lowest terms have equal parts (`LowestUnique`), so
  the comparison of parts in `_int_eq` is one of values.
* `Moduli`, `Roundings`: the equations of C's `/` and `%` at both signs.

`InstructionsProofs` proves, for every code segment (`CodesAssumption`: segments are
sequences of bytes):

* `SegmentsTyped`: whatever the jumps, `pc` is a natural number, and the byte that
  `fetch_next_bytecode` returns again behind the end is a byte.  For a text without
  a NUL this needs that it has a length at all: the least offset of a NUL, the end of
  the segment or `MAX_STR_LEN`.
* `DecodesAsDocumented`: the decoder executes the table.  The table is bit fields
  (`Rows`), the decoder shifts and masks of the bytes it has fetched, so there are two
  kinds of lemmas: for each layout (`ReadsNibble`, `ReadsLong`, `ReadsFree`, ...) what
  the fields of a row are in terms of bytes, and for each interp function
  (`SingleAgrees`, ...) that it comes to this operation with these operands and has
  fetched all of the row's bytes.  `AgreesExecuted` makes steps of that: the next
  instruction is the one behind the last operand, unless the instruction jumps, and a
  primitive pops as many operands as it is registered with.  Behind an object the next
  instruction begins where its literal ends (`LiteralBehind`); for a text this needs that
  `os_strnlen` stops at the first NUL and nowhere before it (`TextLengthIs`).  The rows in
  `Divergent`, the operands of those in `Resplit` (`AgreesResplit`) and texts longer than
  `MAX_STR_LEN` are left out because there the claim is false.

Only model-checked:

* `Answered`, that a command ends or waits: liveness under fairness.
* `SumExact` and `EqReaches` are false of the code and shown so by their runs.
* What the violation runs show, and the modules only they use.

## 5. Not modelled

* Bytes of LEF headers, formatting, devices, files: pure I/O or parsing without
  state.  Reals: only that a comparison answers something and a divisor may be 0.
* Collections of closures, vectors and bytevectors: the collector stops the VM on
  them or looks for a closure's captures at the wrong place; the hazards name the
  lines.
* The red-black tree of the active root: it is used as a set in the model; that its
  comparison truncates addresses on 64-bit hosts is a hazard without a property.
* `vm_restart` (nothing calls it with effect), `GC_RECYCLE_CURRENT_FRAME` and
  `ANIMULA_GC_HURT` (off), TinyGC (the alternative to OBG_GC).

## 6. Plan

1. The collector with closures, captured objects and runtime globals; `cons` and
   `append` with collections over the heap of `Lists`.
2. Free variables through `up` frames and optional arguments, against a lexical
   reference.
