# Verification of .KEK-on-Rails

.KEK is a small object language. `compiler/` (C++) turns a `.kek` source into a
`.kexe` bytecode file; `vm/` (C) loads the file and interprets it, with a
copying garbage collector underneath. This directory holds TLA+ models of the
parts in which mistakes hide best, the TLC configurations that check them on
small instances, and proofs that hold for every instance.

All paths below are relative to `src/`.

## 1. Inventory

### Components, their state and operations

| Component | State | Operations | Models |
|---|---|---|---|
| New space, `vm/memory.c` 60-570, 961-1066 | two segments, `to_space_free_g`, `scan_ptr_g`, the roots (statics, rootset list, constant arrays, stack) | `gc_cheney_malloc`, `gc_cheney_scavenge` and what it calls | `Heap`, `CheneyGC` |
| Old space, `vm/memory.c` 1290-1577 | list of old objects, remember set, `h.state` of objects | promotion, write barrier, removal of duplicates | `GenGC` |
| Arrays, `vm/k_array.c`, `vm/memory.c` 1155-1233 | `length`, `alloc_size`, `elems`; the header of the element block | `IDX`, `IDXA`, `ST`, `append`, `native_arr_elem_set`, growth | `Vector`, `KekArray` |
| Interpreter, `vm/vm.c` 674-1418, `vm/stack.[ch]` | the stack, `sp_g ap_g fp_g ip_g`, `obj_thrown` of each method's exception info | one instruction each; `BC_CALL`, `BC_TCALL`, `BC_RET`, `vm_throw_obj` | `Interp`, `Activations` |
| Classes, `vm/vm.c` 225-452, 657-672, 691-698, 922-1308 | class table, offsets of members, inline caches in the bytecode | size and offset calculation, lookup by name, cache fill, access to members, `NEW` | `ClassSource`, `ObjectModel`, `Classes` |
| Code generator, `compiler/strom.cpp`, `compiler/bcout.cpp` | the code emitted, labelled jumps, table of try blocks | `Translate` of every node, `bco_*` | `Codegen` |
| Optimizer, `compiler/strom.cpp` 352-621, 1091-1221 | none (tree rewriting) | `Optimize` of every node | `Arith`, `Optimizer` |
| Lexer and parser, `compiler/lexan.cpp`, `parser.cpp`, `vstup.cpp` | the current token | one function per nonterminal | `Parser`, `SourceText`; the lexer is not modelled |
| Symbol tables, `compiler/tabsym.cpp` | lists of classes, members, locals, catch variables | declare, look up | `ClassTable`, `Parser` |
| Bytecode file, `compiler/bcout.cpp` 239-770, `vm/loader.c` | constant table, class table | write, read, link | `ClassTable`, `Classes` |
| Native classes, `vm/k_*.c` | C library objects | methods in C | "returns" and "throws" in `Interp`; Exception as a parent in `Classes` |
| Drivers, `vm/main.c`, `compiler/kekc.cpp` | options | order of the passes, start-up sequence | `Compiler`, `Classes` |

`kek_scheme/` and `tests/` are programs in the language.

### How the components interact

* The compiler and the interpreter share the instruction set and the table of
  try blocks; nothing but the order of that table tells nested blocks apart.
  `Execution` composes `Codegen` and `Interp`; `Compiler` puts `Parser` and
  `Optimizer` in front.
* A member is a number in the bytecode. The symbol tables of the compiler give
  the numbers, the loader rebuilds the lists they were taken from, the virtual
  machine adds offsets: three pieces of code that must count alike. `Classes`
  composes them.
* Every allocation may scavenge and move every object. Interpreter and natives
  must therefore keep what they hold in a root and read it again. `CheneyGC`
  gives the program root slots and lets it allocate at any moment; `KekArray`
  has the collector's view of an element block.
* The collector follows an array through the *block's* header; the program reads
  it through the *array's* fields. `KekArray` keeps both.
* Native methods run on the interpreter's stack, leave by `BC_RET` or by
  `vm_throw_obj_from_native_ctxt` (`longjmp` to the loop).

The program is single-threaded. What makes it hard are nested activities, not
threads: a collection inside any allocation, a store whose address was computed
before its value, an exception across frames of different making, a tail call
that reuses a frame somebody still needs. Nothing is persisted, so there are no
crashes to recover from; `vm_error` ends the program.

### What makes each component correct

* Collector: reachable objects keep identity, kind and fields; no pointer into
  the from-space survives; objects never overlap; garbage goes; every request
  for memory is answered.
* Generations: every pointer from an old object to a young one is remembered;
  what a root names grows older in each scavenge; the program sees none of it.
* Arrays: behave as sequences; both lengths agree; addresses held across growth
  never leave their block; growth ends.
* Interpreter and code generator: a compiled program writes and returns what its
  source means, exceptions included; frames form a chain; loops and tail calls
  run in constant stack; the stack's limit is respected.
* Classes: members of a class have distinct places; an address means the member
  the name in the text means; a cached method is the one a lookup would find.
* Optimizer, parser: a text is read as the tree it was written from, and the
  rewritten tree has the value of the source.
* Bytecode file: what is loaded is what was compiled.

`PROJECT.json` lists the hazards of the code line by line, with the property
that covers each or the reason why none does.

## 2. Plan

Done: 1 to 6. The order is that of importance for a running program.

1. `Heap`, `CheneyGC`: the new space; refinement of an abstract heap; proofs.
2. `Codegen`, `SourceSem`, `Interp`, `Execution`: control flow end to end.
3. `Vector`, `KekArray`: arrays; refinement of vectors.
4. `GenGC`: generations, promotion, write barrier, remember set; proofs.
5. `Arith`, `Optimizer`, `Parser`, `SourceText`, `Compiler`: the compiler from the
   text to the code, with expressions, for, switch and compound assignment.
6. `ClassSource`, `ObjectModel`, `ClassTable`, `Classes`: a class from its
   declaration through file and loader to objects, lookup and caches; refinement
   of the object model.
7. Left: nested runs of the interpreter (class initializers, `Meta.new`), catch
   variables in recursion, the rootset of the natives, strings.

Proved (section 6): the safety invariants and the refinement of both collectors
and of the arrays, that every step of a scavenge leaves fewer of them to be made and that no round
of a growth is lost; the frames of the interpreter for every well-typed program; the
inline caches and the addresses of members for every program and class table, and the cells
of an object's variables for every program whose parents come first.
Theorems left: the static members, constants and methods in the file (`LoadedAsDeclared`); that
the code `Codegen` makes is well typed, which the theorems on frames assume.

## 3. Modules

### Heap and CheneyGC

`Heap` is what a program may rely on: objects with identities, fields, and root
slots. `Collect` may forget objects as long as nothing named or referred to is
missing.

`CheneyGC` is `vm/memory.c` with `-g new`.

| Model | Code |
|---|---|
| `heap[a]` | the object that starts at cell `a`; the cells its size covers stay `FREE` |
| `to`, `free`, `scan` | `segments_to_space_g`, `to_space_free_g`, `scan_ptr_g` |
| `root[1..NRoot]`, `next` | the slots in the order in which `gc_rootset` visits them |
| `obj`, `fld` | where `gc_cheney_copy_neighbor` is |
| `phase` | "run": the program; "gc", "retry": inside `gc_cheney_malloc`; "error": `vm_error` |
| `fwd` of a `KEK_COPIED` object | `h.cls`, reused as forwarding address |
| `Malloc`, `StartScavenge`, `Retry` | `gc_cheney_malloc` (room; no room; second try) |
| `CopyRoot`, `SkipRoot` | `gc_cheney_copy_root_obj` on one slot |
| `ScanObj`, `CopyField`, `SkipField` | the loop of `gc_cheney_scavenge`, `gc_cheney_copy_neighbor(_inner)` |
| `ToSpaceFull`, `EndScavenge` | the fatal end in `gc_cheney_copy_obj_to_space_free`; the end of the loop |
| `Assign`, `Load`, `Store` | what the instructions do to slots and fields |

Sizes come as three tables per kind of object: the cells its structure uses, the
cells asked for and the cells copied. They differ in the code: an integer is
copied as a whole `kek_obj_t`, and `alloc_udo` counts a `kek_obj_t` for each
further variable. `EndScavenge` clears the from-space (the code leaves the old
bytes), so that a pointer left there would dangle visibly.

### GenGC

`GenGC` is `vm/memory.c` with `-g gen`. Where objects lie is the matter of
`CheneyGC`; here an object is an identity, and a slot that a scavenge should
have updated and has not holds `STALE` afterwards.

| Model | Code |
|---|---|
| `gen[i]` | `h.state`; `NONE` for an identity that is not in use |
| `rs` | `gc_os_remember_set_g`, newest entry first, slots as (object, field) |
| `copied`, `promoted` | what this scavenge has moved to the to-space, to the old space |
| `ST`, `NativeStore` | a store with the barrier; a store in C code, without |
| `StartScavenge` | up to `gc_os_remove_dups_in_rs` |
| `VisitRoot`, `VisitRemembered` | `gc_rootset` on one slot: `Kept`, `Aged` or `Promoted` |
| `EndScavenge` | the scan loop, as one step (`CheneyGC` has it object by object) |

`Family` is what the recursion of `gc_os_rec_cpy_neighbors` moves: all it reaches
over objects not copied yet. It refines the same `Heap` as `CheneyGC`; `Ptr`
maps integers to `NIL`, which `Heap` does not tell apart.

### Codegen, SourceSem, Interp, Execution

`Codegen` translates syntax trees as the `Translate` methods do: same order of
emission, same fixing of jumps, try blocks added to the table after their
parts. One instruction takes one address. In a tree no `else` and an empty `else` are the same:
the `JU` that the code emits for the latter (`compiler/strom.cpp` 897), a jump to the next
instruction, is left out.

`SourceSem` says what a tree means, by recursion over the tree, without
addresses, stack or frames. It is the reference and not a translation; its
`map` entries name the code that decides details (truth of a value, the implicit
return, the call of main).

`Interp` is the bytecode loop. The stack is one array as in the code: arguments,
class, return address, saved `ap` and `fp`, exception info, locals, operands.
`Frames` is the chain of frames that the saved registers lead through, one function
from distances to frames; `FindHandler` is `find_handler_for_exobj`: the first frame
of the chain that `Stops`, because a try block of its method is `Enclosing` its
address or because it is the last. `Around` is the block that the table search finds.
`NativeReturn` and `NativeThrow` are a native method from its call to its end.
`StackOverflow` is the error of `stack_push`.

`Activations` says what `Interp` needs of the code it runs and what the stack then
looks like. `vm_execute_bc` checks neither number nor kind of its operands: `ST` and
`DR` take the cell below as the address of a variable and write or read there. `WellTyped`
states, over the addresses that execution can reach, what keeps them from doing harm:
`Shape` gives the kinds of the operands of the current statement and whether the
exception info is already in the frame, `Effect` and `Successors` say how an
instruction changes them and where it leads, `ReliesOn` what it needs. The properties
are about frames: `Registers`, `FrameChain`, `InMemory`, `CallersUntouched`. `Verifier`
computes the shapes of compiled code (`ShapeOf`), by following the control flow from
the entries of methods and handlers. These two are statements about the code and
translate no part of it. `StartsWellTyped` states that the program about to be executed is
well typed.

`Execution` composes the three: a program is what `Compiler` makes of the text of a tree, with
the meaning of the tree attached.

### Arith, Optimizer, Parser, SourceText, Compiler

`Parser` reads token sequences as `compiler/parser.cpp` does: one operator per
nonterminal, from a position to a tree and a position. The nine pairs
`LOrTerm`/`ZbVyrazu` to `Term`/`ZbTermu` are one pair, `Term` and `Zb`, with the level as a
parameter; `Levels` has the operators of each. The position carries the symbols
of the method, since declarations and uses are read in one pass. Where the code
prints an error and exits, the rest of the text is replaced by an `error` token.

`SourceText` is its counterpart and reference: it writes a tree as a text, with
parentheses only where precedence asks for them. `FrontEnd` of `Compiler` writes a method,
reads the text back, and goes on with what was read.

`Optimizer` has the `Optimize` methods as functions from trees to trees. `Arith` has
the operators of C on integers of `IntBits` bits, for the compiler's folding and
for `BOP`; `Undefined` says where C leaves the result open.

### ClassSource, ObjectModel, ClassTable, Classes

A program is a sequence of class declarations (`ClassSource`); the body of a method is the list of
its *sites*: reads and writes of members, calls, `new`. Each of the twelve forms of
a site stands for a way to write it in the language (`x`, `C.x`, `o.x`, `m()`, `super.m()`, ...).

`ObjectModel` is what a program may rely on: an object has the variables of its
class and of all ancestors, a class its static members, a site does what its name
means. A step is any site, executed in any object or class that may be its
`this`; how the program gets there (`Interp`) does not matter for what the site does.

`Classes` is the code. Its phases are those of the two programs:

| Model | Code |
|---|---|
| `Trida`, `DeklProm`, `DeklKonst`, `Metoda` | the parser's functions of that name with the `dekl...` they call (`ClassTable`) |
| `MethodTranslate` | `Method::Translate`: `Translate` of `ClassTable` for each reference, with the constant table interned on the way |
| `bcout_to_file`, `kexe_load` | the file, one token for each value written |
| `vm_init_builtin_classes` ... `vm_init_const_table_elems` | the start-up of the virtual machine in `main` |
| `Run` | one instruction of `vm_execute_bc`, with its `LD_CLASS` in front |
| `cache[i]` | the two words behind a call that hold `inline_cache_t` |
| `svalue[c][k]` | `classes_g[c].syms_static[k].value`, the static member; of a variable that was never set, one of `Leftovers` |
| `objs[o].cells` | native part and variables of a `KEK_UDO` |

The loader takes the static members from `malloc` (`vm/loader.c` 179) and gives a value to
constants only (480-491). What the others hold until a program sets them is a choice, made once
when the file is loaded, from the constant `Leftovers`; `ObjectModel` promises no more of them. A
program that reads one sees what the memory held before, and the collector follows it as a root
(`vm/memory.c` 971): both are errors of the code, which the model has and no property rules out.

### Vector and KekArray

`Vector` is a sequence extended with NIL when an element behind its end is named,
and addresses that wait for a store; an address may die when its array moves,
then its store is lost (that is what the code does: the store goes to the old
block). `KekArray` is the code: the array's fields, the block's header, `Scavenged`
for what the collector does to a block, and the growth as a call of several
steps (`GrowSize` once per round of the loop, then `GrowAlloc`, which may
scavenge).

## 4. Runs

| Run | Question | Instance |
|---|---|---|
| `cheney` | is the collector invisible? | 2 roots, segments of 7 cells, 4 allocations, kinds INT (2 cells, copied as 3) and UDO (3 cells, copied as 2, 2 fields) |
| `generations` | are the generations invisible? | 2 roots, 3 objects of one field, remember set of up to 3 entries |
| `copied_neighbour` | "pointers in the old space that points to the new space are stored in the remember set" | the same, promotion beside a copied neighbour allowed |
| `integer_in_slot` | `assert(IS_PTR(*(rsptr->new_obj)))` | the same, integers allowed in remembered slots |
| `expressions` | are expressions read, folded and computed right? | 2661 programs: all pairs of the 18 operators in both shapes, chains of four, signs, for loops, switches with ranges, integers of 12 bits |
| `classes` | do addresses, lookups and caches give the object model? | 212 programs of one to four classes, 2 objects, one value besides NULL, one leftover in unset static variables |
| `execution` | does compiled code do what the source means? | 5190 programs: `main` around one compound statement, 13 callees, stack of 34 cells |
| `arrays` | are arrays vectors? | 2 arrays up to 5 and 2 elements, literals of 0 or 2, 2 addresses waiting |
| `throw_before_try` | "Check if we are inside a try block" | programs with a throw in front of a try block |
| `tail_call_in_try` | are handled exceptions handled? | programs with `return f(x)` inside a try block |
| `one_element_array` | does growth end? | literals of one element |
| `append_in_place` | the assertion of `native_array_length` | append to an array with room allowed |

The runs that quote the code end in a violation, as do `tail_call_in_try`
and `one_element_array`: each is a disagreement between the code and what
it says of itself; `PROJECT.json` quotes both sides under "findings".

### What the passing runs show

`cheney`. `TriColour`: a visited slot or field never points into the from-space,
an unvisited one points to an object there, and a forwarding address is that of
the copy. `ScavengeAdvances`: each step of a scavenge leaves fewer steps to be made, although each
copy moves the end of what has to be scanned. `NoOverlap`: no allocation or padded copy covers another object.
`KeepsNoGarbage`: after a scavenge exactly the reachable objects are left.
`RequestAnswered`: a scavenge ends. `ImplementsHeap`: every step is a step of
`Heap` or none.

`generations`. `OldToNew`: while the program runs, each slot of an old object
that names a young one is in the remember set. `RootsAge`: after a scavenge a
root names nothing of the first generation. `ImplementsHeap`: no slot in use goes
stale, no object in use is dropped.

`execution` and `expressions`. `ReadsBack`: the parser reads the text of every method as the tree
it was written from. `AgreesWithSource`: what is written is a beginning of what the
source writes, and all of it at the end, with the same way to end.
`FrameChain`: saved registers lead through whole frames of the active methods
down to the one `vm_call_main` built. `InMemory`: no recursion takes a frame out of the memory
of the stack before `PUSH` notices; the locals, which no call checks, are bounded by
`ProgramAssumption`. `CallersUntouched`: no step
writes below the arguments of the current frame, also when an exception ends it. `TailCallsAreFree`: the
stack overflows only through recursion that is not a tail call. `StartsWellTyped`: at every
address of the code the operands are known, and none is taken for an address that is
not one. `OperandsBalanced`: nothing creeps up the stack in a loop, as long as
the method has not handled an exception (a handler keeps the operands that the throw left). `Termination`: a program that ends in the
source ends in the machine.

`classes`. `LoadedAsDeclared`: members, constants and methods survive the lists of the
compiler, the file and the loader in the order of the text, the constants with its values. Of static
variables it says where they are and not what they hold.
`AddressesApart`: while the compiler reads, the addresses of a class's members go on where those of its
parent end, without a gap, and none is that of another member of the class or its ancestors.
`SlotsApart`: no two variables of an object, inherited or native, share a cell.
`CachesCurrent`: each inline cache holds what a lookup in its class would find now, with the
arguments the site pushes; a hit skips the lookup and the comparison, and nothing ever clears a
cache.
`ImplementsObjectModel`: every site, by address or by name, cached or not, does what `ObjectModel`
says, whatever lay in the static variables at first; this is where an override, a `super` call and a shared constant symbol
must find the right class.

`arrays`. `LengthsAgree`: array and block agree, so the collector sees every
element. `AddressesUsable`: a store through an address held across any other
operation stays in its block. `NoRoundIsLost`: a growth never stands at a size from which its loop
does not lead on; the arrays it may begin with are what literals, appends and earlier growths have
left. `GrowTerminates`: the call returns. `ImplementsVector`.

### Bounds, and why they are enough

* `cheney`: a segment of 7 cells holds two or three objects, so a scavenge is
  reached with live, dead and shared objects, cycles of two and self-references;
  it runs full in the middle of a scavenge because INT grows when copied; 4
  allocations give up to two scavenges, the second of which meets what the first
  has left. The order of roots and fields is fixed, so no symmetry is used.
* `generations`: an object needs two scavenges to grow old, after that two
  objects are left to be young beside it, to refer to each other and to be
  promoted in turn; identities that are dropped are used again, so a stale entry
  would meet a new object; three entries give a duplicate and another slot. One field
  per object gives chains and cycles, no branching: the theorems of section 6
  are for any number of fields. Identities are interchangeable (`SYMMETRY`); the
  run has safety properties only.
* `execution`: two nested tries, two frames of each method, loops with break,
  recursion in both positions. A stack of 34 cells with 3 spare ones takes four
  frames, so overflow happens inside calls, conditions and handlers. `Fuel` bounds the
  reference; a program it cuts off has meaning "diverge" and only has to agree on
  a prefix.
* `expressions`: two operators of each kind meet in both shapes over constants and
  over a local, so each is folded and computed, and each pair is written with
  and without parentheses; values stay below 2^11, programs whose meaning leaves
  them are left out (overflow is undefined behaviour in the compiler).
* `classes`: a class and its child with and without each kind of member and with a
  member of the same name, a line of three with overrides and constructors in each
  place, a native parent; two objects let one call site see two classes and one again.
  One value is enough to tell a cell that was written from one that was not; the
  constants have other values. One leftover stands for whatever the memory held, NULL included: the
  machine moves values and looks at none, and with a mark of its own no store can hide one. In every program the parent comes before its child, and a class that
  is named from outside may come before or after.
* `arrays`: from 2 an array grows to 3, 4, 6: growth by one round and by
  several, elements with and without pointers, two addresses into one block, into
  two blocks, and into a block its array has left. Five block names suffice for
  two arrays, two addresses and one allocation.

`CHECK_DEADLOCK FALSE` stands in `cheney`, `execution`, `expressions`, `classes` and in the two violation
runs on `Execution`: `vm_error` and the end of the program stop the system. In
the runs on `GenGC` a failed assertion stops it, and `Unsafe` cuts off a scavenge
that would promote an object beside a copied neighbour.

### Excluded inputs

The passing runs leave out what is known to go wrong, by name, so that they go
on saying something about the rest:

* `ThrowBeforeTry`, `TailCallInTry`: shown by the violation runs.
* `NativeTailCallInMain`: a native called in tail position from a frame whose
  return address is NATIVE continues at address -1 (`vm/vm.c` 1007).
* `WritesForEver`: the output would grow without bound.
* Programs with a try block inside a catch block, or that recur inside one:
  `obj_thrown` is one per method (`vm/types.h` 143).
* `a.append(a)` (`a # b` in `KekArray`): the loop of `array_append` has no end.
* `Unsafe` of `GenGC`: promotion beside a copied neighbour and integers in
  remembered slots (both shown by violation runs); native stores of a young object
  into an old one (`vm/k_array.c` 126, 165, `vm/memory.c` 1155,
  `vm/k_exception.c` 56), which call no barrier.
* `DivisionGoesOn`: behind `/` and `%` the grammar goes on at the level of `||`
  (`compiler/parser.cpp` 1083), so `a / b * c` is rejected and `x + a / b || c` is read as
  `x + ((a / b) || c)`.
* `SwitchWithoutDefault`: its closing brace is not consumed (`parser.cpp` 1214).
* `SwitchCalls`: the expression of a switch is evaluated once per label
  (`compiler/strom.cpp` 1244).
* `DropsResult`, `FalseIfWithoutElse`, `ForNever`, `ConstantSwitch`: the optimizer reads a freed
  node (482, 492), leaves a null pointer (522), drops the initial assignment of a
  loop that never runs (556), passes over a label that is not a number (1137).
* `break` in a switch inside a loop is an error of the compiler (the context of a
  block is `C_NIL`); such programs are not written.
* In `MCClasses`: a parent declared after its child (its child's addresses
  begin at 0, `compiler/tabsym.cpp` 77); a member or method used in a text before it is
  declared in the same class (the name becomes a symbol; of a method call,
  `external` stays uninitialised, `parser.cpp` 690); a static search that begins in a class
  without statics (`StartsHaveStatics`; `SYM_STATIC` reads `syms_static[0]`, `vm/vm.c` 658); a class
  object and an instance at one call site (the cache compares the class only);
  `super.m()` with a native parent (`parser.cpp` 549 follows `CLASS_UNKNOWN`); a member named like
  a class; cyclic parents; a user class with the name of a native one; a parent other than
  Exception among the native classes.
* `Unsafe` of `KekArray`: appending in place and native growth with a pointer.
* Negative indices: undefined behaviour.

## 5. Fairness

* `CheneyGC`: weak fairness of `Retry \/ Scavenge`. The collector is a loop inside
  the allocation that called it; nothing else runs before it returns. The
  program's own actions carry no fairness: it may stop at any time.
* `Interp`: weak fairness of `Next`: one loop, executed until the program ends.
* `GenGC`, `Classes`: none; their properties are safety properties.
* `KekArray`: weak fairness of the growth steps, a loop inside a call.

In both memories nothing else is assumed of the loops: `ScavengeAdvances` and `NoRoundIsLost`, which
are proved, leave a scavenge and a growth only so many steps, whoever makes them and when.

## 6. Proofs

`CheneyGC_proofs` proves, for every number of roots, every segment size and
every table of kinds that satisfies `SizesAssumption`, `PaddingAssumption`
(an allocation or copy is at least as large as the structure) and
`ValuesAssumption` (marks are not values):

* `TypeCorrect`: `Spec => []TypeOK`,
* `TriColourTheorem`: `Spec => []TriColour`,
* `NoOverlapTheorem`: `Spec => []NoOverlap`,
* `Invariance`: `Spec => []IInv`, from which they follow,
* `ScavengeEnds`: `Spec => ScavengeAdvances`.

None of the three is inductive by itself. That a field of a copied object may be
overwritten safely needs that objects do not overlap; that the walk of the scan
pointer meets objects only needs that the copies lie back to back from it on
(`Walk`: every object from `scan` on is followed by another one or by the free
pointer); that the forwarding address is that of the copy needs that identities are not
shared (`Identities`); that `StartScavenge` begins in an empty segment needs
that the from-space is empty between scavenges (`Quiet`); that fields behind the
last one of a kind do no harm needs `Unused`; that `Retry` serves a request needs
`Requested`. `IInv` is the conjunction, without the parts about pointers once
`vm_error` has been called. The proof has one lemma for the copy of an object not yet
copied (`CopyFresh`), used by the root step and the field step, and one lemma per action.
`ScavengeEnds` is the safety half of `RequestAnswered`. The number that falls, `StepsLeft`, counts the
root slots not visited, the cells of the segment above the scan pointer, each as an object
with all its fields, and the fields left of the object at hand; what is in the to-space already does not
count, so a copy does not raise it. That `ScanObj` moves the pointer by a cell at least, and not beyond the
segment, is the part of `IInv` that says that the walk meets objects.

`GenGC_proofs` proves, for any set of objects and fields and any number of roots,
with `Unsafe = {}` as the hypothesis:

* `Typed`: `Spec => []TypeOK`,
* `RememberSetComplete`: `Spec => []OldToNew`,
* `Ageing`: `Spec => RootsAge`,
* `Refinement`: `Spec => ImplementsHeap`, the refinement of `Heap`.

`OldToNew` says nothing about the middle of a scavenge. The invariant `GInv` does:
slots that have been visited name copies or old objects (`Visited`), a promoted
object refers to nothing that is still young (`Together`; this needs that no
neighbour had been copied before), a slot of an object that was old
before the scavenge and names something that is or was young is remembered
(`Remembering`), and nothing in use is stale (`Whole`). From these `EndFacts`
derives that the scavenge leaves every slot in use as it was; the refinement
maps `EndScavenge` to `Collect`, the other steps of the scavenge to stutters.
`Unsafe = {}` is used at two places: in the promotion (`CopyFacts`) and in the
stores (`StoreStep`).

The second part of the module builds on `IInv`:

* `NoGarbage`: `Spec => []KeepsNoGarbage`,
* `Refinement`: `Spec => ImplementsHeap`, the refinement of `Heap`.

That an object is in the to-space only because something names it is a statement
about reachability, which is recursive. The invariant `Reached` avoids the recursion: each set of
copies that holds what the visited roots name, and what the visited fields of its members
name, is the set of all copies. A copy adds one object and one visited slot that names it;
at the end every slot is visited. In the refinement a copy changes the address of an object
and the slots that are visited, never what a slot stands for: through the forwarding
address an unvisited slot still means the same identity.

`KekArray_proofs` proves, for any finite set of arrays, any lengths and any initial size,
with more names of blocks than arrays and waiting addresses (`BlockAssumption`):

* `Typed`: `Spec => []TypeOK`,
* `Agreed`: `Spec => []LengthsAgree`,
* `Addressed`: `Spec => []AddressesUsable`,
* `GrowthEnds`: `Spec => []NoRoundIsLost`,
* `Refinement`: `Spec => ImplementsVector`, the refinement of `Vector`.

`Agreed` and `Addressed` with the hypothesis that nothing is appended in place, which the run
`append_in_place` shows to be necessary. The invariant has three layers. `TInv`
holds whatever the program does: no two arrays share a block, `alloc_size` is the size of the
block (`Shape`), and while an array grows, the call that waits for it still has the reason
it had (`Growing`). `AInv` adds the two properties, `VInv` adds `Clean`: cells that the
program can read hold values, those it cannot read yet hold NIL, none is stale. `GrowthEnds` assumes instead that `INIT_ARR_SIZE` is at
least 2 and that no array is made with a single element, since 1 * 3 / 2 is 1: the run
`one_element_array` shows the loop that never ends. Its invariant is that no block has a single
cell (`Roomy`).
`Refinement` has the hypothesis `Unsafe = {}`. It needs `Clean`, because an array that is extended shows cells that lay
behind its length, and that blocks are apart, because the owner of an address is
found by its block.

`Activations_proofs` proves, for every set of programs, every size of the stack and
whatever the natives return or throw:

* `FramesWhole`: `Spec => []FrameChain`,
* `CallersKept`: `Spec => CallersUntouched`,
* `RegistersValid`: `Spec => []Registers`,
* `Invariant`: `Spec => []IInv`, from which they follow.

`FrameChain` is not inductive: a store through an operand that is no address could
hit a saved register. `IInv` therefore carries, for the current frame, the operands
that the shape of its address promises, an address being one of a local of this very frame
(`Carries`), and for the frames below it a set `Callers(S)`: all its members wait for the
result of a call with their operands in place, and unwinding leads from each member to
another one or to the end. A call adds the current frame to the set, `BC_TCALL` leaves the set
alone, a return or an exception keeps the members below the frame it goes on in. Only the last
theorem turns the set into the chain `Frames`: by descent, since each caller has a smaller stack
pointer, which also gives the existence of the recursive function.

Two assumptions stand behind these theorems.

* `AllWellTyped`, their hypothesis: the programs are well typed. Nothing in the virtual
  machine establishes this; it is a property of the compiler's output. TLC checks it for each
  program of the runs `execution` and `expressions`, as the invariant `StartsWellTyped`.
* `ProgramAssumption` bounds the local variables of a method by `Slack`, the cells
  that `stack_init` allocates above `stack_size_g` because it counts the header in
  pointers (`vm/stack.c` 32-37). A call moves `sp_g` over the locals without a
  comparison, and neither compiler nor loader limits their number: with more of them
  the memory of the stack does not suffice. `InMemory` is therefore no theorem here: under this
  assumption it says no more than that `PUSH` compares.

`Classes_proofs` proves, for any programs, values and number of objects,

* `CachedIsCurrent`: `Spec => []CachesCurrent`,
* `AddressesFit`: `Spec => []AddressesApart`.

For the first the invariant adds that the caches are empty until the machine runs (`Untouched`). From then on
classes, constants and code are `Fixed`, so a lookup gives the same at any later time
(`LookupFixed`). An entry holds the class only, while a lookup also depends on whether `this` is
a class: `ThisFacts` shows that the site decides this, since a method is static or it is not, and an
object is never taken for a class (`NoneAssumption`). That rests on an input which the model
excludes (section 4): a variable with a class object in one round and an instance in the next.

`AddressesFit` assumes of a program no more than its shape (`IsProgram`): a sequence of classes with a
name, a parent and a body, none named like the marks that stand for no parent and for one the
compiler does not know. Whether parents come first, whether members are declared twice and
what the bodies refer to is left open. The invariant `TablesInv` says of each class in the
table that its addresses fill the interval from the first to the next one (`Fill`), of the
declarations still to be read that they begin with a class. A class that another one was
derived from lies further down in the table, where nothing is changed any more: that the parent
has been read to its end is why its counters can be copied when the child begins.
`LineBelow` then goes along the ancestors without recursion: the classes whose addresses end at or below
the first one of class i are closed under parents, and `Line` is the least such set.

`Linking_proofs` and `Slots_proofs` follow the variables of an object from the text to its cells
and prove, for any programs and values and any number of objects,

* `VariablesFit`: `Spec => []SlotsApart`.

Its hypotheses are `IsProgram`, as above; `ParentsFirst`: a parent is `Exception` or is declared
before its child, and no class has the name of the native one; and that `NONE` is neither a
class (`NoClass`) nor one of two names (`NoneApart`), which any model value satisfies. Without `ParentsFirst` the
property is false: the addresses of a child that is read before its parent begin at 0
(`compiler/tabsym.cpp` 77). TLC evaluates it for the programs of the run `classes`.

The invariant `MachineInv` has four parts: `TablesInv` from above; `ReadInv`, that the table holds what
has been read of the text, each class with all of its variables (`AsRead`); `ParentsFirst` of the program; and
`LinkInv`, which goes with the phases:

* `load`: the file is that of the table (`FileOf`);
* `builtin`: each class is `LoadedFrom` the one at its place in the table, its variables in the
  order of the text again. `FileLoaded` shows it: `Layout` says where the tokens of a class
  begin, `ClassLoaded` that the loader, put there, stops where the next class begins;
* from `parents` on: Exception is behind them (`WithBuiltin`);
* from `sizes` on: `parent` is the class of that name, 0 if there is none (`Linked`);
* from `consts` on: `total` is the compiler's counter of the class, `offset` that of its parent,
  and 1 for a child of Exception (`Sized`).

That the walks of the linker along the parents end is shown with `Walk` of `LeastNumber`: a
recursive function exists if each value comes from that of a smaller number, and the parent of
class j of the text has a smaller number. `PlacedAll` then goes through the classes in the order of
the text: the variables of the class itself have the addresses from its parent's counter up to
its own (`OwnPlaced`), those of its ancestors lie below (`BetweenJoined`).

`LeastNumber` holds what these proofs need of induction: that a set of numbers that is not
empty has a least one, that a set with 0 that is closed under successor is everything, and `Walk`. Named
operators take the place of the parameter that the library's theorems have.

Only model-checked:

* `RequestAnswered`, `Termination`, `GrowTerminates`: liveness is beyond the prover; for the first and
  the last, `ScavengeEnds` and `GrowthEnds` prove what does not depend on fairness.
* `ReadsBack`, `AgreesWithSource`: parser, compiler and reference meaning are
  recursive operators over trees, which the prover does not accept, and what they
  compute needs induction over data.
* `TypeOK` of `Execution`: the values in the cells come from `Arith`, whose
  operators are defined by recursion over bits.
* `InMemory`: its hard case is what `ProgramAssumption` leaves out, so a theorem would say too little.
* `TailCallsAreFree`, `OperandsBalanced`: both compare the state with the recursion depth or the
  statement the program was compiled from.
* `LoadedAsDeclared` of `Classes`: `Linking_proofs` reads names, parents and instance variables back from
  the file, not the static members, constants and methods, which the property is about as well.
* `TypeOK` of `Classes`: that an object has a class needs that `new` names a class that is declared, of
  which the compiler is no judge; that there are as many caches as items of code is in the rest of the file.
* `ImplementsObjectModel`: it needs `LoadedAsDeclared`, and what each name in a body resolves to.

## 7. Not modelled

* Strings, files, terminal: data, not control; natives appear as calls that return or
  throw, Exception also as a parent class (without its `type`, a string made of the
  name of the class).
* The lexer (`lexan.cpp`): the parser's input is a sequence of tokens.
* Array literals and offsets in the grammar, enums, string constants, `return` in
  constructors (rejected by the parser).
* The order of static initializers, which `main` runs from the last class to the first, one nested
  loop each: `Classes` lets the sites of an initializer run at any time, for its own class only.
* The growth of the constant table (`ct_malloc`) and of the class file.
* The free list of `GC_NONE`, the object table (`memory.c` 798-913, unused), GC_GENMAS
  (a stub).
* Widths of operands: 16 bits in the code, natural numbers in the model; TLC
  cannot reach 65535.
* Debug output and the printing functions.
