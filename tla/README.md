# TLA+ models of parts of the ART runtime and compiler

This directory holds TLA+ models of the sources under `src/`. It contains:

* the TLC configurations that check the models;
* `PROJECT.json`, which records:
  * the components and which module models each;
  * every run and the mutant that shows each of its properties can fail;
  * the findings;
  * the hazards: what is hard to test in this code, with the properties that cover each one;
  * the map from every model definition to the source lines it translates.

Every module is written from the code, and each definition keeps the code's
names. Where a collaborator is not in the repository (lock entrypoints,
allocation, OatWriter), it is modelled from its documented behaviour, and the
map marks that definition `spec_modelled`.

## 1. The system and how its parts interact

| Part | Source | Module(s) |
|---|---|---|
| Mark-compact collector, `mirror::Reference` referent | `runtime/gc/collector/mark_compact.cc`, `runtime/mirror/reference.h` | `MarkCompact` (refines `Heap`), `MCMarkCompact` |
| Local value numbering, memory versions, GVN value table | `compiler/dex/local_value_numbering.cc`, `global_value_numbering.h` | `LocalValueNumbering`, `MCLocalValueNumbering` |
| Bounds-check value ranges | `compiler/optimizing/bounds_check_elimination.h` | `BoundsCheckElimination`, `MCBoundsCheckElimination` |
| ValueRangeMap | same header | `ValueRangeMap`, `MCValueRangeMap` |
| Fault manager | `runtime/fault_handler.cc` | `FaultManager`, `MCFaultManager` |
| `mirror::String` | `runtime/mirror/string.cc`, `string-inl.h`, `string.h` | `MirrorString`, `MCMirrorString` |
| arm64 monitor lowering | `compiler/dex/quick/arm64/call_arm64.cc` | `CallArm64`, `MCCallArm64` |
| ELF writer | `compiler/elf_writer_quick.cc` | `ElfWriterQuick`, `DwarfCFI`, `MCElfWriterQuick` |

How the parts interact:

* **Quick compiler.** It numbers values block by block: one LVN per block, with names taken from the GVN value table. The null-check and range-check flags LVN sets on MIRs are trusted by the code generator, so a wrong value name becomes a missing check in generated code.
* **arm64 back end.** It lowers `monitor-enter`/`monitor-exit` to an inline thin-lock sequence that falls back to the runtime's lock entrypoints.
* **ELF writer.** It wraps the finished oat file in an ELF shared object that the dynamic linker later maps.
* **Optimizing compiler.** Its bounds-check elimination keeps one `ValueRangeMap` per block and looks ranges up along the dominator tree.
* **Collector.** It runs stop-the-world and reaches the rest of the runtime through root, mod-union and system-weak callbacks. Between `FowardObject` and `MoveObject` it borrows each object's lock word to hold its forwarding address. This is the same lock word the arm64 monitor code reads and writes.
* **Fault manager.** It owns the SIGSEGV action and dispatches faults to the handlers the runtime registers.
* **`mirror::String`.** Its hash code is cached lazily and written by any thread that asks for it.

## 2. Modules

**Heap / MarkCompact.**
* `Heap` is the abstract contract: mutator operations, plus an atomic `Collect` that drops what the program cannot reach. Objects in `RefIds` are `WeakReference`s: their field (the referent) keeps nothing alive, and `Collect` clears it when the referent is dropped. The ghost `epoch` flips with every `Collect`, so a collection that frees nothing is still a visible step and cannot be skipped.
* `MarkCompact` keeps memory as a function from addresses to cells. `objects_before_forwarding_` is modelled in half alignment units: start bits are even and end bits odd, exactly as `MoveObjectVisitor` reads them. The lock-word FIFO is `lockQueue`.
* Each step of `RunPhases` is one action: `InitializePhase`, `MarkingPhase`, `ProcessMarkStackStep`, `MarkingPhaseEnd`, `ReclaimPhase`, `FowardObject`, `UpdateReferences`, `MoveObjectVisitor`, `CompactEnd`, `FinishPhase`.
* Weak references: `ProcessMarkStackStep` follows `ScanObject`. An ordinary object's field is marked; a `Reference` goes to `DelayReferenceReferent`, which queues it in `delayed` if its referent is not yet marked. `MarkingPhaseEnd` then runs `ProcessReferences`, which clears the referents still unmarked, and `SweepSystemWeaks`. `ReferenceProcessor` is not in the repository, so its weak-reference path is modelled from these call sites. `FinishPhase` flips `epoch`, matching `Heap`'s.
* The mutator runs only between cycles, because the collector holds the mutator lock exclusively.
* Refinement mapping: `AbsHeap` reads the abstract heap out of memory through ghost ids, and during a cycle it is the snapshot taken by `InitializePhase`. `HeapSpec` is `Heap`'s specification as a property. A reference to an address that holds no object (freed, or left behind by compaction) maps to `Dangling`, which `Heap` never holds, so a referent that is kept without being marked is told apart from one that is cleared.

**LocalValueNumbering.** LVN runs together with an interpreter of the same block.
* Each step is one instruction. The LVN half is the `GetValueNumber` case for its opcode (CONST, CONST_HIGH16, ADD_INT, ADD_INT_LIT8, MOVE, MOVE_EXCEPTION, NEW_INSTANCE, MOVE_RESULT_OBJECT, IGET/IPUT on resolved, volatile and unresolved fields, SGET/SPUT_OBJECT, INVOKE, NEW_ARRAY, FILLED_NEW_ARRAY, ARRAY_LENGTH, AGET/APUT, and the wide cases CONST_WIDE_16/32, CONST_WIDE, CONST_WIDE_HIGH16, MOVE_WIDE, MOVE_RESULT_WIDE, INT_TO_LONG, ADD_LONG and CMP_LONG). The interpreter half is what the instruction does to registers and the heap.
* Callees, and another thread writing volatile fields, act on whatever they can reach.
* Wide registers are named through `wideValue`, the model of `sreg_wide_value_map_`. A long executes to four 16-bit halfwords, because TLC's integers are 32 bits. A wide constant is keyed in three lookups: the low word, the high word, then the pair of their names. INT_TO_LONG reads its int operand with `GetOperandValueWide`, as the code does, so the operand gets a first-use name of its own in the wide map.
* The block is generated while it runs, so a run covers every block of up to `MaxInsns` modelled instructions.

**BoundsCheckElimination** covers `ValueBound`, `ValueRange` and `MonotonicValueRange`.
* They are operators over W-bit two's-complement ints, applied to a counted loop `for (i = init; i <cond> y; i += inc)` with `if (i < a.length) a[i]` in the body. The loop runs on concrete values.
* W = 4. The header only ever uses `INT_MIN`/`INT_MAX`, so narrowing the width keeps every overflow edge within reach.

**ValueRangeMap.** Its actions are `Add`, `Lookup` and `LookupValueRange`. The state is the slot table, the collision list and `number_of_entries_` of each block's map, plus a ghost `added`: the plain map the structure should implement.

**FaultManager.**
* Actions: `LibraryInstalls` (another library's `sigaction`), `FaultManagerInit`, the handler constructors (`AddHandler`), `RemoveHandler`, and `HandleFault` with `IsInGeneratedCode`.
* A fault is handled in one step, because the signal handler runs to completion on the faulting thread.

**MirrorString.**
* Hash code: `GetHashCode` is three actions per thread (read `hash_code_`, compute and store it, read it again and return). This lets two threads interleave on the unsynchronised cache.
* `SetHashCode` keeps its `DCHECK_EQ(0, hash_code_)`. The constant `DebugBuild` says whether DCHECKs are compiled in. In a debug build a thread whose store finds the hash already there aborts the runtime (`crash`), and every step stops. The ghost `storer` records which thread stored each hash.
* Pure operations are single calls recorded in `last`: CompareTo, FastIndexOf, both Equals, the decoding of `AllocFromByteArray`, and the copies of AllocFromString/AllocFromStrings/ToCharArray/GetChars. Each is checked against a reference definition of what `java.lang.String` documents.
* `Alloc` may fail and return nullptr (`NullRef`), as the heap does when it is exhausted. AllocFromString and AllocFromStrings check for it and return nullptr. `ToCharArray` does not check: for a non-empty string it writes through the null pointer, which the model records as a SIGSEGV crash.

**CallArm64.** Two threads on one object execute the emitted instructions as A64 executes them.
* Both generators take the `kArchVariantHasGoodBranchPredictor = false` branch, a `constexpr`. That branch is the Thumb2 sequence of the ARM back end: `OpIT` followed by instructions marked `/*eq*/` and `/*ne*/`. A64 has no IT instruction and its `stxr`, `str`, `ldr` and `blx` are unconditional, so every one of them executes. `OpIT` and the encoding tables are outside the repository.
* `ldxr`/`stxr` encode a base register and no offset, so `kA64Ldxr2rX`/`kA64Stxr3wrX` address `[x0]`, the object's class pointer (`klassWord`), not its monitor word.
* Monitor enter: `EnterLdxr`, then `EnterStxr` (the store into the class word succeeds while the reservation stands, or fails), then always `LockSlow` (`pLockObject`).
* Monitor exit: `ExitLdr`, then `ExitStr` (the `str` of 0 into the lock word), then always `UnlockSlow` (`pUnlockObject`), which throws IllegalMonitorStateException (`"ims"`) for a lock the thread does not hold.
* `Inflate`: a contended thin lock is inflated once its owner is at a suspend point.
* The lock word layout, the entrypoints and thread suspension are spec-modelled.
* Memory is sequentially consistent. Any store to the object clears every ldxr reservation.

**ElfWriterQuick.** `ElfWriterQuick::Write` is split as the code splits it.
* **Phases 1 and 2** are pure operators of the inputs, recorded once in the variable `elf`:
  * inputs: the oat data and code sizes, the file path, the debug section sizes and the instruction set;
  * `Layout` holds every offset and `RoundUp`;
  * `ElfHeader`, with the `LOG(FATAL)` for `kArm`;
  * `ProgramHeaders`, `Dynsym`, `HashTable` and `DynamicHeaders`;
  * `SectionHeaders`;
  * the two string tables, abstracted to pieces of known length.
* **Phase 3** is a state machine over the file position and the list of writes that reached the file:
  * `Prepare` (the phase-2 abort);
  * `WriteStep` (`lseek` or the `SEEK_CUR` check, then `WriteFully`);
  * `SeekFails` and `WriteFails` (`return false`);
  * `Finish` (`return true`).
  * `.rodata` and `.text` are one write of `GetSize()` bytes through the oat writer.
* **DwarfCFI** models `FillInCFIInformation` with `UpdateWord`, `PushWord` and `PushHalf`. It builds the `.debug_abbrev`, `.debug_info` and `.debug_str` bytes from the method table (`GetCFIMethodInfo`), whose entries are records [name, low, high]:
  * `Abbrev` and `InfoHeader` are the fixed bytes;
  * `MethodStep` is one iteration of the method loop, folded with `FoldLeft`;
  * `FillInCFIInformation` appends the terminator and patches the unit length and the unit's [low_pc, high_pc] with `UpdateWord`.
  * Bytes are taken from the int as `>>` and `& 0xff` take them, and uint32 values at or above 2^31 are held as their int32 reading, with `U32Less` as the unsigned order.
  * A reference reader (`AbbrevDecls`, `Dies`, `Attr`, `StrFrom`) is written from the DWARF 3 format and not from the code. In `ElfWriterQuick`, `WithCFI` runs `FillInCFIInformation` once per debug input, before the layout, as `Write` does at line 296. `DebugSizes` takes the three section sizes from the resulting vectors.

Definitions whose names end in a defect (`...NoResize`, `SH_NUMSwapped`, `HashTableNoSkip`, `StepsDynamicNoSeek`, ...) are the mutants listed in `PROJECT.json`. Each sits just before the definition it replaces.

## 3. Runs

| Run | Expect | What it shows |
|---|---|---|
| `mc_safety` | pass | Every collection refines an atomic `Collect` (`HeapSpec`) and every collection that starts finishes (`GcCompletes`). Between cycles the space is walkable and counted. `memmove` never clobbers an unmoved object. The lock-word FIFO stays paired with the bitmap walks. |
| `lvn_safety` | pass | Equal value names, narrow or wide, mean equal values, null-checked names are never null, unique names are unreachable from elsewhere, and no removed range check lets an access run out of bounds. This holds with 16-bit CONST literals, one LIT8 literal and fresh exceptions. |
| `lvn_const_key` | violation | CONST 0x10000 and CONST 0 get one value name (finding). |
| `lvn_lit_key` | violation | `x + 1` and `x + 2` written as `ADD_INT_LIT8` get one value name (finding). |
| `bce_safety` | pass | For loops away from the int edges, the range derived for `i` contains `i`, and no removed bounds check fails. |
| `bce_unbounded_loop` | violation | `for (...; i <= INT_MAX; i++)`: `i` wraps and `a[INT_MIN]` loses its check (finding). |
| `vrm_safety` | pass | `LookupValueRange` returns the range last added in the nearest dominating block. The count and the collision list agree with the table. |
| `fault_safety` | pass | Unclaimed faults reach the action installed before ART. A fault in generated code that a registered handler accepts is never passed on. |
| `fault_remove_handler` | violation | `RemoveHandler` of a registered handler always reaches `LOG(FATAL)` (finding). |
| `str_safety` | pass | In a debug build, two threads racing on `GetHashCode` always return the hash, including for a string whose hash is 0. `SetHashCode`'s DCHECK aborts only when another thread stored the hash after this thread read 0 (`DcheckOnlyOnRace`). Every pure operation matches its Java definition, and the allocating copies return nullptr exactly when the allocation fails. |
| `arm64_monitor` | violation | One thread's first synchronized block throws IllegalMonitorStateException on exit (`ExitsSucceed`), in 8 states (finding). |
| `elf_safety` | pass | The file's parts are disjoint and aligned. PT_LOADs cover every allocated section, with matching permissions and no shared pages. The dynamic linker finds every symbol through `.dynamic` and `.hash`, inside its section. A `true` return means every part the headers describe was written and not overwritten. `CFIDecodes`: the DWARF reader decodes the debug bytes to one compile unit, with one subprogram per method carrying its name and pcs, and the unit's range is the unsigned minimum and maximum of the methods'. |

**Bounds, and why they are enough.**
* **Collector:** a space of 3 alignment units, with objects of 1 and 2 units, one non-moving slot, one image object, one root, 2 allocations (the second one a weak reference, `RefIds = {2}`) and 5 mutator steps. These are enough for a referent that is reachable only through the reference: allocate X, store it in the image object, allocate the reference R, set R's referent to X, then clear the image object's field. A dead object below a live one forces overlapping slides. Two sizes exercise the bit pairing. The image object exercises the mod-union update. Mark-stack capacity 1 forces `ResizeMarkStack`. Collections repeat, so every reset is exercised.
* **LVN:** blocks of 3 instructions (2 for the violations) over one object argument, one int[] argument of length 1 (or null), one resolved, one unresolved and one volatile field, and one static. The wide literals are CONST_WIDE_16 #-1 and CONST_WIDE #0xffff, which share their low-word key, so only the sign-extended high-word key keeps them apart; and CONST_WIDE_HIGH16 #0xffff. This is enough for every alias and escape path of two loads separated by one store or call, and for a checked array access followed by one at another index. Blocks of 4 instructions with a null int[] argument (1.9 million states) also pass, but they take longer than the time a run is given.
* **BCE:** 4-bit ints with every edge constant. **VRM:** three instructions, two of which hash to the same slot of a two-slot table, up to 4 adds, and a three-block dominator chain.
* **Strings:** up to 2 chars over {0, 0xE9, 0xFFFF}, whose differences span the uint16 range. Every allocation is tried both succeeding and failing. `DebugBuild = TRUE`, so the DCHECK race is reachable: two threads read 0 from the same string with a non-zero hash, and both compute it.
* **arm64:** two threads, two rounds, nesting 2. A single thread reaches the violation.
* **ELF:** `.text` of 4, 4096 and 4100 bytes. 4100 ends inside a page, so the page alignment of `.dynamic` matters. There are four paths (soname lengths 0 to 3, which shift `.hash`'s RoundUp), no debug information or a method table that is empty or has two methods (names of 1 and 2 bytes, so `.debug_str` has an odd size; pcs that differ in every byte, the lower one in the second entry, so both the minimum and the maximum are updated), and all four instruction-set cases.

**Fairness.**
* Only `mc_safety` assumes fairness: weak fairness of the collector thread, which runs `RunPhases` to completion with mutators suspended. The mutator gets none.
* The other passing runs check safety only.
* `CHECK_DEADLOCK FALSE` appears where the modelled program really stops: a finished block, loop or call sequence.
* `mc_safety` and `elf_safety` check deadlock. The collector's mutator can always start another cycle. In the ELF writer a `Terminated` step is the only way to stop, and it is enabled only when `Write` has returned. `str_safety` does not check deadlock, because a DCHECK failure or a SIGSEGV stops the runtime.

## 4. Findings

* `fault_handler.cc:96`: `RemoveHandler` has no `return` after a successful erase, so it always reaches `LOG(FATAL)`. It also erases `other_handlers_` with the iterator of the other list.
* `local_value_numbering.cc:245`: the CONST key uses `High16Bits(vB >> 16)`, which is always 0.
* `local_value_numbering.cc:471`: the `*_LIT` keys use `vB`, the source register, instead of the literal `vC`.
* `bounds_check_elimination.h:285`: an unbounded loop condition leaves a monotonic range that a later `if (i < a.length)` narrows as if `i` could not wrap.
* `call_arm64.cc:308`: `GenMonitorExit` emits the Thumb2 sequence `cmp; IT EE; str; ldr; blx`. On A64, which has no IT, the `str` of 0 and the `pUnlockObject` call both execute, so every monitor-exit throws IllegalMonitorStateException. `GenMonitorEnter` has the same fault at lines 246-253, and its `ldxr`/`stxr` overwrite the class pointer.

`PROJECT.json` also lists hazards no run checks, each with the reason. Examples:
* `MonotonicValueRange::Add` of a decreasing range (`bounds_check_elimination.h:352`) builds its upper bound from the lower bound. Its caller is not in the repository.
* `oatlastword` is misplaced for less than a word of code.
* There is no release barrier before the arm64 unlocking store.
* For an empty packed-switch table, `size - 1` wraps to 0xFFFFFFFF at `call_arm64.cc:140`. The bounds check then never branches, and the dispatch reads the table at the key's index.
* `String::ToCharArray` (`string.cc:284`) writes through a null `CharArray::Alloc` result when the heap is exhausted. `str_safety` reaches this crash.
* Two threads that fill the same string's hash code at once trip `SetHashCode`'s DCHECK in a debug build (`string.h:155`). `str_safety` reaches this abort.

Two observations on the DWARF bytes, which `CFIDecodes` tolerates:
* `.debug_abbrev` ends after the last attribute list, without the 0 code that DWARF 3 (section 7.5.3) puts at the end of the table. The reference reader, like common readers, also stops at the end of the section.
* With an empty method table, the compile unit's range is [0xFFFFFFFF, 0].

## 5. Not modelled

* **Collector:** soft, finalizer and phantom references, and enqueuing of cleared references (`queue_`, `pending_next_`). A referent marked through a strong path after its reference was queued needs more mutator steps than the bound allows. Also not modelled: class objects in the compacted space, the card table, allocation stacks, TLABs, and the large-object space, which holds no references.
* **LVN:** float and double values and the wide shifts, object arrays, CONST_STRING/CONST_CLASS, and unresolved or volatile statics.
* **GVN driver:** `global_value_numbering.cc` is not in the repository.
* **GraphChecker, MIR graph accessors:** no state of their own worth checking.
* **arm64:** `GenPackedSwitch` and `GenSparseSwitch` (dispatch arithmetic), `GenFillArrayData`, `GenMoveException`, `MarkGCCard`, the entry and exit sequences, and weak memory ordering.
* **ELF:** the content of `.debug_frame` (the compiler driver's call frame information, written as it is), partial writes (a failed write ends `Write` and the file content is left open), and `ElfWriterQuick::Create`.
* **Other code:** the x86-64 calling convention, the x86 context, the graph visualizer and sigchain are declarations or output formatting.
