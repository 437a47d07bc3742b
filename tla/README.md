# Verification of volar-ir

TLA+ models of the parts of volar-ir whose correctness rests on state and
order, checked by TLC on small instances, with the central results proved by
TLAPS for all values of the constants.

## 1. The system

volar-ir is a family of compiler intermediate representations and the passes
between them.  A program enters as LLVM IR, WebAssembly or through the LIR
builder, becomes VAFFLE (an SSA form with functions), is lowered to Volar IR (a
control-flow graph of typed blocks without functions), is *movfuscated* into one
block that loops on itself, unrolled to a circuit, bit-blasted to Boolar IR, and
handed to backends, provers or the MPC runtime.

| part | state it keeps | operations | what is hard |
|---|---|---|---|
| pool allocator (`crates/alloc/pool-alloc`) | chunks, free lists threaded through the payloads, page counters, dead pages, a recycle stack, a spin lock | `alloc`, `dealloc`, `realloc`, the phase switches | pages released under live slots, stale pointers in freed memory, counters that must agree, lock left taken on a null return, blocks returned to the wrong allocator |
| Volar IR and its interpreter (`crates/ir/volar-ir/src/ir.rs`, `crates/fuzz/volar-fuzz/src/interpreter/ir.rs`) | current block, SSA values, typed storage cells | one statement, one terminator | meaning of block references, of undefined branches and of storage keyed by type |
| movfuscation (`crates/ir/volar-ir-passes/src/movfuscate.rs`, `dispatch_accumulator.rs`) | program counter bits, state slots, accumulators of the emitted block | statements of all blocks, accumulation, loop | every block runs in every iteration on slots that other blocks filled |
| CFG layout (`cfg_layout.rs`) | block numbering | renumber and drop blocks | references that are data |
| unrolling and circuits (`lower_to_circuit.rs`, `unroll_ir.rs`, `fuse_to_circuit.rs`) | copies made so far, gate cache; the block put together, constants known in it, places visited | copy a block, close a copy; enter a block, fold, follow a branch | copies that run past the end, sharing of gates, branches decided by stale constants, walks without an end |
| MPC scheduler (`crates/ir/volar-ir-common/src/schedule.rs`, `scheduler.rs`) | epochs, open transactions, claims, committed storage, trace | `begin`, `read`, `write`, `commit`, `abort`, `finish_epoch`, the planner | physical order against canonical order, conflicts, poisoning |
| reversible circuits (`to_reversible.rs`, `from_reversible.rs`, `rcircuit.rs`) | wire of each variable, pool of scratch wires | lower a statement, copy out, harden, lead back | a wire taken over while it is still read, scratch that is not zero again, borrowed wires |
| storage lowering (`storage_to_mux_*.rs`, `region_lowering.rs`) | one variable per cell | read and write as multiplexers | order of accesses |
| optimizer (`crates/ir/volar-ir-opt`) | available stores per block, aliases and constants, remap tables | forward, fold, dead code, common subexpressions, batch | aliasing, back edges, renumbering, passes that undo each other |
| virtualization (`crates/ir/volar-ir-virt`) | table of deduplicated blocks, dispatcher state | split, hash, dispatch | two blocks merged that differ |
| VAFFLE and its lowering (`crates/ir/vaffle`, `crates/ir/volar-vaffle-target`) | call frames, stack pointer, stored return references | call, return, alloca | calling convention |
| LIR and its recording (`crates/ir/volar-lir*`, `volar-ssa-lir-replay`) | builder state | record, replay | ids reused by replay |
| side tables, provenance, text formats, fields, gadgets, backends, frontends, tools | none of their own, or pure data | conversions | (sequential; tested and fuzzed) |

Components interact by data: each pass consumes a program and produces another,
so the interfaces to specify are *what a program means* (VolarIR) and *what a
pass preserves* (a refinement).  The pool allocator is the exception: it lies
under all of them as the global allocator, is called from every thread, and a
driver switches its policies between phases.

## 2. Modules

| module | models | kind |
|---|---|---|
| `PoolAlloc` | `pool-alloc/src/lib.rs` | component |
| `MCPoolAlloc` | request families for `PoolAlloc` | TLC |
| `PoolAllocProofs` | the spin lock excludes, every chunk's slots are accounted for | TLAPS |
| `VolarProgram` | programs, statements, terminators, well-formedness | data and operators |
| `VolarIR` | the reference interpreter: what a program means | abstract specification |
| `Movfuscate` | the code the movfuscation pass emits, and the refinement mapping to `VolarIR` | detailed specification |
| `MCPrograms` | constructors of small programs, shared by the MC modules below | TLC |
| `MCMovfuscate`, `MCMovSupported` | families of small programs | TLC |
| `MovfuscateProofs` | the combined block implements the source program, inactive blocks do nothing, slots keep their types | TLAPS |
| `ScheduleManifest` | claims, scopes, ranges, extraction, `validate` | data and operators |
| `StorageLog` | what one iteration observes of the storage bank | data and operators |
| `SerialSchedule` | the iterations run one after the other | abstract specification |
| `SchedulePlan` | the planner, `plan_from_iterations` | component |
| `Scheduler` | planner and `ScheduleRuntime` together, and the refinement mapping to `SerialSchedule` | composed specification |
| `MCScheduler` | small programs, storages and callbacks | TLC |
| `SchedulerProofs` | planned schedules are serializable, extracted claims are enough | TLAPS |
| `CfgLayout`, `MCCfgLayout` | `cfg_layout.rs`, and the refinement mapping to `VolarIR` | detailed specification, TLC |
| `CfgLayoutProofs` | the walk finds what can be reached, and the program laid out implements the source | TLAPS |
| `StoreForward`, `MCStoreForward` | `store_forward.rs` for Volar IR, and the refinement mapping to `VolarIR` | detailed specification, TLC |
| `Circuit`, `MCCircuit` | `lower_to_circuit.rs` and its driver, and the refinement mapping to `VolarIR` | detailed specification, TLC |
| `CircuitProofs` | the circuit implements the loop and delivers its result | TLAPS |
| `IrBlock` | a block with its statements spelled out, its meaning, constant folding | data and operators |
| `Optimizer`, `MCOptimizer` | `volar-ir-opt/src/ir.rs` and the `FoldIr` loop of the pipeline | component, TLC |
| `Unroll`, `MCUnroll` | `unroll_ir.rs`, and the result run beside the program | component, TLC |
| `Reversible`, `MCReversible` | `to_reversible.rs`, `from_reversible.rs`, `rcircuit.rs` | component, TLC |
| `ReversibleProofs` | the inverse undoes, the circuit led back computes the same, what sequences of gates do | TLAPS |
| `SynthesisProofs` | synthesis keeps live variables on wires of their own and restores scratch wires, `to_reversible` computes the circuit and cleans up | TLAPS |
| `FoldTheorems` | induction on numbers, and on an operation carried through a sequence | TLAPS, instantiated by `CircuitProofs`, `ReversibleProofs` and `SynthesisProofs` |

`VolarIR` is the hub: `Movfuscate`, `CfgLayout`, `StoreForward` and `Circuit` each
implement it under a mapping of their own.  The pipeline composes by
transitivity: what `CfgLayout` or `StoreForward` makes of a program is again a
program of `VolarProgram`, `Movfuscate` starts from such a program, and `Circuit`
from a single block that jumps back to itself, which is what movfuscation leaves.
`Optimizer` and `Unroll` look inside statements and stand on `IrBlock` instead.

### 2.1 PoolAlloc

The unit of memory is the 8-byte word: a header is two words and a free-list
node needs two (next pointer and `NODE_MAGIC`).  `mem` is the data region of
every chunk as tagged words, so what the allocator writes into payloads, what
the owner wrote and what `madvise` drops all meet in one place.  `chunk` is the
`Chunk` record (`outstanding`, `fill`, the three per-page counters, bucket
heads, dead bits), `head` and `free_chunks` the two lists of chunks, `call` the
point each thread has reached inside `alloc`, `dealloc` or `realloc`.

Actions follow the code's own steps: `alloc`/`dealloc`/`realloc` decide the
route without the lock, `lock` is the compare-exchange, and the critical
section is split where the code calls its helpers (`AllocPick`, `AllocReuse`,
`AllocBump`, `RecycleChunk`, `new_chunk`, `AllocNull`; `DeallocSlot`,
`PushNode`, `ReleaseSlot`, `drop_chunk`, `maybe_sweep`, `DeallocGated`).  A
`pool_fatal` ends the process: it sets `fault`.  On macOS `madvise` drops pages
lazily, which `LazyMadvise = TRUE` models as a choice.

Left out: diagnostics (trace ring, `POOL_SHADOW` mirror, `verify_meta`, the
probe counters), which only observe.  On the direct and gated paths the system
allocator may answer with null, which is handed on without a change of anything
modelled: a stuttering step, so it is no action.  Null from the system for a chunk
is `AllocNull`; the shadow block that is lost when the chunk's record then fails
(line 818) is below the model, which does not count system blocks.

### 2.2 VolarProgram and VolarIR

A program is a record of blocks; a variable is its position in the block's table
of values.  Pure statements (`Poly`, `Transmute`, `Rol`, ...) carry the function
they compute: no modelled pass looks inside them.  Storage is keyed by storage,
type and address.  A terminator is `Jmp`, `JumpCond` or `JumpTable`, a target a
block, a return, or `Dyn`: a block reference held in a variable.

`VolarIR` runs a program one statement at a time, as `eval_ir_with_storage`
does.  Where the interpreter panics (no matching case, a reference to no block, a
block with other parameters) the meaning ends: `Panic`, after which anything
implements it.  The interpreter pads or truncates a written value to the width
of its type, which is the identity on well-typed programs.  It panics on
`ActionCall`; the meaning given here is that of the statement's documentation.

### 2.3 Movfuscate

The pass turns the blocks into one whose parameters are the bits of a program
counter and the state slots.  The model has one step for the code of one source
statement (`emit_block_stmts`), one for a block's parameters (`EnterBlock`), one
for a block's contribution to the accumulators (`Accumulate`), and the final
`JumpCond(done, Return, Block(0))` (`Loop`, `Return`).  Slots are classes of
parameters by position and signature (`compute_static_slot_classes`); block
references live in the even storages as vectors of program counter bits, all
else in the odd ones (`LaneOf`); a write of an inactive block puts back what it
finds (`GatedWrite`); the state's accumulation is by differences (`AccumStep`).
Addition is the parameter `Add` for field values and `Xor` for bits.

`Source` is the refinement mapping: the source program is at block `pc`, its
values are the table of that block, or the parameters waiting in the slots while
its code has not run yet, and its cells are the lanes.

`Supported` says what the pass needs of a program: conditions it checks with a
panic, and conditions it relies on in silence (see Findings).

Left out: the Boolar instance of the same driver (`BIrCtx`), whose ungated
`StorageWrite` is a documented limitation; `Rng`, `Oracle` and `ActionStore`;
provenance and side tables.

### 2.4 The scheduler

Iterations of an MPC program share a typed storage bank.  The compiler extracts
for each the storage keys and address ranges it may touch (`StorageClaim`), the
planner cuts the program order into epochs of independent iterations, and the
runtime lets workers run the iterations of the current epoch as transactions:
reads see the bank and the transaction's own writes, writes are buffered until
`commit`, and `finish_epoch` is the barrier.

`SchedulePlan` takes one step per turn of the planner's loop.  Lists that the
code sorts and deduplicates are sets; a manifest is a function from iteration
ordinals to descriptors that carry their epoch.  `Scheduler` has the runtime's
fields as variables (`bank`, `current_epoch`, `active`, `trace`, `aborted`;
`completed` is the domain of `trace`) and `txn`, the transactions that workers
hold, each as the log of what its callback has observed.  One action is one call:
`new`, `begin`, `access` (`read` or `write`), `commit`, `abort`, `finish_epoch`,
and the refused calls (`begin_refused`, `commit_refused`, `finish_refused`),
which differ in whether they poison the runtime.  `execute_epoch` is the sequence
of these calls with one transaction at a time; its own error, an order of the
wrong length, is in `finish_refused`.  The callback is a parameter: any function
`Step` of the logical step and of the log so far, errors included, says what it
does next.

Extraction works on a block of either form.  `from_biir_block` claims reads, writes
and `ActionStoreBit`; `from_ir_block` claims reads and writes, and drops a typed
`ActionStore`, which writes storage as well.  `Claimed` says which statements each
form claims, and `ExtractionCovers` leaves out the typed blocks that have such a
statement (`StoresByTypedAction`): what happens to those is shown by `SchedActions`
(Findings).

`SerialSchedule` is the reference semantics of
`docs/vole-mpc-shared-storage-scheduling-plan.md`, section 3.4: each iteration
runs against what the ones before it in program order left.  The mapping shows
the iterations committed without a gap from the first one, and the bank once the
last epoch has ended.

Left out: digests, profiles and communication groups, which nothing here reads,
and the byte encoding of the manifest.  `ScheduleTransaction` and
`ScheduleRuntime` can be cloned; the model has one runtime, and one transaction
per `begin`.

### 2.5 CfgLayout

`visit` is one visit of the depth-first walk, with the branches that are still to
be followed kept in `todo` (the code's recursion, as a stack); where a block
branches through a reference every block follows its direct branches.  When
nothing is left, `layout_cfg_for_movfuscation_typed` renumbers terminators and
constants of Block types, and then the program runs (`Execute`).  The mapping
shows the run with old numbers wherever a value has a Block type, in variables,
storage and results alike.

`Supported` says which programs this is right for: those in which references are
told from other values (constants make them; parameters, storage and returns move
them; only `Dyn` targets look at them), that start with none, in their parameters
or in `pre_init`, which the code does not renumber, and that keep no constant
reference to a block that was dropped, which the code leaves as it is.  The last
can only happen in a program without a branch through references.
`LayoutAssumption` asks it of the programs, and TLC evaluates it for the families.
`movfuscate_ir` calls the pass first, so `mov_refines` starts from what it leaves.

### 2.6 StoreForward

One action is one block of the pass, in reverse postorder: the caches of the
predecessors are translated (`translate_ir_cache_with_injection`) or merged
(`merge_ir_caches_with_injection`), parameters are injected where a value would be
out of reach, reads are replaced by what is known (`ForwardStmt`), and what the
block knows at its end is kept.  Aliasing is decided as in the code: equal
variables, constants, polynomials that differ by a constant, known bits.  Then the
rewritten program runs, and the mapping takes the injected parameters out again.
The Boolar and VAFFLE variants of the pass are not modelled.

### 2.7 Circuit

The circuit is followed as it is emitted, each variable with the value it has on
the input at hand: `EmitStmt` or `ShareGate` for a statement of a copy,
`process_terminator` for the end of one, `Finish` for the multiplexers and the
flag, and for the driver (`run_movfuscated` in the fuzzer) that calls the circuit
again.  Both forms are there: the typed one, with state and result apart, and the
Boolar one, with a result padded from the state and a direct-mapped gate cache.
The hash is a parameter (`Slot`), with collisions.  Copies after the end run on, so
their writes and actions take effect; the programs with effects are lowered with a
limit of one, as the pipeline does.  The driver's cap of 64 calls is a guard of the
tests and is left out; `done` and results are fresh variables.

The cascade and the flag are folds over the copies (`Through`, with `Select` and
`emit_or`).  `Supported` says what the pass needs of a loop.  The pass itself
panics on terminators other than those of `TermSupported`.  The rest it relies on:
statements and jumps agree with their types (`BlockTyped`), so that a condition is
a bit; a gate's kind tells what it computes, whatever the order of its operands
(`GateSupported`, true of the six gates the cache knows); a `Poly` reads different
variables, and the loop hands different variables on when it is copied more than
once (`PolySupported`, without which monomials are lost: see `CircuitSums`); and a
block that writes storage or performs actions is copied once only.  `MCCircuit`
has TLC evaluate this for all loops of the `circuit` run, and that the loop of
`CircuitSums` is not supported with two copies.

### 2.8 IrBlock, Optimizer and Unroll

`IrBlock` spells statements out (`Poly`, `Const`, `Merge`, `Shuffle`, rotations,
storage, actions, oracles) over vectors of up to two bits, as sets of bit
positions.  `eval_ir_stmt`, `Run` and `Leads` give the meaning, after the fuzzer's
interpreter; `fold_ir_block_once` is one round of constant folding.

`Optimizer` applies the passes to one block in any order, one round of a pass per
action, and keeps the composition of the remap tables since the beginning; after
any of them the loop of `FoldIr` may start.  `Unroll` has one action for each part
of the walk: `Enter` (copy a block), `fold_ir_blocks`, `Forward`, `Settle`, and
`Follow`, `Undecided` or `Complete` for the terminator.  When the walk is done the
result and the program are called with the same input and run side by side; `cost`
remembers how many blocks of the program a block of the result stands for.

Left out: typed `ActionStore` (`volar-ir-opt/src/ir.rs:704` keeps it for its effect)
and `Rng`, regions, `hoist_shared_statements`, field types, batching over operands
wider than a bit, `fuse_to_circuit`.

### 2.9 Reversible

`SynthesizeStmt` lowers one statement to gates: wires are taken over in place when
the last reader is done (`Consumed`), scratch wires are acquired and released
(`acquire`, `release`), and `Refuse` and `Panic` are the error paths.
`CompactAndCopy` renumbers and appends the outputs, `harden` wraps the circuit so
that it does nothing when the workspace is not clean, `to_boolar_circuit` leads it
back, `ApplyCircuit` runs it on any assignment of the wires.  Besides synthesized
circuits there are given ones, which have the two-input tables that synthesis never
makes.  Storage is the set of the cells that hold a one; an oracle is the set of
its queries with the answer one.

An `ActionStoreBit` means two things.  In Boolar the bit of the action, or the
fallback, is stored at its cell (`boolar.rs:142`), which is `EvalStmt`; the gate
`to_reversible` makes of it adds the bit to the cell (`to_reversible.rs:698-712`,
`rcircuit.rs:89`), which is `EvalToggling`.  The two agree as long as the cell holds
0 when the action comes.  So the properties that compare a circuit with its
embedding take `EmbeddedValues`: Boolar's meaning if every action of the run finds 0
in its cell (`StoresMeetZeros`), and the pass's own if one finds 1.
`StoresDirectly` drops that proviso and is violated (Findings).  Circuits led back
have no such statement.

`apply`, the evaluation of the Boolar form and
the builder of `to_boolar_circuit` carry a state through a list of gates or
statements (`Through`).  `CircuitsAssumption` and `RCircuitsAssumption` say that
inputs are typed, that no variable beyond those of the circuit is named, and that
given circuits have passed `RCircuit::new`.

## 3. Runs

| run | instance | shows |
|---|---|---|
| `pool_reuse` | 1 thread, 3 buffers, 1 chunk of 2 pages of 8 words, sizes below `MIN_BUCKET_SIZE` and of two capacities in one bucket, reuse mode, lazy `madvise` | `NoDoubleServe`, `ChunkAccounting`, `PageNodesExact`, `DataIntact`, `NoFault` |
| `pool_shared` | 1 thread, 3 buffers, 3 pages, slots of half a page and of a page and a half, both free modes | `DeadPagesAreFree` |
| `pool_threads` | 2 threads, 2 buffers, whole-page, direct and empty requests, all switches, one chunk so that allocation can fail | `LockOwner`, `DataIntact`, `NoFault`, `LockReleased` |
| `mov_refines` | 300 programs of 2 to 5 blocks, all inputs, 3-bit values | `Refines`, `OneActive`, `InactiveInert`, `Halts`, `TypeOK` |
| `sched_serial` | some 600 programs of 3 or 4 iterations over 4 cells with extracted and declared claims, ranges up to the end of the address space, dependencies, callbacks that fail or ignore errors, and programs the planner must reject; up to 3 iterations per epoch | `Refines`, `EpochsIndependent`, `EpochBarrier`, `TraceCanonical`, `ExtractionCovers`, `Completes` |
| `layout` | programs of up to 5 blocks, every terminator, references in slots and in storage, all inputs | `Refines`, `LaidOut` |
| `forward` | programs of up to 4 blocks with branches, merges and loops, equal, different and undecided addresses, all inputs | `CacheTrue`, `Refines` |
| `circuit` | self-loops with counters, sums, storage, actions and both branches returning, 0 to 3 copies (one where storage or actions leave a trace), both forms, a hash with three slots | `Refines`, `Delivers`, `Halts` |
| `optimizer` | blocks of up to 9 statements of the kinds modelled (2.8), with and without roots to keep, passes in every order | `SameMeaning`, `RemapTrue`, `FoldIrStabilizes` |
| `unroll` | 135 programs of up to 3 blocks (loops counted in a parameter and in storage, calls through a stored reference, partly known branches), the three forms, limits of 0, 2 and none | `Executable`, `InStep`, `Finite` |
| `reversible` | circuits of up to 4 statements over 2 inputs, actions on cells that hold 0 and 1 among them, given gate lists, plain and hardened, every assignment of the wires | `LiveWires`, `ScratchRestored`, `Embeds`, `Undoes`, `LedBack`, `RoundTrip` |
| `pool_dead_page` | see Findings | what the code says of its slots is violated |

**Bounds.**  The hazards of the allocator need a slot boundary inside a page, a
page boundary inside a slot, a list with two nodes, an emptied chunk that comes
back, and a third buffer to be hurt: 3 buffers in 2 or 3 pages have them all.  In
`pool_reuse` a request of 4 words finds nodes of 3 in its bucket, must hop over them
and may unlink a node in the middle of the list.
`MaxHops`, `SweepAt` and the chunk size stand for 32, 64 and 64 MiB and are
small so that the limits are reached.  The programs of `mov_refines` need three
blocks so that two program counter bits leave a code unused, a slot shared by
two blocks and unused by the third, a reference kept in a slot and one kept in
storage, and a loop; two-block programs have the special case of one bit, where a
reference and a `Bit` share a slot.

The families of the program passes need, for forwarding, a merge whose
predecessors disagree, a loop whose back edge is not known yet when its head is
processed, and a store between a store and a load whose address is equal, provably
different or neither; for circuits, a loop that ends before, at and after the last
copy; for unrolling, a loop that is walked several times, one that is not, and a
branch that becomes unknown after a few blocks; for the reversible passes, a
variable read by two statements, one read twice by the same, and one that is an
output and still read.  Two bits per word tell lanes apart and let products be
neither zero nor one.

**Fairness.**  `PoolAlloc!FairSpec`: weak fairness of a thread's steps inside the
lock, which are straight-line code; none of acquiring it, since the
compare-exchange loop promises none.  `Movfuscate!FairSpec`: weak fairness of the
combined block, straight-line code that an interpreter or prover runs through.
`Scheduler!FairSpec`: weak fairness of planning, of opening the iterations of the
current epoch, of each open callback's next step and of `finish_epoch`: the loop
of `execute_epoch`, or of a host that does the same with several workers.  None
of refused calls, nor of aborts other than after a failed callback.
`Circuit!FairSpec`: weak fairness of the emitted code and of the driver, whose loop
has no other exit than the flag.  `Optimizer!FairSpec`: weak fairness of the rounds
of the `FoldIr` loop once it has begun; passes before it are not owed.

For the scheduler, three iterations in epochs of up to three give several open
transactions, a later epoch that builds on two of an earlier one, and commit
orders against program order; four readers fill an epoch beyond its size.  `U64Max` and
`max_sequence` are small so that ranges overflow and the event limit is reached.
A write stores the digits of what its transaction last read, so different
histories leave different values.

**Deadlock** is not checked where the system ends: at the return of a program
(`Movfuscate`, `CfgLayout`, `StoreForward`, `Circuit`, `Unroll`), with the pass
(`Optimizer`, `Reversible`), and for `Scheduler` when it is complete, rejected or
poisoned.

## 4. Findings

`pool_dead_page` has a run in which TLC finds the counterexample: a page is marked
dead while the bump offset is still inside it; a slot bumped there later is dropped
by the next sweep.  The passing runs keep to page-filling slots where sweeps occur,
or to sizes that go to the free lists.

### Other deviations

These came up while modelling and were reproduced with TLC by the configurations
named here, which are kept but are not among the listed runs; each violates the
property of its `.cfg`.  The passing runs leave the inputs concerned out, and say so
in `Supported` or in the families of programs; `reversible` keeps actions on cells that
hold 1 in, and compares them with what the pass makes of them (2.9).

| configuration | module | what the code does, against what it says |
|---|---|---|
| `PoolTiny` | `MCPoolAlloc` | requests below `MIN_BUCKET_SIZE` are accounted by size (`pool-alloc/src/lib.rs:1083`) and released by capacity, so a page goes dead with a slot in use on it |
| `PoolGated` | `MCPoolAlloc` | a block allocated with pooling off is asked for with room for its alignment (line 949) and returned without it (line 1162) |
| `MovActions` | `MCMovfuscate` | `ActionCall` is copied without `is_active` (`movfuscate.rs:2378`), so blocks that are not active perform their actions |
| `MovPreInit` | `MCMovfuscate` | a `pre_init` segment of a Block type is seeded into a lane that nothing reads (`movfuscate.rs:3184`) |
| `MovPrimeField` | `MCMovfuscate` | selects and accumulators rely on `a + a = 0`, "which works for any field type" (`movfuscate.rs:277`) |
| `SchedBuilt` | `MCScheduler` | `validate` accepts conflicting iterations in one epoch, and the runtime commits in completion order; the planner never makes such a manifest |
| `SchedActions` | `MCScheduler` | "Conservative schedule extraction" (`volar-ir-passes/src/schedule.rs:1`) is not conservative for typed blocks: `from_ir_block` has no case for `ActionStore` (line 84), so its claims lack a write the block makes, and the planner may put the iteration beside one it conflicts with.  The runtime saves the bank: it refuses the undeclared store, and the program fails instead (`SummaryConservative`) |
| `ReversibleStores` | `MCReversible` | a circuit with an `ActionStoreBit` whose cell holds 1 and its embedding leave that cell different.  Boolar stores the bit "directly" (`volar-ir/src/boolar.rs:142`); the gate uses XOR on purpose (`rcircuit.rs:89`), but the pass neither refuses the statement nor clears the cell, and its contract (`to_reversible.rs:7-16`) makes no exception.  Its test (`to_reversible.rs:1305`) starts from empty storage, where the two agree (`StoresDirectly`) |
| `CircuitSums` | `MCCircuit` | a loop that jumps back with one variable in two places and adds the two: `subst_ir` collects monomials into a map in which the last one wins, so `x + x` becomes `x`.  `volar-ir-opt/src/ir.rs:925-939` says of the same code elsewhere that this is wrong: it "must become the constant 0 ... not silently `a`".  `map_var` (used by `unroll_ir.rs`) does the same |
| `ForwardEdges` | `MCStoreForward` | a `JumpCond` whose branches both lead to one block with different arguments: `ir_edge_args` (`store_forward.rs:580`) looks at the first edge only, and a forwarded load gets the other edge's value wrong |
| `ForwardBits` | `MCStoreForward` | `poly_known_bits` (`store_forward.rs:104`) takes a coefficient for a mask and calls bits from 1 on of a `Poly` address known, so equal addresses are "provably different" |

Further remarks, without a configuration:

- `concrete_consts` (`unroll_ir.rs:857`) keeps what it remembers of a storage across
  a write to an unknown address, in the prefix and segment forms;
  `forward_known_storage` forgets it.  `eval_poly` (line 932) keeps bit 0 only of
  the products of a wide `Poly`, and would decide a branch wrongly.  The programs of
  `unroll` have neither.  The key of `visited` does not include storage, so a loop
  counted in storage is refused or cut, never unrolled (line 628).
- Edges through references are not counted as predecessors in `store_forward.rs`,
  and `ActionStore` invalidates nothing there nor in `unroll_ir.rs`.
- A statement that reads its own result makes `synthesize_naive` panic instead of
  returning `UseBeforeDef`; a variable whose wire was taken over has no wire of its
  own, whatever `VarWireMap` says (`to_reversible.rs:165`).
- References of two different Block types at one storage and address share one lane
  after movfuscation, which `Supported` excludes.
- Errors of `read` and `write` do not poison the schedule runtime although the
  documentation of `RuntimeAborted` speaks of "a previous access or scheduling
  error": a callback that ignores one may commit.
- A pass-through flip while buffers are live (`set_pass_through`) sends them to the
  wrong allocator, so the model flips it only when none is.
- `compute_return_slot_types` does not look at the returns of a `JumpTable`, and the
  pass panics on a program that returns nowhere else.

## 5. Proofs

`PoolAllocProofs`: `MutualExclusion == Spec => []LockOwner`, for any sets of
threads, buffers and requests and any geometry.  `LockOwner` is an equivalence
between a thread's position and the lock and is inductive together with the
fact that a fault stops nobody halfway (the record `call` is total).

`Accounting`, that `Spec => [](fault = "none" => ChunkAccounting)`, and
`NoCountingFaults`, that the underflow check of `dealloc` and the aliasing guards of
`new_chunk` and `drop_chunk` never end the process, hold for all requests, the tiny
ones and those of the Findings included.  The proviso is there because a failed check
ends every call where it is, in the middle of its bookkeeping.  The invariant
`PoolInv` says, while the process lives (`Accounted`):

- `Shapes`: buffers, chunks and calls are of their shapes, and a call that holds a
  chunk to link or a slot to give back holds one that is there;
- `Names`: no two calls are about to give out the same buffer;
- `Lists`: the live list and the recycle stack have no chunk twice nor in common;
- `Counted`: a chunk's `outstanding` is the number of its slots that buffers and
  calls own, and `bytes_live` is the sum of their capacities;
- `Occupied`: a linked chunk without slots is being worked on by the lock's holder.

`Counted` makes the slots in the hands of calls part of the account, without which
no single step keeps the books; `Occupied` needs mutual exclusion, because two
threads between counting and unlinking could each leave the other's chunk behind.

`MovfuscateProofs`: `MovfuscationRefines`, that `Spec => Refines` for all
supported programs over all values, types, storages and every field of
characteristic 2, and `ExactlyOneActive`, that `Spec => []OneActive`.  The
inductive invariant `Inv` says that until the source panics

- the tables of the blocks begun hold values, and all but the last are complete;
- the accumulators hold what they started at as long as the active block has not
  been accumulated, and from then on exactly what its terminator wants
  (`AccInv`): this is what makes the sum over all blocks a selection;
- nothing has been logged.

It is needed because `Loop` makes the accumulators the next state: without
`AccInv` nothing relates them to the jump of the source program.  The argument
goes through `Gates`/`FieldGates` (selecting and adding up with an active and an
inactive bit), `Terminator` (what a block wants is what its branch asks for),
`Accumulation`, the lemmas on lanes (distinct cells have distinct lanes, and
initial contents get there), and one lemma per action.

`InactiveBlocksInert`, that `Spec => []InactiveInert`, is about every reachable
state, those after the source program has panicked included, where `Inv` says
nothing any more.  Its invariant `Shape` says only what is left then: the tables
of the blocks begun, the accumulators, slots and lanes hold values, and the log is
empty.  A write of an inactive block puts back what it reads under any such state.

`SlotsKeepTheirTypes`, that `Spec => []TypeOK`, takes `ProgramsTyped` as well: pure
statements yield a value of their type *whatever bits they are given*, parameters
have the types of what is passed, and so on.  Nothing weaker would do, since the
code of an inactive block runs on what other blocks left in the slots it shares.
`TypedInv` adds to the refinement's invariant that tables, slots and lanes hold
values of their types (`TabTyped`, `SlotsTyped`, `StorTyped`); with one program
counter bit a reference and a `Bit` share a slot, and their values agree
(`SlotType`).  TLC evaluates `ProgramsTyped` for the families of `mov_refines`
(`FamiliesTyped`).

The proofs take from the constants: `ProgramAssumption`, `XorAssumption`,
`AddAssumption` (evaluated by TLC in every run) and, as a hypothesis of the
theorems, `ProgramsSupported`.  One of its parts, `PcCodes` (program counters are
unambiguous), is arithmetic that needs induction on the width; TLC evaluates it
for all programs of the families and `PcWidths` for up to 40 blocks.

`SchedulerProofs`: `ScheduleRefines`, that `Spec => Refines` for every set of
programs, every callback, bank, epoch size, limit and set of iterations asked
for, and `PlannedEpochs`, `Barrier` and `Canonical` for the invariants of the same
run.  The inductive invariant `IInv` has five parts:

- `PlanInv`: the manifest describes an initial part of the program, with the
  claims joined, epochs that never decrease, and independent epochs;
- `RuntimeShape`: transactions are active, active and completed are disjoint
  and planned;
- `EpochInv`: active iterations belong to the current epoch, all earlier epochs
  have committed, stamps are the manifest's epochs;
- `CommittedInv`: the bank is the image of the committed logs *in program order*
  (`Image`), and each log is what the callback observes on the image of those
  before it;
- `OpenInv`: the log of an open transaction is what its callback would observe
  on the bank as it is now, unless the runtime is poisoned.

The commit is the heart (`CommitStep`): an iteration that committed before this
one although it comes later in program order is of the same epoch, so by
`EpochsIndependent` and `CommonCellConflicts` (two claims that cover one cell
overlap, unrepresentable ranges included) it wrote nothing this one has read and
read nothing this one writes; the image in commit order is the image in program
order.  `OpenInv` is needed because other transactions commit while this one is
open.  The constants enter through `ProgramsAssumption` (claims are typed),
`StorageLogAssumption` and `ScheduleNaturals`, evaluated by TLC in the run.

`ExtractionSuffices`, that `Spec => []ExtractionCovers`: a transaction whose claims
are those extracted from its block, unless that is a typed block with an
`ActionStore`, is never refused an access for want of a claim.
The hypothesis `CallbacksRunBlocks` says what a callback is, in the sense of the
code: its next access is one its block makes.  The proof shows that the claims of
`StorageAccessSummary` cover every access of such a block (`ExtractedClaims`), that
putting claims into canonical form keeps the cover, and that an access that is covered and
in sequence is granted.

`CfgLayoutProofs`: `LayoutCorrect`, that `Spec => Refines`, and `LayoutOrder`, that
`Spec => []LaidOut`, for every program `LayoutAssumption` admits, with any number
of blocks, any terminators and any values.  The walk's invariant (`WalkInv`) says
that what has been placed or is still in `todo` covers every branch of the blocks
placed (`FollowsAll`) and lies within every set of blocks that control does not
leave (`FollowsOnly`); when `todo` is empty the blocks placed are the least such
set, which is `Reachable`.  `LayoutInv` adds that the program is the source until
the layout, and from then on the source with its blocks moved (`Moved`), in a state
whose tables and cells are typed (`Running`): what is not of a Block type is a value,
and what is, a number that `Old` reads in the old numbering.
That is what makes `StmtStep` and `BranchStep` go through: renumbering is undone
exactly where a value is a reference.

`CircuitProofs`: `CircuitRefines`, that `Spec => Refines`, and `CircuitDelivers`,
that `Spec => []Delivers`, for all supported loops, any number of copies, both
forms, and any hash function of the gate cache.  The parts of the invariant `CInv`
beside shapes and types:

- `CacheTrue`: every entry of the cache is a gate of the block whose wire has the
  value of that gate; a collision overwrites an entry and never falsifies one;
- `Apart`: where there is a `Poly`, the variables of the copy under way are all
  different, so that collecting monomials by variables merges none (`CollectedAll`);
- `FirstEnds`: the loop has ended exactly when a copy of this call is done, and the
  first that is has what the loop returned on its result wires.

`FirstEnds` is what the later copies, which run on nonsense, must not disturb, and
what `CascadePicksFirst` turns into the output: the cascade yields the result of
the first copy that is done, whatever the others hold.  Together with
`LayoutCorrect` and `MovfuscationRefines` this covers the path from a control-flow
graph to a circuit, each pass on its own; that what one pass leaves is supported by
the next is not proved.

`ReversibleProofs`: `InverseUndoes`, that `Spec => []Undoes`, and `LedBackComputes`,
that `Spec => []LedBack`, for circuits of any size, any storage and any oracle.
`RInv` says that statements, gates and the scratch pool are typed at every step of
the synthesis and that a circuit that is run is valid: `RCircuit::new` validates what
synthesis and hardening make, and panics otherwise.  A valid gate undoes itself
(`ApplyGate` twice is nothing, because its target is none of the wires it reads),
so the reversed list leads from the end back to the start, by induction over the
gates.  For `LedBack` the lemma is `Holds`: after each gate the builder's variable
for every wire has that wire's value, and storage is the same; one lemma per kind
of gate, conjunctions of any width included.

`SynthesisProofs`: four theorems about what is made, again for circuits of any
size, any storage and any oracle.

`WiresLive` and `ScratchIsRestored`, that `Spec => []LiveWires` and
`Spec => []ScratchRestored`.  The invariant `SInv` of the synthesis has four parts:

- `Geometry`: parameters, results, room for the outputs and scratch follow each
  other, and the pool lends only from the last;
- `Distinct`: two variables still to be read are on different wires;
- `Untouched`: the gates so far leave parameters, wires not given out and spare
  scratch wires as they were, *from any state of the wires*;
- `Computes`: from zeros beside the parameters they put the value of every variable
  still to be read on its wire, and storage is as the statements so far leave it
  when actions add their bits (`EvalToggling`).

A wire that was taken over in place is the difficult case: it loses the value of a
variable, so `Distinct` and `Computes` speak of the variables still to be read, and
the step needs that `Consumed` counts the remaining readers (section "How often
variables are read").  `Untouched` is what makes a scratch wire a zero when it is
lent again.

What `LiveWires` and `Embeds` claim of a run whose actions find zeros is Boolar's
own meaning, `EvalStmt`.  `AgreeOnZeros` is the bridge: by induction over the
statements the two meanings give the same run as long as every action finds 0 in its
cell, so `EmbeddedValues` is what adding computes in either case
(`EmbeddedToggles`).

`ToReversibleEmbeds`, that `Spec => []Embeds`, is the contract of `to_reversible`: if
the workspace is clear, parameters are kept, y becomes y xor f(x) and storage what f
makes of it (with the proviso of 2.9 on actions); a hardened circuit then also restores workspace and borrowed wires,
whatever was on the latter, and if the workspace is *not* clear it changes nothing
at all.  The steps:

1. `UsedInv`: gates are only on wires that were given out, so the y wires and the
   gaps in the numbering are on none of them;
2. `RunLike`: gates whose wires are renamed one to one do the same to the renamed
   wires, so what `CompactAndCopy` closes up computes the circuit (`ComputedBy`);
3. `NaivePromise`: copying to y afterwards adds f(x); `Conjugated`: computing backwards
   after that leaves y and restores all the rest;
4. `ClimbRun`, `LadderRun`, `ZeroTestRun`: the ladder of Toffoli gates over borrowed
   wires adds the conjunction of its controls to the target and leaves the borrowed
   wires as they were, whatever is on them; with the controls inverted it is the test
   that the workspace is clear;
5. `TwiceCopied`, `HardenedPromise`: copying twice, under a selector that the test
   toggles in between, adds f(x) once if the workspace was clear and twice or not at
   all if not, for any value of the borrowed selector.

`EInv` carries this through the phases: what is true of the circuit `CompactAndCopy`
made (`Compacted`), and of the one delivered (`Delivered`).  `GatesAreValid`, that
`Spec => []Validated`, is a by-product: `RCircuit::new` refuses nothing the passes
make, so the only panic is that over a statement that reads its own result.

`FoldTheorems` is the induction these rest on.  The provers cannot instantiate an
induction theorem that takes a predicate, so it is built from the least member of a
set of numbers (`LeastNumber`, from the well-foundedness of finite sets) and used
with sets; the operation is a constant of the module, and each user instantiates
it.  `Walk` is the sequence of intermediate states, and `FoldAppend` the induction
step.

**Only model-checked**

- liveness: `Halts` of `Movfuscate` and `Circuit`, `LockReleased`, `Completes`,
  `FoldIrStabilizes` (fairness is out of this prover's reach);
- `NoDoubleServe`, `PageNodesExact`, `DataIntact`, `NoFault` and `DeadPagesAreFree`
  of the allocator: they do not hold for all requests (see Findings), so a proof
  would first need the set of requests for which they do;
- `StoreForward`, whose search is a RECURSIVE operator, with which TLAPS cannot
  work; `Optimizer` and `Unroll`, whose meaning is that of whole blocks of
  statements spelled out, and whose proofs have not been attempted;
- `RoundTrip` of `Reversible` but for its conjunct `Validated`: hardcoding inputs and
  removing outputs are selections (`SelectSeq`, a recursive definition) from the
  lists of a circuit, about which nothing can be proved here for lists of any length.

## 6. Plan

Done so far: the allocator, movfuscation, the scheduler, layout, store forwarding,
circuits, the block optimizer, unrolling and the reversible circuits; proofs of the
refinements by movfuscation, the scheduler, layout and circuits, of all that the runs
check of the scheduler, movfuscation, layout and circuits but liveness, of the
reversible circuits but for `RoundTrip`, and of the allocator's lock and accounts.
Next, in this order:

1. Proofs: `NoDoubleServe` and `NoFault` of the allocator, for requests that fill
   their pages; `Executable` of `Unroll` and `SameMeaning` of constant folding.
2. `CallConvention`: VAFFLE calls through stored references and a stack pointer.
3. `Virt`: the dispatcher over deduplicated blocks, in the manner of `Movfuscate`.
4. The Boolar forms of movfuscation and of the optimizer; storage as multiplexers.

## 7. Not modelled

The lowering of VAFFLE, virtualization, storage lowering, inlining and
`fuse_to_circuit` are programs of the same kind as those modelled and stay on the
plan.  Text formats, backends, frontends, field arithmetic, gadgets, Z3 export: pure
conversions without state, tested by unit tests and the fuzzer.  `PROJECT.json`
lists them with the reason for each.
