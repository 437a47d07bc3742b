----------------------------- MODULE Movfuscate -----------------------------
(***************************************************************************)
(* Movfuscation (crates/ir/volar-ir-passes/src/movfuscate.rs): a program   *)
(* of several blocks becomes one block that loops on itself.  Its          *)
(* parameters are the bits of a program counter and the state slots, and   *)
(* one run through it                                                      *)
(*                                                                         *)
(*   - evaluates the statements of EVERY source block, each block on the   *)
(*     parameters it finds in its slots, whether or not it is the block    *)
(*     the program counter names;                                          *)
(*   - sums up what the terminators want, each gated by is_active, so that *)
(*     only the active block's wish survives;                              *)
(*   - returns if the sum says so, and otherwise jumps back to itself.     *)
(*                                                                         *)
(* The module gives the behaviour of the code the pass emits, one step for *)
(* the code of one source statement, one accumulation step or the final    *)
(* jump, and the source program's state as a function of it (Source).      *)
(* Bits are added with Xor.  The state, the storage and what is returned   *)
(* are values of one field, added with Add; the pass relies on it being of *)
(* characteristic 2.  A program counter or block reference of pc_width     *)
(* bits is the number those bits spell.                                    *)
(***************************************************************************)
EXTENDS VolarProgram

CONSTANTS
  Bit,          \* the type IRType::Primitive(Type::Bit)
  VecPc,        \* the type Vec(pc_width, Bit) of a stored block reference
  Xor(_, _),    \* addition of vectors of bits
  Add(_, _),    \* addition of the field's values
  Halting       \* programs whose runs are known to return

ASSUME XorAssumption ==
  /\ Bit \in Types /\ Bit \notin BlockTypes /\ VecPc \notin BlockTypes
  /\ \A a \in Val : Xor(a, 0) = a /\ Xor(0, a) = a /\ Xor(a, a) = 0
  /\ \A a, b \in Val : Xor(a, b) \in Val /\ Xor(a, b) = Xor(b, a)
  /\ \A a, b, c \in Val : Xor(Xor(a, b), c) = Xor(a, Xor(b, c))

ASSUME AddAssumption ==
  /\ \A a \in Val : Add(a, 0) = a /\ Add(0, a) = a
  /\ \A a, b \in Val : Add(a, b) \in Val /\ Add(a, b) = Add(b, a)
  /\ \A a, b, c \in Val : Add(Add(a, b), c) = Add(a, Add(b, c))

VARIABLES
  prog,     \* the source program
  status,   \* "run" or "return"
  pc,       \* the program counter this iteration began with
  slots,    \* the state slots this iteration began with
  stor,     \* contents of the storage cells of the combined program
  tab,      \* the value tables of the source blocks evaluated so far
  acc,      \* what the terminators accumulated so far want
  m,        \* number of terminators accumulated
  ret,      \* values returned
  log,      \* actions performed, in order
  wild      \* history: the source program has panicked

vars == <<prog, status, pc, slots, stor, tab, acc, m, ret, log, wild>>

-----------------------------------------------------------------------------
(* Program counters.                                                       *)

(* The number of bits of n - 1.                                            *)
pc_bits_needed(n) == CHOOSE w \in 0 .. n : 2^w >= n /\ \A v \in 0 .. w - 1 : 2^v < n

BitOf(x, j) == (x \div 2^j) % 2

emit_is_block(p, i, w) == \A j \in 0 .. w - 1 : BitOf(p, j) = BitOf(i, j)

encode_pc_bits(i, w) == i % 2^w

Width(P) == pc_bits_needed(P.n)
IsActiveShort(i) == emit_is_block(pc, i, Width(prog) - 1)
IsActive(i) == emit_is_block(pc, i, Width(prog))

-----------------------------------------------------------------------------
(* State slots.  Two blocks' parameters share a slot when they stand at    *)
(* the same position and have the same signature; a slot is named by the   *)
(* two.  With one bit of program counter a block reference is a Bit.       *)

SlotSigUntyped(t, w) == IF t \notin BlockTypes \/ w = 1 THEN <<"Scalar", Bit>> ELSE <<"Block", Bit>>

SlotSig(t, w) == IF t \notin BlockTypes THEN <<"Scalar", t>>
                 ELSE IF w = 1 THEN <<"Scalar", Bit>> ELSE <<"Block", Bit>>

(* The slots of a parameter list, be it a block's or a reference's.        *)
slot_map_for(params, w) == [k \in 1 .. Len(params) |-> <<k, SlotSig(params[k], w)>>]

compute_static_slot_classes(P) ==
  UNION {{<<k, SlotSig(P.blocks[i].params[k], Width(P))>> :
             k \in 1 .. Len(P.blocks[i].params)} : i \in 0 .. P.n - 1}

(* The parameters of block i as its code finds them.                       *)
ParamsOf(P, i, state) ==
  [k \in 1 .. Len(P.blocks[i].params) |-> state[slot_map_for(P.blocks[i].params, Width(P))[k]]]

(* Arguments beyond the target's parameters are dropped; a slot no         *)
(* argument goes to keeps the value it has.                                *)
scatter_args_to_state(args, map, state) ==
  [s \in DOMAIN state |->
     IF s[1] \in 1 .. Len(args) /\ s[1] \in 1 .. Len(map) /\ map[s[1]] = s
     THEN args[s[1]] ELSE state[s]]

-----------------------------------------------------------------------------
(* Storage.  Block references live in the even storages, as vectors of     *)
(* program counter bits; everything else moves to the odd ones.            *)

Lanes == {2 * s + e : s \in Storages, e \in {0, 1}} \X (Types \cup {VecPc}) \X Val

LaneOf(isBlock, storage, ty, addr) ==
  IF isBlock THEN <<2 * storage, VecPc, addr>> ELSE <<2 * storage + 1, ty, addr>>

(* A variable is tracked as a block reference when it is a parameter, a    *)
(* constant or a storage read of a Block type.                             *)
Tracked(block, v) ==
  IF v <= Len(block.params) THEN block.params[v] \in BlockTypes
  ELSE LET s == block.stmts[v - Len(block.params)]
       IN  s.op \in {"Const", "StorageRead"} /\ s.ty \in BlockTypes

WriteLane(block, s, tbl) == LaneOf(Tracked(block, s.src), s.storage, s.ty, tbl[s.addr])
ReadLane(s, tbl) == LaneOf(s.ty \in BlockTypes, s.storage, s.ty, tbl[s.addr])

(* A pre_init segment moves to the even or odd storage and keeps its type. *)
RemappedPreInit(P) ==
  [l \in Lanes |->
     LET c == <<l[1] \div 2, l[2], l[3]>>
     IN  IF c \in Cells /\ (l[1] % 2 = 0 <=> l[2] \in BlockTypes) THEN P.pre_init[c] ELSE 0]

-----------------------------------------------------------------------------
(* Gates.                                                                  *)

emit_gate(bit, val) == IF bit = 1 THEN val ELSE 0
emit_select_bit(bit, a, b) == Xor(emit_gate(bit, Xor(a, b)), b)
emit_select_slot(bit, a, b) == Add(emit_gate(bit, Add(a, b)), b)

AsBit(b) == IF b THEN 1 ELSE 0

-----------------------------------------------------------------------------
(* Terminators: what a block wants of the iteration's end.                 *)

Zeros(S) == [x \in S |-> 0]

(* Width of the return tuple, from the first block that ends in a return   *)
(* of a Jmp or a JumpCond; the returns of a JumpTable are not looked at.   *)
ReturnTargets(term) ==
  {t \in (IF term.kind = "Jmp" THEN {term.target}
          ELSE IF term.kind = "JumpCond" THEN {term.then, term.else} ELSE {}) : t.dest = "Return"}

compute_return_slot_types(P) ==
  LET sites == {i \in 0 .. P.n - 1 : ReturnTargets(P.blocks[i].term) # {}}
      first == CHOOSE i \in sites : \A j \in sites : i <= j
      term  == P.blocks[first].term
  IN  IF sites = {} THEN 0
      ELSE IF term.kind = "Jmp" THEN Len(term.target.args)
      ELSE IF term.then.dest = "Return" THEN Len(term.then.args) ELSE Len(term.else.args)

process_ir_target(P, target, tbl, state) ==
  LET w    == Width(P)
      args == Args(target.args, tbl)
      none == Zeros(1 .. compute_return_slot_types(P))
  IN  CASE target.dest = "Return" ->
             [done |-> 1, pc |-> encode_pc_bits(0, w), state |-> Zeros(DOMAIN state), ret |-> args]
        [] target.dest = "Block" ->
             [done |-> 0, pc |-> encode_pc_bits(target.block, w),
              state |-> scatter_args_to_state(
                          args, slot_map_for(P.blocks[target.block].params, w), state),
              ret |-> none]
        [] target.dest = "Dyn" ->
             [done |-> 0, pc |-> tbl[target.var],
              state |-> scatter_args_to_state(args, slot_map_for(SigOf(target.sig), w), state),
              ret |-> none]

SelectResult(bit, t, e) ==
  [done |-> emit_select_bit(bit, t.done, e.done),
   pc |-> emit_select_bit(bit, t.pc, e.pc),
   state |-> [s \in DOMAIN t.state |-> emit_select_slot(bit, t.state[s], e.state[s])],
   ret |-> [k \in DOMAIN t.ret |-> emit_select_slot(bit, t.ret[k], e.ret[k])]]

NoCase(P, state) ==
  [done |-> 0, pc |-> 0, state |-> Zeros(DOMAIN state),
   ret |-> Zeros(1 .. compute_return_slot_types(P))]

(* The cases of a JumpTable are gated by pairwise exclusive comparisons    *)
(* and added up: the sum is the matching case, or zero throughout.         *)
emit_block_terminator(P, i, tbl, state) ==
  LET term == P.blocks[i].term
      Result(target) == process_ir_target(P, target, tbl, state)
  IN  CASE term.kind = "Jmp" -> Result(term.target)
        [] term.kind = "JumpCond" ->
             SelectResult(tbl[term.condition], Result(term.then), Result(term.else))
        [] term.kind = "JumpTable" ->
             IF tbl[term.index] \in DOMAIN term.cases
             THEN Result(term.cases[tbl[term.index]]) ELSE NoCase(P, state)

-----------------------------------------------------------------------------
(* The source program's state.  A block's code runs early or late in the   *)
(* iteration; until it does, its parameters wait in the slots.             *)

StoredTypes(P) ==
  {t \in Types : \E i \in 0 .. P.n - 1 : \E j \in 1 .. Len(P.blocks[i].stmts) :
      LET s == P.blocks[i].stmts[j]
      IN  s.op \in {"StorageRead", "StorageWrite"} /\ s.ty = t}

SourceVals == IF pc < Len(tab) THEN tab[pc + 1] ELSE ParamsOf(prog, pc, slots)
SourceStor ==
  [c \in Cells |-> IF c[2] \in StoredTypes(prog)
                   THEN stor[LaneOf(c[2] \in BlockTypes, c[1], c[2], c[3])] ELSE prog.pre_init[c]]

Source == INSTANCE VolarIR WITH
            status <- IF wild THEN "panic" ELSE status,
            vals <- SourceVals, stor <- SourceStor

-----------------------------------------------------------------------------
(* The combined block.                                                     *)

(* The accumulators start at zero, those of the state at what it is.       *)
AccumInit(P, state) ==
  [done |-> 0, pc |-> 0, state |-> state, ret |-> Zeros(1 .. compute_return_slot_types(P))]

(* The driver starts the program counter at zero, puts the entry block's   *)
(* inputs in their slots (movfuscate_entry_param_slots) and zeros in the   *)
(* others.                                                                 *)
Init ==
  /\ prog \in Programs
  /\ status = "run"
  /\ pc = 0
  /\ \E inputs \in InputsFor(prog.blocks[0].params) :
       slots = scatter_args_to_state(inputs, slot_map_for(prog.blocks[0].params, Width(prog)),
                                     Zeros(compute_static_slot_classes(prog)))
  /\ stor = RemappedPreInit(prog)
  /\ tab = << >>
  /\ acc = AccumInit(prog, slots)
  /\ m = 0
  /\ ret = << >>
  /\ log = << >>
  /\ wild = FALSE

(* The block whose code runs next, or runs now.                            *)
Current == Len(tab) - 1
TableFull(i) == Len(tab[i + 1]) = NumVars(prog.blocks[i])

EnterBlock ==
  /\ status = "run"
  /\ Len(tab) < prog.n
  /\ tab # << >> => TableFull(Current)
  /\ tab' = Append(tab, ParamsOf(prog, Len(tab), slots))
  /\ UNCHANGED <<prog, status, pc, slots, stor, acc, m, ret, log, wild>>

(* A constant block reference is cut to the program counter's width.       *)
EmittedValue(s, tbl) ==
  CASE s.op = "Const" /\ s.ty \in BlockTypes -> encode_pc_bits(s.value, Width(prog))
    [] s.op = "StorageRead" -> stor[ReadLane(s, tbl)]
    [] OTHER -> StmtValue(s, tbl, stor)

UngatedWrite(block, s, tbl, active) ==
  [stor EXCEPT ![WriteLane(block, s, tbl)] = tbl[s.src]]

(* A write in a block that is not active puts back what it finds.          *)
GatedWrite(block, s, tbl, active) ==
  LET lane == WriteLane(block, s, tbl)
  IN  [stor EXCEPT ![lane] = emit_select_slot(active, tbl[s.src], stor[lane])]

emit_block_stmts ==
  /\ status = "run"
  /\ tab # << >>
  /\ ~TableFull(Current)
  /\ LET block == prog.blocks[Current]
         tbl   == tab[Len(tab)]
         s     == StmtAt(block, tbl)
     IN  /\ tab' = [tab EXCEPT ![Len(tab)] = Append(tbl, EmittedValue(s, tbl))]
         /\ stor' = IF s.op = "StorageWrite"
                    THEN GatedWrite(block, s, tbl, AsBit(IsActive(Current))) ELSE stor
         /\ log' = log \o Performed(s, tbl)
  /\ UNCHANGED <<prog, status, pc, slots, acc, m, ret, wild>>

AccumStepRaw(a, active, r, state) ==
  [done |-> Xor(a.done, emit_gate(active, r.done)),
   pc |-> Xor(a.pc, emit_gate(active, r.pc)),
   state |-> [s \in DOMAIN state |-> Add(a.state[s], emit_gate(active, r.state[s]))],
   ret |-> [k \in DOMAIN a.ret |-> Add(a.ret[k], emit_gate(active, r.ret[k]))]]

(* One block's contribution to the accumulators: the state's is the        *)
(* difference from what they started at.                                   *)
AccumStep(a, active, r, state) ==
  [done |-> Xor(a.done, emit_gate(active, r.done)),
   pc |-> Xor(a.pc, emit_gate(active, r.pc)),
   state |-> [s \in DOMAIN state |->
                Add(a.state[s], emit_gate(active, Add(r.state[s], state[s])))],
   ret |-> [k \in DOMAIN a.ret |-> Add(a.ret[k], emit_gate(active, r.ret[k]))]]

AllEvaluated == Len(tab) = prog.n /\ TableFull(Current)

AccumulateShort ==
  /\ status = "run"
  /\ AllEvaluated
  /\ m < prog.n - 1
  /\ acc' = AccumStep(acc, AsBit(IsActive(m)),
                      emit_block_terminator(prog, m, tab[m + 1], slots), slots)
  /\ m' = m + 1
  /\ UNCHANGED <<prog, status, pc, slots, stor, tab, ret, log, wild>>

Accumulate ==
  /\ status = "run"
  /\ AllEvaluated
  /\ m < prog.n
  /\ acc' = AccumStep(acc, AsBit(IsActive(m)),
                      emit_block_terminator(prog, m, tab[m + 1], slots), slots)
  /\ m' = m + 1
  /\ UNCHANGED <<prog, status, pc, slots, stor, tab, ret, log, wild>>

(* JumpCond(done, Return(ret), Block(0, [next_pc, next_state])).           *)
Loop ==
  /\ status = "run"
  /\ m = prog.n
  /\ acc.done = 0
  /\ pc' = acc.pc
  /\ slots' = acc.state
  /\ tab' = << >>
  /\ acc' = AccumInit(prog, slots')
  /\ m' = 0
  /\ wild' = (wild \/ ~Defined(prog, prog.blocks[pc].term, tab[pc + 1]))
  /\ UNCHANGED <<prog, status, stor, ret, log>>

Return ==
  /\ status = "run"
  /\ m = prog.n
  /\ acc.done = 1
  /\ status' = "return"
  /\ ret' = acc.ret
  /\ UNCHANGED <<prog, pc, slots, stor, tab, acc, m, log, wild>>

Next == EnterBlock \/ emit_block_stmts \/ Accumulate \/ Loop \/ Return

Spec == Init /\ [][Next]_vars

(* The combined block is straight-line code under an interpreter or a      *)
(* prover: it keeps running.                                               *)
FairSpec == Spec /\ WF_vars(Next)

-----------------------------------------------------------------------------
(* What the pass supports.  It stops with a panic on a program whose       *)
(* returns differ in width, whose first return it does not find, or whose  *)
(* references are not tracked or fit no block; on the rest of these        *)
(* conditions it relies in silence.                                        *)

StmtSupported(P, block, s) ==
  /\ s.op # "ActionCall"
  /\ s.op = "Const" /\ s.ty \in BlockTypes => s.value \in 0 .. P.n - 1
  /\ s.op = "StorageWrite" => (Tracked(block, s.src) <=> s.ty \in BlockTypes)

TargetSupported(P, block, target) ==
  /\ target.dest = "Return" => Len(target.args) = compute_return_slot_types(P)
  /\ target.dest = "Dyn" =>
       /\ Tracked(block, target.var)
       /\ SigOf(target.sig) = << >> \/ \E i \in 0 .. P.n - 1 : P.blocks[i].params = SigOf(target.sig)

TermSupported(P, block, term) ==
  /\ term.kind = "Jmp" => TargetSupported(P, block, term.target)
  /\ term.kind = "JumpCond" => TargetSupported(P, block, term.then) /\ TargetSupported(P, block, term.else)
  /\ term.kind = "JumpTable" =>
       \A c \in DOMAIN term.cases : TargetSupported(P, block, term.cases[c])

(* One Block type in storage, and none in pre_init.                        *)
StorageSupported(P) ==
  /\ \A t, u \in StoredTypes(P) \cap BlockTypes : t = u
  /\ \A c \in Cells : c[2] \in BlockTypes => P.pre_init[c] = 0

(* Codes of program counters are unambiguous and within Val.               *)
PcCodes(P) ==
  /\ 0 .. P.n - 1 \subseteq Val
  /\ \A j \in 0 .. P.n - 1 : /\ encode_pc_bits(j, Width(P)) = j
                             /\ \A i \in 0 .. P.n - 1 : emit_is_block(j, i, Width(P)) <=> i = j

Supported(P) ==
  /\ P.n >= 2
  /\ compute_return_slot_types(P) \in Nat
  /\ PcCodes(P)
  /\ StorageSupported(P)
  /\ \A i \in 0 .. P.n - 1 :
       LET block == P.blocks[i]
       IN  /\ \A j \in 1 .. Len(block.stmts) : StmtSupported(P, block, block.stmts[j])
           /\ TermSupported(P, block, block.term)

BinaryField == \A a \in Val : Add(a, a) = 0

ProgramsSupported == BinaryField /\ \A P \in Programs : Supported(P)

-----------------------------------------------------------------------------
(* Well-typed programs.  References are the indices of blocks.             *)

ValuesIn(P, t) == IF t \in BlockTypes THEN 0 .. P.n - 1 ELSE ValuesOf(t)

(* The values a variable may have.  A pure statement yields values of its  *)
(* result type whatever bits it is given.                                  *)
VarValues(P, block, v) ==
  IF v <= Len(block.params) THEN ValuesIn(P, block.params[v])
  ELSE LET s == block.stmts[v - Len(block.params)]
       IN  CASE s.op = "Const" -> {s.value}
             [] s.op = "Pure" -> {s.f[x] : x \in [1 .. Len(s.args) -> Val]}
             [] s.op = "StorageRead" -> ValuesIn(P, s.ty)
             [] s.op = "StorageWrite" -> {0}

ArgsTyped(P, block, args, params) ==
  \A k \in 1 .. Len(params) : VarValues(P, block, args[k]) \subseteq ValuesIn(P, params[k])

TargetTyped(P, block, target) ==
  /\ target.dest = "Block" => ArgsTyped(P, block, target.args, P.blocks[target.block].params)
  /\ target.dest = "Dyn" => /\ ArgsTyped(P, block, target.args, SigOf(target.sig))
                            /\ VarValues(P, block, target.var) \subseteq 0 .. P.n - 1

TermTyped(P, block, term) ==
  /\ term.kind = "Jmp" => TargetTyped(P, block, term.target)
  /\ term.kind = "JumpCond" => TargetTyped(P, block, term.then) /\ TargetTyped(P, block, term.else)
  /\ term.kind = "JumpTable" => \A c \in DOMAIN term.cases : TargetTyped(P, block, term.cases[c])

BlockTyped(P, block) ==
  /\ \A j \in 1 .. Len(block.stmts) :
       block.stmts[j].op = "StorageWrite" =>
         VarValues(P, block, block.stmts[j].src) \subseteq ValuesIn(P, block.stmts[j].ty)
  /\ TermTyped(P, block, block.term)

(* With a program counter of one bit a reference and a Bit share a slot.   *)
WellTyped(P) ==
  /\ 0 .. P.n - 1 \subseteq 0 .. 2^Width(P) - 1
  /\ Width(P) = 1 => ValuesOf(Bit) = 0 .. P.n - 1
  /\ \A t \in Types : 0 \in ValuesOf(t)
  /\ \A c \in Cells : P.pre_init[c] \in ValuesIn(P, c[2])
  /\ \A k \in 1 .. Len(P.blocks[0].params) :
       P.blocks[0].params[k] \in BlockTypes => ValuesOf(P.blocks[0].params[k]) \subseteq 0 .. P.n - 1
  /\ \A i \in 0 .. P.n - 1 : BlockTyped(P, P.blocks[i])

ProgramsTyped == \A P \in Programs : WellTyped(P)

-----------------------------------------------------------------------------
(* Properties.                                                             *)

(* Types of the variables.  A slot holds only values of its type, though   *)
(* blocks that disagree on a parameter's type use it in turns              *)
(* (compute_static_slot_classes).                                          *)
SlotValues(s) == IF s[2][1] = "Scalar" THEN ValuesOf(s[2][2]) ELSE 0 .. 2^Width(prog) - 1

TypeOK ==
  /\ status \in {"run", "return"} /\ wild \in BOOLEAN
  /\ pc \in 0 .. 2^Width(prog) - 1
  /\ DOMAIN slots = compute_static_slot_classes(prog)
  /\ \A s \in DOMAIN slots : slots[s] \in SlotValues(s)
  /\ stor \in [Lanes -> Val]
  /\ tab \in Seq(Seq(Val)) /\ Len(tab) <= prog.n
  /\ m \in 0 .. prog.n

(* Exactly one block is active in every iteration, as the accumulation     *)
(* takes for granted ("Exactly one is_active_i = 1 per valid step" in      *)
(* movfuscate), unless the source program has no meaning.                  *)
OneActive == ~wild => \E i \in 0 .. prog.n - 1 : \A j \in 0 .. prog.n - 1 : IsActive(j) <=> i = j

(* The code of a block that is not active leaves storage and the outside   *)
(* world alone, whatever it computes from the slots of other blocks (the   *)
(* trait documentation of emit_block_stmts).                               *)
InactiveInert == [][emit_block_stmts /\ ~IsActive(Current) => UNCHANGED <<stor, log>>]_vars

(* The combined program does what the source program does: every step of   *)
(* it is a step of the interpreter on the source program, or changes       *)
(* nothing the source program can see.  In particular it returns the same  *)
(* values and leaves the same storage.                                     *)
Refines == Source!Spec

(* The combined block of a program that halts leaves its loop, with every  *)
(* input (the done bit of movfuscate).                                     *)
Halts == prog \in Halting => <>(status = "return" \/ wild)
=============================================================================
