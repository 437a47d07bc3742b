-------------------------- MODULE MovfuscateProofs --------------------------
(***************************************************************************)
(* The combined program implements the source program: every behaviour of  *)
(* Movfuscate, seen through the refinement mapping, is a behaviour of      *)
(* VolarIR, for all supported programs over all values and types.          *)
(***************************************************************************)
EXTENDS Movfuscate, TLAPS

Classes == compute_static_slot_classes(prog)
RetWidth == compute_return_slot_types(prog)

(* Tables of the blocks begun: those before the last are complete.         *)
TabInv ==
  /\ tab \in Seq(Seq(Val))
  /\ Len(tab) <= prog.n
  /\ \A i \in 1 .. Len(tab) :
       /\ Len(prog.blocks[i - 1].params) <= Len(tab[i])
       /\ Len(tab[i]) <= NumVars(prog.blocks[i - 1])
       /\ i < Len(tab) => Len(tab[i]) = NumVars(prog.blocks[i - 1])

(* The accumulators hold what they started at until the active block is    *)
(* accumulated, and from then on what its terminator wants.                *)
AccInv ==
  acc = IF pc < m THEN emit_block_terminator(prog, pc, tab[pc + 1], slots)
        ELSE AccumInit(prog, slots)

Good ==
  /\ status \in {"run", "return"}
  /\ pc \in 0 .. prog.n - 1
  /\ slots \in [Classes -> Val]
  /\ stor \in [Lanes -> Val]
  /\ TabInv
  /\ m \in 0 .. prog.n
  /\ m > 0 => AllEvaluated
  /\ AccInv
  /\ log = << >>

Inv ==
  /\ prog \in Programs
  /\ wild \in BOOLEAN
  /\ ~wild => Good

-----------------------------------------------------------------------------
(* Bit gates: selecting and adding up with an active and an inactive bit.  *)
LEMMA Gates ==
  ASSUME NEW a \in Val, NEW b \in Val
  PROVE  /\ emit_select_bit(1, a, b) = a
         /\ emit_select_bit(0, a, b) = b
         /\ Xor(a, emit_gate(0, b)) = a
         /\ Xor(0, emit_gate(1, b)) = b
<1>1. 0 \in Val /\ Xor(a, b) \in Val /\ Xor(b, a) \in Val
  BY XorAssumption, ProgramAssumption
<1>2. Xor(Xor(a, b), b) = a
  <2>1. Xor(Xor(a, b), b) = Xor(a, Xor(b, b))
    BY XorAssumption
  <2> QED BY <2>1, XorAssumption
<1> QED BY <1>1, <1>2, XorAssumption DEF emit_select_bit, emit_gate

(* A selection with any bit yields one of the two values.                  *)
LEMMA Selected ==
  ASSUME NEW bit, NEW a \in Val, NEW b \in Val
  PROVE  emit_select_bit(bit, a, b) = IF bit = 1 THEN a ELSE b
<1>1. CASE bit = 1
  BY <1>1, Gates
<1>2. CASE bit # 1
  <2>1. emit_select_bit(bit, a, b) = emit_select_bit(0, a, b)
    BY <1>2 DEF emit_select_bit, emit_gate
  <2> QED BY <1>2, <2>1, Gates
<1> QED BY <1>1, <1>2

(* The same of values of the field, whose characteristic must be 2.        *)
LEMMA FieldGates ==
  ASSUME BinaryField, NEW a \in Val, NEW b \in Val
  PROVE  /\ emit_select_slot(1, a, b) = a
         /\ emit_select_slot(0, a, b) = b
         /\ Add(a, emit_gate(0, b)) = a
         /\ Add(0, emit_gate(1, b)) = b
         /\ Add(a, emit_gate(1, Add(b, a))) = b
<1>1. 0 \in Val /\ Add(a, b) \in Val /\ Add(b, a) \in Val
  BY AddAssumption, ProgramAssumption
<1>2. Add(Add(a, b), b) = a
  <2>1. Add(Add(a, b), b) = Add(a, Add(b, b))
    BY AddAssumption
  <2> QED BY <2>1, AddAssumption DEF BinaryField
<1>3. Add(a, Add(b, a)) = b
  <2>1. Add(a, Add(b, a)) = Add(Add(b, a), a)
    BY <1>1, AddAssumption
  <2>2. Add(Add(b, a), a) = Add(b, Add(a, a))
    BY AddAssumption
  <2> QED BY <2>1, <2>2, AddAssumption DEF BinaryField
<1> QED BY <1>1, <1>2, <1>3, AddAssumption DEF emit_select_slot, emit_gate

(* A selection of field values yields one of the two.                      *)
LEMMA FieldSelected ==
  ASSUME BinaryField, NEW bit, NEW a \in Val, NEW b \in Val
  PROVE  emit_select_slot(bit, a, b) = IF bit = 1 THEN a ELSE b
<1>1. CASE bit = 1
  BY <1>1, FieldGates
<1>2. CASE bit # 1
  <2>1. emit_select_slot(bit, a, b) = emit_select_slot(0, a, b)
    BY <1>2 DEF emit_select_slot, emit_gate
  <2> QED BY <1>2, <2>1, FieldGates
<1> QED BY <1>1, <1>2

(* What Supported and WellFormed say of a block.                           *)
LEMMA BlockFacts ==
  ASSUME ProgramsSupported, NEW P \in Programs, NEW i \in 0 .. P.n - 1
  PROVE  /\ P.n \in Nat /\ P.n >= 2
         /\ P.blocks[i].params \in Seq(Types)
         /\ Len(P.blocks[i].params) \in Nat
         /\ Len(P.blocks[i].stmts) \in Nat
         /\ NumVars(P.blocks[i]) \in Nat
         /\ \A j \in 1 .. Len(P.blocks[i].stmts) :
              /\ StmtWellFormed(P.blocks[i].stmts[j], Len(P.blocks[i].params) + j - 1)
              /\ StmtSupported(P, P.blocks[i], P.blocks[i].stmts[j])
         /\ TermWellFormed(P, P.blocks[i].term, NumVars(P.blocks[i]))
         /\ TermSupported(P, P.blocks[i], P.blocks[i].term)
         /\ compute_return_slot_types(P) \in Nat
<1>1. WellFormed(P)
  BY ProgramAssumption
<1>2. Supported(P)
  BY DEF ProgramsSupported
<1>3. P.n \in Nat /\ P.n >= 2 /\ compute_return_slot_types(P) \in Nat
  BY <1>1, <1>2 DEF WellFormed, Supported
<1>4. BlockWellFormed(P, P.blocks[i])
  BY <1>1 DEF WellFormed
<1>5. /\ \A j \in 1 .. Len(P.blocks[i].stmts) :
           StmtSupported(P, P.blocks[i], P.blocks[i].stmts[j])
      /\ TermSupported(P, P.blocks[i], P.blocks[i].term)
  BY <1>2 DEF Supported
<1>6. P.blocks[i].params \in Seq(Types) /\ Len(P.blocks[i].stmts) \in Nat
  BY <1>4 DEF BlockWellFormed
<1>10. Len(P.blocks[i].params) \in Nat
  BY <1>6
<1>7. NumVars(P.blocks[i]) \in Nat
  <2> DEFINE a == Len(P.blocks[i].params)
             b == Len(P.blocks[i].stmts)
  <2>1. a \in Nat /\ b \in Nat
    BY <1>6, <1>10
  <2> HIDE DEF a, b
  <2>2. a + b \in Nat
    BY <2>1
  <2> QED BY <2>2 DEF NumVars, a, b
<1>8. TermWellFormed(P, P.blocks[i].term, NumVars(P.blocks[i]))
  BY <1>4 DEF BlockWellFormed
<1>9. \A j \in 1 .. Len(P.blocks[i].stmts) :
        StmtWellFormed(P.blocks[i].stmts[j], Len(P.blocks[i].params) + j - 1)
  BY <1>4 DEF BlockWellFormed
<1> QED BY <1>3, <1>5, <1>6, <1>7, <1>8, <1>9, <1>10

-----------------------------------------------------------------------------
(* Slots: what is scattered for a parameter list is read back from it.     *)
LEMMA ReadBack ==
  ASSUME ProgramsSupported, NEW P \in Programs, NEW j \in 0 .. P.n - 1,
         NEW state \in [compute_static_slot_classes(P) -> Val],
         NEW args, args \in [1 .. Len(P.blocks[j].params) -> Val]
  PROVE  ParamsOf(P, j, scatter_args_to_state(
            args, slot_map_for(P.blocks[j].params, Width(P)), state)) = args
<1> DEFINE params == P.blocks[j].params
           map == slot_map_for(params, Width(P))
<1>1. Len(params) \in Nat /\ Len(args) = Len(params) /\ Len(map) = Len(params)
  BY BlockFacts DEF slot_map_for
<1>2. ASSUME NEW k \in 1 .. Len(params)
      PROVE  /\ map[k] \in compute_static_slot_classes(P)
             /\ map[k][1] = k
  BY <1>1, <1>2 DEF compute_static_slot_classes, slot_map_for
<1>3. ASSUME NEW k \in 1 .. Len(params)
      PROVE  scatter_args_to_state(args, map, state)[map[k]] = args[k]
  <2> DEFINE s == map[k]
  <2>1. s \in DOMAIN state /\ s[1] = k
    BY <1>2, <1>3
  <2> HIDE DEF s
  <2>2. s[1] \in 1 .. Len(args) /\ s[1] \in 1 .. Len(map) /\ map[s[1]] = s
    BY <1>1, <1>3, <2>1 DEF s
  <2> QED BY <2>1, <2>2 DEF scatter_args_to_state, s
<1> QED BY <1>1, <1>3 DEF ParamsOf

-----------------------------------------------------------------------------
(* Terminators.                                                            *)

Results(P) ==
  [done : {0, 1}, pc : Val, state : [compute_static_slot_classes(P) -> Val],
   ret : [1 .. compute_return_slot_types(P) -> Val]]

(* The arguments of a well-formed target are values.                       *)
LEMMA ArgsAreValues ==
  ASSUME NEW v \in Nat, NEW args \in Seq(1 .. v), NEW tbl \in Seq(Val), Len(tbl) = v
  PROVE  Args(args, tbl) \in [1 .. Len(args) -> Val]
  BY DEF Args

(* One target's wish is of the accumulators' type, and asks to return      *)
(* just when the target is a return.                                       *)
LEMMA TargetResult ==
  ASSUME ProgramsSupported, NEW P \in Programs, NEW block, NEW target, NEW v \in Nat,
         TargetWellFormed(P, target, v), TargetSupported(P, block, target),
         NEW tbl \in Seq(Val), Len(tbl) = v,
         NEW state \in [compute_static_slot_classes(P) -> Val]
  PROVE  /\ process_ir_target(P, target, tbl, state) \in Results(P)
         /\ process_ir_target(P, target, tbl, state).done = 1 <=> target.dest = "Return"
<1> DEFINE r == process_ir_target(P, target, tbl, state)
           args == Args(target.args, tbl)
           w == Width(P)
<1>1. args \in [1 .. Len(target.args) -> Val]
  BY ArgsAreValues DEF TargetWellFormed
<1>2. compute_return_slot_types(P) \in Nat /\ PcCodes(P) /\ P.n \in Nat /\ P.n >= 2
  <2>1. Supported(P) /\ WellFormed(P)
    BY ProgramAssumption DEF ProgramsSupported
  <2> QED BY <2>1 DEF Supported, WellFormed
<1>3. 0 \in Val
  BY ProgramAssumption
<1>4. ASSUME NEW map
      PROVE  scatter_args_to_state(args, map, state) \in [compute_static_slot_classes(P) -> Val]
  <2>1. Len(args) = Len(target.args)
    BY <1>1 DEF TargetWellFormed
  <2> HIDE DEF args
  <2> QED BY <1>1, <2>1 DEF scatter_args_to_state
<1>5. Zeros(1 .. compute_return_slot_types(P)) \in [1 .. compute_return_slot_types(P) -> Val]
  BY <1>3 DEF Zeros
<1>6. \A j \in 0 .. P.n - 1 : encode_pc_bits(j, w) \in Val
  BY <1>2 DEF PcCodes
<1> HIDE DEF args, w
<1>7. CASE target.dest = "Return"
  <2>1. r = [done |-> 1, pc |-> encode_pc_bits(0, w), state |-> Zeros(DOMAIN state), ret |-> args]
    BY <1>7 DEF process_ir_target, args, w
  <2>2. Len(target.args) = compute_return_slot_types(P)
    BY <1>7 DEF TargetSupported
  <2>3. encode_pc_bits(0, w) \in Val
    BY <1>2, <1>6
  <2>4. Zeros(DOMAIN state) \in [compute_static_slot_classes(P) -> Val]
    BY <1>3 DEF Zeros
  <2> QED BY <1>1, <1>7, <2>1, <2>2, <2>3, <2>4 DEF Results
<1>8. CASE target.dest = "Block"
  <2> DEFINE st == scatter_args_to_state(args, slot_map_for(P.blocks[target.block].params, w), state)
             zs == Zeros(1 .. compute_return_slot_types(P))
             np == encode_pc_bits(target.block, w)
  <2>1. r = [done |-> 0, pc |-> np, state |-> st, ret |-> zs]
    BY <1>8 DEF process_ir_target, args, w
  <2>2. np \in Val
    BY <1>6, <1>8 DEF TargetWellFormed
  <2>3. st \in [compute_static_slot_classes(P) -> Val]
    BY <1>4
  <2> HIDE DEF st, zs, np
  <2> QED BY <1>5, <1>8, <2>1, <2>2, <2>3 DEF Results, zs
<1>9. CASE target.dest = "Dyn"
  <2> DEFINE st == scatter_args_to_state(args, slot_map_for(SigOf(target.sig), w), state)
             zs == Zeros(1 .. compute_return_slot_types(P))
             np == tbl[target.var]
  <2>1. r = [done |-> 0, pc |-> np, state |-> st, ret |-> zs]
    BY <1>9 DEF process_ir_target, args, w
  <2>2. np \in Val
    BY <1>9 DEF TargetWellFormed
  <2>3. st \in [compute_static_slot_classes(P) -> Val]
    BY <1>4
  <2> HIDE DEF st, zs, np
  <2> QED BY <1>5, <1>9, <2>1, <2>2, <2>3 DEF Results, zs
<1> QED BY <1>7, <1>8, <1>9 DEF TargetWellFormed

(* Selecting between two wishes gives one of them, whole.                  *)
LEMMA ResultSelected ==
  ASSUME BinaryField, NEW P, NEW bit, NEW t \in Results(P), NEW e \in Results(P)
  PROVE  SelectResult(bit, t, e) = IF bit = 1 THEN t ELSE e
<1> DEFINE r == IF bit = 1 THEN t ELSE e
<1>1. {0, 1} \subseteq Val
  BY ProgramAssumption
<1>2. emit_select_bit(bit, t.done, e.done) = r.done /\ emit_select_bit(bit, t.pc, e.pc) = r.pc
  BY <1>1, Selected DEF Results
<1>3. [s \in DOMAIN t.state |-> emit_select_slot(bit, t.state[s], e.state[s])] = r.state
  <2>1. \A s \in compute_static_slot_classes(P) :
          emit_select_slot(bit, t.state[s], e.state[s]) = r.state[s]
    BY FieldSelected DEF Results
  <2> QED BY <2>1 DEF Results
<1>4. [k \in DOMAIN t.ret |-> emit_select_slot(bit, t.ret[k], e.ret[k])] = r.ret
  <2>1. \A k \in 1 .. compute_return_slot_types(P) : t.ret[k] \in Val /\ e.ret[k] \in Val
    BY DEF Results
  <2>2. \A k \in 1 .. compute_return_slot_types(P) :
          emit_select_slot(bit, t.ret[k], e.ret[k]) = r.ret[k]
    BY <2>1, FieldSelected
  <2> QED BY <2>2 DEF Results
<1>5. r = [done |-> r.done, pc |-> r.pc, state |-> r.state, ret |-> r.ret]
  BY DEF Results
<1> QED BY <1>2, <1>3, <1>4, <1>5 DEF SelectResult

(* A block wants what the branch it takes asks for, or nothing at all.     *)
LEMMA Terminator ==
  ASSUME ProgramsSupported, NEW P \in Programs, NEW i \in 0 .. P.n - 1,
         NEW tbl \in Seq(Val), Len(tbl) = NumVars(P.blocks[i]),
         NEW state \in [compute_static_slot_classes(P) -> Val]
  PROVE  LET r == emit_block_terminator(P, i, tbl, state)
             term == P.blocks[i].term
             target == Branch(term, tbl)
         IN  /\ r \in Results(P)
             /\ HasBranch(term, tbl) =>
                  /\ r = process_ir_target(P, target, tbl, state)
                  /\ r.done = 1 <=> target.dest = "Return"
                  /\ TargetWellFormed(P, target, NumVars(P.blocks[i]))
                  /\ TargetSupported(P, P.blocks[i], target)
             /\ ~HasBranch(term, tbl) => r.done = 0
<1> DEFINE term == P.blocks[i].term
           target == Branch(term, tbl)
           v == NumVars(P.blocks[i])
           Result(t) == process_ir_target(P, t, tbl, state)
           Fine(t) == TargetWellFormed(P, t, v) /\ TargetSupported(P, P.blocks[i], t)
           r == emit_block_terminator(P, i, tbl, state)
<1>1. TermWellFormed(P, term, v) /\ TermSupported(P, P.blocks[i], term) /\ v \in Nat
  BY BlockFacts
<1>2. \A t : Fine(t) => Result(t) \in Results(P) /\ (Result(t).done = 1 <=> t.dest = "Return")
  BY <1>1, TargetResult
<1> HIDE DEF Result, Fine, v
<1>3. CASE term.kind = "Jmp"
  <2>1. Fine(term.target)
    BY <1>1, <1>3 DEF TermWellFormed, TermSupported, Fine
  <2>2. r = Result(term.target) /\ target = term.target /\ HasBranch(term, tbl)
    BY <1>3 DEF emit_block_terminator, Branch, HasBranch, Result
  <2> QED BY <1>2, <2>1, <2>2 DEF Fine, Result, v
<1>4. CASE term.kind = "JumpCond"
  <2>1. Fine(term.then) /\ Fine(term.else)
    BY <1>1, <1>4 DEF TermWellFormed, TermSupported, Fine
  <2>2. r = SelectResult(tbl[term.condition], Result(term.then), Result(term.else))
    BY <1>4 DEF emit_block_terminator, Result
  <2>3. target = IF tbl[term.condition] = 1 THEN term.then ELSE term.else
    BY <1>4 DEF Branch
  <2>4. r = Result(target)
    BY SMTT(30), <1>2, <2>1, <2>2, <2>3, ResultSelected DEF ProgramsSupported
  <2>5. HasBranch(term, tbl)
    BY <1>4 DEF HasBranch
  <2>6. Fine(target)
    BY <2>1, <2>3
  <2> QED BY <1>2, <2>4, <2>5, <2>6 DEF Fine, Result, v
<1>5. CASE term.kind = "JumpTable"
  <2>1. CASE HasBranch(term, tbl)
    <3>1. tbl[term.index] \in DOMAIN term.cases /\ target = term.cases[tbl[term.index]]
      BY <1>5, <2>1 DEF HasBranch, Branch
    <3>2. Fine(target)
      BY <1>1, <1>5, <3>1 DEF TermWellFormed, TermSupported, Fine
    <3>3. r = Result(target)
      BY <1>5, <3>1 DEF emit_block_terminator, Result
    <3> QED BY <1>2, <2>1, <3>2, <3>3 DEF Fine, Result, v
  <2>2. CASE ~HasBranch(term, tbl)
    <3>1. r = NoCase(P, state)
      BY <1>5, <2>2 DEF emit_block_terminator, HasBranch
    <3>2. 0 \in Val /\ compute_return_slot_types(P) \in Nat
      BY ProgramAssumption, BlockFacts
    <3>3. r \in Results(P) /\ r.done = 0
      BY <3>1, <3>2 DEF NoCase, Results, Zeros
    <3> QED BY <2>2, <3>3
  <2> QED BY <2>1, <2>2
<1> QED BY <1>1, <1>3, <1>4, <1>5 DEF TermWellFormed

(* Accumulating an inactive block changes nothing; accumulating the active *)
(* one, the first and only one to matter, gives what it wants.             *)
LEMMA Accumulation ==
  ASSUME ProgramsSupported, NEW P \in Programs, NEW r \in Results(P), NEW a \in Results(P),
         NEW state \in [compute_static_slot_classes(P) -> Val]
  PROVE  /\ AccumInit(P, state) \in Results(P)
         /\ AccumStep(a, 0, r, state) = a
         /\ AccumStep(AccumInit(P, state), 1, r, state) = r
<1>0. BinaryField
  BY DEF ProgramsSupported
<1>1. {0, 1} \subseteq Val
  BY ProgramAssumption
<1>2. AccumInit(P, state) \in Results(P)
  BY <1>1 DEF AccumInit, Results, Zeros
<1>3. AccumStep(a, 0, r, state) = a
  <2>1. Xor(a.done, emit_gate(0, r.done)) = a.done /\ Xor(a.pc, emit_gate(0, r.pc)) = a.pc
    BY <1>1, Gates DEF Results
  <2>2. ASSUME NEW s \in compute_static_slot_classes(P)
        PROVE  Add(a.state[s], emit_gate(0, Add(r.state[s], state[s]))) = a.state[s]
    <3>1. a.state[s] \in Val /\ r.state[s] \in Val /\ state[s] \in Val
      BY <2>2 DEF Results
    <3>2. Add(r.state[s], state[s]) \in Val
      BY <3>1, AddAssumption
    <3> QED BY <1>0, <3>1, <3>2, FieldGates
  <2>3. ASSUME NEW k \in DOMAIN a.ret
        PROVE  Add(a.ret[k], emit_gate(0, r.ret[k])) = a.ret[k]
    <3>1. a.ret[k] \in Val /\ r.ret[k] \in Val
      BY <2>3 DEF Results
    <3> QED BY <1>0, <3>1, FieldGates
  <2>4. [s \in DOMAIN state |-> Add(a.state[s], emit_gate(0, Add(r.state[s], state[s])))] = a.state
    BY <2>2 DEF Results
  <2>5. [k \in DOMAIN a.ret |-> Add(a.ret[k], emit_gate(0, r.ret[k]))] = a.ret
    BY <2>3 DEF Results
  <2>6. a = [done |-> a.done, pc |-> a.pc, state |-> a.state, ret |-> a.ret]
    BY DEF Results
  <2> QED BY <2>1, <2>4, <2>5, <2>6 DEF AccumStep
<1>4. AccumStep(AccumInit(P, state), 1, r, state) = r
  <2> DEFINE z == AccumInit(P, state)
  <2>1. /\ z.done = 0 /\ z.pc = 0 /\ z.state = state
        /\ z.ret = [k \in 1 .. compute_return_slot_types(P) |-> 0]
    BY DEF AccumInit, Zeros
  <2> HIDE DEF z
  <2>2. Xor(z.done, emit_gate(1, r.done)) = r.done /\ Xor(z.pc, emit_gate(1, r.pc)) = r.pc
    BY <1>1, <2>1, Gates DEF Results
  <2>3. ASSUME NEW s \in compute_static_slot_classes(P)
        PROVE  Add(z.state[s], emit_gate(1, Add(r.state[s], state[s]))) = r.state[s]
    <3>1. r.state[s] \in Val /\ state[s] \in Val
      BY <2>3 DEF Results
    <3> QED BY <1>0, <2>1, <3>1, FieldGates
  <2>4. ASSUME NEW k \in 1 .. compute_return_slot_types(P)
        PROVE  Add(z.ret[k], emit_gate(1, r.ret[k])) = r.ret[k]
    <3>1. r.ret[k] \in Val /\ z.ret[k] = 0
      BY <2>1, <2>4 DEF Results
    <3> QED BY <1>0, <1>1, <3>1, FieldGates
  <2>5. [s \in DOMAIN state |-> Add(z.state[s], emit_gate(1, Add(r.state[s], state[s])))] = r.state
    BY <2>3 DEF Results
  <2>6. [k \in DOMAIN z.ret |-> Add(z.ret[k], emit_gate(1, r.ret[k]))] = r.ret
    BY <2>1, <2>4 DEF Results
  <2>7. r = [done |-> r.done, pc |-> r.pc, state |-> r.state, ret |-> r.ret]
    BY DEF Results
  <2> QED BY <2>2, <2>5, <2>6, <2>7 DEF AccumStep, z
<1> QED BY <1>2, <1>3, <1>4

-----------------------------------------------------------------------------
(* Storage lanes.                                                          *)

(* The parts of a cell.                                                    *)
LEMMA CellShape ==
  ASSUME NEW c \in Cells
  PROVE  /\ c[1] \in Storages /\ c[1] \in Nat /\ c[2] \in Types /\ c[3] \in Val
         /\ c = <<c[1], c[2], c[3]>>
<1>1. PICK x \in Storages, t \in Types, a \in Val : c = <<x, t, a>>
  BY DEF Cells
<1>2. x \in Nat
  BY ProgramAssumption
<1> QED BY <1>1, <1>2

LaneFor(c) == LaneOf(c[2] \in BlockTypes, c[1], c[2], c[3])

(* Every cell has a lane, and cells of types the program stores have       *)
(* different ones.                                                         *)
LEMMA LaneFacts ==
  ASSUME ProgramsSupported, NEW P \in Programs
  PROVE  /\ \A c \in Cells : LaneFor(c) \in Lanes
         /\ \A c, d \in Cells :
              c[2] \in StoredTypes(P) /\ d[2] \in StoredTypes(P) /\ LaneFor(c) = LaneFor(d) => c = d
<1>1. \A t, u \in StoredTypes(P) \cap BlockTypes : t = u
  BY DEF ProgramsSupported, Supported, StorageSupported
<1>3. ASSUME NEW c \in Cells
      PROVE  LaneFor(c) \in Lanes
  <2>1. c[1] \in Storages /\ c[1] \in Nat /\ c[2] \in Types /\ c[3] \in Val
    BY CellShape
  <2>2. 2 * c[1] = 2 * c[1] + 0
    BY <2>1
  <2>3. {2 * c[1], 2 * c[1] + 1} \subseteq {2 * x + e : x \in Storages, e \in {0, 1}}
    BY <2>1, <2>2
  <2> QED BY <2>1, <2>3 DEF LaneFor, LaneOf, Lanes
<1>4. ASSUME NEW c \in Cells, NEW d \in Cells,
             c[2] \in StoredTypes(P), d[2] \in StoredTypes(P), LaneFor(c) = LaneFor(d)
      PROVE  c = d
  <2>1. /\ c[1] \in Nat /\ d[1] \in Nat
        /\ c = <<c[1], c[2], c[3]>> /\ d = <<d[1], d[2], d[3]>>
    BY CellShape
  <2>2. LaneFor(c)[1] = LaneFor(d)[1] /\ LaneFor(c)[2] = LaneFor(d)[2] /\ LaneFor(c)[3] = LaneFor(d)[3]
    BY <1>4
  <2>3. CASE c[2] \in BlockTypes /\ d[2] \in BlockTypes
    <3>1. 2 * c[1] = 2 * d[1] /\ c[3] = d[3] /\ c[2] = d[2]
      BY <1>1, <1>4, <2>2, <2>3 DEF LaneFor, LaneOf
    <3> QED BY <2>1, <3>1
  <2>4. CASE c[2] \notin BlockTypes /\ d[2] \notin BlockTypes
    <3>1. 2 * c[1] + 1 = 2 * d[1] + 1 /\ c[3] = d[3] /\ c[2] = d[2]
      BY <2>2, <2>4 DEF LaneFor, LaneOf
    <3> QED BY <2>1, <3>1
  <2>5. CASE c[2] \in BlockTypes /\ d[2] \notin BlockTypes
    <3>1. 2 * c[1] = 2 * d[1] + 1
      BY <2>2, <2>5 DEF LaneFor, LaneOf
    <3> QED BY <2>1, <3>1
  <2>6. CASE c[2] \notin BlockTypes /\ d[2] \in BlockTypes
    <3>1. 2 * c[1] + 1 = 2 * d[1]
      BY <2>2, <2>6 DEF LaneFor, LaneOf
    <3> QED BY <2>1, <3>1
  <2> QED BY <2>3, <2>4, <2>5, <2>6
<1> QED BY <1>3, <1>4

(* The remapped pre_init segments are what the source program starts with. *)
LEMMA PreInitKept ==
  ASSUME ProgramsSupported, NEW P \in Programs, NEW c \in Cells
  PROVE  RemappedPreInit(P)[LaneFor(c)] = P.pre_init[c]
<1>1. LaneFor(c) \in Lanes
  BY LaneFacts
<1>2. c[1] \in Nat /\ c[2] \in Types /\ c[3] \in Val /\ c = <<c[1], c[2], c[3]>>
  BY CellShape
<1>3. CASE c[2] \in BlockTypes
  <2>1. P.pre_init[c] = 0
    BY <1>3 DEF ProgramsSupported, Supported, StorageSupported
  <2>2. LaneFor(c)[1] = 2 * c[1] /\ LaneFor(c)[2] = VecPc
    BY <1>3 DEF LaneFor, LaneOf
  <2>3. (2 * c[1]) % 2 = 0
    BY <1>2
  <2>4. ~(LaneFor(c)[1] % 2 = 0 <=> LaneFor(c)[2] \in BlockTypes)
    BY <2>2, <2>3, XorAssumption
  <2> QED BY <1>1, <2>1, <2>4 DEF RemappedPreInit
<1>4. CASE c[2] \notin BlockTypes
  <2>1. LaneFor(c) = <<2 * c[1] + 1, c[2], c[3]>>
    BY <1>4 DEF LaneFor, LaneOf
  <2>2. (2 * c[1] + 1) % 2 = 1 /\ (2 * c[1] + 1) \div 2 = c[1]
    BY <1>2
  <2>3. <<LaneFor(c)[1] \div 2, LaneFor(c)[2], LaneFor(c)[3]>> = c
    BY <1>2, <2>1, <2>2
  <2>4. LaneFor(c)[1] % 2 = 0 <=> LaneFor(c)[2] \in BlockTypes
    BY <1>4, <2>1, <2>2
  <2> QED BY <1>1, <2>3, <2>4 DEF RemappedPreInit
<1> QED BY <1>3, <1>4

-----------------------------------------------------------------------------
(* The first states are first states of the source program, pre_init       *)
(* segments and entry parameters included (movfuscate_ir_impl).            *)
LEMMA InitRefines ==
  ASSUME ProgramsSupported, Init
  PROVE  Inv /\ Source!Init
<1>1. prog \in Programs /\ prog.n \in Nat /\ prog.n >= 2 /\ 0 \in 0 .. prog.n - 1
  <2>1. WellFormed(prog) /\ Supported(prog) /\ prog \in Programs
    BY ProgramAssumption DEF Init, ProgramsSupported
  <2> QED BY <2>1 DEF WellFormed, Supported
<1>2. Len(prog.blocks[0].params) \in Nat
  BY <1>1, BlockFacts
<1>3. PICK inputs \in InputsFor(prog.blocks[0].params) :
        slots = scatter_args_to_state(inputs, slot_map_for(prog.blocks[0].params, Width(prog)),
                                      Zeros(Classes))
  BY DEF Init, Classes
<1>4. inputs \in [1 .. Len(prog.blocks[0].params) -> Val]
  BY DEF InputsFor
<1>5. Zeros(Classes) \in [Classes -> Val]
  BY ProgramAssumption DEF Zeros
<1>6. slots \in [Classes -> Val]
  <2>1. Len(inputs) = Len(prog.blocks[0].params)
    BY <1>2, <1>4
  <2> QED BY <1>3, <1>4, <1>5, <2>1 DEF scatter_args_to_state
<1>7. stor \in [Lanes -> Val]
  <2>1. stor = RemappedPreInit(prog) /\ prog.pre_init \in [Cells -> Val] /\ 0 \in Val
    BY <1>1, ProgramAssumption DEF Init, WellFormed
  <2> QED BY <2>1 DEF RemappedPreInit
<1>8. Inv
  <2>1. TabInv
    BY <1>1 DEF Init, TabInv
  <2>2. AccInv
    BY <1>1 DEF Init, AccInv
  <2>3. status = "run" /\ pc = 0 /\ m = 0 /\ log = << >> /\ wild = FALSE
    BY DEF Init
  <2>4. Good
    BY <1>1, <1>6, <1>7, <2>1, <2>2, <2>3 DEF Good
  <2> QED BY <1>1, <2>3, <2>4 DEF Inv
<1>9. SourceVals = inputs
  <2>1. SourceVals = ParamsOf(prog, 0, slots)
    BY <1>1 DEF Init, SourceVals
  <2> QED BY <1>1, <1>3, <1>4, <1>5, <2>1, ReadBack DEF Classes
<1>10. SourceStor = prog.pre_init
  <2>1. prog.pre_init \in [Cells -> Val]
    BY <1>1, ProgramAssumption DEF WellFormed
  <2>2. \A c \in Cells : stor[LaneFor(c)] = prog.pre_init[c]
    BY <1>1, PreInitKept DEF Init
  <2> QED BY <2>1, <2>2 DEF SourceStor, LaneFor
<1>11. inputs \in Source!InputsFor(prog.blocks[0].params)
  BY DEF InputsFor, Source!InputsFor
<1> QED BY <1>8, <1>9, <1>10, <1>11 DEF Init, Source!Init

-----------------------------------------------------------------------------
(* Steps.                                                                  *)

(* The bit that gates block i.                                             *)
LEMMA Active ==
  ASSUME ProgramsSupported, prog \in Programs, pc \in 0 .. prog.n - 1, NEW i \in 0 .. prog.n - 1
  PROVE  AsBit(IsActive(i)) = IF i = pc THEN 1 ELSE 0
<1>1. PcCodes(prog)
  BY DEF ProgramsSupported, Supported
<1> QED BY <1>1 DEF PcCodes, IsActive, AsBit

(* The parameters in the slots are a table to begin with.                  *)
LEMMA ParamsAreValues ==
  ASSUME ProgramsSupported, NEW P \in Programs, NEW i \in 0 .. P.n - 1,
         NEW state \in [compute_static_slot_classes(P) -> Val]
  PROVE  ParamsOf(P, i, state) \in Seq(Val) /\ Len(ParamsOf(P, i, state)) = Len(P.blocks[i].params)
<1>1. Len(P.blocks[i].params) \in Nat
  BY BlockFacts
<1>2. ASSUME NEW k \in 1 .. Len(P.blocks[i].params)
      PROVE  state[slot_map_for(P.blocks[i].params, Width(P))[k]] \in Val
  <2>1. slot_map_for(P.blocks[i].params, Width(P))[k] \in compute_static_slot_classes(P)
    BY <1>1, <1>2 DEF compute_static_slot_classes, slot_map_for
  <2> QED BY <2>1
<1> QED BY <1>1, <1>2 DEF ParamsOf

(* Entering a block's code (movfuscate's loop over the blocks) starts its   *)
(* table with the values in the slots of its parameters.                   *)
LEMMA EnterTables ==
  ASSUME ProgramsSupported, prog \in Programs, slots \in [Classes -> Val], TabInv, EnterBlock
  PROVE  /\ TabInv'
         /\ Len(tab) \in 0 .. prog.n - 1 /\ Len(tab') = Len(tab) + 1
         /\ tab'[Len(tab) + 1] = ParamsOf(prog, Len(tab), slots)
         /\ \A i \in 1 .. Len(tab) : tab'[i] = tab[i]
<1>1. prog.n \in Nat /\ Len(tab) \in Nat /\ Len(tab) \in 0 .. prog.n - 1
  <2>1. prog.n \in Nat
    BY ProgramAssumption DEF WellFormed
  <2>2. Len(tab) \in Nat /\ Len(tab) < prog.n
    BY DEF TabInv, EnterBlock
  <2> QED BY <2>1, <2>2
<1> DEFINE new == ParamsOf(prog, Len(tab), slots)
           b == prog.blocks[Len(tab)]
<1>2. /\ new \in Seq(Val) /\ Len(new) = Len(b.params) /\ NumVars(b) \in Nat
      /\ Len(b.params) \in Nat /\ Len(b.params) <= NumVars(b)
  <2>1. new \in Seq(Val) /\ Len(new) = Len(b.params)
    BY <1>1, ParamsAreValues DEF Classes
  <2>2. Len(b.params) \in Nat /\ Len(b.stmts) \in Nat
    BY <1>1, BlockFacts
  <2>3. \A x, y \in Nat : x + y \in Nat /\ x <= x + y
    OBVIOUS
  <2> QED BY <2>1, <2>2, <2>3 DEF NumVars
<1>3. tab' = Append(tab, new) /\ prog' = prog
  BY DEF EnterBlock
<1> HIDE DEF new
<1>4. /\ tab' \in Seq(Seq(Val)) /\ Len(tab') = Len(tab) + 1 /\ tab'[Len(tab) + 1] = new
      /\ \A i \in 1 .. Len(tab) : tab'[i] = tab[i]
  BY <1>1, <1>2, <1>3 DEF TabInv
<1>5. TabInv'
  <2>1. ASSUME NEW i \in 1 .. Len(tab')
        PROVE  /\ Len(prog.blocks[i - 1].params) <= Len(tab'[i])
               /\ Len(tab'[i]) <= NumVars(prog.blocks[i - 1])
               /\ i < Len(tab') => Len(tab'[i]) = NumVars(prog.blocks[i - 1])
    <3>1. CASE i = Len(tab) + 1
      <4>1. i - 1 = Len(tab) /\ ~(i < Len(tab'))
        BY <1>1, <1>4, <3>1
      <4> QED BY <1>2, <1>4, <3>1, <4>1
    <3>2. CASE i \in 1 .. Len(tab)
      <4>1. tab'[i] = tab[i]
        BY <1>4, <3>2
      <4>2. i = Len(tab) => Len(tab[i]) = NumVars(prog.blocks[i - 1])
        <5> SUFFICES ASSUME i = Len(tab)
                     PROVE  Len(tab[i]) = NumVars(prog.blocks[i - 1])
          OBVIOUS
        <5>1. tab # << >> /\ Current = i - 1 /\ Current + 1 = i
          BY <1>1, <3>2 DEF Current
        <5>2. TableFull(i - 1) /\ i - 1 + 1 = i
          BY <5>1, <3>2, <1>1 DEF EnterBlock
        <5> QED BY <5>2 DEF TableFull
      <4> QED BY <1>1, <3>2, <4>1, <4>2 DEF TabInv
    <3> QED BY <1>1, <1>4, <3>1, <3>2
  <2> QED BY <1>1, <1>3, <1>4, <2>1 DEF TabInv
<1> QED BY <1>1, <1>4, <1>5 DEF new

(* It is a step the source program does not see.                           *)
LEMMA EnterBlockStep ==
  ASSUME ProgramsSupported, prog \in Programs, Good, EnterBlock
  PROVE  Good' /\ UNCHANGED Source!vars
<1>1. TabInv /\ slots \in [Classes -> Val] /\ pc \in 0 .. prog.n - 1 /\ prog.n \in Nat /\ Len(tab) \in Nat
  BY ProgramAssumption DEF Good, TabInv, WellFormed
<1>2. /\ TabInv' /\ Len(tab) \in 0 .. prog.n - 1 /\ Len(tab') = Len(tab) + 1
      /\ tab'[Len(tab) + 1] = ParamsOf(prog, Len(tab), slots)
      /\ \A i \in 1 .. Len(tab) : tab'[i] = tab[i]
  BY <1>1, EnterTables
<1>3. UNCHANGED <<prog, status, pc, slots, stor, acc, m, ret, log, wild>>
  BY DEF EnterBlock
<1>6. m = 0
  BY <1>1, <1>2 DEF Good, AllEvaluated
<1>7. Good'
  <2>1. AccInv'
    BY <1>1, <1>3, <1>6 DEF Good, AccInv
  <2> QED BY <1>1, <1>2, <1>3, <1>6, <2>1 DEF Good, Classes
<1>8. SourceVals' = SourceVals
  <2>1. CASE pc < Len(tab)
    BY <1>1, <1>3, <1>2, <2>1 DEF SourceVals
  <2>2. CASE pc = Len(tab)
    BY <1>1, <1>3, <1>2, <2>2 DEF SourceVals
  <2>3. CASE pc > Len(tab)
    BY <1>1, <1>3, <1>2, <2>3 DEF SourceVals
  <2> QED BY <1>1, <2>1, <2>2, <2>3
<1>9. SourceStor' = SourceStor
  BY <1>3 DEF SourceStor
<1> QED BY <1>3, <1>7, <1>8, <1>9 DEF Source!vars

(* The statement about to be evaluated, in the table it is evaluated in.   *)
LEMMA StmtFacts ==
  ASSUME ProgramsSupported, prog \in Programs, TabInv, emit_block_stmts
  PROVE  LET block == prog.blocks[Current]
             tbl   == tab[Len(tab)]
             s     == StmtAt(block, tbl)
         IN  /\ prog.n \in Nat
             /\ Len(tab) \in 1 .. prog.n /\ Current \in 0 .. prog.n - 1
             /\ tbl \in Seq(Val) /\ Len(tbl) \in Nat
             /\ NumVars(block) \in Nat /\ Len(tbl) < NumVars(block)
             /\ Len(block.params) <= Len(tbl) /\ Len(block.params) \in Nat
             /\ StmtWellFormed(s, Len(tbl)) /\ StmtSupported(prog, block, s)
             /\ s.op \in {"StorageRead", "StorageWrite"} => s.ty \in StoredTypes(prog)
<1> DEFINE block == prog.blocks[Current]
           tbl == tab[Len(tab)]
           s == StmtAt(block, tbl)
           np == Len(block.params)
           j == Len(tbl) - np + 1
<1>2. prog.n \in Nat
  BY ProgramAssumption DEF WellFormed
<1>3. Len(tab) \in 1 .. prog.n
  <2>1. tab # << >> /\ tab \in Seq(Seq(Val)) /\ Len(tab) <= prog.n
    BY DEF emit_block_stmts, TabInv
  <2> QED BY <1>2, <2>1
<1>4. Current \in 0 .. prog.n - 1 /\ Current + 1 = Len(tab) /\ Len(tab) - 1 = Current
  BY <1>2, <1>3 DEF Current
<1>5. tbl \in Seq(Val) /\ Len(tbl) \in Nat
  BY <1>3 DEF TabInv
<1>6. np <= Len(tbl) /\ Len(tbl) <= NumVars(block)
  BY <1>3, <1>4 DEF TabInv
<1>7. Len(tbl) # NumVars(block)
  BY <1>4 DEF emit_block_stmts, TableFull
<1>8. /\ np \in Nat /\ Len(block.stmts) \in Nat /\ NumVars(block) \in Nat
      /\ \A k \in 1 .. Len(block.stmts) : /\ StmtWellFormed(block.stmts[k], np + k - 1)
                                          /\ StmtSupported(prog, block, block.stmts[k])
  BY <1>4, BlockFacts
<1>9. NumVars(block) = np + Len(block.stmts)
  BY DEF NumVars
<1>10. j \in 1 .. Len(block.stmts) /\ np + j - 1 = Len(tbl)
  <2> DEFINE ls == Len(block.stmts)
             lt == Len(tbl)
             nv == NumVars(block)
  <2>1. ls \in Nat /\ lt \in Nat /\ np \in Nat /\ nv = np + ls /\ np <= lt /\ lt <= nv /\ lt # nv
    BY <1>5, <1>6, <1>7, <1>8, <1>9
  <2> HIDE DEF ls, lt, np, nv
  <2>2. lt - np + 1 \in 1 .. ls /\ np + (lt - np + 1) - 1 = lt
    BY <2>1
  <2> QED BY <2>2 DEF ls, lt, np
<1>11. s = block.stmts[j]
  BY DEF StmtAt
<1>12. StmtWellFormed(s, Len(tbl)) /\ StmtSupported(prog, block, s)
  BY <1>8, <1>10, <1>11
<1>14. s.op \in {"StorageRead", "StorageWrite"} => s.ty \in StoredTypes(prog)
  <2> SUFFICES ASSUME s.op \in {"StorageRead", "StorageWrite"}
               PROVE  s.ty \in StoredTypes(prog)
    OBVIOUS
  <2>1. s.ty \in Types
    BY <1>12 DEF StmtWellFormed
  <2> HIDE DEF j
  <2> QED BY <1>4, <1>10, <1>11, <2>1 DEF StoredTypes
<1>15. Len(tbl) < NumVars(block)
  BY <1>5, <1>6, <1>7, <1>8
<1> QED BY <1>2, <1>3, <1>4, <1>5, <1>6, <1>8, <1>12, <1>14, <1>15

(* A supported statement computes the value the interpreter gives it.      *)
LEMMA StmtResult ==
  ASSUME ProgramsSupported, prog \in Programs, prog.n \in Nat, stor \in [Lanes -> Val], NEW block, NEW s,
         NEW tbl \in Seq(Val), StmtWellFormed(s, Len(tbl)), StmtSupported(prog, block, s),
         s.op \in {"StorageRead", "StorageWrite"} => s.ty \in StoredTypes(prog)
  PROVE  /\ EmittedValue(s, tbl) \in Val
         /\ EmittedValue(s, tbl) = StmtValue(s, tbl, SourceStor)
         /\ Performed(s, tbl) = << >>
         /\ s.op \in {"StorageRead", "StorageWrite"} =>
              Cell(s, tbl) \in Cells /\ LaneFor(Cell(s, tbl)) \in Lanes
         /\ s.op = "StorageWrite" =>
              tbl[s.src] \in Val /\ WriteLane(block, s, tbl) = LaneFor(Cell(s, tbl))
<1> DEFINE c == Cell(s, tbl)
<1>0. s.op # "ActionCall" /\ s.op \in {"Const", "Pure", "StorageRead", "StorageWrite"}
  BY DEF StmtSupported, StmtWellFormed
<1>1. Performed(s, tbl) = << >>
  BY <1>0 DEF Performed
<1>2. s.op \in {"StorageRead", "StorageWrite"} =>
        /\ c \in Cells /\ LaneFor(c) \in Lanes
        /\ c[1] = s.storage /\ c[2] = s.ty /\ c[3] = tbl[s.addr]
  <2> SUFFICES ASSUME s.op \in {"StorageRead", "StorageWrite"}
               PROVE  /\ c \in Cells /\ LaneFor(c) \in Lanes
                      /\ c[1] = s.storage /\ c[2] = s.ty /\ c[3] = tbl[s.addr]
    OBVIOUS
  <2>1. s.storage \in Storages /\ s.ty \in Types /\ tbl[s.addr] \in Val
    BY DEF StmtWellFormed
  <2>2. c \in Cells
    BY <2>1 DEF Cells, Cell
  <2> QED BY <2>2, LaneFacts DEF Cell
<1>3. CASE s.op = "StorageWrite"
  <2>1. tbl[s.src] \in Val
    BY <1>3 DEF StmtWellFormed
  <2>2. WriteLane(block, s, tbl) = LaneFor(c)
    BY <1>2, <1>3 DEF StmtSupported, WriteLane, LaneFor, LaneOf
  <2>3. EmittedValue(s, tbl) = 0 /\ StmtValue(s, tbl, SourceStor) = 0
    BY <1>3 DEF EmittedValue, StmtValue
  <2> QED BY <1>1, <1>2, <1>3, <2>1, <2>2, <2>3, ProgramAssumption
<1>4. CASE s.op = "StorageRead"
  <2>1. ReadLane(s, tbl) = LaneFor(c)
    BY <1>2, <1>4 DEF ReadLane, LaneFor, LaneOf
  <2>2. EmittedValue(s, tbl) = stor[LaneFor(c)]
    BY <1>4, <2>1 DEF EmittedValue
  <2>3. SourceStor[c] = stor[LaneFor(c)]
    BY <1>2, <1>4 DEF SourceStor, LaneFor
  <2>4. StmtValue(s, tbl, SourceStor) = SourceStor[c]
    BY <1>4 DEF StmtValue
  <2> QED BY <1>1, <1>2, <1>4, <2>2, <2>3, <2>4
<1>5. CASE s.op = "Const"
  <2>1. s.value \in Val
    BY <1>5 DEF StmtWellFormed
  <2>2. s.ty \in BlockTypes => encode_pc_bits(s.value, Width(prog)) = s.value
    <3>1. PcCodes(prog)
      BY DEF ProgramsSupported, Supported
    <3> QED BY <1>5, <3>1 DEF StmtSupported, PcCodes
  <2>3. EmittedValue(s, tbl) = s.value /\ StmtValue(s, tbl, SourceStor) = s.value
    BY <1>5, <2>2 DEF EmittedValue, StmtValue
  <2> QED BY <1>1, <1>5, <2>1, <2>3
<1>6. CASE s.op = "Pure"
  <2>1. s.args \in Seq(1 .. Len(tbl)) /\ s.f \in [[1 .. Len(s.args) -> Val] -> Val]
    BY <1>6 DEF StmtWellFormed, FunctionOf
  <2>2. Args(s.args, tbl) \in [1 .. Len(s.args) -> Val]
    BY <2>1, ArgsAreValues
  <2>3. EmittedValue(s, tbl) = s.f[Args(s.args, tbl)]
    BY <1>6 DEF EmittedValue, StmtValue
  <2>4. StmtValue(s, tbl, SourceStor) = s.f[Args(s.args, tbl)]
    BY <1>6 DEF StmtValue
  <2>5. s.f[Args(s.args, tbl)] \in Val
    BY <2>1, <2>2
  <2> QED BY <1>1, <1>6, <2>3, <2>4, <2>5
<1> QED BY <1>0, <1>3, <1>4, <1>5, <1>6

(* The code of one statement adds its value to the table, and leaves       *)
(* storage alone unless it is a write of the active block.                 *)
LEMMA StmtTables ==
  ASSUME ProgramsSupported, prog \in Programs, stor \in [Lanes -> Val], TabInv, emit_block_stmts
  PROVE  LET block == prog.blocks[Current]
             tbl   == tab[Len(tab)]
             s     == StmtAt(block, tbl)
             val   == EmittedValue(s, tbl)
             lane  == WriteLane(block, s, tbl)
         IN  /\ TabInv' /\ stor' \in [Lanes -> Val] /\ log' = log \o << >>
             /\ Len(tab') = Len(tab) /\ tab'[Len(tab)] = Append(tbl, val)
             /\ \A i \in 1 .. Len(tab) : i # Len(tab) => tab'[i] = tab[i]
             /\ stor' = IF s.op = "StorageWrite" /\ IsActive(Current)
                        THEN [stor EXCEPT ![lane] = tbl[s.src]] ELSE stor
<1> DEFINE block == prog.blocks[Current]
           tbl == tab[Len(tab)]
           s == StmtAt(block, tbl)
           val == EmittedValue(s, tbl)
           lane == WriteLane(block, s, tbl)
           c == Cell(s, tbl)
<1>1. /\ prog.n \in Nat
      /\ Len(tab) \in 1 .. prog.n /\ Current \in 0 .. prog.n - 1
      /\ tbl \in Seq(Val) /\ Len(tbl) \in Nat
      /\ NumVars(block) \in Nat /\ Len(tbl) < NumVars(block)
      /\ Len(block.params) <= Len(tbl) /\ Len(block.params) \in Nat
      /\ StmtWellFormed(s, Len(tbl)) /\ StmtSupported(prog, block, s)
      /\ s.op \in {"StorageRead", "StorageWrite"} => s.ty \in StoredTypes(prog)
  BY StmtFacts
<1>3. /\ val \in Val /\ Performed(s, tbl) = << >>
      /\ s.op \in {"StorageRead", "StorageWrite"} => c \in Cells /\ LaneFor(c) \in Lanes
      /\ s.op = "StorageWrite" => tbl[s.src] \in Val /\ lane = LaneFor(c)
  BY <1>1, StmtResult
<1>4. /\ tab' = [tab EXCEPT ![Len(tab)] = Append(tbl, val)]
      /\ stor' = IF s.op = "StorageWrite"
                 THEN [stor EXCEPT ![lane] = emit_select_slot(AsBit(IsActive(Current)), tbl[s.src], stor[lane])]
                 ELSE stor
      /\ log' = log \o Performed(s, tbl)
      /\ status = "run" /\ UNCHANGED <<prog, status, pc, slots, acc, m, ret, wild>>
  BY DEF emit_block_stmts, GatedWrite
<1>5. Current + 1 = Len(tab)
  BY <1>1 DEF Current
<1> HIDE DEF val, lane, c, s
<1>6. log' = log \o << >>
  BY <1>3, <1>4
<1>7. stor' = IF s.op = "StorageWrite" /\ IsActive(Current) THEN [stor EXCEPT ![lane] = tbl[s.src]] ELSE stor
  <2>1. s.op = "StorageWrite" => stor[lane] \in Val
    BY <1>3
  <2>2. CASE IsActive(Current)
    <3>1. AsBit(IsActive(Current)) = 1
      BY <2>2 DEF AsBit
    <3>2. s.op = "StorageWrite" => emit_select_slot(AsBit(IsActive(Current)), tbl[s.src], stor[lane]) = tbl[s.src]
      BY <1>3, <2>1, <3>1, FieldGates DEF ProgramsSupported
    <3> QED BY <1>4, <2>2, <3>2
  <2>3. CASE ~IsActive(Current)
    <3>1. AsBit(IsActive(Current)) = 0
      BY <2>3 DEF AsBit
    <3>2. s.op = "StorageWrite" => emit_select_slot(AsBit(IsActive(Current)), tbl[s.src], stor[lane]) = stor[lane]
      BY <1>3, <2>1, <3>1, FieldGates DEF ProgramsSupported
    <3>3. [stor EXCEPT ![lane] = stor[lane]] = stor
      OBVIOUS
    <3> QED BY <1>4, <2>3, <3>2, <3>3
  <2> QED BY <2>2, <2>3
<1>8. stor' \in [Lanes -> Val]
  BY <1>3, <1>7
<1>9. /\ tab' \in Seq(Seq(Val)) /\ Len(tab') = Len(tab)
      /\ tab'[Len(tab)] = Append(tbl, val)
      /\ \A i \in 1 .. Len(tab) : i # Len(tab) => tab'[i] = tab[i]
  <2>1. tab \in Seq(Seq(Val)) /\ Append(tbl, val) \in Seq(Val)
    BY <1>1, <1>3 DEF TabInv
  <2> QED BY <1>1, <1>4, <2>1
<1>10. Len(Append(tbl, val)) = Len(tbl) + 1
  BY <1>1, <1>3
<1>11. TabInv'
  <2>1. ASSUME NEW i \in 1 .. Len(tab)
        PROVE  /\ Len(prog.blocks[i - 1].params) <= Len(tab'[i])
               /\ Len(tab'[i]) <= NumVars(prog.blocks[i - 1])
               /\ i < Len(tab) => Len(tab'[i]) = NumVars(prog.blocks[i - 1])
    <3>1. CASE i = Len(tab)
      <4>1. i - 1 = Current /\ Len(tab'[i]) = Len(tbl) + 1
        BY <1>1, <1>5, <1>9, <1>10, <3>1
      <4>2. Len(block.params) <= Len(tbl) + 1 /\ Len(tbl) + 1 <= NumVars(block)
        BY <1>1
      <4> QED BY <1>1, <3>1, <4>1, <4>2
    <3>2. CASE i # Len(tab)
      BY <1>1, <1>9, <3>2 DEF TabInv
    <3> QED BY <3>1, <3>2
  <2> QED BY <1>1, <1>4, <1>9, <2>1 DEF TabInv
<1> QED BY <1>6, <1>7, <1>8, <1>9, <1>11 DEF val, lane, s

(* The code of one statement (emit_block_stmts) is the interpreter's step  *)
(* when its block is active, and changes nothing it can see otherwise.     *)
LEMMA StmtStep ==
  ASSUME ProgramsSupported, prog \in Programs, Good, emit_block_stmts
  PROVE  Good' /\ (~wild => Source!eval_ir_stmt \/ UNCHANGED Source!vars)
<1> DEFINE block == prog.blocks[Current]
           tbl == tab[Len(tab)]
           s == StmtAt(block, tbl)
           val == EmittedValue(s, tbl)
           lane == WriteLane(block, s, tbl)
           c == Cell(s, tbl)
<1>2. /\ TabInv /\ pc \in 0 .. prog.n - 1 /\ m \in 0 .. prog.n
      /\ stor \in [Lanes -> Val] /\ slots \in [Classes -> Val] /\ log = << >>
  BY DEF Good
<1>1. /\ prog.n \in Nat /\ m = 0
      /\ Len(tab) \in 1 .. prog.n /\ Current \in 0 .. prog.n - 1
      /\ tbl \in Seq(Val) /\ Len(tbl) \in Nat
      /\ NumVars(block) \in Nat /\ Len(tbl) < NumVars(block)
      /\ StmtWellFormed(s, Len(tbl)) /\ StmtSupported(prog, block, s)
      /\ s.op \in {"StorageRead", "StorageWrite"} => s.ty \in StoredTypes(prog)
  <2>1. m = 0
    BY <1>2, ProgramAssumption DEF Good, AllEvaluated, emit_block_stmts, WellFormed
  <2> QED BY <1>2, <2>1, StmtFacts
<1>3. /\ val \in Val /\ val = StmtValue(s, tbl, SourceStor)
      /\ Performed(s, tbl) = << >>
      /\ s.op \in {"StorageRead", "StorageWrite"} => c \in Cells /\ LaneFor(c) \in Lanes
      /\ s.op = "StorageWrite" => tbl[s.src] \in Val /\ lane = LaneFor(c)
  BY <1>1, <1>2, StmtResult
<1>4. status = "run" /\ UNCHANGED <<prog, status, pc, slots, acc, m, ret, wild>>
  BY DEF emit_block_stmts
<1>5. Current + 1 = Len(tab)
  BY <1>1 DEF Current
<1>15. IsActive(Current) <=> Current = pc
  BY <1>1, <1>2, Active DEF AsBit
<1>9. /\ TabInv' /\ stor' \in [Lanes -> Val] /\ log' = log \o << >>
      /\ Len(tab') = Len(tab) /\ tab'[Len(tab)] = Append(tbl, val)
      /\ \A i \in 1 .. Len(tab) : i # Len(tab) => tab'[i] = tab[i]
      /\ stor' = IF s.op = "StorageWrite" /\ IsActive(Current)
                 THEN [stor EXCEPT ![lane] = tbl[s.src]] ELSE stor
  BY <1>2, StmtTables
<1> HIDE DEF val, lane, c, s
<1>6. log' = << >>
  BY <1>2, <1>9
<1>7. stor' = IF s.op = "StorageWrite" /\ Current = pc THEN [stor EXCEPT ![lane] = tbl[s.src]] ELSE stor
  BY <1>9, <1>15
<1>12. Good'
  <2>1. AccInv'
    BY <1>1, <1>2, <1>4 DEF Good, AccInv
  <2> QED BY <1>1, <1>4, <1>6, <1>9, <2>1 DEF Good, Classes
<1>13. CASE Current # pc
  <2>1. SourceVals' = SourceVals
    <3>1. CASE pc < Len(tab)
      <4>1. pc + 1 \in 1 .. Len(tab) /\ pc + 1 # Len(tab)
        BY <1>1, <1>2, <1>5, <1>13, <3>1
      <4> QED BY <1>4, <1>9, <3>1, <4>1 DEF SourceVals
    <3>2. CASE ~(pc < Len(tab))
      BY <1>4, <1>9, <3>2 DEF SourceVals
    <3> QED BY <3>1, <3>2
  <2>2. SourceStor' = SourceStor
    BY <1>4, <1>7, <1>13 DEF SourceStor
  <2> QED BY <1>2, <1>4, <1>6, <1>12, <2>1, <2>2 DEF Source!vars
<1>14. CASE Current = pc
  <2>1. SourceVals = tbl /\ SourceVals' = Append(tbl, val)
    <3>1. pc < Len(tab) /\ pc + 1 = Len(tab)
      BY <1>1, <1>5, <1>14
    <3> QED BY <1>4, <1>9, <3>1 DEF SourceVals
  <2>2. SourceStor' = IF s.op = "StorageWrite" THEN [SourceStor EXCEPT ![c] = tbl[s.src]] ELSE SourceStor
    <3>1. CASE s.op # "StorageWrite"
      BY <1>4, <1>7, <3>1 DEF SourceStor
    <3>2. CASE s.op = "StorageWrite"
      <4>1. c \in Cells /\ c[2] \in StoredTypes(prog) /\ lane = LaneFor(c) /\ lane \in Lanes
        BY <1>1, <1>3, <3>2 DEF c, Cell
      <4>2. ASSUME NEW d \in Cells
            PROVE  SourceStor'[d] = IF d = c THEN tbl[s.src] ELSE SourceStor[d]
        <5>1. d # c /\ d[2] \in StoredTypes(prog) => LaneFor(d) # lane
          BY <1>1, <4>1, LaneFacts
        <5>2. stor' = [stor EXCEPT ![lane] = tbl[s.src]] /\ LaneFor(d) \in Lanes
          BY <1>1, <1>7, <1>14, <3>2, LaneFacts
        <5>3. SourceStor'[d] = IF d[2] \in StoredTypes(prog) THEN stor'[LaneFor(d)] ELSE prog.pre_init[d]
          BY <1>4 DEF SourceStor, LaneFor
        <5>4. SourceStor[d] = IF d[2] \in StoredTypes(prog) THEN stor[LaneFor(d)] ELSE prog.pre_init[d]
          BY DEF SourceStor, LaneFor
        <5> QED BY <1>2, <4>1, <5>1, <5>2, <5>3, <5>4
      <4>3. DOMAIN SourceStor' = Cells /\ DOMAIN SourceStor = Cells
        BY DEF SourceStor
      <4>4. SourceStor' = [d \in Cells |-> SourceStor'[d]]
        BY DEF SourceStor
      <4>5. [SourceStor EXCEPT ![c] = tbl[s.src]] = [d \in Cells |-> IF d = c THEN tbl[s.src] ELSE SourceStor[d]]
        BY <4>1, <4>3
      <4> QED BY <3>2, <4>2, <4>4, <4>5
    <3> QED BY <3>1, <3>2
  <2>3. Source!Block = block
    BY <1>14 DEF Source!Block
  <2>4. Source!StmtAt(block, tbl) = s /\ Source!NumVars(block) = NumVars(block)
    BY DEF Source!StmtAt, StmtAt, s, Source!NumVars, NumVars
  <2>5. /\ Source!StmtValue(s, tbl, SourceStor) = val
        /\ Source!Cell(s, tbl) = c
        /\ Source!Performed(s, tbl) = Performed(s, tbl)
    BY <1>3 DEF Source!StmtValue, StmtValue, Source!Cell, Cell, Source!Performed, Performed,
                Source!Args, Args, c
  <2> QED BY <1>1, <1>4, <1>9, <1>2, <1>3, <1>12, <2>1, <2>2, <2>3, <2>4, <2>5 DEF Source!eval_ir_stmt
<1> QED BY <1>12, <1>13, <1>14

(* Once all is evaluated, every block's table is complete.                 *)
LEMMA Evaluated ==
  ASSUME ProgramsSupported, prog \in Programs, TabInv, slots \in [Classes -> Val], AllEvaluated,
         NEW i \in 0 .. prog.n - 1
  PROVE  /\ tab[i + 1] \in Seq(Val) /\ Len(tab[i + 1]) = NumVars(prog.blocks[i])
         /\ emit_block_terminator(prog, i, tab[i + 1], slots) \in Results(prog)
<1>2. prog.n \in Nat
  BY ProgramAssumption DEF WellFormed
<1>3. tab \in Seq(Seq(Val)) /\ Len(tab) = prog.n /\ i + 1 \in 1 .. Len(tab) /\ (i + 1) - 1 = i
  BY <1>2 DEF TabInv, AllEvaluated
<1>4. tab[i + 1] \in Seq(Val)
  BY <1>3
<1>5. Len(tab[i + 1]) = NumVars(prog.blocks[i])
  <2>1. CASE i + 1 < Len(tab)
    BY <1>3, <2>1 DEF TabInv
  <2>2. CASE i + 1 = Len(tab)
    <3>1. Current = i
      BY <1>2, <1>3, <2>2 DEF Current
    <3> QED BY <3>1 DEF AllEvaluated, TableFull
  <2> QED BY <1>2, <1>3, <2>1, <2>2
<1> QED BY <1>4, <1>5, Terminator DEF Classes

(* Adding up one block's wish leaves the source program where it is, and   *)
(* the accumulators at their start or at the active block's wish.          *)
LEMMA AccumulateStep ==
  ASSUME ProgramsSupported, prog \in Programs, Good, Accumulate
  PROVE  Good' /\ UNCHANGED Source!vars
<1> DEFINE r == emit_block_terminator(prog, m, tab[m + 1], slots)
<1>1. /\ prog \in Programs /\ Good /\ TabInv /\ slots \in [Classes -> Val]
      /\ pc \in 0 .. prog.n - 1 /\ AllEvaluated /\ m \in 0 .. prog.n /\ m < prog.n /\ AccInv
  BY DEF Good, Accumulate
<1>2. prog.n \in Nat /\ m \in 0 .. prog.n - 1
  BY <1>1, ProgramAssumption DEF WellFormed
<1>3. /\ acc' = AccumStep(acc, AsBit(IsActive(m)), r, slots) /\ m' = m + 1
      /\ UNCHANGED <<prog, status, pc, slots, stor, tab, ret, log, wild>>
  BY DEF Accumulate
<1>4. r \in Results(prog)
  BY <1>1, <1>2, Evaluated
<1>5. AsBit(IsActive(m)) = IF m = pc THEN 1 ELSE 0
  BY <1>1, <1>2, Active
<1> HIDE DEF r
<1>6. AccumInit(prog, slots) \in Results(prog)
  BY <1>1, <1>4, Accumulation DEF Classes
<1>7. AccInv'
  <2>1. CASE m = pc
    <3>1. acc = AccumInit(prog, slots)
      BY <1>1, <1>2, <2>1 DEF AccInv
    <3>2. acc' = r
      BY <1>1, <1>3, <1>4, <1>5, <1>6, <2>1, <3>1, Accumulation DEF Classes
    <3> QED BY <1>1, <1>2, <1>3, <2>1, <3>2 DEF AccInv, r
  <2>2. CASE m # pc
    <3>1. acc \in Results(prog)
      BY <1>1, <1>6, Evaluated DEF AccInv
    <3>2. acc' = acc
      BY <1>1, <1>3, <1>4, <1>5, <2>2, <3>1, Accumulation DEF Classes
    <3> QED BY <1>1, <1>2, <1>3, <2>2, <3>2 DEF AccInv
  <2> QED BY <2>1, <2>2
<1>8. TabInv' /\ AllEvaluated'
  BY <1>1, <1>3 DEF TabInv, AllEvaluated, TableFull, Current
<1>9. Good'
  BY <1>1, <1>2, <1>3, <1>7, <1>8 DEF Good, Classes
<1>11. SourceVals' = SourceVals /\ SourceStor' = SourceStor
  BY <1>3 DEF SourceVals, SourceStor
<1> QED BY <1>3, <1>9, <1>11 DEF Source!vars

(* At the end of an iteration the accumulators hold what the active block  *)
(* wants, and the source program is at that block's terminator.            *)
LEMMA AtEnd ==
  ASSUME ProgramsSupported, prog \in Programs, Good, status = "run", m = prog.n
  PROVE  LET term == prog.blocks[pc].term
             tbl == tab[pc + 1]
             target == Branch(term, tbl)
         IN  /\ prog \in Programs /\ prog.n \in Nat /\ pc \in 0 .. prog.n - 1
             /\ slots \in [Classes -> Val]
             /\ tbl \in Seq(Val) /\ SourceVals = tbl /\ (~wild => Source!AtTerminator)
             /\ Source!Block = prog.blocks[pc] /\ Source!Target = target
             /\ Source!Defined(prog, term, tbl) <=> Defined(prog, term, tbl)
             /\ HasBranch(term, tbl) =>
                  /\ acc = process_ir_target(prog, target, tbl, slots)
                  /\ acc.done = 1 <=> target.dest = "Return"
                  /\ TargetWellFormed(prog, target, Len(tbl))
                  /\ TargetSupported(prog, prog.blocks[pc], target)
             /\ ~HasBranch(term, tbl) => acc.done = 0
             /\ acc \in Results(prog)
<1> DEFINE block == prog.blocks[pc]
           term == block.term
           tbl == tab[pc + 1]
           target == Branch(term, tbl)
<1>1. /\ prog \in Programs /\ Good /\ pc \in 0 .. prog.n - 1 /\ slots \in [Classes -> Val]
      /\ (m > 0 => AllEvaluated) /\ AccInv /\ TabInv
  BY DEF Good
<1>2. prog.n \in Nat /\ prog.n >= 2
  BY <1>1, BlockFacts
<1>3. AllEvaluated /\ pc < m /\ pc < Len(tab)
  BY <1>1, <1>2 DEF AllEvaluated
<1>4. tbl \in Seq(Val) /\ Len(tbl) = NumVars(block)
  BY <1>1, <1>3, Evaluated
<1>5. acc = emit_block_terminator(prog, pc, tbl, slots)
  BY <1>1, <1>3 DEF AccInv
<1>6. SourceVals = tbl
  BY <1>3 DEF SourceVals
<1>7. Source!Block = block /\ Source!NumVars(block) = NumVars(block)
  BY DEF Source!Block, Source!NumVars, NumVars
<1>8. ~wild => Source!AtTerminator
  BY <1>4, <1>6, <1>7 DEF Source!AtTerminator
<1>9. Source!Branch(term, tbl) = target
  BY DEF Source!Branch, Branch
<1>10. Source!Defined(prog, term, tbl) <=> Defined(prog, term, tbl)
  BY <1>9 DEF Source!Defined, Defined, Source!HasBranch, HasBranch
<1>11. Source!Target = target
  BY <1>6, <1>7, <1>9 DEF Source!Target
<1>12. /\ acc \in Results(prog)
       /\ HasBranch(term, tbl) =>
            /\ acc = process_ir_target(prog, target, tbl, slots)
            /\ acc.done = 1 <=> target.dest = "Return"
            /\ TargetWellFormed(prog, target, NumVars(block))
            /\ TargetSupported(prog, block, target)
       /\ ~HasBranch(term, tbl) => acc.done = 0
  BY <1>1, <1>4, <1>5, Terminator DEF Classes
<1> QED BY <1>1, <1>2, <1>4, <1>6, <1>7, <1>8, <1>10, <1>11, <1>12

(* Returning from the combined block is the source program's return.       *)
LEMMA ReturnStep ==
  ASSUME ProgramsSupported, Inv, ~wild, Return
  PROVE  Inv' /\ Source!Return
<1> DEFINE term == prog.blocks[pc].term
           tbl == tab[pc + 1]
           target == Branch(term, tbl)
<1>1. /\ status = "run" /\ m = prog.n /\ acc.done = 1 /\ status' = "return" /\ ret' = acc.ret
      /\ UNCHANGED <<prog, pc, slots, stor, tab, acc, m, log, wild>>
  BY DEF Return
<1>2. /\ SourceVals = tbl /\ Source!AtTerminator
      /\ Source!Block = prog.blocks[pc] /\ Source!Target = target
      /\ Source!Defined(prog, term, tbl) <=> Defined(prog, term, tbl)
      /\ HasBranch(term, tbl) /\ target.dest = "Return"
      /\ acc = process_ir_target(prog, target, tbl, slots)
  BY <1>1, AtEnd DEF Inv
<1>3. Defined(prog, term, tbl)
  BY <1>2 DEF Defined
<1>4. acc.ret = Args(target.args, tbl)
  BY <1>2 DEF process_ir_target
<1>5. Source!Args(target.args, tbl) = Args(target.args, tbl)
  BY DEF Source!Args, Args
<1>6. SourceVals' = SourceVals /\ SourceStor' = SourceStor
  BY <1>1 DEF SourceVals, SourceStor
<1>7. Source!Return
  <2> HIDE DEF target, tbl, term
  <2> QED BY <1>1, <1>2, <1>3, <1>4, <1>5, <1>6 DEF Source!Return, Inv, term
<1>8. Inv'
  <2>1. TabInv' = TabInv /\ AccInv' = AccInv /\ AllEvaluated' = AllEvaluated
    BY <1>1 DEF TabInv, AccInv, AllEvaluated, TableFull, Current
  <2> QED BY <1>1, <2>1 DEF Inv, Good, Classes
<1> QED BY <1>7, <1>8

(* The new slots hold the arguments of the jump where its target block     *)
(* looks for its parameters.                                               *)
LEMMA Arrival ==
  ASSUME ProgramsSupported, NEW P \in Programs, P.n \in Nat, NEW term, NEW tbl \in Seq(Val),
         NEW state \in [compute_static_slot_classes(P) -> Val],
         Defined(P, term, tbl), TargetWellFormed(P, Branch(term, tbl), Len(tbl)),
         Branch(term, tbl).dest # "Return"
  PROVE  LET target == Branch(term, tbl)
             r == process_ir_target(P, target, tbl, state)
         IN  /\ r.pc \in 0 .. P.n - 1 /\ r.pc = TargetBlock(target, tbl)
             /\ ParamsOf(P, r.pc, r.state) = Args(target.args, tbl)
<1> DEFINE target == Branch(term, tbl)
           r == process_ir_target(P, target, tbl, state)
           args == Args(target.args, tbl)
           j == TargetBlock(target, tbl)
<1>1. args \in [1 .. Len(target.args) -> Val]
  BY SMTT(30), ArgsAreValues DEF TargetWellFormed
<1>2. /\ j \in 0 .. P.n - 1 /\ r.pc = j /\ Len(target.args) = Len(P.blocks[j].params)
      /\ r.state = scatter_args_to_state(args, slot_map_for(P.blocks[j].params, Width(P)), state)
  <2>1. CASE target.dest = "Block"
    <3>1. j = target.block /\ j \in 0 .. P.n - 1 /\ Len(target.args) = Len(P.blocks[j].params)
      BY <2>1 DEF TargetBlock, TargetWellFormed
    <3>2. encode_pc_bits(j, Width(P)) = j
      BY <3>1 DEF ProgramsSupported, Supported, PcCodes
    <3> QED BY <2>1, <3>1, <3>2 DEF process_ir_target
  <2>2. CASE target.dest = "Dyn"
    <3>1. j = tbl[target.var] /\ Len(target.args) = Len(SigOf(target.sig))
      BY <2>2 DEF TargetBlock, TargetWellFormed
    <3>2. j \in 0 .. P.n - 1 /\ P.blocks[j].params = SigOf(target.sig)
      BY <2>2, <3>1 DEF Defined
    <3> QED BY <2>2, <3>1, <3>2 DEF process_ir_target
  <2> QED BY <2>1, <2>2 DEF TargetWellFormed
<1> HIDE DEF r, args, j
<1>3. ParamsOf(P, j, r.state) = args
  BY <1>1, <1>2, ReadBack
<1> QED BY <1>2, <1>3 DEF r, args, j

(* Jumping back is the source program's jump, or its panic.                *)
LEMMA LoopStep ==
  ASSUME ProgramsSupported, Inv, ~wild, Loop
  PROVE  Inv' /\ (Source!Jump \/ Source!Panic)
<1> DEFINE term == prog.blocks[pc].term
           tbl == tab[pc + 1]
           target == Branch(term, tbl)
<1>1. /\ status = "run" /\ m = prog.n /\ acc.done = 0 /\ pc' = acc.pc /\ slots' = acc.state
      /\ tab' = << >> /\ acc' = AccumInit(prog, slots') /\ m' = 0
      /\ wild' = (wild \/ ~Defined(prog, term, tbl))
      /\ UNCHANGED <<prog, status, stor, ret, log>>
  BY DEF Loop
<1>2. /\ prog \in Programs /\ prog.n \in Nat /\ pc \in 0 .. prog.n - 1
      /\ slots \in [Classes -> Val] /\ tbl \in Seq(Val)
      /\ SourceVals = tbl /\ Source!AtTerminator
      /\ Source!Block = prog.blocks[pc] /\ Source!Target = target
      /\ Source!Defined(prog, term, tbl) <=> Defined(prog, term, tbl)
      /\ HasBranch(term, tbl) =>
           /\ acc = process_ir_target(prog, target, tbl, slots)
           /\ target.dest # "Return"
           /\ TargetWellFormed(prog, target, Len(tbl))
      /\ acc \in Results(prog)
  BY <1>1, AtEnd DEF Inv
<1>3. CASE ~Defined(prog, term, tbl)
  <2>1. wild' = TRUE
    BY <1>1, <1>3
  <2>2. Source!Panic
    BY <1>2, <1>3, <2>1 DEF Source!Panic
  <2> QED BY <1>1, <1>2, <2>1, <2>2 DEF Inv
<1>4. CASE Defined(prog, term, tbl)
  <2>1. wild' = FALSE /\ HasBranch(term, tbl)
    BY <1>1, <1>4 DEF Inv, Defined
  <2>2. /\ acc.pc \in 0 .. prog.n - 1 /\ acc.pc = TargetBlock(target, tbl)
        /\ ParamsOf(prog, acc.pc, acc.state) = Args(target.args, tbl)
    BY <1>2, <1>4, <2>1, Arrival DEF Classes
  <2>3. slots' \in [Classes -> Val]
    BY <1>1, <1>2 DEF Results, Classes
  <2>4. Inv'
    <3>1. TabInv'
      BY <1>1, <1>2 DEF TabInv
    <3>2. AccInv'
      BY <1>1, <1>2, <2>2 DEF AccInv
    <3>3. Good'
      BY <1>1, <1>2, <2>2, <2>3, <3>1, <3>2 DEF Good, Inv, Classes
    <3> QED BY <1>1, <1>2, <2>1, <3>3 DEF Inv
  <2>5. SourceVals' = Args(target.args, tbl)
    <3>1. SourceVals' = ParamsOf(prog, acc.pc, acc.state)
      BY <1>1, <1>2, <2>2 DEF SourceVals
    <3> QED BY <2>2, <3>1
  <2>6. SourceStor' = SourceStor
    BY <1>1 DEF SourceStor
  <2>7. Source!TargetBlock(target, tbl) = TargetBlock(target, tbl) /\ Source!Args(target.args, tbl) = Args(target.args, tbl)
    BY DEF Source!TargetBlock, TargetBlock, Source!Args, Args
  <2>8. Source!Jump
    <3> HIDE DEF target, tbl, term
    <3> QED BY <1>1, <1>2, <1>4, <2>1, <2>2, <2>5, <2>6, <2>7 DEF Source!Jump, Inv, term
  <2> QED BY <2>4, <2>8
<1> QED BY <1>3, <1>4

(* Every step keeps the invariant and is a step of the source program, or  *)
(* none.                                                                   *)
LEMMA StepRefines ==
  ASSUME ProgramsSupported, Inv, [Next]_vars
  PROVE  Inv' /\ [Source!Next]_(Source!vars)
<1>1. CASE UNCHANGED vars
  <2>1. TabInv' = TabInv /\ AccInv' = AccInv /\ AllEvaluated' = AllEvaluated
    BY <1>1 DEF vars, TabInv, AccInv, AllEvaluated, TableFull, Current
  <2>2. Inv'
    BY <1>1, <2>1 DEF vars, Inv, Good, Classes
  <2>3. UNCHANGED Source!vars
    BY <1>1 DEF vars, Source!vars, SourceVals, SourceStor
  <2> QED BY <2>2, <2>3
<1>2. CASE Next /\ wild
  <2>1. prog' = prog /\ wild'
    BY <1>2 DEF Next, EnterBlock, emit_block_stmts, Accumulate, Loop, Return
  <2>2. Inv'
    <3>1. wild' \in BOOLEAN
      BY <1>2 DEF Next, EnterBlock, emit_block_stmts, Accumulate, Loop, Return, Inv
    <3> QED BY <2>1, <3>1 DEF Inv
  <2>3. Source!Undefined
    BY <1>2, <2>1 DEF Source!Undefined
  <2> QED BY <2>2, <2>3 DEF Source!Next
<1>3. CASE Next /\ ~wild
  <2>1. CASE EnterBlock
    BY <1>3, <2>1, EnterBlockStep DEF Inv, EnterBlock
  <2>2. CASE emit_block_stmts
    BY <1>3, <2>2, StmtStep DEF Source!Next, Inv, emit_block_stmts
  <2>3. CASE Accumulate
    BY <1>3, <2>3, AccumulateStep DEF Inv, Accumulate
  <2>4. CASE Loop
    BY <1>3, <2>4, LoopStep DEF Source!Next
  <2>5. CASE Return
    BY <1>3, <2>5, ReturnStep DEF Source!Next
  <2> QED BY <1>3, <2>1, <2>2, <2>3, <2>4, <2>5 DEF Next
<1> QED BY <1>1, <1>2, <1>3

(* The combined program movfuscate builds from a supported program does    *)
(* what the source program does.                                           *)
THEOREM MovfuscationRefines ==
  ASSUME ProgramsSupported
  PROVE  Spec => Refines
<1>1. Init => Inv /\ Source!Init
  BY InitRefines
<1>2. Inv /\ [Next]_vars => Inv' /\ [Source!Next]_(Source!vars)
  BY StepRefines
<1> QED BY <1>1, <1>2, PTL DEF Spec, Refines, Source!Spec

(* In every iteration exactly one block's gate is open, as long as the     *)
(* source program has a meaning.                                           *)
THEOREM ExactlyOneActive ==
  ASSUME ProgramsSupported
  PROVE  Spec => []OneActive
<1>1. Init => Inv
  BY InitRefines
<1>2. Inv /\ [Next]_vars => Inv'
  BY StepRefines
<1>3. Inv => OneActive
  <2> SUFFICES ASSUME Inv, ~wild
               PROVE  \E i \in 0 .. prog.n - 1 : \A j \in 0 .. prog.n - 1 : IsActive(j) <=> i = j
    BY DEF OneActive
  <2>1. prog \in Programs /\ pc \in 0 .. prog.n - 1
    BY DEF Inv, Good
  <2>2. PcCodes(prog)
    BY <2>1 DEF ProgramsSupported, Supported
  <2>3. \A j \in 0 .. prog.n - 1 : IsActive(j) <=> pc = j
    BY <2>1, <2>2 DEF PcCodes, IsActive
  <2> QED BY <2>1, <2>3
<1> QED BY <1>1, <1>2, <1>3, PTL DEF Spec
-----------------------------------------------------------------------------
(* What holds whether or not the source program still has a meaning.       *)

Shape ==
  /\ prog \in Programs /\ status \in {"run", "return"}
  /\ pc \in Val
  /\ slots \in [Classes -> Val]
  /\ stor \in [Lanes -> Val]
  /\ TabInv
  /\ m \in 0 .. prog.n /\ (m > 0 => AllEvaluated)
  /\ acc \in Results(prog)
  /\ log = << >>

(* Adding up a wish, gated or not, gives accumulators of the same type.    *)
LEMMA AccumTyped ==
  ASSUME NEW P, NEW a \in Results(P), NEW r \in Results(P), NEW bit \in {0, 1},
         NEW state \in [compute_static_slot_classes(P) -> Val]
  PROVE  AccumStep(a, bit, r, state) \in Results(P)
<1>1. {0, 1} \subseteq Val
  BY ProgramAssumption
<1>2. \A x \in Val : emit_gate(bit, x) \in Val
  BY <1>1 DEF emit_gate
<1>3. Xor(a.done, emit_gate(bit, r.done)) \in {0, 1}
  BY <1>1, XorAssumption DEF emit_gate, Results
<1>4. Xor(a.pc, emit_gate(bit, r.pc)) \in Val
  BY <1>2, XorAssumption DEF Results
<1>5. [s \in DOMAIN state |-> Add(a.state[s], emit_gate(bit, Add(r.state[s], state[s])))]
        \in [compute_static_slot_classes(P) -> Val]
  BY <1>2, AddAssumption DEF Results
<1>6. [k \in DOMAIN a.ret |-> Add(a.ret[k], emit_gate(bit, r.ret[k]))]
        \in [1 .. compute_return_slot_types(P) -> Val]
  BY <1>2, AddAssumption DEF Results
<1> QED BY <1>3, <1>4, <1>5, <1>6 DEF AccumStep, Results

(* Shape holds at first.                                                   *)
LEMMA ShapeInit ==
  ASSUME ProgramsSupported, Init
  PROVE  Shape
<1>1. Inv /\ wild = FALSE /\ pc = 0 /\ acc = AccumInit(prog, slots)
  BY InitRefines DEF Init
<1>2. prog \in Programs /\ Good
  BY <1>1 DEF Inv
<1>3. acc \in Results(prog)
  <2>1. 0 \in Val /\ compute_return_slot_types(prog) \in Nat
    BY <1>2, ProgramAssumption DEF ProgramsSupported, Supported
  <2> QED BY <1>1, <1>2, <2>1 DEF AccumInit, Results, Zeros, Good, Classes
<1> QED BY <1>1, <1>2, <1>3, ProgramAssumption DEF Shape, Good

(* A turn of the combined block keeps it.                                  *)
LEMMA ShapeStep ==
  ASSUME ProgramsSupported, Shape, [Next]_vars
  PROVE  Shape'
<1>1. prog.n \in Nat /\ prog.n >= 2
  BY ProgramAssumption DEF Shape, ProgramsSupported, Supported, WellFormed
<1>2. CASE UNCHANGED vars
  <2>1. TabInv' = TabInv /\ AllEvaluated' = AllEvaluated
    BY <1>2 DEF vars, TabInv, AllEvaluated, TableFull, Current
  <2> QED BY <1>2, <2>1 DEF vars, Shape, Classes
<1>3. CASE EnterBlock
  <2>1. TabInv' /\ Len(tab) \in 0 .. prog.n - 1
    BY <1>3, EnterTables DEF Shape
  <2>2. m = 0
    BY <1>1, <2>1 DEF Shape, AllEvaluated
  <2> QED BY <1>3, <2>1, <2>2 DEF Shape, EnterBlock, Classes
<1>4. CASE emit_block_stmts
  <2>1. TabInv' /\ stor' \in [Lanes -> Val] /\ log' = log \o << >>
    BY <1>4, StmtTables DEF Shape
  <2>2. m = 0
    BY <1>1, <1>4 DEF Shape, AllEvaluated, emit_block_stmts
  <2>3. UNCHANGED <<prog, status, pc, slots, acc, m>>
    BY <1>4 DEF emit_block_stmts
  <2> QED BY <2>1, <2>2, <2>3 DEF Shape, Classes
<1>5. CASE Accumulate
  <2>1. m \in 0 .. prog.n - 1 /\ AllEvaluated /\ m' = m + 1 /\ UNCHANGED <<prog, status, pc, slots, stor, tab, log>>
    BY <1>1, <1>5 DEF Accumulate, Shape
  <2>2. acc' = AccumStep(acc, AsBit(IsActive(m)), emit_block_terminator(prog, m, tab[m + 1], slots), slots)
    BY <1>5 DEF Accumulate
  <2>3. emit_block_terminator(prog, m, tab[m + 1], slots) \in Results(prog)
    BY <2>1, Evaluated DEF Shape
  <2>4. AsBit(IsActive(m)) \in {0, 1}
    BY DEF AsBit
  <2>5. acc' \in Results(prog)
    BY <2>2, <2>3, <2>4, AccumTyped DEF Shape, Classes
  <2>6. TabInv' /\ AllEvaluated'
    BY <2>1 DEF Shape, TabInv, AllEvaluated, TableFull, Current
  <2> QED BY <1>1, <2>1, <2>5, <2>6 DEF Shape, Classes
<1>6. CASE Loop
  <2>1. /\ pc' = acc.pc /\ slots' = acc.state /\ tab' = << >> /\ m' = 0
        /\ acc' = AccumInit(prog, slots') /\ UNCHANGED <<prog, status, stor, log>>
    BY <1>6 DEF Loop
  <2>2. pc' \in Val /\ slots' \in [Classes -> Val]
    BY <2>1 DEF Shape, Results, Classes
  <2>3. acc' \in Results(prog)
    BY <2>1, <2>2, Accumulation DEF Shape, Classes
  <2>4. TabInv'
    BY <1>1, <2>1 DEF TabInv
  <2> QED BY <1>1, <2>1, <2>2, <2>3, <2>4 DEF Shape, Classes
<1>7. CASE Return
  <2>1. TabInv' = TabInv /\ AllEvaluated' = AllEvaluated
    BY <1>7 DEF Return, TabInv, AllEvaluated, TableFull, Current
  <2> QED BY <1>7, <2>1 DEF Return, Shape, Classes
<1> QED BY <1>2, <1>3, <1>4, <1>5, <1>6, <1>7 DEF Next

(* The code of a block that is not active changes neither storage nor the  *)
(* log, even after the source program has panicked and the slots hold what *)
(* no block of it ever put there (emit_block_stmts).                       *)
THEOREM InactiveBlocksInert ==
  ASSUME ProgramsSupported
  PROVE  Spec => InactiveInert
<1>1. Init => Shape
  BY ShapeInit
<1>2. Shape /\ [Next]_vars => Shape'
  BY ShapeStep
<1>3. ASSUME Shape, [Next]_vars
      PROVE  [emit_block_stmts /\ ~IsActive(Current) => UNCHANGED <<stor, log>>]_vars
  <2> SUFFICES ASSUME emit_block_stmts, ~IsActive(Current)
               PROVE  UNCHANGED <<stor, log>>
    OBVIOUS
  <2>1. prog \in Programs /\ stor \in [Lanes -> Val] /\ TabInv /\ log = << >>
    BY <1>3 DEF Shape
  <2>2. log' = log \o << >> /\ stor' = stor
    BY <2>1, StmtTables
  <2> QED BY <2>1, <2>2
<1> QED BY <1>1, <1>2, <1>3, PTL DEF Spec, InactiveInert

-----------------------------------------------------------------------------
(* Well-typed programs.                                                    *)

SlotRange(P, s) == IF s[2][1] = "Scalar" THEN ValuesOf(s[2][2]) ELSE 0 .. P.n - 1

TabTyped ==
  \A i \in 1 .. Len(tab) : \A k \in 1 .. Len(tab[i]) :
    tab[i][k] \in VarValues(prog, prog.blocks[i - 1], k)
SlotsTyped == \A s \in Classes : slots[s] \in SlotRange(prog, s)
StorTyped == \A c \in Cells : stor[LaneFor(c)] \in ValuesIn(prog, c[2])

TypedInv ==
  /\ prog \in Programs /\ wild \in BOOLEAN
  /\ Good
  /\ TabTyped /\ SlotsTyped /\ StorTyped

(* A slot for a parameter of type t holds the values of t.                 *)
LEMMA SlotType ==
  ASSUME NEW P, WellTyped(P), NEW t \in Types, NEW k
  PROVE  SlotRange(P, <<k, SlotSig(t, Width(P))>>) = ValuesIn(P, t)
  BY DEF SlotRange, SlotSig, ValuesIn, WellTyped

(* Every slot belongs to some parameter, and may hold zero.                *)
LEMMA SlotZero ==
  ASSUME ProgramsTyped, NEW P \in Programs, NEW s \in compute_static_slot_classes(P)
  PROVE  0 \in SlotRange(P, s)
<1>1. WellTyped(P) /\ P.n \in Nat \ {0}
  BY ProgramAssumption DEF ProgramsTyped, WellFormed
<1>2. PICK i \in 0 .. P.n - 1 : \E k \in 1 .. Len(P.blocks[i].params) :
        s = <<k, SlotSig(P.blocks[i].params[k], Width(P))>>
  BY DEF compute_static_slot_classes
<1>3. P.blocks[i].params \in Seq(Types)
  BY <1>2, ProgramAssumption DEF WellFormed, BlockWellFormed
<1>4. PICK t \in Types : \E k : s = <<k, SlotSig(t, Width(P))>>
  BY <1>2, <1>3
<1>5. SlotRange(P, s) = ValuesIn(P, t)
  BY <1>1, <1>4, SlotType
<1> QED BY <1>1, <1>5 DEF ValuesIn, WellTyped

(* Scattering typed arguments for typed parameters keeps the slots typed.  *)
LEMMA ScatterTyped ==
  ASSUME NEW P, WellTyped(P), NEW params \in Seq(Types), NEW args, NEW state,
         \A k \in 1 .. Len(params) : k \in 1 .. Len(args) => args[k] \in ValuesIn(P, params[k]),
         \A s \in DOMAIN state : state[s] \in SlotRange(P, s)
  PROVE  \A s \in DOMAIN state :
           scatter_args_to_state(args, slot_map_for(params, Width(P)), state)[s] \in SlotRange(P, s)
<1> DEFINE map == slot_map_for(params, Width(P))
<1>1. Len(map) = Len(params) /\ Len(params) \in Nat
  BY DEF slot_map_for
<1> SUFFICES ASSUME NEW s \in DOMAIN state
             PROVE  scatter_args_to_state(args, map, state)[s] \in SlotRange(P, s)
  OBVIOUS
<1>2. scatter_args_to_state(args, map, state)[s] =
        IF s[1] \in 1 .. Len(args) /\ s[1] \in 1 .. Len(map) /\ map[s[1]] = s THEN args[s[1]] ELSE state[s]
  BY DEF scatter_args_to_state
<1>3. CASE s[1] \in 1 .. Len(args) /\ s[1] \in 1 .. Len(map) /\ map[s[1]] = s
  <2> DEFINE k == s[1]
  <2>1. k \in 1 .. Len(params) /\ params[k] \in Types /\ args[k] \in ValuesIn(P, params[k])
    BY <1>1, <1>3
  <2>2. s = <<k, SlotSig(params[k], Width(P))>>
    BY <1>1, <1>3 DEF slot_map_for
  <2>3. SlotRange(P, s) = ValuesIn(P, params[k])
    <3> HIDE DEF k
    <3> QED BY <2>1, <2>2, SlotType
  <2> QED BY <1>2, <1>3, <2>1, <2>3
<1>4. CASE ~(s[1] \in 1 .. Len(args) /\ s[1] \in 1 .. Len(map) /\ map[s[1]] = s)
  BY <1>2, <1>4
<1> QED BY <1>3, <1>4

(* The parameters a block finds in typed slots are of their types.         *)
LEMMA ParamsTyped ==
  ASSUME ProgramsSupported, ProgramsTyped, NEW P \in Programs, NEW i \in 0 .. P.n - 1,
         NEW state, \A s \in compute_static_slot_classes(P) : state[s] \in SlotRange(P, s)
  PROVE  \A k \in 1 .. Len(P.blocks[i].params) :
           ParamsOf(P, i, state)[k] \in VarValues(P, P.blocks[i], k)
<1> DEFINE params == P.blocks[i].params
<1>1. params \in Seq(Types) /\ Len(params) \in Nat /\ WellTyped(P)
  BY BlockFacts DEF ProgramsTyped
<1> SUFFICES ASSUME NEW k \in 1 .. Len(params)
             PROVE  ParamsOf(P, i, state)[k] \in VarValues(P, P.blocks[i], k)
  OBVIOUS
<1> DEFINE s == <<k, SlotSig(params[k], Width(P))>>
<1>2. s \in compute_static_slot_classes(P)
  BY DEF compute_static_slot_classes
<1>3. ParamsOf(P, i, state)[k] = state[s]
  BY <1>1 DEF ParamsOf, slot_map_for
<1>4. SlotRange(P, s) = ValuesIn(P, params[k])
  <2>1. params[k] \in Types
    BY <1>1
  <2> QED BY <1>1, <2>1, SlotType
<1>5. VarValues(P, P.blocks[i], k) = ValuesIn(P, params[k])
  <2>1. k <= Len(P.blocks[i].params)
    BY <1>1
  <2> QED BY <2>1 DEF VarValues
<1> HIDE DEF s, params
<1> QED BY <1>2, <1>3, <1>4, <1>5

(* Cells that share a lane hold values of the same type.                   *)
LEMMA LaneType ==
  ASSUME NEW P, NEW c \in Cells, NEW d \in Cells, LaneFor(c) = LaneFor(d)
  PROVE  ValuesIn(P, c[2]) = ValuesIn(P, d[2])
<1>1. c[1] \in Nat /\ d[1] \in Nat
  BY CellShape
<1>2. LaneFor(c)[1] = LaneFor(d)[1] /\ LaneFor(c)[2] = LaneFor(d)[2]
  OBVIOUS
<1>3. CASE c[2] \in BlockTypes /\ d[2] \in BlockTypes
  BY <1>3 DEF ValuesIn
<1>4. CASE c[2] \notin BlockTypes /\ d[2] \notin BlockTypes
  BY <1>2, <1>4 DEF LaneFor, LaneOf
<1>5. CASE c[2] \in BlockTypes /\ d[2] \notin BlockTypes
  <2>1. 2 * c[1] = 2 * d[1] + 1
    BY <1>2, <1>5 DEF LaneFor, LaneOf
  <2> QED BY <1>1, <2>1
<1>6. CASE c[2] \notin BlockTypes /\ d[2] \in BlockTypes
  <2>1. 2 * c[1] + 1 = 2 * d[1]
    BY <1>2, <1>6 DEF LaneFor, LaneOf
  <2> QED BY <1>1, <2>1
<1> QED BY <1>3, <1>4, <1>5, <1>6

(* TypedInv holds at first.                                                *)
LEMMA TypedInit ==
  ASSUME ProgramsSupported, ProgramsTyped, Init
  PROVE  TypedInv
<1>1. Inv /\ wild = FALSE /\ stor = RemappedPreInit(prog) /\ tab = << >>
  BY InitRefines DEF Init
<1>2. prog \in Programs /\ Good /\ WellTyped(prog) /\ prog.n \in Nat \ {0} /\ 0 \in 0 .. prog.n - 1
  BY <1>1, ProgramAssumption DEF Inv, ProgramsTyped, WellFormed
<1> DEFINE params == prog.blocks[0].params
<1>3. params \in Seq(Types)
  BY <1>2, BlockFacts
<1>4. PICK inputs \in InputsFor(params) :
        slots = scatter_args_to_state(inputs, slot_map_for(params, Width(prog)), Zeros(Classes))
  BY DEF Init, Classes
<1>5. \A k \in 1 .. Len(params) : inputs[k] \in ValuesIn(prog, params[k])
  <2>1. \A k \in 1 .. Len(params) : inputs[k] \in ValuesOf(params[k])
    BY <1>4 DEF InputsFor
  <2> QED BY <1>2, <2>1 DEF ValuesIn, WellTyped
<1>6. DOMAIN Zeros(Classes) = Classes /\ \A s \in Classes : Zeros(Classes)[s] \in SlotRange(prog, s)
  BY <1>2, SlotZero DEF Zeros, Classes
<1>7. SlotsTyped
  <2> HIDE DEF params
  <2> QED BY <1>2, <1>3, <1>4, <1>5, <1>6, ScatterTyped DEF SlotsTyped
<1>8. StorTyped
  BY <1>1, <1>2, PreInitKept DEF StorTyped, WellTyped
<1>9. TabTyped
  BY <1>1 DEF TabTyped
<1> QED BY <1>1, <1>2, <1>7, <1>8, <1>9 DEF TypedInv

(* The value of a statement is one its variable may have, and a write      *)
(* leaves storage typed.                                                   *)
LEMMA TypedStmt ==
  ASSUME ProgramsSupported, ProgramsTyped, TypedInv, emit_block_stmts
  PROVE  TypedInv'
<1> DEFINE block == prog.blocks[Current]
           tbl == tab[Len(tab)]
           s == StmtAt(block, tbl)
           val == EmittedValue(s, tbl)
           lane == WriteLane(block, s, tbl)
           c == Cell(s, tbl)
           np == Len(block.params)
           v == Len(tbl) + 1
<1>1. /\ prog \in Programs /\ Good /\ TabInv /\ stor \in [Lanes -> Val] /\ wild \in BOOLEAN
      /\ WellTyped(prog) /\ TabTyped /\ SlotsTyped /\ StorTyped
  BY DEF TypedInv, Good, ProgramsTyped
<1>2. /\ prog.n \in Nat /\ Len(tab) \in 1 .. prog.n /\ Current \in 0 .. prog.n - 1
      /\ tbl \in Seq(Val) /\ Len(tbl) \in Nat /\ np \in Nat /\ np <= Len(tbl) /\ Len(tbl) < NumVars(block)
      /\ StmtWellFormed(s, Len(tbl)) /\ StmtSupported(prog, block, s)
      /\ s.op \in {"StorageRead", "StorageWrite"} => s.ty \in StoredTypes(prog)
  BY <1>1, StmtFacts
<1>3. /\ Len(tab') = Len(tab) /\ tab'[Len(tab)] = Append(tbl, val)
      /\ \A i \in 1 .. Len(tab) : i # Len(tab) => tab'[i] = tab[i]
      /\ stor' = IF s.op = "StorageWrite" /\ IsActive(Current)
                 THEN [stor EXCEPT ![lane] = tbl[s.src]] ELSE stor
  BY <1>1, StmtTables
<1>4. /\ s.op \in {"StorageRead", "StorageWrite"} => c \in Cells /\ LaneFor(c) \in Lanes
      /\ s.op = "StorageWrite" => lane = LaneFor(c)
  BY <1>1, <1>2, StmtResult
<1>5. s = block.stmts[v - np] /\ v - np \in 1 .. Len(block.stmts) /\ ~(v <= np)
  <2>1. s = block.stmts[Len(tbl) - np + 1]
    BY DEF StmtAt
  <2>2. Len(block.stmts) \in Nat /\ NumVars(block) = np + Len(block.stmts)
    BY <1>1, <1>2, BlockFacts DEF NumVars
  <2>3. Len(tbl) - np + 1 = v - np /\ v - np >= 1 /\ ~(v <= np)
    BY <1>2
  <2>4. \A x, p, l \in Nat : p <= x /\ x < p + l => (x + 1) - p \in 1 .. l
    OBVIOUS
  <2>5. v - np \in 1 .. Len(block.stmts)
    BY <1>2, <2>2, <2>4
  <2> QED BY <2>1, <2>3, <2>5
<1>6. \A k \in 1 .. Len(tbl) : tbl[k] \in VarValues(prog, block, k)
  <2>1. Len(tab) - 1 = Current /\ Len(tab) \in 1 .. Len(tab)
    BY <1>2 DEF Current
  <2> QED BY <1>1, <2>1 DEF TabTyped
<1>7. s.op \in {"StorageRead", "StorageWrite"} => c[2] = s.ty
  BY DEF Cell
<1>8. val \in VarValues(prog, block, v)
  <2>0. s.op \in {"Const", "Pure", "StorageRead", "StorageWrite"}
    BY <1>2 DEF StmtSupported, StmtWellFormed
  <2>1. CASE s.op = "Const"
    <3>1. val = s.value
      <4>1. s.ty \in BlockTypes => encode_pc_bits(s.value, Width(prog)) = s.value
        BY <1>1, <1>2, <2>1 DEF StmtSupported, PcCodes, ProgramsSupported, Supported
      <4> QED BY <2>1, <4>1 DEF EmittedValue, StmtValue
    <3>2. VarValues(prog, block, v) = {s.value}
      BY <1>5, <2>1 DEF VarValues
    <3> QED BY <3>1, <3>2
  <2>2. CASE s.op = "Pure"
    <3>1. val = s.f[Args(s.args, tbl)]
      BY <2>2 DEF EmittedValue, StmtValue
    <3>2. Args(s.args, tbl) \in [1 .. Len(s.args) -> Val]
      <4>1. s.args \in Seq(1 .. Len(tbl))
        BY <1>2, <2>2 DEF StmtWellFormed
      <4> QED BY <1>2, <4>1, ArgsAreValues
    <3>3. VarValues(prog, block, v) = {s.f[x] : x \in [1 .. Len(s.args) -> Val]}
      BY <1>5, <2>2 DEF VarValues
    <3> QED BY <3>1, <3>2, <3>3
  <2>3. CASE s.op = "StorageRead"
    <3>1. val = stor[LaneFor(c)]
      BY <2>3, <1>7 DEF EmittedValue, ReadLane, LaneFor, Cell
    <3>2. VarValues(prog, block, v) = ValuesIn(prog, s.ty)
      BY <1>5, <2>3 DEF VarValues
    <3> QED BY <1>1, <1>4, <1>7, <2>3, <3>1, <3>2 DEF StorTyped
  <2>4. CASE s.op = "StorageWrite"
    <3>1. val = 0
      BY <2>4 DEF EmittedValue, StmtValue
    <3>2. VarValues(prog, block, v) = {0}
      BY <1>5, <2>4 DEF VarValues
    <3> QED BY <3>1, <3>2
  <2> QED BY <2>0, <2>1, <2>2, <2>3, <2>4
<1>9. UNCHANGED <<prog, slots, wild>>
  BY DEF emit_block_stmts
<1>10. StorTyped'
  <2>1. CASE ~(s.op = "StorageWrite" /\ IsActive(Current))
    BY <1>1, <1>3, <1>9, <2>1 DEF StorTyped
  <2>2. CASE s.op = "StorageWrite" /\ IsActive(Current)
    <3>1. s.src \in 1 .. Len(tbl) /\ tbl[s.src] \in VarValues(prog, block, s.src)
      BY <1>2, <1>6, <2>2 DEF StmtWellFormed
    <3>2. VarValues(prog, block, s.src) \subseteq ValuesIn(prog, s.ty)
      BY <1>1, <1>2, <1>5, <2>2 DEF WellTyped, BlockTyped
    <3>3. stor' = [stor EXCEPT ![LaneFor(c)] = tbl[s.src]] /\ tbl[s.src] \in ValuesIn(prog, c[2]) /\ c \in Cells
      BY <1>3, <1>4, <1>7, <2>2, <3>1, <3>2
    <3> HIDE DEF c, tbl, s
    <3>4. ASSUME NEW d \in Cells
          PROVE  stor'[LaneFor(d)] \in ValuesIn(prog, d[2])
      <4>1. LaneFor(d) \in Lanes /\ stor[LaneFor(d)] \in ValuesIn(prog, d[2])
        BY <1>1, LaneFacts DEF StorTyped
      <4>2. CASE LaneFor(d) = LaneFor(c)
        BY <1>1, <3>3, <4>1, <4>2, LaneType
      <4>3. CASE LaneFor(d) # LaneFor(c)
        BY <1>1, <3>3, <4>1, <4>3
      <4> QED BY <4>2, <4>3
    <3> QED BY <1>9, <3>4 DEF StorTyped
  <2> QED BY <2>1, <2>2
<1>11. TabTyped'
  <2> SUFFICES ASSUME NEW i \in 1 .. Len(tab), NEW k \in 1 .. Len(tab'[i])
               PROVE  tab'[i][k] \in VarValues(prog, prog.blocks[i - 1], k)
    BY <1>3, <1>9 DEF TabTyped
  <2>1. CASE i # Len(tab)
    BY <1>1, <1>3, <2>1 DEF TabTyped
  <2>2. CASE i = Len(tab)
    <3>1. tab'[i] = Append(tbl, val) /\ i - 1 = Current
      BY <1>2, <1>3, <2>2 DEF Current
    <3> HIDE DEF tbl, val, v
    <3>2. k \in 1 .. Len(tbl) + 1 /\ Append(tbl, val)[k] = IF k = Len(tbl) + 1 THEN val ELSE tbl[k]
      BY <1>2, <3>1
    <3>3. k \in 1 .. Len(tbl) \/ k = v
      BY <1>2, <3>2 DEF v
    <3>4. CASE k = v
      BY <1>8, <3>1, <3>2, <3>4 DEF v
    <3>5. CASE k \in 1 .. Len(tbl) /\ k # v
      BY <1>6, <3>1, <3>2, <3>5 DEF v
    <3> QED BY <3>3, <3>4, <3>5
  <2> QED BY <2>1, <2>2
<1>12. Good'
  BY <1>1, StmtStep
<1>13. SlotsTyped'
  BY <1>1, <1>9 DEF SlotsTyped, Classes
<1> QED BY <1>1, <1>9, <1>10, <1>11, <1>12, <1>13 DEF TypedInv

(* A jump of a typed block scatters typed arguments and leads to a block.  *)
LEMMA TypedTarget ==
  ASSUME ProgramsSupported, ProgramsTyped, NEW P \in Programs, NEW block, NEW target, NEW v \in Nat,
         TargetWellFormed(P, target, v), TargetTyped(P, block, target), target.dest # "Return",
         NEW tbl \in Seq(Val), Len(tbl) = v, \A k \in 1 .. v : tbl[k] \in VarValues(P, block, k),
         NEW state, \A s \in DOMAIN state : state[s] \in SlotRange(P, s)
  PROVE  LET r == process_ir_target(P, target, tbl, state)
         IN  /\ r.pc \in 0 .. P.n - 1
             /\ \A s \in DOMAIN state : r.state[s] \in SlotRange(P, s)
<1> DEFINE r == process_ir_target(P, target, tbl, state)
           args == Args(target.args, tbl)
<1>1. WellTyped(P) /\ PcCodes(P) /\ WellFormed(P)
  BY ProgramAssumption DEF ProgramsTyped, ProgramsSupported, Supported
<1>2. target.args \in Seq(1 .. v) /\ args \in [1 .. Len(target.args) -> Val] /\ Len(target.args) \in Nat
  BY ArgsAreValues DEF TargetWellFormed
<1>3. Len(args) = Len(target.args)
  BY <1>2
<1>4. ASSUME NEW params, ArgsTyped(P, block, target.args, params)
      PROVE  \A k \in 1 .. Len(params) : k \in 1 .. Len(args) => args[k] \in ValuesIn(P, params[k])
  <2> SUFFICES ASSUME NEW k \in 1 .. Len(params), k \in 1 .. Len(target.args)
               PROVE  args[k] \in ValuesIn(P, params[k])
    BY <1>3
  <2>1. target.args[k] \in 1 .. v /\ args[k] = tbl[target.args[k]]
    BY <1>2 DEF Args
  <2> QED BY <1>4, <2>1 DEF ArgsTyped
<1>5. CASE target.dest = "Block"
  <2>1. target.block \in 0 .. P.n - 1
    BY <1>5 DEF TargetWellFormed
  <2> DEFINE params == P.blocks[target.block].params
  <2>2. params \in Seq(Types) /\ ArgsTyped(P, block, target.args, params)
    BY <1>5, <2>1, BlockFacts DEF TargetTyped
  <2>3. r.pc = target.block
    BY <1>1, <1>5, <2>1 DEF process_ir_target, PcCodes
  <2>4. r.state = scatter_args_to_state(args, slot_map_for(params, Width(P)), state)
    BY <1>5 DEF process_ir_target
  <2> HIDE DEF r, args, params
  <2>5. \A k \in 1 .. Len(params) : k \in 1 .. Len(args) => args[k] \in ValuesIn(P, params[k])
    BY <1>4, <2>2
  <2> QED BY <1>1, <2>1, <2>2, <2>3, <2>4, <2>5, ScatterTyped DEF r
<1>6. CASE target.dest = "Dyn"
  <2> DEFINE params == SigOf(target.sig)
  <2>1. /\ target.var \in 1 .. v /\ params \in Seq(Types)
        /\ ArgsTyped(P, block, target.args, params) /\ VarValues(P, block, target.var) \subseteq 0 .. P.n - 1
    BY <1>6, ProgramAssumption DEF TargetWellFormed, TargetTyped
  <2>2. r.pc = tbl[target.var]
    BY <1>6 DEF process_ir_target
  <2>3. r.state = scatter_args_to_state(args, slot_map_for(params, Width(P)), state)
    BY <1>6 DEF process_ir_target
  <2> HIDE DEF r, args, params
  <2>4. \A k \in 1 .. Len(params) : k \in 1 .. Len(args) => args[k] \in ValuesIn(P, params[k])
    BY <1>4, <2>1
  <2> QED BY <1>1, <2>1, <2>2, <2>3, <2>4, ScatterTyped DEF r
<1> QED BY <1>5, <1>6 DEF TargetWellFormed

(* Jumping back with what the active block wants.                          *)
LEMMA TypedLoop ==
  ASSUME ProgramsSupported, ProgramsTyped, TypedInv, Loop
  PROVE  TypedInv'
<1> DEFINE block == prog.blocks[pc]
           term == block.term
           tbl == tab[pc + 1]
           target == Branch(term, tbl)
<1>1. /\ status = "run" /\ m = prog.n /\ acc.done = 0 /\ pc' = acc.pc /\ slots' = acc.state
      /\ tab' = << >> /\ acc' = AccumInit(prog, slots') /\ m' = 0
      /\ wild' \in BOOLEAN /\ UNCHANGED <<prog, status, stor, ret, log>>
  BY DEF Loop, TypedInv
<1>2. /\ prog \in Programs /\ Good /\ TabInv /\ (m > 0 => AllEvaluated) /\ AccInv
      /\ WellTyped(prog) /\ TabTyped /\ SlotsTyped /\ StorTyped
  BY DEF TypedInv, Good, ProgramsTyped
<1>3. /\ prog.n \in Nat /\ pc \in 0 .. prog.n - 1 /\ slots \in [Classes -> Val]
      /\ tbl \in Seq(Val) /\ acc \in Results(prog)
      /\ HasBranch(term, tbl) =>
           /\ acc = process_ir_target(prog, target, tbl, slots)
           /\ acc.done = 1 <=> target.dest = "Return"
           /\ TargetWellFormed(prog, target, Len(tbl))
  BY <1>1, <1>2, AtEnd
<1>4. prog.n >= 2
  BY <1>2, <1>3, BlockFacts
<1>5. AllEvaluated /\ pc < Len(tab) /\ pc + 1 \in 1 .. Len(tab) /\ (pc + 1) - 1 = pc
  BY <1>1, <1>2, <1>3, <1>4 DEF AllEvaluated
<1>6. /\ acc.pc \in 0 .. prog.n - 1
      /\ \A s \in Classes : acc.state[s] \in SlotRange(prog, s)
  <2>1. CASE HasBranch(term, tbl)
    <3>1. target.dest # "Return"
      BY <1>1, <1>3, <2>1
    <3>2. TermTyped(prog, block, term) /\ TermWellFormed(prog, term, NumVars(block))
      BY <1>2, <1>3, BlockFacts DEF WellTyped, BlockTyped
    <3>3. TargetTyped(prog, block, target)
      BY <2>1, <3>2 DEF TermTyped, TermWellFormed, HasBranch, Branch
    <3>4. \A k \in 1 .. Len(tbl) : tbl[k] \in VarValues(prog, block, k)
      BY <1>2, <1>5 DEF TabTyped
    <3>5. DOMAIN slots = Classes /\ \A s \in DOMAIN slots : slots[s] \in SlotRange(prog, s)
      BY <1>2, <1>3 DEF SlotsTyped
    <3>6. Len(tbl) \in Nat
      BY <1>3
    <3> HIDE DEF target, tbl, block, term
    <3> QED BY <1>2, <1>3, <2>1, <3>1, <3>3, <3>4, <3>5, <3>6, TypedTarget
  <2>2. CASE ~HasBranch(term, tbl)
    <3>1. acc = emit_block_terminator(prog, pc, tbl, slots)
      BY <1>1, <1>2, <1>3 DEF AccInv
    <3>2. term.kind = "JumpTable" /\ tbl[term.index] \notin DOMAIN term.cases
      BY <2>2 DEF HasBranch
    <3>3. acc = NoCase(prog, slots)
      BY <3>1, <3>2 DEF emit_block_terminator
    <3>4. acc.pc = 0 /\ acc.state = Zeros(Classes)
      BY <1>3, <3>3 DEF NoCase
    <3> QED BY <1>2, <1>3, <1>4, <3>4, SlotZero DEF Zeros, Classes
  <2> QED BY <2>1, <2>2
<1>7. slots' \in [Classes -> Val]
  BY <1>1, <1>3 DEF Results, Classes
<1>8. Good'
  <2>1. TabInv'
    BY <1>1, <1>3 DEF TabInv
  <2>2. AccInv'
    BY <1>1, <1>3, <1>6 DEF AccInv
  <2> QED BY <1>1, <1>2, <1>3, <1>6, <1>7, <2>1, <2>2 DEF Good, Classes
<1>9. TabTyped'
  BY <1>1 DEF TabTyped
<1>10. SlotsTyped' /\ StorTyped'
  BY <1>1, <1>2, <1>6 DEF SlotsTyped, StorTyped, Classes
<1> QED BY <1>1, <1>2, <1>8, <1>9, <1>10 DEF TypedInv

(* A turn of the combined block keeps it, whatever the bits of the slots.  *)
LEMMA TypedStep ==
  ASSUME ProgramsSupported, ProgramsTyped, TypedInv, [Next]_vars
  PROVE  TypedInv'
<1>1. prog \in Programs /\ Good /\ wild \in BOOLEAN /\ TabTyped /\ SlotsTyped /\ StorTyped
  BY DEF TypedInv
<1>2. CASE UNCHANGED vars
  <2>1. TabInv' = TabInv /\ AccInv' = AccInv /\ AllEvaluated' = AllEvaluated
    BY <1>2 DEF vars, TabInv, AccInv, AllEvaluated, TableFull, Current
  <2>2. Good'
    BY <1>1, <1>2, <2>1 DEF vars, Good, Classes
  <2> QED BY <1>1, <1>2, <2>2 DEF vars, TypedInv, TabTyped, SlotsTyped, StorTyped, Classes
<1>3. CASE EnterBlock
  <2>1. Good'
    BY <1>1, <1>3, EnterBlockStep
  <2>2. UNCHANGED <<prog, slots, stor, wild>>
    BY <1>3 DEF EnterBlock
  <2>3. /\ Len(tab) \in 0 .. prog.n - 1 /\ Len(tab') = Len(tab) + 1
        /\ tab'[Len(tab) + 1] = ParamsOf(prog, Len(tab), slots)
        /\ \A i \in 1 .. Len(tab) : tab'[i] = tab[i]
    BY <1>1, <1>3, EnterTables DEF Good
  <2>4. Len(ParamsOf(prog, Len(tab), slots)) = Len(prog.blocks[Len(tab)].params)
    BY <1>1, <2>3, ParamsAreValues DEF Good, Classes
  <2>5. \A k \in 1 .. Len(prog.blocks[Len(tab)].params) :
          ParamsOf(prog, Len(tab), slots)[k] \in VarValues(prog, prog.blocks[Len(tab)], k)
    BY <1>1, <2>3, ParamsTyped DEF SlotsTyped, Classes
  <2>6. TabTyped'
    <3> SUFFICES ASSUME NEW i \in 1 .. Len(tab) + 1, NEW k \in 1 .. Len(tab'[i])
                 PROVE  tab'[i][k] \in VarValues(prog, prog.blocks[i - 1], k)
      BY <2>2, <2>3 DEF TabTyped
    <3>1. CASE i = Len(tab) + 1
      <4>1. i - 1 = Len(tab)
        BY <2>3, <3>1
      <4> QED BY <2>3, <2>4, <2>5, <3>1, <4>1
    <3>2. CASE i # Len(tab) + 1
      <4>1. i \in 1 .. Len(tab)
        BY <2>3, <3>2
      <4> QED BY <1>1, <2>3, <4>1 DEF TabTyped
    <3> QED BY <3>1, <3>2
  <2> QED BY <1>1, <2>1, <2>2, <2>6 DEF TypedInv, SlotsTyped, StorTyped, Classes
<1>4. CASE emit_block_stmts
  BY <1>4, TypedStmt
<1>5. CASE Accumulate
  <2>1. Good'
    BY <1>1, <1>5, AccumulateStep
  <2> QED BY <1>1, <1>5, <2>1 DEF Accumulate, TypedInv, TabTyped, SlotsTyped, StorTyped, Classes
<1>6. CASE Loop
  BY <1>6, TypedLoop
<1>7. CASE Return
  <2>1. TabInv' = TabInv /\ AccInv' = AccInv /\ AllEvaluated' = AllEvaluated
    BY <1>7 DEF Return, TabInv, AccInv, AllEvaluated, TableFull, Current
  <2>2. Good'
    BY <1>1, <1>7, <2>1 DEF Return, Good, Classes
  <2> QED BY <1>1, <1>7, <2>2 DEF Return, TypedInv, TabTyped, SlotsTyped, StorTyped, Classes
<1> QED BY <1>2, <1>3, <1>4, <1>5, <1>6, <1>7 DEF Next

(* A slot never holds a value that is not of its type, though blocks that  *)
(* disagree on a parameter's type use it in turns, and the code of every   *)
(* block runs on whatever is there (compute_static_slot_classes).          *)
THEOREM SlotsKeepTheirTypes ==
  ASSUME ProgramsSupported, ProgramsTyped
  PROVE  Spec => []TypeOK
<1>1. Init => TypedInv
  BY TypedInit
<1>2. TypedInv /\ [Next]_vars => TypedInv'
  BY TypedStep
<1>3. TypedInv => TypeOK
  <2> SUFFICES ASSUME TypedInv
               PROVE  TypeOK
    OBVIOUS
  <2>1. prog \in Programs /\ Good /\ SlotsTyped /\ wild \in BOOLEAN /\ WellTyped(prog)
    BY DEF TypedInv, ProgramsTyped
  <2>2. 0 .. prog.n - 1 \subseteq 0 .. 2^Width(prog) - 1
    BY <2>1 DEF WellTyped
  <2>3. DOMAIN slots = Classes /\ \A s \in DOMAIN slots : slots[s] \in SlotValues(s)
    BY <2>1, <2>2 DEF Good, SlotsTyped, SlotRange, SlotValues
  <2>4. pc \in 0 .. 2^Width(prog) - 1
    BY <2>1, <2>2 DEF Good
  <2> QED BY <2>1, <2>3, <2>4 DEF TypeOK, Good, TabInv, Classes
<1> QED BY <1>1, <1>2, <1>3, PTL DEF Spec

=============================================================================
