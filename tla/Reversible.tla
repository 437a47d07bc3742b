----------------------------- MODULE Reversible -----------------------------
(***************************************************************************)
(* Reversible circuits: to_reversible embeds a circuit of Boolean gates in *)
(* one that only exchanges and toggles wires                               *)
(* (crates/ir/volar-ir-passes/src/to_reversible.rs), RCircuit evaluates    *)
(* and inverts it (crates/ir/volar-ir/src/rcircuit.rs), and                *)
(* to_boolar_circuit leads back (from_reversible.rs).                      *)
(*                                                                         *)
(* The wires are: the parameters x; one for each result of a statement     *)
(* that does not take over the wire of an operand; the outputs y; scratch  *)
(* wires; and, in a hardened circuit, borrowed wires with any contents.    *)
(* Variables and wires are counted from 1.                                 *)
(***************************************************************************)
EXTENDS Integers, SequencesExt

CONSTANTS
  Circuits,       \* Boolar circuits to embed
  RCircuits,      \* reversible circuits to lead back, besides those embedded
  Options(_),     \* pairs of mode and share_scratch to embed a circuit with
  Memories,       \* contents of storage to run with
  Oracle,         \* what oracles and sources of randomness answer with 1:
                  \* occurrences and arguments
  Act             \* the arguments an action answers with 1

VARIABLES
  circ,        \* the Boolar circuit
  mode,        \* "naive" or "hardened"
  share,       \* share_scratch
  phase,       \* where the passes are
  wire_of,     \* the wire of each variable so far
  next_anc,    \* the next wire for a result
  pool,        \* the scratch wires
  rc,          \* the reversible circuit so far: its wires and gates
  y_base,      \* the outputs follow this wire
  borrowed,    \* the borrowed wires
  back,        \* the Boolar circuit to_boolar_circuit makes of rc
  start,       \* what the circuit has been applied to
  end          \* what came out

vars == <<circ, mode, share, phase, wire_of, next_anc, pool, rc, y_base, borrowed, back, start, end>>

MapSeq(s, f(_)) == [k \in 1 .. Len(s) |-> f(s[k])]
Numbers(n) == [k \in 1 .. n |-> k]

(* FoldLeft of SequencesExt, by recursion over the positions of seq.       *)
Through(op(_, _), from, seq) ==
  LET at[k \in 0 .. Len(seq)] == IF k = 0 THEN from ELSE op(at[k - 1], seq[k])
  IN  at[Len(seq)]

-----------------------------------------------------------------------------
(* Boolar circuits: [params, stmts, outputs].  A statement reads the       *)
(* variables in args and, for the address of a storage cell, in addr.      *)
(* Storage is the set of the cells that hold 1: a cell that is not there   *)
(* counts as 0.                                                            *)

Stmt(op, args) == [op |-> op, args |-> args, addr |-> << >>, lane |-> 0, occurrence |-> 0]
Operands(s) == s.args \o s.addr
VarSpace(c) == c.params + Len(c.stmts)

(* The arguments of an ActionStoreBit are its guard, its fallback and then *)
(* those of the action.                                                    *)
ActionValue(args) == (args[1] /\ SubSeq(args, 3, Len(args)) \in Act) \/ (~args[1] /\ args[2])

Stored(mem, cell, bit) == IF bit THEN mem \cup {cell} ELSE mem \ {cell}
Flipped(mem, cell, bit) == Stored(mem, cell, (cell \in mem) # bit)

StmtCell(s, vals) == <<s.lane, MapSeq(s.addr, LAMBDA v : vals[v])>>

(* An action's bit is stored directly, whatever the cell held.             *)
ActionStored(s, st) ==
  Stored(st.mem, StmtCell(s, st.vals), ActionValue(MapSeq(s.args, LAMBDA v : st.vals[v])))

EvalStmt(s, st) ==
  LET args == MapSeq(s.args, LAMBDA v : st.vals[v])
      cell == StmtCell(s, st.vals)
      value == CASE s.op = "Zero" -> FALSE
                 [] s.op = "One" -> TRUE
                 [] s.op = "Xor" -> args[1] # args[2]
                 [] s.op = "And" -> args[1] /\ args[2]
                 [] s.op = "Or" -> args[1] \/ args[2]
                 [] s.op = "Not" -> ~args[1]
                 [] s.op = "StorageRead" -> cell \in st.mem
                 [] s.op = "OracleBit" -> <<s.occurrence, args>> \in Oracle
                 [] s.op = "ActionBit" -> ActionValue(args)
                 [] s.op \in {"StorageWrite", "ActionStoreBit"} -> FALSE
  IN  [vals |-> Append(st.vals, value),
       mem |-> CASE s.op = "StorageWrite" -> Stored(st.mem, cell, args[1])
                 [] s.op = "ActionStoreBit" -> ActionStored(s, st)
                 [] OTHER -> st.mem]

(* All values of a circuit; what a circuit returns.                        *)
Values(c, x, mem) == Through(LAMBDA st, s : EvalStmt(s, st), [vals |-> x, mem |-> mem], c.stmts)
Returned(c, st) == [out |-> MapSeq(c.outputs, LAMBDA v : st.vals[v]), mem |-> st.mem]
Result(c, x, mem) == Returned(c, Values(c, x, mem))

(* to_reversible gives an ActionStoreBit another meaning: the action's bit *)
(* is added to what the cell holds.                                        *)
EvalToggling(s, st) ==
  IF s.op # "ActionStoreBit" THEN EvalStmt(s, st)
  ELSE [vals |-> Append(st.vals, FALSE),
        mem |-> Flipped(st.mem, StmtCell(s, st.vals), ActionValue(MapSeq(s.args, LAMBDA v : st.vals[v])))]

ValuesToggling(c, x, mem) == Through(LAMBDA st, s : EvalToggling(s, st), [vals |-> x, mem |-> mem], c.stmts)

-----------------------------------------------------------------------------
(* Reversible circuits: [n, gates].  X, CNOT and Toffoli gates toggle the  *)
(* target when all of none, one or two controls are set.                   *)

Gate(op, args, addr, target, lane, occurrence, table) ==
  [op |-> op, args |-> args, addr |-> addr, target |-> target, lane |-> lane, occurrence |-> occurrence, table |-> table]
Toggle(args, t) == Gate("Toggle", args, << >>, t, 0, 0, {})
X(w) == Toggle(<< >>, w)
Cnot(c, t) == Toggle(<<c>>, t)
Ccnot(c, d, t) == Toggle(<<c, d>>, t)
XorLut2(c, d, t, table) == Gate("XorLut2", <<c, d>>, << >>, t, 0, 0, table)
StorageSwap(s, addr, t) == Gate("StorageSwap", << >>, addr, t, s.lane, 0, {})
ExternalXor(s, args, t) == Gate("ExternalXor", args, << >>, t, 0, s.occurrence, {})
ExternalStorageXor(s, args, addr) == Gate("ExternalStorageXor", args, addr, 0, s.lane, 0, {})

ApplyGate(g, st) ==
  LET args == MapSeq(g.args, LAMBDA w : st.wires[w])
      cell == <<g.lane, MapSeq(g.addr, LAMBDA w : st.wires[w])>>
      Flip(bit) == [wires |-> [st.wires EXCEPT ![g.target] = @ # bit], mem |-> st.mem]
  IN  CASE g.op = "Toggle" -> Flip(\A k \in 1 .. Len(args) : args[k])
        [] g.op = "XorLut2" -> Flip(args \in g.table)
        [] g.op = "StorageSwap" -> [wires |-> [st.wires EXCEPT ![g.target] = cell \in st.mem],
                                    mem |-> Stored(st.mem, cell, st.wires[g.target])]
        [] g.op = "ExternalXor" -> Flip(<<g.occurrence, args>> \in Oracle)
        [] g.op = "ExternalStorageXor" -> [wires |-> st.wires, mem |-> Flipped(st.mem, cell, ActionValue(args))]

apply(gates, st) == Through(LAMBDA acc, g : ApplyGate(g, acc), st, gates)
InOrder(gates) == gates
inverse(gates) == Reverse(gates)

(* What RCircuit::new refuses, and its callers expect never to see.        *)
validate_gate_at(n, g) ==
  /\ Range(g.args) \cup Range(g.addr) \subseteq 1 .. n
  /\ g.op # "ExternalStorageXor" => g.target \in (1 .. n) \ (Range(g.args) \cup Range(g.addr))
  /\ g.op = "XorLut2" => g.args[1] # g.args[2]

validate(n, gates) == \A k \in 1 .. Len(gates) : validate_gate_at(n, gates[k])

-----------------------------------------------------------------------------
(* Circuits as their types allow them: a statement or a gate has as many   *)
(* operands as its kind says, and variables are those of the circuit.      *)

Cells == Nat \X Seq(BOOLEAN)

StmtOps == {"Zero", "One", "Xor", "And", "Or", "Not", "StorageRead", "StorageWrite", "OracleBit", "ActionStoreBit", "Legacy"}

StmtShape(s) ==
  /\ s.op \in {"Xor", "And", "Or"} => Len(s.args) = 2
  /\ s.op \in {"Not", "StorageWrite"} => Len(s.args) = 1
  /\ s.op = "ActionStoreBit" => Len(s.args) >= 2

Statements ==
  {s \in [op : StmtOps, args : Seq(Nat \ {0}), addr : Seq(Nat \ {0}), lane : Nat, occurrence : Nat] : StmtShape(s)}

GateOps == {"Toggle", "XorLut2", "StorageSwap", "ExternalXor", "ExternalStorageXor"}

GateShape(g) ==
  /\ g.op = "Toggle" => Len(g.args) <= 2
  /\ g.op = "XorLut2" => Len(g.args) = 2
  /\ g.op = "ExternalStorageXor" => Len(g.args) >= 2

Gates ==
  {g \in [op : GateOps, args : Seq(Nat), addr : Seq(Nat), target : Nat, lane : Nat, occurrence : Nat,
          table : SUBSET [1 .. 2 -> BOOLEAN]] : GateShape(g)}

ASSUME CircuitsAssumption ==
  \A c \in Circuits :
    /\ c \in [params : Nat, stmts : Seq(Statements), outputs : Seq(Nat \ {0})]
    /\ Range(c.outputs) \cup UNION {Range(Operands(c.stmts[i])) : i \in 1 .. Len(c.stmts)} \subseteq 1 .. VarSpace(c)

(* Reversible circuits are validated when they are made (RCircuit::new).   *)
ASSUME RCircuitsAssumption == \A r \in RCircuits : r \in [n : Nat, gates : Seq(Gates)] /\ validate(r.n, r.gates)

ASSUME MemoriesAssumption == Memories \subseteq SUBSET Cells

-----------------------------------------------------------------------------
(* AncillaPool: wires above a base, the ones returned first.               *)

EmptyPool(base) == [base |-> base, next_fresh |-> base + 1, free |-> << >>]
Acquired(p) == IF p.free # << >> THEN Last(p.free) ELSE p.next_fresh
peak_allocated(p) == p.next_fresh - p.base - 1
acquire(p) == IF p.free # << >> THEN [p EXCEPT !.free = Front(@)] ELSE [p EXCEPT !.next_fresh = @ + 1]
release(p, w) == [p EXCEPT !.free = Append(@, w)]

-----------------------------------------------------------------------------
(* synthesize_naive, one statement at a time.                              *)

(* How often each variable is read.                                        *)
CountReads(counts, s) == [v \in DOMAIN counts |-> counts[v] + Cardinality({k \in 1 .. Len(s) : s[k] = v})]
CountOperands(counts, s) == CountReads(counts, Operands(s))
uses ==
  Through(CountOperands, CountReads([v \in 1 .. VarSpace(circ) |-> 0], circ.outputs), circ.stmts)

ConsumedWhileRead(a, b) ==
  IF a > circ.params /\ a # b THEN {a} ELSE IF b > circ.params /\ a # b THEN {b} ELSE {}

(* The operand whose wire the result of an Xor takes over, or none: one    *)
(* that nobody else reads and that is not a parameter.                     *)
Consumed(a, b) ==
  LET Candidate(v) == v > circ.params /\ uses[v] = 1
  IN  IF Candidate(a) /\ ~Candidate(b) THEN {a}
      ELSE IF Candidate(b) /\ ~Candidate(a) THEN {b}
      ELSE IF Candidate(a) /\ Candidate(b) /\ a # b /\ wire_of[a] # wire_of[b] THEN {a}
      ELSE {}

(* What a statement adds: its gates, the wire of its result and the scratch*)
(* wires afterwards.                                                       *)
Lowered(gates, wire, scratch) == [gates |-> gates, wire |-> wire, pool |-> scratch]
NewWire(gates) == Lowered(gates, next_anc, pool)

LowerXor(a, b) ==
  IF Consumed(a, b) = {} THEN NewWire(<<Cnot(wire_of[a], next_anc), Cnot(wire_of[b], next_anc)>>)
  ELSE LET c == CHOOSE c \in Consumed(a, b) : TRUE
           other == IF c = a THEN b ELSE a
       IN  Lowered(<<Cnot(wire_of[other], wire_of[c])>>, wire_of[c], pool)

(* Not (not a and not b), on copies of the operands; shared copies are     *)
(* taken back.                                                             *)
LowerOr(a, b) ==
  LET na   == Acquired(pool)
      one  == acquire(pool)
      nb   == Acquired(one)
      two  == acquire(one)
      copy == <<Cnot(wire_of[a], na), X(na), Cnot(wire_of[b], nb), X(nb)>>
      or   == copy \o <<Ccnot(na, nb, next_anc), X(next_anc)>>
  IN  IF share THEN Lowered(or \o Reverse(copy), next_anc, release(release(two, na), nb))
      ELSE Lowered(or, next_anc, two)

LowerRead(s, addr) ==
  LET t == Acquired(pool)
  IN  Lowered(<<StorageSwap(s, addr, t), Cnot(t, next_anc), StorageSwap(s, addr, t)>>, next_anc,
              IF share THEN release(acquire(pool), t) ELSE acquire(pool))

LowerWriteReleased(s, src, addr) ==
  LET t == Acquired(pool)
  IN  Lowered(<<Cnot(src, t), StorageSwap(s, addr, t)>>, next_anc,
              IF share THEN release(acquire(pool), t) ELSE acquire(pool))

(* The scratch wire keeps what the cell held and is not returned.          *)
LowerWrite(s, src, addr) ==
  LET t == Acquired(pool)
  IN  Lowered(<<Cnot(src, t), StorageSwap(s, addr, t)>>, next_anc, acquire(pool))

LowerStmt(s) ==
  LET args == MapSeq(s.args, LAMBDA v : wire_of[v])
      addr == MapSeq(s.addr, LAMBDA v : wire_of[v])
  IN  CASE s.op = "Zero" -> NewWire(<< >>)
        [] s.op = "One" -> NewWire(<<X(next_anc)>>)
        [] s.op = "Xor" -> LowerXor(s.args[1], s.args[2])
        [] s.op = "And" -> NewWire(<<Ccnot(args[1], args[2], next_anc)>>)
        [] s.op = "Not" -> NewWire(<<Cnot(args[1], next_anc), X(next_anc)>>)
        [] s.op = "Or" -> LowerOr(s.args[1], s.args[2])
        [] s.op = "StorageRead" -> LowerRead(s, addr)
        [] s.op = "StorageWrite" -> LowerWrite(s, args[1], addr)
        [] s.op = "OracleBit" -> NewWire(<<ExternalXor(s, args, next_anc)>>)
        [] s.op = "ActionStoreBit" -> NewWire(<<ExternalStorageXor(s, args, addr)>>)

-----------------------------------------------------------------------------
(* harden: compute, copy the outputs under a control, uncompute; twice,    *)
(* with the control toggled in between if the workspace is zero.           *)

Rung(controls, dirty, i) ==
  IF i = 1 THEN Ccnot(controls[1], controls[2], dirty[1])
  ELSE Ccnot(dirty[i - 1], controls[i + 1], dirty[i])

append_dirty_ladder(controls, target, dirty, first) ==
  LET up == [k \in 1 .. Len(dirty) - first + 1 |-> Rung(controls, dirty, first + k - 1)]
  IN  up \o <<Ccnot(Last(dirty), Last(controls), target)>> \o Reverse(up)

(* The second ladder takes back what the dirty wires added to the first.   *)
append_mcx_with_dirty(controls, target, dirty) ==
  IF Len(controls) <= 2 THEN <<Toggle(controls, target)>>
  ELSE append_dirty_ladder(controls, target, dirty, 1) \o append_dirty_ladder(controls, target, dirty, 2)

append_zero_test(controls, target, dirty) ==
  LET negate == MapSeq(controls, X) IN negate \o append_mcx_with_dirty(controls, target, dirty) \o negate

Workspace(n) ==
  LET inner == y_base - circ.params
  IN  [k \in 1 .. n - circ.params - Len(circ.outputs) |->
         circ.params + k + IF k <= inner THEN 0 ELSE Len(circ.outputs)]

SelectorLeft(compute, workspace, dirty, selector) ==
  LET copy == [k \in 1 .. Len(circ.outputs) |-> Ccnot(wire_of[circ.outputs[k]], selector, y_base + k)]
      controlled_clean_copy == compute \o copy \o Reverse(compute)
  IN  controlled_clean_copy \o append_zero_test(workspace, selector, dirty) \o controlled_clean_copy

HardenedGates(compute, workspace, dirty, selector) ==
  LET copy == [k \in 1 .. Len(circ.outputs) |-> Ccnot(wire_of[circ.outputs[k]], selector, y_base + k)]
      controlled_clean_copy == compute \o copy \o Reverse(compute)
      zero_test == append_zero_test(workspace, selector, dirty)
  IN  controlled_clean_copy \o zero_test \o controlled_clean_copy \o zero_test

-----------------------------------------------------------------------------
(* to_boolar_circuit.  BoolarBuilder knows the variable that holds each    *)
(* wire now.  (TLC evaluates a SubSeq at once, and the function it is of   *)
(* only when used.)                                                        *)

Builder(n) == [params |-> n, stmts |-> << >>, wires |-> SubSeq(Numbers(n), 1, n)]
Emit(b, s) == [b EXCEPT !.stmts = Append(@, s)]
Newest(b) == VarSpace(b)
SetWire(b, w, v) == [b EXCEPT !.wires[w] = v]
XorInto(b, w, v) == LET c == Emit(b, Stmt("Xor", <<b.wires[w], v>>)) IN SetWire(c, w, Newest(c))
AtCell(s, b, g) == [s EXCEPT !.addr = MapSeq(g.addr, LAMBDA w : b.wires[w]), !.lane = g.lane]

(* A sum so far: the builder and the variable that holds it, if any.       *)
append_xor_term(sum, v) ==
  IF sum.value = 0 THEN [b |-> sum.b, value |-> v]
  ELSE LET c == Emit(sum.b, Stmt("Xor", <<sum.value, v>>)) IN [b |-> c, value |-> Newest(c)]

AppendStmt(sum, s) == LET c == Emit(sum.b, s) IN append_xor_term([b |-> c, value |-> sum.value], Newest(c))

(* The coefficients of 1, the first control and the second in the table's  *)
(* sum of products; the table holds the pairs it is set for.               *)
LinearTermsSwapped(table) ==
  LET T(x, y) == <<x, y>> \in table
  IN  <<T(FALSE, FALSE), T(FALSE, FALSE) # T(FALSE, TRUE), T(FALSE, FALSE) # T(TRUE, FALSE)>>

LinearTerms(table) ==
  LET T(x, y) == <<x, y>> \in table
  IN  <<T(FALSE, FALSE), T(FALSE, FALSE) # T(TRUE, FALSE), T(FALSE, FALSE) # T(FALSE, TRUE)>>

ProductTerm(table) ==
  LET T(x, y) == <<x, y>> \in table
  IN  (T(FALSE, FALSE) # T(FALSE, TRUE)) # (T(TRUE, FALSE) # T(TRUE, TRUE))

lower_lut2_xor(b, g) ==
  LET terms == LinearTerms(g.table)
      c0 == b.wires[g.args[1]]
      c1 == b.wires[g.args[2]]
      t0 == [b |-> b, value |-> 0]
      t1 == IF terms[1] THEN AppendStmt(t0, Stmt("One", << >>)) ELSE t0
      t2 == IF terms[2] THEN append_xor_term(t1, c0) ELSE t1
      t3 == IF terms[3] THEN append_xor_term(t2, c1) ELSE t2
      t4 == IF ProductTerm(g.table) THEN AppendStmt(t3, Stmt("And", <<c0, c1>>)) ELSE t3
  IN  IF t4.value = 0 THEN b ELSE XorInto(t4.b, g.target, t4.value)

LowerGate(b, g) ==
  LET args == MapSeq(g.args, LAMBDA w : b.wires[w])
      read == Emit(b, AtCell(Stmt("StorageRead", << >>), b, g))
      external == Emit(b, [Stmt("OracleBit", args) EXCEPT !.occurrence = g.occurrence])
      act == Emit(read, Stmt("ActionBit", args))
      both == Emit(act, Stmt("Xor", <<Newest(read), Newest(act)>>))
  IN  CASE g.op = "Toggle" /\ Len(args) = 0 ->
             LET c == Emit(b, Stmt("Not", <<b.wires[g.target]>>)) IN SetWire(c, g.target, Newest(c))
        [] g.op = "Toggle" /\ Len(args) = 1 -> XorInto(b, g.target, args[1])
        [] g.op = "Toggle" /\ Len(args) = 2 ->
             LET c == Emit(b, Stmt("And", args)) IN XorInto(c, g.target, Newest(c))
        [] g.op = "XorLut2" -> lower_lut2_xor(b, g)
        [] g.op = "StorageSwap" ->
             SetWire(Emit(read, AtCell(Stmt("StorageWrite", <<b.wires[g.target]>>), b, g)),
                     g.target, Newest(read))
        [] g.op = "ExternalXor" -> XorInto(external, g.target, Newest(external))
        [] g.op = "ExternalStorageXor" -> Emit(both, AtCell(Stmt("StorageWrite", <<Newest(both)>>), b, g))

ToBoolar(r) ==
  LET done == Through(LowerGate, Builder(r.n), r.gates)
  IN  [params |-> r.n, stmts |-> done.stmts, outputs |-> done.wires]

(* Inputs at the positions in fixed become constants.                      *)
hardcode_circuit_inputs(c, fixed) ==
  LET Rank(v, S) == Cardinality({u \in S : u <= v})
      open   == (1 .. c.params) \ DOMAIN fixed
      params == Cardinality(open)
      Remap(v) == IF v \in open THEN Rank(v, open)
                  ELSE IF v <= c.params THEN params + Rank(v, DOMAIN fixed)
                  ELSE v - c.params + Cardinality(DOMAIN fixed) + params
      order  == SelectSeq(Numbers(c.params), LAMBDA v : v \in DOMAIN fixed)
      consts == [k \in 1 .. Len(order) |-> Stmt(IF fixed[order[k]] THEN "One" ELSE "Zero", << >>)]
  IN  [params |-> params,
       stmts |-> consts \o [k \in 1 .. Len(c.stmts) |->
                             [c.stmts[k] EXCEPT !.args = MapSeq(c.stmts[k].args, Remap),
                                                !.addr = MapSeq(c.stmts[k].addr, Remap)]],
       outputs |-> MapSeq(c.outputs, Remap)]

OutputsCut(c, removed) == [c EXCEPT !.outputs = SubSeq(@, 1, Len(@) - Cardinality(removed))]

(* The outputs at the positions in removed are dropped.                    *)
remove_circuit_outputs(c, removed) ==
  LET kept == SelectSeq(Numbers(Len(c.outputs)), LAMBDA k : k \notin removed)
  IN  [c EXCEPT !.outputs = MapSeq(kept, LAMBDA k : c.outputs[k])]

-----------------------------------------------------------------------------
(* The passes.                                                             *)

NoCircuit == [params |-> 0, stmts |-> << >>, outputs |-> << >>]
Nothing == [wires |-> << >>, mem |-> {}]

Init ==
  /\ \/ /\ circ \in Circuits
        /\ \E o \in Options(circ) : mode = o[1] /\ share = o[2]
        /\ phase = "synth"
        /\ rc = [n |-> 0, gates |-> << >>]
     \/ /\ circ = NoCircuit /\ mode = "given" /\ share = FALSE
        /\ phase = "ready"
        /\ rc \in RCircuits
  /\ wire_of = Numbers(circ.params)
  /\ next_anc = circ.params + 1
  /\ pool = EmptyPool(VarSpace(circ) + Len(circ.outputs))
  /\ y_base = VarSpace(circ)
  /\ borrowed = << >>
  /\ back = NoCircuit
  /\ start = Nothing
  /\ end = Nothing

Stmts == Len(wire_of) - circ.params
Current == circ.stmts[Stmts + 1]

Stateful(s) == s.op \in {"StorageRead", "StorageWrite", "ActionStoreBit"}
RefusesHardening == mode = "hardened" /\ \E i \in 1 .. Len(circ.stmts) : Stateful(circ.stmts[i])
UsesBeforeDef == \E v \in Range(Operands(Current)) : v > Len(wire_of) + 1
UsesItself == Len(wire_of) + 1 \in Range(Operands(Current))

Synthesizing == phase = "synth" /\ ~RefusesHardening
InStmt == Synthesizing /\ Len(wire_of) < VarSpace(circ)

SynthesizeStmt ==
  /\ InStmt
  /\ Current.op # "Legacy" /\ ~UsesBeforeDef /\ ~UsesItself
  /\ \E done \in {LowerStmt(Current)} :
       /\ rc' = [rc EXCEPT !.gates = @ \o done.gates]
       /\ wire_of' = Append(wire_of, done.wire)
       /\ next_anc' = IF done.wire = next_anc THEN next_anc + 1 ELSE next_anc
       /\ pool' = done.pool
  /\ UNCHANGED <<circ, mode, share, phase, y_base, borrowed, back, start, end>>

(* ToReversibleError.                                                      *)
Refuse ==
  /\ phase = "synth"
  /\ RefusesHardening \/ (InStmt /\ (Current.op = "Legacy" \/ UsesBeforeDef))
  /\ phase' = "refused"
  /\ UNCHANGED <<circ, mode, share, wire_of, next_anc, pool, rc, y_base, borrowed, back, start, end>>

(* A statement that reads its own result is not found out: its wire is     *)
(* looked up before there is one.                                          *)
Panic ==
  /\ InStmt
  /\ Current.op # "Legacy" /\ ~UsesBeforeDef /\ UsesItself
  /\ phase' = "panic"
  /\ UNCHANGED <<circ, mode, share, wire_of, next_anc, pool, rc, y_base, borrowed, back, start, end>>

(* The wires of results that were not needed are closed up; the outputs    *)
(* are added to y.                                                         *)
CompactAndCopy ==
  /\ Synthesizing
  /\ Len(wire_of) = VarSpace(circ)
  /\ LET prov  == VarSpace(circ)
         base  == next_anc - 1
         Shift(w) == IF w > prov THEN w - (prov - base) ELSE w
         moved == [k \in 1 .. Len(rc.gates) |->
                     LET g == rc.gates[k]
                     IN  Gate(g.op, MapSeq(g.args, Shift), MapSeq(g.addr, Shift), Shift(g.target),
                              g.lane, g.occurrence, g.table)]
         outs  == [k \in 1 .. Len(circ.outputs) |-> Cnot(wire_of[circ.outputs[k]], base + k)]
     IN  /\ rc' = [n |-> base + Len(circ.outputs) + peak_allocated(pool), gates |-> moved \o outs]
         /\ y_base' = base
         /\ phase' = IF ~validate(rc'.n, rc'.gates) THEN "panic"
                     ELSE IF mode = "hardened" THEN "harden" ELSE "ready"
  /\ UNCHANGED <<circ, mode, share, wire_of, next_anc, pool, borrowed, back, start, end>>

harden ==
  /\ phase = "harden"
  /\ LET workspace == Workspace(rc.n)
         dirty     == IF Len(workspace) <= 2 THEN 0 ELSE Len(workspace) - 2
         compute   == SubSeq(rc.gates, 1, Len(rc.gates) - Len(circ.outputs))
         lent      == [k \in 1 .. dirty + 1 |-> rc.n + k]
     IN  IF workspace = << >> THEN phase' = "ready" /\ UNCHANGED <<rc, borrowed>>
         ELSE /\ borrowed' = lent
              /\ rc' = [n |-> rc.n + Len(lent), gates |-> HardenedGates(compute, workspace, Front(lent), Last(lent))]
              /\ phase' = IF validate(rc'.n, rc'.gates) THEN "ready" ELSE "panic"
  /\ UNCHANGED <<circ, mode, share, wire_of, next_anc, pool, y_base, back, start, end>>

to_boolar_circuit ==
  /\ phase = "ready"
  /\ back' = ToBoolar(rc)
  /\ phase' = "lowered"
  /\ UNCHANGED <<circ, mode, share, wire_of, next_anc, pool, rc, y_base, borrowed, start, end>>

ApplyCircuit ==
  /\ phase = "lowered"
  /\ start' \in [wires : [1 .. rc.n -> BOOLEAN], mem : Memories]
  /\ end' = apply(rc.gates, start')
  /\ phase' = "applied"
  /\ UNCHANGED <<circ, mode, share, wire_of, next_anc, pool, rc, y_base, borrowed, back>>

Next == SynthesizeStmt \/ Refuse \/ Panic \/ CompactAndCopy \/ harden \/ to_boolar_circuit \/ ApplyCircuit

Spec == Init /\ [][Next]_vars

-----------------------------------------------------------------------------
(* Properties.                                                             *)

(* Variables somebody still has to read.                                   *)
LiveVars ==
  {v \in 1 .. Len(wire_of) :
     \/ v \in Range(circ.outputs)
     \/ \E i \in Stmts + 1 .. Len(circ.stmts) : v \in Range(Operands(circ.stmts[i]))}

(* Every action of a run of c finds 0 in its cell: only then is adding a   *)
(* bit the same as storing it.                                             *)
StoresMeetZeros(c, x, mem) ==
  \A k \in 1 .. Len(c.stmts) :
    LET st == Values([c EXCEPT !.stmts = SubSeq(@, 1, k - 1)], x, mem)
    IN  c.stmts[k].op = "ActionStoreBit" => StmtCell(c.stmts[k], st.vals) \notin st.mem

(* What the reversible circuit of c is to compute: what c does, unless an  *)
(* action finds 1 in its cell.                                             *)
EmbeddedValues(c, x, mem) == IF StoresMeetZeros(c, x, mem) THEN Values(c, x, mem) ELSE ValuesToggling(c, x, mem)
EmbeddedResult(c, x, mem) == Returned(c, EmbeddedValues(c, x, mem))

Zeroed(x, n) == [w \in 1 .. n |-> IF w <= Len(x) THEN x[w] ELSE FALSE]

(* As long as the circuit is being made: values that will be read have     *)
(* wires of their own ("The map is injective among live values"), and the  *)
(* gates so far put them there; storage is as it should be, the actions'   *)
(* bits stored, or added once one of them found a 1; parameters are        *)
(* untouched.                                                              *)
LiveWires ==
  phase = "synth" =>
    /\ \A u, v \in LiveVars : u # v => wire_of[u] # wire_of[v]
    /\ \A x \in [1 .. circ.params -> BOOLEAN], mem \in Memories :
         LET now  == apply(rc.gates, [wires |-> Zeroed(x, pool.next_fresh), mem |-> mem])
             want == EmbeddedValues([circ EXCEPT !.stmts = SubSeq(@, 1, Stmts)], x, mem)
         IN  /\ now.mem = want.mem
             /\ \A v \in LiveVars \cup 1 .. circ.params : now.wires[wire_of[v]] = want.vals[v]

(* The contract of AncillaPool: a scratch wire that may be handed out      *)
(* again holds what it held when it was handed out, whatever the wires     *)
(* held at first ("Totality").                                             *)
ScratchRestored ==
  phase = "synth" /\ pool.free # << >> =>
    \A wires \in [1 .. pool.next_fresh - 1 -> BOOLEAN], mem \in Memories :
      LET now == apply(rc.gates, [wires |-> wires, mem |-> mem])
      IN  \A w \in Range(pool.free) : now.wires[w] = wires[w]

(* What to_reversible promises: x is untouched and f(x) is added to y when *)
(* the workspace is zero, and storage is what f makes of it (the bits of   *)
(* the actions added once one of them finds a 1); a hardened circuit       *)
(* restores workspace and borrowed wires, and does nothing at all when the *)
(* workspace is not zero.                                                  *)
Embeds ==
  phase = "applied" /\ mode # "given" =>
    LET params == 1 .. circ.params
        y      == y_base + 1 .. y_base + Len(circ.outputs)
        f      == EmbeddedResult(circ, SubSeq(start.wires, 1, circ.params), start.mem)
        inner  == Range(Workspace(rc.n - Len(borrowed)))
        clean  == \A w \in inner : ~start.wires[w]
        want   == [w \in 1 .. rc.n |-> IF w \in y THEN start.wires[w] # f.out[w - y_base] ELSE start.wires[w]]
    IN  /\ clean => /\ end.mem = f.mem
                    /\ \A w \in IF mode = "hardened" THEN 1 .. rc.n ELSE params \cup y : end.wires[w] = want[w]
        /\ mode = "hardened" /\ ~clean => end = start

(* The Boolar ActionStoreBit stores its bit "directly at the supplied      *)
(* Boolar storage cell" (boolar.rs), so the circuit made of it should too. *)
StoresDirectly ==
  phase = "applied" /\ mode # "given" /\ (\A w \in Range(Workspace(rc.n - Len(borrowed))) : ~start.wires[w]) =>
    end.mem = Result(circ, SubSeq(start.wires, 1, circ.params), start.mem).mem

(* A circuit and its inverse undo each other, storage and all              *)
(* (RCircuit::inverse).                                                    *)
Undoes == phase = "applied" => apply(inverse(rc.gates), end) = start

(* The Boolar circuit led back to computes every wire of the reversible    *)
(* one from all of them (to_boolar_circuit).                               *)
LedBack == phase = "applied" => Result(back, start.wires, start.mem) = [out |-> end.wires, mem |-> end.mem]

(* Nothing but a statement that reads its own result makes the passes      *)
(* panic: the gates they make are valid ("validated gates by               *)
(* construction").                                                         *)
Validated == phase = "panic" => Len(wire_of) < VarSpace(circ) /\ UsesItself

(* There and back again: the circuit is valid, and with the workspace set  *)
(* to zero, the borrowed wires to anything, and everything but y ignored,  *)
(* the circuit led back to adds to y what the first one computes           *)
(* (hardcode_circuit_inputs, remove_circuit_outputs).                      *)
RoundTrip ==
  /\ Validated
  /\ phase = "lowered" /\ mode # "given" =>
      LET y     == y_base + 1 .. y_base + Len(circ.outputs)
          fixed == ((1 .. rc.n) \ y) \ (1 .. circ.params)
          projected == remove_circuit_outputs(hardcode_circuit_inputs(back, [w \in fixed |-> w \in Range(borrowed)]),
                                              (1 .. rc.n) \ y)
      IN  \A x \in [1 .. circ.params -> BOOLEAN], into \in [1 .. Len(circ.outputs) -> BOOLEAN], mem \in Memories :
            LET f == EmbeddedResult(circ, x, mem)
            IN  Result(projected, x \o into, mem) =
                  [f EXCEPT !.out = [k \in 1 .. Len(circ.outputs) |-> f.out[k] # into[k]]]
=============================================================================
