------------------------------- MODULE Circuit -------------------------------
(***************************************************************************)
(* Lowering a self-loop to a circuit                                       *)
(* (crates/ir/volar-ir-passes/src/lower_to_circuit.rs).  The one block a   *)
(* movfuscated program consists of is copied limit times, each copy fed    *)
(* with what the one before would jump back with.  Nothing stops a copy    *)
(* that comes after the loop's end: the result of the first copy that is   *)
(* done is picked from all of them by a cascade of multiplexers, and       *)
(* whether there is one is told by a flag.                                 *)
(*                                                                         *)
(* The module follows the emission of the circuit and the values of its    *)
(* wires side by side.  form is "ir" for lower_to_circuit_ir, whose        *)
(* circuit a driver calls again and again with the state it left, until    *)
(* the flag is set; and "boolar" for lower_to_circuit, whose circuit is    *)
(* called once, returns the state in the place of the result when the loop *)
(* has not ended, and shares equal gates through a cache.                  *)
(***************************************************************************)
EXTENDS VolarProgram, SequencesExt

CONSTANTS
  Limits(_),    \* numbers of copies to make of a program's block
  Forms(_),     \* the forms a program has
  Xor(_, _),    \* addition of vectors of bits
  Slot(_),      \* the cache's hash function
  Halting       \* programs whose loops are known to end

VARIABLES
  prog,           \* the program, a single block that jumps back to itself
  form,           \* "ir" or "boolar"
  limit,          \* number of copies
  wires,          \* values of the circuit's variables, in the order emitted
  current_state,  \* variables that hold the block's parameters
  var_map,        \* variables that hold the values of the block, so far
  done_vars,      \* per copy, the variable that tells whether it is done
  result_wires,   \* per copy, the variables that hold what it returns
  cache,          \* substituted_gates: per slot, the key and the variable
  stor,           \* contents of the storage cells
  log,            \* actions performed, in order
  status,         \* "run", "return", or "exhausted": the circuit ended before the loop
  out,            \* what the circuit returned last
  halted          \* history: the block's values where the loop ended, if it has

vars == <<prog, form, limit, wires, current_state, var_map, done_vars, result_wires, cache, stor, log,
          status, out, halted>>

ASSUME CircuitAssumption ==
  /\ \A a, b \in Val : Xor(a, b) \in Val /\ Xor(Xor(a, b), b) = a /\ Xor(0, b) = b
  /\ \A P \in Programs : Limits(P) \subseteq Nat /\ Forms(P) \subseteq {"ir", "boolar"}

Block == prog.blocks[0]
ValuesAt(ids) == [k \in 1 .. Len(ids) |-> wires[ids[k]]]
Ids(n) == [k \in 1 .. n |-> k]

-----------------------------------------------------------------------------
(* Gates.                                                                  *)

emit_gate(bit, val) == IF bit = 1 THEN val ELSE 0
emit_mux(bit, a, b) == Xor(emit_gate(bit, Xor(a, b)), b)
emit_or(a, b) == IF a = 1 \/ b = 1 THEN 1 ELSE 0

(* The key of a gate that may be shared: the operands of a binary gate in  *)
(* ascending order.  Storage, actions and randomness have none.            *)
GateKey(s, ids) ==
  CASE s.op = "Const" -> <<"Const", s.value, 0>>
    [] s.op = "Pure" /\ Len(ids) = 1 -> <<s.gate, ids[1], 0>>
    [] s.op = "Pure" /\ Len(ids) = 2 ->
         IF ids[1] <= ids[2] THEN <<s.gate, ids[1], ids[2]>> ELSE <<s.gate, ids[2], ids[1]>>

from_stmt(s) == form = "boolar" /\ s.op \in {"Const", "Pure"}

CacheGetAny(key) == Slot(key) \in DOMAIN cache

(* A slot holds one gate, the last that fell on it.                        *)
CacheGet(key) == Slot(key) \in DOMAIN cache /\ cache[Slot(key)][1] = key

CacheInsert(key, id) == [slot \in DOMAIN cache \cup {Slot(key)} |->
                           IF slot = Slot(key) THEN <<key, id>> ELSE cache[slot]]

-----------------------------------------------------------------------------
(* Substitution of the variables of a copy in a statement of the block.    *)

Key(mono, ids) == [w \in Range(ids) |-> Cardinality({p \in mono : ids[p] = w})]

(* The monomials of a Poly are collected by their variables: of those that *)
(* become equal one remains.                                               *)
Collected(monos, ids) ==
  {CHOOSE mono \in monos : Key(mono, ids) = key : key \in {Key(mono, ids) : mono \in monos}}

IsPoly(s) == s.op = "Pure" /\ "terms" \in DOMAIN s

PolyValue(s, monos, x) ==
  MapThenFoldSet(Xor, s.constant, LAMBDA mono : s.terms[mono][x], LAMBDA S : CHOOSE mono \in S : TRUE, monos)

(* What a statement is worth in a copy.                                    *)
subst_ir(s, tbl, cells) ==
  IF form = "ir" /\ IsPoly(s)
  THEN PolyValue(s, Collected(s.monos, Args(s.args, var_map)), Args(s.args, tbl))
  ELSE StmtValue(s, tbl, cells)

-----------------------------------------------------------------------------
(* The end of a copy: whether it is done, what it returns and what it      *)
(* hands on, in the block's own variables.                                 *)

LeavesOn(term, c) ==
  \/ term.kind = "JumpCond" /\ term.then.dest = "Return" /\ (c = 1 \/ term.else.dest = "Return")
  \/ term.kind = "JumpCond" /\ term.else.dest = "Return" /\ (c = 0 \/ term.then.dest = "Return")

BothReturn(term) == term.kind = "JumpCond" /\ term.then.dest = "Return" /\ term.else.dest = "Return"

(* The arguments with which the block is entered again; a block that       *)
(* always returns hands its own parameters on.                             *)
NextArgs(block) ==
  LET term == block.term
  IN  IF term.kind = "Jmp" THEN term.target.args
      ELSE IF BothReturn(term) THEN Ids(Len(block.params))
      ELSE IF term.then.dest = "Return" THEN term.else.args ELSE term.then.args

ReturnArgs(term) ==
  IF term.kind = "Jmp" THEN << >>
  ELSE IF term.then.dest = "Return" THEN term.then.args ELSE term.else.args

(* What is returned: a multiplexer when both branches return.  A loop that *)
(* never returns has no result in one form and its state in the other.     *)
ResultValues(term, tbl) ==
  IF term.kind = "Jmp" THEN (IF form = "ir" THEN << >> ELSE SubSeq(tbl, 1, Len(Block.params)))
  ELSE IF BothReturn(term)
  THEN [k \in 1 .. Len(term.then.args) |->
          emit_mux(tbl[term.condition], tbl[term.then.args[k]], tbl[term.else.args[k]])]
  ELSE Args(ReturnArgs(term), tbl)

-----------------------------------------------------------------------------
(* The outputs.                                                            *)

Width(copies) ==
  IF form = "ir" THEN Len(ReturnArgs(Block.term))
  ELSE IF copies = << >> THEN Len(Block.params) ELSE Len(copies[1].result)

(* What the cascade starts from: the first variable in every place, or the *)
(* state, cut to the width of the result or filled up with its last wire.  *)
Fallback(copies, state) ==
  [b \in 1 .. Width(copies) |->
     IF form = "ir" \/ state = << >> THEN wires[1]
     ELSE IF b <= Len(state) THEN state[b] ELSE Last(state)]

(* What the copies tell, in their order.                                   *)
Copies == [k \in 1 .. Len(done_vars) |->
             [done |-> wires[done_vars[k]], result |-> ValuesAt(result_wires[k])]]

(* FoldLeft of SequencesExt, by recursion over the positions of seq.       *)
Through(op(_, _), from, seq) ==
  LET at[k \in 0 .. Len(seq)] == IF k = 0 THEN from ELSE op(at[k - 1], seq[k])
  IN  at[Len(seq)]

Select(gated, copy) == [b \in DOMAIN gated |-> emit_mux(copy.done, copy.result[b], gated[b])]

LastDoneWins(copies, fallback) == Through(Select, fallback, copies)

(* mux(done[1], result[1], mux(done[2], result[2], ... fallback)).         *)
Cascade(copies, fallback) == Through(Select, fallback, Reverse(copies))

overall_done(dones) == Through(emit_or, 0, dones)

Outputs ==
  LET state == ValuesAt(current_state)
  IN  [done |-> overall_done(ValuesAt(done_vars)), state |-> state,
       ret |-> Cascade(Copies, Fallback(Copies, state))]

-----------------------------------------------------------------------------
(* The loop's own state.                                                   *)

SourceStatus == IF halted = << >> THEN "run" ELSE "return"
SourceVals == IF halted = << >> THEN ValuesAt(var_map) ELSE halted[1]
SourceRet == IF halted = << >> THEN << >> ELSE Args(Branch(Block.term, halted[1]).args, halted[1])

Source == INSTANCE VolarIR WITH pc <- 0, status <- SourceStatus, vals <- SourceVals, ret <- SourceRet

(* A call of the circuit: its parameters are its first variables.          *)
StartCall(state) ==
  /\ wires' = state
  /\ current_state' = Ids(Len(state))
  /\ var_map' = Ids(Len(state))
  /\ done_vars' = << >>
  /\ result_wires' = << >>
  /\ cache' = [slot \in {} |-> << >>]

(* is_circuit: there is nothing to lower.                                  *)
is_circuit(P) == P.n = 1 /\ P.blocks[0].term.kind = "Jmp" /\ P.blocks[0].term.target.dest = "Return"

SelfLoops == {P \in Programs : P.n = 1 /\ ~is_circuit(P)}

Init ==
  /\ prog \in SelfLoops
  /\ form \in Forms(prog)
  /\ limit \in Limits(prog)
  /\ wires \in InputsFor(Block.params)
  /\ current_state = Ids(Len(wires))
  /\ var_map = Ids(Len(wires))
  /\ done_vars = << >>
  /\ result_wires = << >>
  /\ cache = [slot \in {} |-> << >>]
  /\ stor = prog.pre_init
  /\ log = << >>
  /\ status = "run"
  /\ out = [done |-> 0, state |-> wires, ret |-> << >>]
  /\ halted = << >>

Copying == status = "run" /\ Len(done_vars) < limit

(* emit_substituted finds the gate in the cache, or emits it as every      *)
(* other statement is.                                                     *)
ShareGate ==
  /\ Copying
  /\ Len(var_map) < NumVars(Block)
  /\ LET s   == StmtAt(Block, var_map)
         key == GateKey(s, IF s.op = "Pure" THEN Args(s.args, var_map) ELSE << >>)
     IN  /\ from_stmt(s)
         /\ CacheGet(key)
         /\ var_map' = Append(var_map, cache[Slot(key)][2])
  /\ UNCHANGED <<prog, form, limit, wires, current_state, done_vars, result_wires, cache, stor, log,
                 status, out, halted>>

EmitStmt ==
  /\ Copying
  /\ Len(var_map) < NumVars(Block)
  /\ LET s   == StmtAt(Block, var_map)
         tbl == ValuesAt(var_map)
         key == GateKey(s, IF s.op = "Pure" THEN Args(s.args, var_map) ELSE << >>)
     IN  /\ from_stmt(s) => ~CacheGet(key)
         /\ wires' = Append(wires, subst_ir(s, tbl, stor))
         /\ var_map' = Append(var_map, Len(wires'))
         /\ cache' = IF from_stmt(s) THEN CacheInsert(key, Len(wires')) ELSE cache
         /\ stor' = IF s.op = "StorageWrite" THEN [stor EXCEPT ![Cell(s, tbl)] = tbl[s.src]] ELSE stor
         /\ log' = log \o Performed(s, tbl)
  /\ UNCHANGED <<prog, form, limit, current_state, done_vars, result_wires, status, out, halted>>

process_terminator ==
  /\ Copying
  /\ Len(var_map) = NumVars(Block)
  /\ LET term   == Block.term
         tbl    == ValuesAt(var_map)
         done   == IF LeavesOn(term, IF term.kind = "Jmp" THEN 0 ELSE tbl[term.condition]) THEN 1 ELSE 0
         result == ResultValues(term, tbl)
         next   == Args(NextArgs(Block), var_map)
         n      == Len(wires)
     IN  /\ wires' = wires \o <<done>> \o result
         /\ done_vars' = Append(done_vars, n + 1)
         /\ result_wires' = Append(result_wires, [k \in 1 .. Len(result) |-> n + 1 + k])
         /\ current_state' = next
         /\ var_map' = next
         /\ halted' = IF done = 1 /\ halted = << >> THEN <<tbl>> ELSE halted
  /\ UNCHANGED <<prog, form, limit, cache, stor, log, status, out>>

FinishOnce ==
  /\ status = "run"
  /\ Len(done_vars) = limit
  /\ Outputs.done = 1 \/ form = "boolar"
  /\ out' = Outputs
  /\ status' = IF Outputs.done = 1 THEN "return" ELSE "exhausted"
  /\ UNCHANGED <<prog, form, limit, wires, current_state, var_map, done_vars, result_wires, cache, stor, log,
                 halted>>

(* The circuit ends.  Its caller stops at the flag; the driver of the ir   *)
(* form otherwise calls it again.                                          *)
Finish ==
  /\ status = "run"
  /\ Len(done_vars) = limit
  /\ out' = Outputs
  /\ IF Outputs.done = 1 \/ form = "boolar"
     THEN /\ status' = IF Outputs.done = 1 THEN "return" ELSE "exhausted"
          /\ UNCHANGED <<wires, current_state, var_map, done_vars, result_wires, cache>>
     ELSE status' = status /\ StartCall(Outputs.state)
  /\ UNCHANGED <<prog, form, limit, stor, log, halted>>

Next == ShareGate \/ EmitStmt \/ process_terminator \/ Finish

(* A circuit is straight-line code and the driver a loop without a way     *)
(* out but the flag.                                                       *)
Spec == Init /\ [][Next]_vars
FairSpec == Spec /\ WF_vars(Next)

-----------------------------------------------------------------------------
(* What the pass supports: the terminators process_terminator does not     *)
(* panic on; blocks that are well typed; gates whose kind tells what they  *)
(* compute, whatever the order of the operands; Polys whose variables stay *)
(* apart from copy to copy; and, where more copies than one are made,      *)
(* blocks that leave no traces.  On all but the first of these conditions  *)
(* it relies in silence.                                                   *)

LoopsBack(target) == target.dest = "Block" /\ target.block = 0

TermSupported(term) ==
  \/ term.kind = "Jmp" /\ LoopsBack(term.target)
  \/ /\ term.kind = "JumpCond"
     /\ \/ term.then.dest = "Return" /\ LoopsBack(term.else)
        \/ LoopsBack(term.then) /\ term.else.dest = "Return"
        \/ BothReturn(term) /\ Len(term.then.args) = Len(term.else.args)

(* The inputs of a function whose operands have types T.                   *)
InputsOf(T, args) == {x \in [1 .. Len(args) -> Val] : \A k \in 1 .. Len(args) : x[k] \in ValuesOf(T[args[k]])}

StmtTyped(T, s, v) ==
  CASE s.op = "Const" -> s.value \in ValuesOf(T[v])
    [] s.op = "Pure" -> \A x \in InputsOf(T, s.args) : s.f[x] \in ValuesOf(T[v])
    [] s.op = "StorageRead" -> T[v] = s.ty
    [] s.op = "StorageWrite" -> T[s.src] = s.ty /\ 0 \in ValuesOf(T[v])
    [] s.op = "ActionCall" -> /\ T[s.fallback] = T[v]
                              /\ \A x \in InputsOf(T, s.args) : s.f[x] \in ValuesOf(T[v])

BlockTyped(T, block) ==
  /\ \A k \in 1 .. Len(block.params) : T[k] = block.params[k] /\ T[NextArgs(block)[k]] = block.params[k]
  /\ \A j \in 1 .. Len(block.stmts) : StmtTyped(T, block.stmts[j], Len(block.params) + j)
  /\ block.term.kind = "JumpCond" => ValuesOf(T[block.term.condition]) \subseteq {0, 1}

PolySupported(block, s, copies) ==
  /\ \A mono \in s.monos : mono \subseteq 1 .. Len(s.args)
  /\ IsInjective(s.args)
  /\ copies <= 1 \/ IsInjective(NextArgs(block))
  /\ \A x \in [1 .. Len(s.args) -> Val] : PolyValue(s, s.monos, x) = s.f[x]

GateSupported(block, s) ==
  /\ Len(s.args) \in {1, 2} /\ s.gate # "Const"
  /\ Len(s.args) = 2 => \A a, b \in Val : s.f[<<a, b>>] = s.f[<<b, a>>]
  /\ \A j \in 1 .. Len(block.stmts) :
       LET t == block.stmts[j]
       IN  t.op = "Pure" /\ t.gate = s.gate /\ Len(t.args) = Len(s.args) => t.f = s.f

Supported(P, f, copies) ==
  LET block == P.blocks[0]
  IN  /\ TermSupported(block.term)
      /\ \E T \in [1 .. NumVars(block) -> Types] : BlockTyped(T, block)
      /\ \A c \in Cells : P.pre_init[c] \in ValuesOf(c[2])
      /\ \A j \in 1 .. Len(block.stmts) :
           LET s == block.stmts[j]
           IN  /\ s.op \in {"StorageWrite", "ActionCall"} => copies <= 1
               /\ f = "ir" /\ IsPoly(s) => PolySupported(block, s, copies)
               /\ f = "boolar" /\ s.op = "Pure" => GateSupported(block, s)

ProgramsSupported == \A P \in SelfLoops : \A f \in Forms(P), n \in Limits(P) : Supported(P, f, n)

-----------------------------------------------------------------------------
(* Properties.                                                             *)

(* The circuit does what the loop does, up to its end, and the copies that *)
(* come after change nothing of it (lower_to_circuit and its ir form).     *)
Refines == Source!Spec

CallStarts == done_vars = << >> /\ Len(wires) = Len(Block.params)

(* The flag tells whether the loop ended within the copies made            *)
(* (LoweringMode::WithTerminationFlag), so that no call is made after the  *)
(* end; when it is set the result is what the loop returned where it       *)
(* ended, and otherwise the boolar form returns the state, as far as that  *)
(* fits.                                                                   *)
Delivers ==
  /\ status = "return" => halted # << >> /\ out.ret = Args(Branch(Block.term, halted[1]).args, halted[1])
  /\ CallStarts => halted = << >>
  /\ status = "exhausted" =>
       /\ halted = << >>
       /\ \A b \in 1 .. Len(out.ret) : b <= Len(out.state) => out.ret[b] = out.state[b]

(* A loop that ends is followed to its end by a driver that calls the      *)
(* circuit as long as the flag is clear, whatever the number of copies.    *)
Halts == prog \in Halting /\ form = "ir" /\ limit > 0 => <>(status = "return")
=============================================================================
