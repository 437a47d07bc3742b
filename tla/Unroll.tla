------------------------------- MODULE Unroll -------------------------------
(***************************************************************************)
(* Unrolling of control that is known at compile time                      *)
(* (crates/ir/volar-ir-passes/src/unroll_ir.rs).  A walk starts in a       *)
(* block, copies the statements of every block it comes to into dest, and  *)
(* goes on as long as the constants known in dest decide each branch.      *)
(*                                                                         *)
(*   "everything"  from block 0 to a Return, or an error;                  *)
(*   "prefix"      from block 0 as far as it goes; the other blocks remain *)
(*                 as they are, the old block 0 behind them;               *)
(*   "segments"    from every block in turn, each replaced by its walk     *)
(*                 when that crossed an edge.                              *)
(*                                                                         *)
(* A program is [n, blocks, pre_init]: blocks by their names, and the      *)
(* cells that have initial values.  When the walk is done the result and   *)
(* the program run side by side, one block of the result at a time.        *)
(***************************************************************************)
EXTENDS IrBlock

CONSTANTS
  Programs,    \* programs to unroll
  ModesOf(_),  \* how a program is unrolled
  Limits,      \* UnrollLimits: records [max_steps, max_states]
  Cells        \* storage cells

VARIABLES
  prog,     \* the program
  mode,     \* "everything", "prefix" or "segments"
  limits,   \* caps on the walk
  phase,    \* "start", "enter", "fold", "dispatch", "finish", "run" or
            \* "failed"
  origin,   \* where the walk started
  dest,     \* the block that is put together
  consts,   \* the constants known in dest
  term,     \* the terminator of the last block copied, over dest's variables
  current,  \* the block the walk comes to
  args,     \* variables of dest it is entered with
  visited,  \* blocks and what was known of their parameters, so far
  steps,    \* entries counted
  out,      \* the result
  outcome,  \* "", "Complete", or why the walk ended
  cost,     \* history: blocks of the program in each block of the result
  walked,   \* history: blocks of the program in dest
  old,      \* the program's run
  new       \* the result's run

walk == <<origin, dest, consts, term, current, args, visited, steps, walked>>
runs == <<old, new>>
vars == <<prog, mode, limits, phase, walk, out, outcome, cost, runs>>

(* The name of the k-th block.                                             *)
NameOf(k) == {j \in 0 .. 2 : (k \div 2^j) % 2 = 1}

is_circuit(P) ==
  P.n = 1 /\ P.blocks[{}].term.kind = "Jmp" /\ P.blocks[{}].term.target.dest = "Return"

-----------------------------------------------------------------------------
(* What is known in dest.                                                  *)

EvalPoly(s, known) ==
  LET products == {mono \in s.monos : \A v \in Range(mono) : 0 \in known[v]}
  IN  {k \in Ones(s.ty) : (k = 0 /\ Odd(products)) # (k \in s.constant)}

RememberStale(mem, s, known) ==
  IF s.op = "StorageWrite" /\ {s.addr, s.src} \subseteq DOMAIN known
  THEN (Cell(s, known) :> known[s.src]) @@ mem ELSE mem

(* A write of a constant is remembered, and one of something else makes    *)
(* the cell unknown.  A write to an unknown address changes nothing.       *)
Remember(mem, s, known) ==
  IF s.op # "StorageWrite" \/ s.addr \notin DOMAIN known THEN mem
  ELSE IF s.src \in DOMAIN known THEN (Cell(s, known) :> known[s.src]) @@ mem
  ELSE [c \in DOMAIN mem \ {Cell(s, known)} |-> mem[c]]

concrete_consts(b) ==
  LET Value(s, st) ==
        CASE s.op = "Const" -> <<s.value>>
          [] s.op = "Poly" /\ collect_stmt_vars(s) \subseteq DOMAIN st.consts -> <<EvalPoly(s, st.consts)>>
          [] FoldsToConst(s, st.consts) -> <<MoveBits(b, s, st.consts)>>
          [] s.op = "StorageRead" /\ s.addr \in DOMAIN st.consts ->
               IF Cell(s, st.consts) \in DOMAIN st.mem THEN <<st.mem[Cell(s, st.consts)]>> ELSE << >>
          [] OTHER -> << >>
      Learn(st, s) ==
        LET value == Value(s, st)
        IN  [v |-> st.v + 1, mem |-> Remember(st.mem, s, st.consts),
             consts |-> IF value = << >> THEN st.consts ELSE (st.v :> value[1]) @@ st.consts]
  IN  Through(Learn, [v |-> Base(b) + 1, consts |-> EmptyMap, mem |-> EmptyMap], b.stmts).consts

(* Reads of cells whose contents are constants, from the initial ones on,  *)
(* become constants.  Here a write to an unknown address makes its whole   *)
(* storage unknown.                                                        *)
forward_known_storage(b, pre_init) ==
  LET Without(image, lost(_)) == [c \in {k \in DOMAIN image : ~lost(k)} |-> image[c]]
      Image(s, st) ==
        IF s.op # "StorageWrite" THEN st.image
        ELSE IF s.addr \notin DOMAIN st.consts THEN Without(st.image, LAMBDA c : c[1] = s.storage)
        ELSE IF s.src \in DOMAIN st.consts THEN (Cell(s, st.consts) :> st.consts[s.src]) @@ st.image
        ELSE Without(st.image, LAMBDA c : c = Cell(s, st.consts))
      Forward(st, s) ==
        LET reads == s.op = "StorageRead" /\ s.addr \in DOMAIN st.consts /\ Cell(s, st.consts) \in DOMAIN st.image
            s2    == IF reads THEN AsConst(st.image[Cell(s, st.consts)], s.ty) ELSE s
        IN  [stmts |-> Append(st.stmts, s2), image |-> Image(s, st),
             consts |-> IF s2.op = "Const" THEN (Base(b) + Len(st.stmts) + 1 :> s2.value) @@ st.consts
                        ELSE st.consts]
  IN  [b EXCEPT !.stmts = Through(Forward, [stmts |-> << >>, image |-> pre_init, consts |-> EmptyMap], @).stmts]

SymbolicAddress(b, known) ==
  \E s \in Range(b.stmts) : s.op \in {"StorageRead", "StorageWrite"} /\ s.addr \notin DOMAIN known

-----------------------------------------------------------------------------
(* Copying a block.                                                        *)

(* A variable of block b in dest.                                          *)
Remap(b, v) == IF v <= Base(b) THEN args[v] ELSE Base(dest) + Len(dest.stmts) + v - Base(b)

(* map_var collects monomials by their variables: of those that become     *)
(* equal one remains.                                                      *)
map_var(b, s) ==
  MapStmt(s, LAMBDA v : Remap(b, v), LAMBDA monos : {MapVars(mono, LAMBDA v : Remap(b, v)) : mono \in monos})

Spliced(b) == [dest EXCEPT !.stmts = @ \o [i \in 1 .. Len(b.stmts) |-> map_var(b, b.stmts[i])]]

remap_terminator(b) == MapTerm(b.term, LAMBDA v : Remap(b, v))

-----------------------------------------------------------------------------
(* Results.                                                                *)

jump_to(b, vs) == [kind |-> "Jmp", target |-> [dest |-> "Block", block |-> b, args |-> vs]]
Returning(vs) == [kind |-> "Jmp", target |-> [dest |-> "Return", args |-> vs]]

remap_block_targets(t, old_zero) ==
  LET Moved(target) ==
        IF target.dest = "Block" /\ target.block = {} THEN [target EXCEPT !.block = old_zero] ELSE target
  IN  CASE t.kind = "Jmp" -> [t EXCEPT !.target = Moved(@)]
        [] t.kind = "JumpCond" -> [t EXCEPT !.then = Moved(@), !.else = Moved(@)]
        [] t.kind = "JumpTable" -> [t EXCEPT !.cases = [c \in DOMAIN @ |-> Moved(@[c])]]

PrefixOnly(P, prefix, t) ==
  LET Retargeted(b) == [b EXCEPT !.term = remap_block_targets(@, NameOf(P.n))]
  IN  [P EXCEPT !.blocks = [b \in DOMAIN @ |-> IF b = {} THEN Retargeted([prefix EXCEPT !.term = t])
                                               ELSE Retargeted(P.blocks[b])]]

prefix_result(P, prefix, t) ==
  LET zero == NameOf(P.n)
      Retargeted(b) == [b EXCEPT !.term = remap_block_targets(@, zero)]
  IN  [P EXCEPT !.n = P.n + 1,
                !.blocks = [b \in DOMAIN P.blocks \cup {zero} |->
                              IF b = {} THEN Retargeted([prefix EXCEPT !.term = t])
                              ELSE IF b = zero THEN Retargeted(P.blocks[{}]) ELSE Retargeted(P.blocks[b])]]

Single(P, b) == [P EXCEPT !.n = 1, !.blocks = [name \in {{}} |-> b]]

-----------------------------------------------------------------------------
(* Runs, a block at a time: the interpreter's loop.                        *)

StartRun(P, input) ==
  [status |-> "run", block |-> {}, args |-> input, log |-> << >>,
   mem |-> [c \in Cells |-> IF c \in DOMAIN P.pre_init THEN P.pre_init[c] ELSE {}]]

RunBlock(P, r) ==
  LET b     == P.blocks[r.block]
      end   == Run(b, r.args, r.mem)
      leads == Leads(b.term, end.tbl)
      r2    == [r EXCEPT !.mem = end.mem, !.log = @ \o end.log]
  IN  IF leads = << >> THEN [r2 EXCEPT !.status = "panic"]
      ELSE IF leads[1].returns THEN [r2 EXCEPT !.status = "return", !.block = {}, !.args = leads[1].args]
      ELSE IF leads[1].block \in DOMAIN P.blocks /\ Len(leads[1].args) = Len(P.blocks[leads[1].block].params)
      THEN [r2 EXCEPT !.block = leads[1].block, !.args = leads[1].args]
      ELSE [r2 EXCEPT !.status = "panic"]

(* k blocks, or fewer if the run ends.                                     *)
RunBlocks(P, r, k) ==
  LET after[j \in 0 .. k] ==
        IF j = 0 THEN r ELSE IF after[j - 1].status = "run" THEN RunBlock(P, after[j - 1]) ELSE after[j - 1]
  IN  after[k]

-----------------------------------------------------------------------------
(* The walk.                                                               *)

(* A walk that starts in the k-th block of P.                              *)
StartAt(P, k) ==
  /\ origin' = k
  /\ dest' = [P.blocks[NameOf(k)] EXCEPT !.stmts = << >>, !.term = Returning(<< >>)]
  /\ consts' = EmptyMap
  /\ term' = Returning(<< >>)
  /\ current' = NameOf(k)
  /\ args' = [v \in 1 .. Len(P.blocks[NameOf(k)].params) |-> v]
  /\ visited' = {}
  /\ steps' = 0
  /\ walked' = 0

Init ==
  /\ prog \in Programs
  /\ mode \in ModesOf(prog)
  /\ limits \in Limits
  /\ phase = "start"
  /\ origin = 0 /\ dest = prog.blocks[{}] /\ consts = EmptyMap /\ term = Returning(<< >>) /\ current = {} /\ args = << >>
  /\ visited = {} /\ steps = 0 /\ walked = 0
  /\ out = prog
  /\ outcome = ""
  /\ cost = [b \in DOMAIN prog.blocks |-> 1]
  /\ old = [status |-> "ready", block |-> {}] /\ new = old

(* A circuit is returned as it is.                                         *)
Start ==
  /\ phase = "start"
  /\ IF is_circuit(prog) /\ mode # "segments"
     THEN phase' = "run" /\ outcome' = "Complete" /\ UNCHANGED walk
     ELSE phase' = "enter" /\ outcome' = "" /\ StartAt(prog, 0)
  /\ UNCHANGED <<prog, mode, limits, out, cost, runs>>

(* Why the block the walk comes to is not entered, or "".                  *)
Known == [k \in 1 .. Len(args) |-> IF args[k] \in DOMAIN consts THEN <<consts[args[k]]>> ELSE << >>]

Refusal ==
  IF steps >= limits.max_steps THEN "ResourceLimit"
  ELSE IF current \notin DOMAIN out.blocks \/ Len(args) # Len(out.blocks[current].params) THEN "NonFiniteControl"
  ELSE IF <<current, Known>> \in visited THEN (IF mode = "everything" THEN "NonFiniteControl" ELSE "ResourceLimit")
  ELSE IF Cardinality(visited) >= limits.max_states THEN "ResourceLimit"
  ELSE ""

(* The end of a walk before a Return, after n entries.  A segment is       *)
(* spliced in if it crossed an edge, and the next one begins.              *)
NextOrigin(P) ==
  IF origin + 1 = P.n THEN phase' = "run" /\ UNCHANGED walk
  ELSE phase' = "enter" /\ StartAt(P, origin + 1)

EndSegment(n, t) ==
  /\ IF n > 1
     THEN /\ out' = [out EXCEPT !.blocks[NameOf(origin)] = [dest EXCEPT !.term = t]]
          /\ cost' = [cost EXCEPT ![NameOf(origin)] = walked]
     ELSE UNCHANGED <<out, cost>>
  /\ NextOrigin(out')

Stop(n, reason, t) ==
  \/ /\ mode = "everything"
     /\ phase' = "failed" /\ outcome' = reason
     /\ UNCHANGED <<walk, out, cost>>
  \/ /\ mode = "prefix"
     /\ phase' = "run" /\ outcome' = reason
     /\ out' = prefix_result(prog, dest, t)
     /\ cost' = [b \in DOMAIN out'.blocks |-> IF b = {} THEN walked ELSE 1]
     /\ UNCHANGED walk
  \/ /\ mode = "segments"
     /\ EndSegment(n, t)
     /\ UNCHANGED outcome

(* Entries counted when a block is not entered; a segment that comes to a  *)
(* block that does not exist is given up.                                  *)
Counted ==
  IF steps >= limits.max_steps THEN steps ELSE IF current \in DOMAIN out.blocks THEN steps + 1 ELSE 0

EnterRefused ==
  /\ phase = "enter"
  /\ Refusal # ""
  /\ Stop(Counted, Refusal, jump_to(current, args))
  /\ UNCHANGED <<prog, mode, limits, runs>>

VisitUnrecorded(key) == visited
Visit(key) == visited \cup {key}

Enter ==
  /\ phase = "enter"
  /\ Refusal = ""
  /\ LET b == out.blocks[current]
     IN  /\ dest' = Spliced(b)
         /\ term' = remap_terminator(b)
  /\ visited' = Visit(<<current, Known>>)
  /\ steps' = steps + 1
  /\ walked' = walked + cost[current]
  /\ phase' = "fold"
  /\ UNCHANGED <<prog, mode, limits, origin, consts, current, args, out, outcome, cost, runs>>

(* A round of fold_ir_blocks, which goes on while something changes.       *)
fold_ir_blocks ==
  /\ phase \in {"fold", "finish"}
  /\ dest' = fold_ir_block_once(dest)
  /\ dest' # dest
  /\ UNCHANGED <<prog, mode, limits, phase, origin, consts, term, current, args, visited, steps, walked, out, outcome, cost, runs>>

Folded == fold_ir_block_once(dest) = dest

(* What storage is known to hold is put in, and folded in turn.            *)
Forward ==
  /\ phase = "fold" /\ Folded
  /\ mode = "everything"
  /\ dest' = forward_known_storage(dest, prog.pre_init)
  /\ dest' # dest
  /\ UNCHANGED <<prog, mode, limits, phase, origin, consts, term, current, args, visited, steps, walked, out, outcome, cost, runs>>

(* The block is copied: the constants that its branch may depend on.       *)
Settle ==
  /\ phase = "fold" /\ Folded
  /\ mode = "everything" => forward_known_storage(dest, prog.pre_init) = dest
  /\ consts' = concrete_consts(dest)
  /\ IF mode = "everything" /\ SymbolicAddress(dest, consts') THEN phase' = "failed" /\ outcome' = "SymbolicAddress"
     ELSE phase' = "dispatch" /\ UNCHANGED outcome
  /\ UNCHANGED <<prog, mode, limits, origin, dest, term, current, args, visited, steps, walked, out, cost, runs>>

(* The branch that is taken, if that is known: none or one.                *)
Taken ==
  CASE term.kind = "Jmp" -> {term.target}
    [] term.kind = "JumpCond" /\ term.condition \in DOMAIN consts ->
         {IF 0 \in consts[term.condition] THEN term.then ELSE term.else}
    [] term.kind = "JumpTable" /\ term.index \in DOMAIN consts ->
         {term.cases[c] : c \in {consts[term.index]} \cap DOMAIN term.cases}
    [] OTHER -> {}

Leading(target) ==
  CASE target.dest = "Block" -> {target.block}
    [] target.dest = "Dyn" /\ target.var \in DOMAIN consts -> {consts[target.var]}
    [] OTHER -> {}

(* The walk goes on.                                                       *)
Follow ==
  /\ phase = "dispatch"
  /\ \E target \in Taken : \E b \in Leading(target) : current' = b /\ args' = target.args
  /\ phase' = "enter"
  /\ UNCHANGED <<prog, mode, limits, origin, dest, consts, term, visited, steps, walked, out, outcome, cost, runs>>

(* The walk comes to a Return.                                             *)
Complete ==
  /\ phase = "dispatch"
  /\ \E target \in Taken :
       /\ target.dest = "Return"
       /\ \/ /\ mode # "segments"
             /\ dest' = [dest EXCEPT !.term = Returning(target.args)]
             /\ phase' = "finish"
             /\ UNCHANGED <<origin, consts, term, current, args, visited, steps, walked, out, outcome, cost>>
          \/ /\ mode = "segments"
             /\ EndSegment(steps, Returning(target.args))
             /\ UNCHANGED outcome
  /\ UNCHANGED <<prog, mode, limits, runs>>

(* The result of a complete walk is one block.                             *)
Finish ==
  /\ phase = "finish" /\ Folded
  /\ out' = Single(prog, dest)
  /\ cost' = [b \in {{}} |-> walked]
  /\ phase' = "run" /\ outcome' = "Complete"
  /\ UNCHANGED <<prog, mode, limits, walk, runs>>

(* The branch is not known, or its target is not.                          *)
Undecided ==
  /\ phase = "dispatch"
  /\ \A target \in Taken : target.dest # "Return" /\ Leading(target) = {}
  /\ Stop(steps, IF term.kind = "JumpTable" /\ Taken = {} THEN "SymbolicSwitch" ELSE "SymbolicBranch", term)
  /\ UNCHANGED <<prog, mode, limits, runs>>

(* Both programs are called with the same input.                           *)
Call ==
  /\ phase = "run"
  /\ new.status = "ready"
  /\ \E input \in Inputs(prog.blocks[{}]) : old' = StartRun(prog, input) /\ new' = StartRun(out, input)
  /\ UNCHANGED <<prog, mode, limits, phase, walk, out, outcome, cost>>

(* A block of the result, and the blocks it stands for.                    *)
Execute ==
  /\ phase = "run"
  /\ new.status = "run"
  /\ new' = RunBlock(out, new)
  /\ old' = RunBlocks(prog, old, cost[new.block])
  /\ UNCHANGED <<prog, mode, limits, phase, walk, out, outcome, cost>>

Next ==
  \/ Start \/ EnterRefused \/ Enter \/ fold_ir_blocks \/ Forward \/ Settle
  \/ Follow \/ Undecided \/ Complete \/ Finish
  \/ Call \/ Execute

Spec == Init /\ [][Next]_vars

-----------------------------------------------------------------------------
(* Properties.                                                             *)

TargetsOf(t) ==
  CASE t.kind = "Jmp" -> {t.target}
    [] t.kind = "JumpCond" -> {t.then, t.else}
    [] t.kind = "JumpTable" -> Range(t.cases)

(* The result can be executed: variables are defined before they are used, *)
(* and every jump leads to a block that takes what it is given, the blocks *)
(* a segment has replaced included ("`blocks` is always executable").  A   *)
(* complete walk is a circuit.                                             *)
Executable ==
  phase = "run" =>
    /\ outcome = "Complete" => is_circuit(out)
    /\ DOMAIN out.blocks = {NameOf(k) : k \in 0 .. out.n - 1}
    /\ \A b \in {out.blocks[name] : name \in DOMAIN out.blocks} :
         /\ \A i \in 1 .. Len(b.stmts) : \A v \in collect_stmt_vars(b.stmts[i]) : v < Base(b) + i
         /\ collect_terminator_vars(b.term) \subseteq Vars(b)
         /\ \A t \in TargetsOf(b.term) :
              t.dest = "Block" => t.block \in DOMAIN out.blocks
                                  /\ Len(t.args) = Len(out.blocks[t.block].params)

(* The path that was spliced is the one the program takes: wherever the    *)
(* result is, the program comes to the same place with the same values,    *)
(* storage and actions performed, and returns the same ("No instruction is *)
(* dropped and no iteration is silently bounded").                         *)
InStep ==
  phase = "run" /\ old.status # "panic" =>
    LET OldName(b) == IF mode = "prefix" /\ b = NameOf(prog.n) THEN {} ELSE b
    IN  old = [new EXCEPT !.block = OldName(@)]

(* Without caps too a walk comes to an end: it enters a block once at most *)
(* for each of what can be known of its arguments                          *)
(* (unroll_ir_everything_unbounded).                                       *)
Finite ==
  LET Knowledge(b) == Through(LAMBDA n, ty : n * (2^ty[2] + 1), 1, b.params)
      names == Ascending({k \in 0 .. 7 : NameOf(k) \in DOMAIN out.blocks})
  IN  steps <= Through(LAMBDA n, k : n + Knowledge(out.blocks[NameOf(k)]), 0, names)
=============================================================================
