------------------------------ MODULE CfgLayout ------------------------------
(***************************************************************************)
(* The layout movfuscation starts with                                     *)
(* (crates/ir/volar-ir-passes/src/cfg_layout.rs): blocks that cannot be    *)
(* reached are dropped and the others renumbered in the order a depth-     *)
(* first walk meets them.  Branches are redirected, and so are constants   *)
(* that are references to blocks; references in storage follow from them.  *)
(*                                                                         *)
(* The module lays a program out and then runs it under the reference      *)
(* interpreter.                                                            *)
(***************************************************************************)
EXTENDS VolarProgram, FiniteSets, Functions

VARIABLES
  src,      \* the program before the layout
  prog,     \* the program to run
  todo,     \* branches the walk has yet to follow, the next one first
  order,    \* the old blocks in their new order, so far
  laid,     \* the layout is done
  status,   \* "run", "return" or "panic"
  pc,       \* index of the current block
  vals,     \* values computed so far in the current block
  stor,     \* contents of the storage cells
  ret,      \* values returned
  log       \* actions performed, in order

runVars == <<status, pc, vals, stor, ret, log>>
vars == <<src, prog, todo, order, laid, status, pc, vals, stor, ret, log>>

-----------------------------------------------------------------------------
(* The walk.                                                               *)

(* The members of a finite set of numbers, in ascending order.             *)
Ascending(S) ==
  CHOOSE keys \in [1 .. Cardinality(S) -> S] : \A i, j \in 1 .. Cardinality(S) : i < j => keys[i] < keys[j]

successors(term) ==
  CASE term.kind = "Jmp" -> <<term.target>>
    [] term.kind = "JumpCond" -> <<term.then, term.else>>
    [] term.kind = "JumpTable" ->
         LET keys == Ascending(DOMAIN term.cases)
         IN  [k \in 1 .. Cardinality(DOMAIN term.cases) |-> term.cases[keys[k]]]

SuccessorsOf(P, b) == successors(P.blocks[b].term)

(* Where a reference is followed every block may be meant.                 *)
Dynamic(P, b) == \E k \in 1 .. Len(SuccessorsOf(P, b)) : SuccessorsOf(P, b)[k].dest = "Dyn"

Direct(b) == [dest |-> "Block", block |-> b, args |-> << >>]

DirectOnward(P, b) == SuccessorsOf(P, b)

(* The branches a visit of b follows.                                      *)
Onward(P, b) ==
  SuccessorsOf(P, b) \o (IF Dynamic(P, b) THEN [k \in 1 .. P.n |-> Direct(k - 1)] ELSE << >>)

-----------------------------------------------------------------------------
(* Renumbering.                                                            *)

remap_target(t, map) ==
  IF t.dest = "Block" THEN [dest |-> "Block", block |-> map[t.block], args |-> t.args] ELSE t

remap_terminator(term, map) ==
  CASE term.kind = "Jmp" -> [kind |-> "Jmp", target |-> remap_target(term.target, map)]
    [] term.kind = "JumpCond" -> [kind |-> "JumpCond", condition |-> term.condition,
                                  then |-> remap_target(term.then, map), else |-> remap_target(term.else, map)]
    [] term.kind = "JumpTable" -> [kind |-> "JumpTable", index |-> term.index,
                                   cases |-> [c \in DOMAIN term.cases |-> remap_target(term.cases[c], map)]]

ConstKept(s, map) == s

(* Only references to blocks that remain.                                  *)
remap_const(s, map) ==
  IF s.op = "Const" /\ s.ty \in BlockTypes /\ s.value \in DOMAIN map
  THEN [op |-> "Const", ty |-> s.ty, value |-> map[s.value]] ELSE s

(* The new number of each block that remains.                              *)
old_to_new(old) == [b \in Range(old) |-> (CHOOSE k \in 1 .. Len(old) : old[k] = b) - 1]

Laid(P, old) ==
  LET map == old_to_new(old)
      Moved(block) == [params |-> block.params,
                       stmts |-> [j \in 1 .. Len(block.stmts) |-> remap_const(block.stmts[j], map)],
                       term |-> remap_terminator(block.term, map)]
  IN  [n |-> Len(old), blocks |-> [k \in 0 .. Len(old) - 1 |-> Moved(P.blocks[old[k + 1]])],
       pre_init |-> P.pre_init]

-----------------------------------------------------------------------------
(* The program laid out, and the one before it.                            *)

Run == INSTANCE VolarIR

(* Variables that hold references: parameters, constants and values read   *)
(* from storage, of a Block type.                                          *)
IsRef(block, v) ==
  IF v <= Len(block.params) THEN block.params[v] \in BlockTypes
  ELSE LET s == block.stmts[v - Len(block.params)]
       IN  s.op \in {"Const", "StorageRead"} /\ s.ty \in BlockTypes

(* A block, and a reference, as they were before.                          *)
OldBlock(k) == IF laid THEN order[k + 1] ELSE k
Old(is_ref, x) == IF is_ref /\ laid /\ x < Len(order) THEN order[x + 1] ELSE x
OldVals == [v \in 1 .. Len(vals) |-> Old(IsRef(prog.blocks[pc], v), vals[v])]

Source == INSTANCE VolarIR WITH
            prog <- src,
            pc <- OldBlock(pc),
            vals <- OldVals,
            stor <- [c \in DOMAIN stor |-> Old(c[2] \in BlockTypes, stor[c])],
            ret <- IF status = "return" THEN Args(Branch(prog.blocks[pc].term, vals).args, OldVals) ELSE ret

Init ==
  /\ Run!Init
  /\ src = prog
  /\ todo = <<Direct(0)>>
  /\ order = << >>
  /\ laid = FALSE

(* A visit: of a block that is there and has not been visited before.      *)
visit ==
  /\ ~laid /\ src.n > 1
  /\ todo # << >>
  /\ LET t == Head(todo)
     IN  IF t.dest = "Block" /\ t.block < src.n /\ t.block \notin Range(order)
         THEN order' = Append(order, t.block) /\ todo' = Onward(src, t.block) \o Tail(todo)
         ELSE order' = order /\ todo' = Tail(todo)
  /\ UNCHANGED <<src, prog, laid, runVars>>

(* The walk is done, or a single block needs none.                         *)
layout_cfg_for_movfuscation_typed ==
  /\ ~laid
  /\ laid' = TRUE
  /\ \/ src.n <= 1 /\ order' = <<0>> /\ prog' = prog
     \/ src.n > 1 /\ todo = << >> /\ order' = order /\ prog' = Laid(src, order)
  /\ UNCHANGED <<src, todo, runVars>>

Execute ==
  /\ laid
  /\ \/ Run!eval_ir_stmt
     \/ Run!Jump
     \/ Run!Return
     \/ Run!Panic /\ UNCHANGED <<prog, pc, vals, stor, ret, log>>
  /\ UNCHANGED <<src, todo, order, laid>>

Next == visit \/ layout_cfg_for_movfuscation_typed \/ Execute

Spec == Init /\ [][Next]_vars

-----------------------------------------------------------------------------
(* Programs in which references are told from other values.                *)

(* Sets of blocks that control does not leave.                             *)
Closed(P, S) ==
  \A b \in S :
    LET next == SuccessorsOf(P, b)
    IN  \A k \in 1 .. Len(next) :
          /\ next[k].dest = "Block" => next[k].block \in S
          /\ next[k].dest = "Dyn" => 0 .. P.n - 1 \subseteq S

(* The blocks control may come to from the entry.                          *)
Reachable(P) ==
  {b \in 0 .. P.n - 1 : \A S \in SUBSET (0 .. P.n - 1) : 0 \in S /\ Closed(P, S) => b \in S}

(* References are made by constants, moved by parameters, storage and      *)
(* returns, and followed by Dyn targets; nothing else looks at them.       *)
StmtKeepsRefs(block, s) ==
  LET Plain(v) == ~IsRef(block, v)
  IN  CASE s.op = "Const" -> s.ty \in Types
        [] s.op = "Pure" -> \A k \in 1 .. Len(s.args) : Plain(s.args[k])
        [] s.op = "StorageRead" -> Plain(s.addr)
        [] s.op = "StorageWrite" -> Plain(s.addr) /\ (IsRef(block, s.src) <=> s.ty \in BlockTypes)
        [] s.op = "ActionCall" -> /\ Plain(s.guard) /\ Plain(s.fallback)
                                  /\ \A k \in 1 .. Len(s.args) : Plain(s.args[k])

TargetKeepsRefs(P, block, t) ==
  LET Agree(params) == \A k \in 1 .. Len(t.args) : IsRef(block, t.args[k]) <=> params[k] \in BlockTypes
  IN  /\ t.dest = "Block" => Agree(P.blocks[t.block].params)
      /\ t.dest = "Dyn" => IsRef(block, t.var) /\ Agree(SigOf(t.sig))

TermKeepsRefs(P, block, term) ==
  /\ term.kind = "JumpCond" => ~IsRef(block, term.condition)
  /\ term.kind = "JumpTable" => /\ ~IsRef(block, term.index)
                                /\ IsFiniteSet(DOMAIN term.cases) /\ DOMAIN term.cases \subseteq Nat
  /\ \A k \in 1 .. Len(successors(term)) : TargetKeepsRefs(P, block, successors(term)[k])

(* A program starts without references, and a block that remains makes     *)
(* none to one that does not (layout_cfg_for_movfuscation_typed leaves     *)
(* such constants as they are, and pre_init untouched).                    *)
Supported(P) ==
  /\ \A b \in 0 .. P.n - 1 :
       /\ \A j \in 1 .. Len(P.blocks[b].stmts) : StmtKeepsRefs(P.blocks[b], P.blocks[b].stmts[j])
       /\ TermKeepsRefs(P, P.blocks[b], P.blocks[b].term)
  /\ \A k \in 1 .. Len(P.blocks[0].params) : P.blocks[0].params[k] \notin BlockTypes
  /\ \A c \in Cells : c[2] \in BlockTypes => P.pre_init[c] = 0
  /\ LET live == Reachable(P)
     IN  \A b \in live : \A j \in 1 .. Len(P.blocks[b].stmts) :
           LET s == P.blocks[b].stmts[j]
           IN  s.op = "Const" /\ s.ty \in BlockTypes => s.value \in live \/ s.value >= P.n

ASSUME LayoutAssumption == \A P \in Programs : Supported(P)

-----------------------------------------------------------------------------
(* Properties.                                                             *)

(* Exactly the blocks that can be reached remain, each once, the entry     *)
(* first; and the first block a block branches to follows it, unless it    *)
(* has been placed before ("deterministic depth-first trace order: the     *)
(* first successor is adjacent to its predecessor").                       *)
LaidOut ==
  laid /\ src.n > 1 =>
    LET At(b) == CHOOSE k \in 1 .. Len(order) : order[k] = b
    IN  /\ order[1] = 0
        /\ Range(order) = Reachable(src) /\ Len(order) = Cardinality(Reachable(src))
        /\ \A b \in Range(order) : \A k \in 1 .. Len(SuccessorsOf(src, b)) :
             LET next == SuccessorsOf(src, b)
             IN  next[k].dest = "Block" /\ (\A j \in 1 .. k - 1 : next[j].dest # "Block") =>
                   At(next[k].block) <= At(b) + 1

(* The program laid out does, statement by statement, what it did before,  *)
(* with references renumbered wherever they are: in variables, in storage  *)
(* and in what is returned (layout_cfg_for_movfuscation_typed: "a Dyn jump *)
(* resolves to the wrong (post-layout) block" otherwise).                  *)
Refines == Source!Spec
=============================================================================
