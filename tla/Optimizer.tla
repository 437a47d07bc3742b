------------------------------ MODULE Optimizer ------------------------------
(***************************************************************************)
(* The optimizer of Volar IR (crates/ir/volar-ir-opt/src/ir.rs): constant  *)
(* folding, folding of loads from read-only storage, removal of dead       *)
(* statements, sharing of equal ones, and batching of polynomials that     *)
(* differ in one variable.  Every pass rewrites one block, so the state is *)
(* a block; passes that renumber its variables tell their caller how, who  *)
(* keeps track of the variables he knows of in a remap of his own.         *)
(***************************************************************************)
EXTENDS IrBlock

CONSTANTS
  Blocks,        \* blocks to optimize
  RootsOf(_),    \* the variables of a block its caller refers to
  ReadOnly,      \* storages that are read-only
  Image,         \* what pre_init puts into the storage cells
  Memories,      \* contents of storage a block may find
  MaxBatch       \* most members of a batch

ASSUME BatchAssumption == MaxBatch \in Nat \ {0, 1}

VARIABLES
  src,      \* the block before all passes
  block,    \* the block now
  remap,    \* old variables to new ones, for those that still exist
  mode,     \* "any": passes in any order; "pipeline": FoldIr's loop
  phase,    \* where FoldIr's loop is: "fold", "dce" or "stable"
  folded,   \* fold_ir_blocks has changed the block in this turn of the loop
  step      \* history: flips with every step of FoldIr's loop

vars == <<src, block, remap, mode, phase, folded, step>>

-----------------------------------------------------------------------------
(* Loads from read-only storage at constant addresses.                     *)

fold_readonly_storage(b) ==
  LET Fold(st, s) ==
        LET rv    == Base(b) + Len(st.stmts) + 1
            known == s.op = "StorageRead" /\ s.storage \in ReadOnly /\ s.addr \in DOMAIN st.consts
            new   == IF known THEN AsConst(Image[<<s.storage, s.ty, st.consts[s.addr]>>], s.ty) ELSE s
        IN  [stmts |-> Append(st.stmts, new),
             consts |-> IF new.op = "Const" THEN (rv :> new.value) @@ st.consts ELSE st.consts]
  IN  [b EXCEPT !.stmts = Through(Fold, [stmts |-> << >>, consts |-> EmptyMap], @).stmts]

-----------------------------------------------------------------------------
(* Dead statements.  A pass that renumbers is a record of the new block    *)
(* and, for the variables that remain, their new numbers.                  *)

MustKeep(b, i) ==
  \/ b.stmts[i].op \in {"StorageWrite", "ActionCall"}
  \/ /\ b.stmts[i].op = "ActionOutput"
     /\ b.stmts[i].call > Base(b)
     /\ b.stmts[b.stmts[i].call - Base(b)].op = "ActionCall"

LiveWithoutRoots(b, extra_live) ==
  LET roots == {Base(b) + i : i \in {j \in 1 .. Len(b.stmts) : MustKeep(b, j)}}
                 \cup collect_terminator_vars(b.term)
  IN  FoldRight(LAMBDA i, live : IF Base(b) + i \in live THEN live \cup collect_stmt_vars(b.stmts[i]) ELSE live,
                [i \in 1 .. Len(b.stmts) |-> i], roots)

LiveVars(b, extra_live) ==
  LET roots == {Base(b) + i : i \in {j \in 1 .. Len(b.stmts) : MustKeep(b, j)}}
                 \cup collect_terminator_vars(b.term) \cup extra_live
  IN  FoldRight(LAMBDA i, live : IF Base(b) + i \in live THEN live \cup collect_stmt_vars(b.stmts[i]) ELSE live,
                [i \in 1 .. Len(b.stmts) |-> i], roots)

dce_ir_block_once(b, extra_live) ==
  LET live == LiveVars(b, extra_live)
      kept == 1 .. Base(b) \cup (live \cap Vars(b))
      map  == [v \in kept |-> Cardinality({u \in kept : u <= v})]
      stmts == SelectSeq([i \in 1 .. Len(b.stmts) |-> i], LAMBDA i : Base(b) + i \in live)
  IN  [map |-> map,
       block |-> [b EXCEPT !.stmts = [k \in 1 .. Len(stmts) |-> Rename(@[stmts[k]], LAMBDA v : map[v])],
                           !.term = MapTerm(@, LAMBDA v : map[v])]]

-----------------------------------------------------------------------------
(* Equal statements.                                                       *)

IsPureOrLoad(s) ==
  s.op \in {"Poly", "Merge", "Shuffle", "Rol", "Ror", "Splat", "Transmute", "Const", "StorageRead"}

IsPure(s) == s.op \in {"Poly", "Merge", "Shuffle", "Rol", "Ror", "Splat", "Transmute", "Const"}

CseStmt(n_params, st, stmt) ==
  LET s     == remap_stmt_operands(stmt, st.map)
      equal == {k \in 1 .. Len(st.stmts) : IsPure(s) /\ st.stmts[k] = s}
  IN  IF equal # {}
      THEN [st EXCEPT !.map = Append(@, n_params + (CHOOSE k \in equal : TRUE))]
      ELSE [stmts |-> Append(st.stmts, s), map |-> Append(st.map, n_params + Len(st.stmts) + 1)]

cse_ir_block_once(b) ==
  LET end == Through(LAMBDA st, s : CseStmt(Base(b), st, s),
                      [stmts |-> << >>, map |-> [v \in 1 .. Base(b) |-> v]], b.stmts)
  IN  [map |-> end.map,
       block |-> [b EXCEPT !.stmts = end.stmts, !.term = MapTerm(@, LAMBDA v : end.map[v])]]

-----------------------------------------------------------------------------
(* Batching: polynomials of one bit that are equal up to one variable, the *)
(* hole, become one wide polynomial over the merged holes, and each the    *)
(* bit of it at its lane.                                                  *)

POLY_BATCH_SENTINEL == 2^30

substitute_var(monos, from, to) ==
  Collect(monos, LAMBDA mono : MapMono(mono, LAMBDA v : IF v = from THEN to ELSE v))

Canonical(monos, hole) == substitute_var(monos, hole, POLY_BATCH_SENTINEL)

(* A statement joins the first batch it fits, or opens one for each of its *)
(* variables.  A batch has the form its members share, the statement and   *)
(* the hole it was opened with, and its members with their holes.          *)
Discover(b, batches, i) ==
  LET monos == b.stmts[i].monos
      holes == Ascending(collect_stmt_vars(b.stmts[i]))
      Fits(hole, batch) ==
        /\ batch.ty = b.stmts[i].ty
        /\ batch.form = Canonical(monos, hole)
        /\ substitute_var(b.stmts[batch.template].monos, batch.hole, hole) = monos
      fitting == {<<h, k>> \in (1 .. Len(holes)) \X (1 .. Len(batches)) : Fits(holes[h], batches[k])}
      Open(hole) == [ty |-> b.stmts[i].ty, form |-> Canonical(monos, hole), template |-> i, hole |-> hole,
                     members |-> <<<<i, hole>>>>]
      Taken(hole) == \E k \in 1 .. Len(batches) :
                       batches[k].ty = b.stmts[i].ty /\ batches[k].form = Canonical(monos, hole)
  IN  IF fitting # {}
      THEN LET first == CHOOSE f \in fitting : \A g \in fitting : f[1] <= g[1]
           IN  [batches EXCEPT ![first[2]].members = Append(@, <<i, holes[first[1]]>>)]
      ELSE batches \o [k \in 1 .. Len(SelectSeq(holes, LAMBDA h : ~Taken(h))) |->
                         Open(SelectSeq(holes, LAMBDA h : ~Taken(h))[k])]

Candidates(b) ==
  Through(LAMBDA batches, i : Discover(b, batches, i), << >>,
           SelectSeq([i \in 1 .. Len(b.stmts) |-> i],
                     LAMBDA i : b.stmts[i].op = "Poly" /\ b.stmts[i].ty[2] = 1 /\ collect_stmt_vars(b.stmts[i]) # {}))

(* The wide polynomial stands where the first member stood: the holes must *)
(* be defined there.                                                       *)
InOrder(b, batch) ==
  [batch EXCEPT !.members = SelectSeq(@, LAMBDA m : m[2] < Base(b) + batch.members[1][1])]

(* Larger batches first; a statement is in one of them at most.            *)
Accepted(batches) ==
  LET order == SortSeq([k \in 1 .. Len(batches) |-> k],
                       LAMBDA k, l : \/ Len(batches[k].members) > Len(batches[l].members)
                                     \/ Len(batches[k].members) = Len(batches[l].members) /\ k < l)
      Stmts(k) == {m[1] : m \in Range(batches[k].members)}
      Accept(acc, k) ==
        IF Len(batches[k].members) \in 2 .. MaxBatch /\ \A j \in Range(acc) : Stmts(j) \cap Stmts(k) = {}
        THEN Append(acc, k) ELSE acc
      accepted == Through(Accept, << >>, order)
  IN  {batches[accepted[k]] : k \in 1 .. Len(accepted)}

(* The two statements that precede a batch's first member: n_params        *)
(* variables and the statements before are renumbered already.             *)
WideStmts(b, batch, map, next) ==
  LET width   == Len(batch.members)
      wide_ty == <<"vec", width>>
      At(v) == IF v \in DOMAIN map THEN map[v] ELSE v
      Renamed(mono) == MapMono(mono, At)
      coeffs  == {Renamed(mono) : mono \in b.stmts[batch.template].monos}
  IN  << [op |-> "Merge", ty |-> wide_ty, parts |-> [k \in 1 .. width |-> At(batch.members[k][2])]],
         [op |-> "Poly", ty |-> wide_ty, monos |-> substitute_var(coeffs, At(batch.hole), next),
          constant |-> {k \in 0 .. width - 1 : 0 \in b.stmts[batch.members[k + 1][1]].constant}] >>

RewriteStmt(b, accepted, st, i) ==
  LET Stmts(batch) == {m[1] : m \in Range(batch.members)}
      mine   == {batch \in accepted : i \in Stmts(batch)}
      batch  == CHOOSE batch \in mine : TRUE
      opens  == mine # {} /\ batch.members[1][1] = i
      before == IF opens THEN st.stmts \o WideStmts(b, batch, st.map, Base(b) + Len(st.stmts) + 1) ELSE st.stmts
      wide   == IF opens THEN (batch :> Base(b) + Len(before)) @@ st.wide ELSE st.wide
      lane   == CHOOSE k \in 1 .. Len(batch.members) : batch.members[k][1] = i
  IN  [stmts |-> Append(before, IF mine # {} THEN [op |-> "Shuffle", ty |-> Bit, bits |-> <<<<lane - 1, wide[batch]>>>>]
                                ELSE Rename(b.stmts[i], LAMBDA v : st.map[v])),
       map |-> Append(st.map, Base(b) + Len(before) + 1),
       wide |-> wide]

batch_ir_block_once(b) ==
  LET candidates == Candidates(b)
      accepted   == Accepted([k \in 1 .. Len(candidates) |-> InOrder(b, candidates[k])])
      end == Through(LAMBDA st, i : RewriteStmt(b, accepted, st, i),
                      [stmts |-> << >>, map |-> [v \in 1 .. Base(b) |-> v], wide |-> [k \in {} |-> 0]],
                      [i \in 1 .. Len(b.stmts) |-> i])
  IN  [map |-> end.map,
       block |-> [b EXCEPT !.stmts = end.stmts, !.term = MapTerm(@, LAMBDA v : end.map[v])]]

-----------------------------------------------------------------------------
(* The caller.  His own table of variables follows every renumbering.      *)

Init ==
  /\ src \in Blocks
  /\ block = src
  /\ remap = [v \in Vars(src) |-> v]
  /\ mode \in {"any", "pipeline"}
  /\ phase = "fold"
  /\ folded = FALSE
  /\ step = 0

Compose(map) == [v \in {u \in DOMAIN remap : remap[u] \in DOMAIN map} |-> map[remap[v]]]

Renumber(pass) ==
  \E done \in {pass} : block' = done.block /\ remap' = Compose(done.map)

Roots == {remap[v] : v \in RootsOf(src) \cap DOMAIN remap}

Fold ==
  /\ mode = "any"
  /\ block' = fold_ir_block_once(block)
  /\ UNCHANGED remap

FoldReadOnly ==
  /\ mode = "any"
  /\ block' = fold_readonly_storage(block)
  /\ UNCHANGED remap

Dce == mode = "any" /\ Renumber(dce_ir_block_once(block, Roots))
Cse == mode = "any" /\ Renumber(cse_ir_block_once(block))
Batch == mode = "any" /\ Renumber(batch_ir_block_once(block))

AnyPass == (Fold \/ FoldReadOnly \/ Dce \/ Cse \/ Batch) /\ UNCHANGED <<src, mode, phase, folded, step>>

(* FoldIr: fold_ir_blocks folds until nothing changes, then dead           *)
(* statements go, and all over again until neither changes the block.      *)
FoldIrStep == mode = "pipeline" /\ phase # "stable" /\ step' = 1 - step

FoldIrFold ==
  /\ FoldIrStep
  /\ phase = "fold"
  /\ block' = fold_ir_block_once(block)
  /\ IF block' # block THEN folded' = TRUE /\ phase' = phase
     ELSE folded' = folded /\ phase' = "dce"
  /\ UNCHANGED <<src, remap, mode>>

FoldIrDceNoReset ==
  /\ FoldIrStep
  /\ phase = "dce"
  /\ Renumber(dce_ir_block_once(block, {}))
  /\ phase' = IF folded \/ block' # block THEN "fold" ELSE "stable"
  /\ UNCHANGED <<src, mode, folded>>

FoldIrDce ==
  /\ FoldIrStep
  /\ phase = "dce"
  /\ Renumber(dce_ir_block_once(block, {}))
  /\ phase' = IF folded \/ block' # block THEN "fold" ELSE "stable"
  /\ folded' = FALSE
  /\ UNCHANGED <<src, mode>>

Next == AnyPass \/ FoldIrFold \/ FoldIrDce

(* FoldIr is a loop in straight-line code: it takes its next step as long  *)
(* as it has one.  Every other pass is run when its caller likes.          *)
Spec == Init /\ [][Next]_vars
FairSpec == Spec /\ WF_step(FoldIrStep)

-----------------------------------------------------------------------------
(* Properties.                                                             *)

(* Variables are defined before they are used.                             *)
DefinedBeforeUse ==
  /\ \A i \in 1 .. Len(block.stmts) : \A v \in collect_stmt_vars(block.stmts[i]) : v < Base(block) + i
  /\ collect_terminator_vars(block.term) \subseteq Vars(block)

(* Whatever passes have run in whatever order, the block defines every     *)
(* variable before it uses it (batching must not pull a statement ahead of *)
(* what it reads), and it stores, performs and hands on what it did before *)
(* (the doc comments of the passes; the property tests call the opposite   *)
(* "changed the semantics").                                               *)
SameMeaning ==
  /\ DefinedBeforeUse
  /\ \A input \in Inputs(src), mem \in Memories : Effect(block, input, mem) = Effect(src, input, mem)

(* The caller's table is right about every variable it still has: the      *)
(* variable's value is where the table says; and it has all the variables  *)
(* he named as roots (dce_ir_blocks_with_remap_and_roots).                 *)
RemapTrue ==
  /\ mode = "any" => RootsOf(src) \subseteq DOMAIN remap
  /\ \A input \in Inputs(src), mem \in Memories :
       LET old == Run(src, input, mem).tbl
           new == Run(block, input, mem).tbl
       IN  \A v \in DOMAIN remap : new[remap[v]] = old[v]

(* FoldIr comes to an end.                                                 *)
FoldIrStabilizes == mode = "pipeline" ~> phase = "stable"
=============================================================================
