------------------------------- MODULE IrBlock -------------------------------
(***************************************************************************)
(* Blocks of Volar IR with every statement spelled out, what a block       *)
(* means, and constant folding (crates/ir/volar-ir-opt/src), which the     *)
(* optimizer and the unrolling passes share.                               *)
(*                                                                         *)
(* A value is the set of its bits that are 1.  A type is a kind and a      *)
(* width: <<"bit", 1>>, <<"word", n>> for integers, <<"vec", n>> for       *)
(* vectors of bits and <<"block", n>> for references.  A Poly is a sum     *)
(* (exclusive or) of monomials, products (conjunctions) of variables, and  *)
(* a constant; monos holds the monomials with odd coefficients, each the   *)
(* ascending tuple of its variables.                                       *)
(***************************************************************************)
EXTENDS Integers, SequencesExt

-----------------------------------------------------------------------------
(* Variables and types.                                                    *)

(* FoldLeft of SequencesExt, by recursion over the positions of seq.       *)
Through(op(_, _), start, seq) ==
  LET at[k \in 0 .. Len(seq)] == IF k = 0 THEN start ELSE op(at[k - 1], seq[k])
  IN  at[Len(seq)]

Odd(S) == Cardinality(S) % 2 = 1
Xor(A, B) == (A \ B) \cup (B \ A)
Bit == <<"bit", 1>>
Ones(ty) == 0 .. ty[2] - 1
Base(b) == Len(b.params)
Vars(b) == 1 .. Base(b) + Len(b.stmts)
TypeOf(b, v) == IF v <= Base(b) THEN b.params[v] ELSE b.stmts[v - Base(b)].ty
Ascending(S) == SetToSortSeq(S, <)

MapVars(args, f(_)) == [k \in 1 .. Len(args) |-> f(args[k])]

(* A monomial with its variables renamed, in order.                        *)
MapMono(mono, f(_)) == SortSeq(MapVars(mono, f), <)

(* Monomials that become equal cancel in pairs.                            *)
Collect(monos, f(_)) == {key \in {f(mono) : mono \in monos} : Odd({mono \in monos : f(mono) = key})}

(* The variables a statement reads.                                        *)
collect_stmt_vars(s) ==
  CASE s.op = "Poly" -> UNION {Range(mono) : mono \in s.monos}
    [] s.op \in {"Rol", "Ror", "Splat", "Transmute"} -> {s.src}
    [] s.op = "Merge" -> Range(s.parts)
    [] s.op = "Shuffle" -> {s.bits[k][2] : k \in 1 .. Len(s.bits)}
    [] s.op = "StorageRead" -> {s.addr}
    [] s.op = "StorageWrite" -> {s.addr, s.src}
    [] s.op = "ActionCall" -> Range(s.args) \cup {s.guard, s.fallback}
    [] s.op = "OracleCall" -> Range(s.args)
    [] s.op \in {"ActionOutput", "OracleOutput"} -> {s.call}
    [] OTHER -> {}

MapStmt(s, f(_), sum(_)) ==
  CASE s.op = "Poly" -> [s EXCEPT !.monos = sum(@)]
    [] s.op \in {"Rol", "Ror", "Splat", "Transmute"} -> [s EXCEPT !.src = f(@)]
    [] s.op = "Merge" -> [s EXCEPT !.parts = MapVars(@, f)]
    [] s.op = "Shuffle" -> [s EXCEPT !.bits = [k \in 1 .. Len(@) |-> <<@[k][1], f(@[k][2])>>]]
    [] s.op = "StorageRead" -> [s EXCEPT !.addr = f(@)]
    [] s.op = "StorageWrite" -> [s EXCEPT !.addr = f(@), !.src = f(@)]
    [] s.op = "ActionCall" -> [s EXCEPT !.args = MapVars(@, f), !.guard = f(@), !.fallback = f(@)]
    [] s.op = "OracleCall" -> [s EXCEPT !.args = MapVars(@, f)]
    [] s.op \in {"ActionOutput", "OracleOutput"} -> [s EXCEPT !.call = f(@)]
    [] OTHER -> s

(* Renaming distinct variables to distinct ones.                           *)
Rename(s, f(_)) == MapStmt(s, f, LAMBDA monos : {MapMono(mono, f) : mono \in monos})

(* Renaming that may identify variables.                                   *)
remap_stmt_operands(s, map) ==
  MapStmt(s, LAMBDA v : map[v], LAMBDA monos : Collect(monos, LAMBDA m : MapMono(m, LAMBDA v : map[v])))

-----------------------------------------------------------------------------
(* Terminators: Jmp with a target, JumpCond with two, JumpTable with one   *)
(* for each value.  The dest of a target is "Return", "Block" with the     *)
(* name of the block, or "Dyn" with the variable that has the reference.   *)
(* A block is named by the value of a reference to it.                     *)

MapTarget(t, f(_)) ==
  IF t.dest = "Dyn" THEN [t EXCEPT !.args = MapVars(@, f), !.var = f(@)]
  ELSE [t EXCEPT !.args = MapVars(@, f)]

MapTerm(term, f(_)) ==
  CASE term.kind = "Jmp" -> [term EXCEPT !.target = MapTarget(@, f)]
    [] term.kind = "JumpCond" -> [term EXCEPT !.condition = f(@), !.then = MapTarget(@, f),
                                              !.else = MapTarget(@, f)]
    [] term.kind = "JumpTable" -> [term EXCEPT !.index = f(@),
                                               !.cases = [c \in DOMAIN @ |-> MapTarget(@[c], f)]]

TargetVars(t) == Range(t.args) \cup (IF t.dest = "Dyn" THEN {t.var} ELSE {})

collect_terminator_vars(term) ==
  CASE term.kind = "Jmp" -> TargetVars(term.target)
    [] term.kind = "JumpCond" -> {term.condition} \cup TargetVars(term.then) \cup TargetVars(term.else)
    [] term.kind = "JumpTable" -> {term.index} \cup UNION {TargetVars(t) : t \in Range(term.cases)}

-----------------------------------------------------------------------------
(* What a block means: the reference interpreter (eval_ir_block and        *)
(* eval_ir_stmt).  A product over a wider sum repeats the one bit of a     *)
(* narrow variable at every place.                                         *)

Lane(b, tbl, v, k) == IF TypeOf(b, v)[2] = 1 THEN 0 \in tbl[v] ELSE k \in tbl[v]

eval_poly(b, s, tbl) ==
  {k \in Ones(s.ty) :
     Odd({mono \in s.monos : \A p \in DOMAIN mono : Lane(b, tbl, mono[p], k)}) # (k \in s.constant)}

(* The bits of the parts one after the other.                              *)
Concatenate(widths, values, w) ==
  LET Offset(j) == Through(LAMBDA acc, k : acc + widths[k], 0, [k \in 1 .. j - 1 |-> k])
  IN  {k \in 0 .. w - 1 : \E j \in 1 .. Len(values) : k - Offset(j) \in values[j]}

Rotate(value, w, n) == {(k + n) % w : k \in {j \in value : j < w}}

MoveBits(b, s, tbl) ==
  CASE s.op = "Rol" -> Rotate(tbl[s.src], s.ty[2], s.n)
    [] s.op = "Ror" -> Rotate(tbl[s.src], s.ty[2], s.ty[2] - (s.n % s.ty[2]))
    [] s.op = "Splat" -> IF 0 \in tbl[s.src] THEN Ones(s.ty) ELSE {}
    [] s.op = "Transmute" -> tbl[s.src] \cap Ones(s.ty)
    [] s.op = "Merge" -> Concatenate(MapVars(s.parts, LAMBDA v : TypeOf(b, v)[2]),
                                     MapVars(s.parts, LAMBDA v : tbl[v]), s.ty[2])
    [] s.op = "Shuffle" -> {k \in Ones(s.ty) : k < Len(s.bits) /\ s.bits[k + 1][1] \in tbl[s.bits[k + 1][2]]}

(* Oracles and actions are functions of their arguments; here they return  *)
(* the first of them, rotated.                                             *)
Answer(s, tbl) == Rotate(tbl[s.args[1]], 2, 1)

Cell(s, tbl) == <<s.storage, s.ty, tbl[s.addr]>>

eval_ir_stmt(b, s, st) ==
  LET value ==
        CASE s.op = "Const" -> s.value \cap Ones(s.ty)
          [] s.op = "Poly" -> eval_poly(b, s, st.tbl)
          [] s.op \in {"Rol", "Ror", "Splat", "Transmute", "Merge", "Shuffle"} -> MoveBits(b, s, st.tbl)
          [] s.op = "StorageRead" -> st.mem[Cell(s, st.tbl)]
          [] s.op = "StorageWrite" -> {}
          [] s.op = "ActionCall" -> IF 0 \in st.tbl[s.guard] THEN Answer(s, st.tbl) ELSE st.tbl[s.fallback]
          [] s.op = "OracleCall" -> Answer(s, st.tbl)
          [] s.op \in {"ActionOutput", "OracleOutput"} -> st.tbl[s.call]
  IN  [tbl |-> Append(st.tbl, value),
       mem |-> IF s.op = "StorageWrite" THEN [st.mem EXCEPT ![Cell(s, st.tbl)] = st.tbl[s.src]] ELSE st.mem,
       log |-> IF s.op = "ActionCall" /\ 0 \in st.tbl[s.guard]
               THEN Append(st.log, <<s.name, MapVars(s.args, LAMBDA v : st.tbl[v])>>) ELSE st.log]

Run(b, input, mem) ==
  Through(LAMBDA st, s : eval_ir_stmt(b, s, st), [tbl |-> input, mem |-> mem, log |-> << >>], b.stmts)

(* Where a block leads and with what; a JumpTable without a case for its   *)
(* index leads nowhere.                                                    *)
Leads(term, tbl) ==
  LET Named(t) == IF t.dest = "Block" THEN t.block ELSE IF t.dest = "Dyn" THEN tbl[t.var] ELSE {}
      To(t) == [returns |-> t.dest = "Return", block |-> Named(t), args |-> MapVars(t.args, LAMBDA v : tbl[v])]
  IN  CASE term.kind = "Jmp" -> <<To(term.target)>>
        [] term.kind = "JumpCond" -> <<To(IF 0 \in tbl[term.condition] THEN term.then ELSE term.else)>>
        [] term.kind = "JumpTable" ->
             IF tbl[term.index] \in DOMAIN term.cases THEN <<To(term.cases[tbl[term.index]])>> ELSE << >>

Effect(b, input, mem) ==
  LET end == Run(b, input, mem)
  IN  [mem |-> end.mem, log |-> end.log, leads |-> Leads(b.term, end.tbl)]

Inputs(b) ==
  {x \in [1 .. Base(b) -> SUBSET (0 .. 1)] : \A k \in 1 .. Base(b) : x[k] \subseteq Ones(b.params[k])}

-----------------------------------------------------------------------------
(* Constant folding, one pass over a block.  The state of the pass is the  *)
(* statements so far, the variables known to be constant, those that are   *)
(* aliases of others and those that are polynomials.                       *)

EmptyMap == [v \in {} |-> {}]

Canon(alias, v) == IF v \in DOMAIN alias THEN alias[v] ELSE v

(* A product with its variables canonical, each once.                      *)
Product(vs) == Ascending(vs)

apply_aliases_to_stmt(s, alias) ==
  IF alias = EmptyMap THEN s
  ELSE MapStmt(s, LAMBDA v : Canon(alias, v),
               LAMBDA monos : Collect(monos, LAMBDA mono : Product({Canon(alias, v) : v \in Range(mono)})))

(* A factor that is all ones is dropped, one that is zero makes the        *)
(* product zero.  Products without a factor left are constant.             *)
fold_poly_in_place(b, p, consts) ==
  LET IsOnes(v) == v \in DOMAIN consts /\ consts[v] \cap Ones(TypeOf(b, v)) = Ones(TypeOf(b, v))
      IsZero(v) == v \in DOMAIN consts /\ consts[v] \cap Ones(TypeOf(b, v)) = {}
      live  == {mono \in p.monos : \A v \in Range(mono) : ~IsZero(v)}
      Keep(mono) == Product({v \in Range(mono) : ~IsOnes(v)})
      keys  == Collect(live, Keep)
  IN  [p EXCEPT !.monos = keys \ {<< >>},
                !.constant = (IF << >> \in keys THEN Xor(@, Ones(p.ty)) ELSE @) \cap Ones(p.ty)]

(* A summand that is itself a polynomial is replaced by it.                *)
merge_poly_into(p, v, q) ==
  IF <<v>> \notin p.monos THEN p
  ELSE [p EXCEPT !.monos = Xor(@ \ {<<v>>}, q.monos), !.constant = Xor(@, q.constant)]

MergePolys(p, polys) ==
  LET sources == {v \in DOMAIN polys : <<v>> \in p.monos /\ polys[v].ty = p.ty}
  IN  Through(LAMBDA acc, v : merge_poly_into(acc, v, polys[v]), p, Ascending(sources))

(* A single summand of the same width is an alias.                         *)
AliasOf(b, p) ==
  {v \in Vars(b) : p.monos = {<<v>>} /\ p.constant = {} /\ TypeOf(b, v)[2] = p.ty[2]}

AsConst(value, ty) == [op |-> "Const", ty |-> ty, value |-> value]

(* What is computed from constants alone by moving bits is a constant.     *)
FoldsToConst(s, consts) ==
  /\ s.op \in {"Rol", "Ror", "Splat", "Transmute", "Merge", "Shuffle"}
  /\ collect_stmt_vars(s) \subseteq DOMAIN consts

FoldPoly(b, st, rv, s) ==
  LET p == fold_poly_in_place(b, MergePolys(fold_poly_in_place(b, s, st.consts), st.polys), st.consts)
      targets == AliasOf(b, p)
      Also(f, v, x) == (v :> x) @@ f
  IN  IF p.monos = {}
      THEN [st EXCEPT !.stmts = Append(@, AsConst(p.constant, p.ty)), !.consts = Also(@, rv, p.constant)]
      ELSE IF targets # {}
      THEN LET v == CHOOSE v \in targets : TRUE
           IN  [st EXCEPT !.stmts = Append(@, p), !.alias = Also(@, rv, v),
                          !.consts = IF v \in DOMAIN @ THEN Also(@, rv, @[v]) ELSE @]
      ELSE [st EXCEPT !.stmts = Append(@, p), !.polys = Also(@, rv, p)]

FoldStmt(b, st, stmt) ==
  LET rv == Base(b) + Len(st.stmts) + 1
      s  == apply_aliases_to_stmt(stmt, st.alias)
      value == MoveBits(b, s, st.consts)
  IN  CASE s.op = "Const" -> [st EXCEPT !.stmts = Append(@, s), !.consts = (rv :> s.value) @@ @]
        [] s.op = "Poly" -> FoldPoly(b, st, rv, s)
        [] FoldsToConst(s, st.consts) -> [st EXCEPT !.stmts = Append(@, AsConst(value, s.ty)),
                                                    !.consts = (rv :> value) @@ @]
        [] OTHER -> [st EXCEPT !.stmts = Append(@, s)]

fold_ir_terminator_dead_branch(term, consts) ==
  IF term.kind = "JumpCond" /\ term.condition \in DOMAIN consts
  THEN [kind |-> "Jmp", target |-> IF 0 \in consts[term.condition] THEN term.then ELSE term.else]
  ELSE IF /\ term.kind = "JumpTable" /\ term.index \in DOMAIN consts
          /\ consts[term.index] \in DOMAIN term.cases
  THEN [kind |-> "Jmp", target |-> term.cases[consts[term.index]]]
  ELSE term

fold_ir_block_once(b) ==
  LET end == Through(LAMBDA st, s : FoldStmt(b, st, s),
                      [stmts |-> << >>, consts |-> EmptyMap, alias |-> EmptyMap, polys |-> EmptyMap], b.stmts)
  IN  [b EXCEPT !.stmts = end.stmts,
                !.term = fold_ir_terminator_dead_branch(MapTerm(@, LAMBDA v : Canon(end.alias, v)), end.consts)]
=============================================================================
