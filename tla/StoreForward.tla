---------------------------- MODULE StoreForward ----------------------------
(***************************************************************************)
(* Store-to-load forwarding on Volar IR                                    *)
(* (crates/ir/volar-ir-opt/src/store_forward.rs).  The pass visits the     *)
(* blocks in reverse post-order with a cache: which variable was last      *)
(* stored at which address, both as variables of the block.  A load whose  *)
(* address is in the cache is replaced, in all its uses, by what was       *)
(* stored; the load itself stays.  A cache goes on to the next block in    *)
(* that block's variables, and a stored value that is not passed along is  *)
(* passed in a new parameter.                                              *)
(*                                                                         *)
(* The module runs the pass, one step for a block, and then the program it *)
(* leaves behind, under the reference interpreter.  A statement of the     *)
(* program is Pure with a field monos when it is a Poly (the monomials     *)
(* with odd coefficients, as sets of positions in args, and the constant), *)
(* and with a field bits when it moves bits (Transmute, Rol, Ror, Splat,   *)
(* Shuffle, Merge: where each bit of the result comes from; of a Merge the *)
(* pass may know less than that).                                          *)
(***************************************************************************)
EXTENDS VolarProgram, SequencesExt

CONSTANTS
  WidthOf(_),   \* number of bits of a type
  TypeRank(_),  \* type identifiers are numbers: the place of a type among them
  MaxStores     \* MAX_CONCURRENT_STORES

ASSUME MaxStoresAssumption == MaxStores \in Nat \ {0}

VARIABLES
  src,      \* the program before the pass
  prog,     \* the program as the pass has rewritten it so far
  todo,     \* blocks the pass has yet to visit, in order
  caches,   \* outgoing_caches of the blocks visited
  status,   \* "run", "return" or "panic"
  pc,       \* index of the current block
  vals,     \* values computed so far in the current block
  stor,     \* contents of the storage cells
  ret,      \* values returned
  log       \* actions performed, in order

runVars == <<status, pc, vals, stor, ret, log>>
vars == <<src, prog, todo, caches, status, pc, vals, stor, ret, log>>

-----------------------------------------------------------------------------
(* The control-flow graph.                                                 *)

(* The branches of a terminator, in order.                                 *)
Edges(term) ==
  CASE term.kind = "Jmp" -> <<term.target>>
    [] term.kind = "JumpCond" -> <<term.then, term.else>>
    [] term.kind = "JumpTable" ->
         LET order == SetToSortSeq(DOMAIN term.cases, <)
         IN  [k \in 1 .. Len(order) |-> term.cases[order[k]]]

LeadsTo(edge, b) == edge.dest = "Block" /\ edge.block = b

(* A reference held in a variable is not followed.                         *)
ir_terminator_succ_blocks(term) ==
  LET direct == SelectSeq(Edges(term), LAMBDA e : e.dest = "Block")
  IN  [k \in 1 .. Len(direct) |-> direct[k].block]

Preds(P, b) ==
  SelectSeq([i \in 1 .. P.n |-> i - 1],
            LAMBDA i : b \in Range(ir_terminator_succ_blocks(P.blocks[i].term)))

RECURSIVE dfs_post(_, _, _)
dfs_post(P, node, seen) ==
  IF node \in seen.visited THEN seen
  ELSE LET below == FoldLeft(LAMBDA acc, s : dfs_post(P, s, acc),
                             [seen EXCEPT !.visited = @ \cup {node}],
                             ir_terminator_succ_blocks(P.blocks[node].term))
       IN  [below EXCEPT !.post = Append(@, node)]

compute_rpo(P) == Reverse(dfs_post(P, 0, [visited |-> {}, post |-> << >>]).post)

(* The arguments of the first edge that leads to b.                        *)
ir_edge_args(term, b) == SelectSeq(Edges(term), LAMBDA e : LeadsTo(e, b))[1].args

-----------------------------------------------------------------------------
(* Renaming variables.                                                     *)

MapVars(args, f(_)) == [k \in 1 .. Len(args) |-> f(args[k])]

MapStmt(s, f(_)) ==
  CASE s.op = "Const" -> s
    [] s.op = "Pure" -> [s EXCEPT !.args = MapVars(@, f)]
    [] s.op = "StorageRead" -> [s EXCEPT !.addr = f(@)]
    [] s.op = "StorageWrite" -> [s EXCEPT !.addr = f(@), !.src = f(@)]
    [] s.op = "ActionCall" -> [s EXCEPT !.args = MapVars(@, f), !.guard = f(@), !.fallback = f(@)]

MapTarget(t, f(_)) ==
  IF t.dest = "Dyn" THEN [t EXCEPT !.args = MapVars(@, f), !.var = f(@)]
  ELSE [t EXCEPT !.args = MapVars(@, f)]

MapTerm(term, g(_), f(_)) ==
  CASE term.kind = "Jmp" -> [term EXCEPT !.target = g(@)]
    [] term.kind = "JumpCond" -> [term EXCEPT !.condition = f(@), !.then = g(@), !.else = g(@)]
    [] term.kind = "JumpTable" ->
         [term EXCEPT !.index = f(@), !.cases = [c \in DOMAIN @ |-> g(@[c])]]

RenameTerm(term, f(_)) == MapTerm(term, LAMBDA t : MapTarget(t, f), f)

(* What a variable is aliased to is itself not aliased: one link is the    *)
(* whole chain.                                                            *)
canon_alias(alias, v) == IF v \in DOMAIN alias THEN alias[v] ELSE v

shift_var(v, base, shift) == IF v > base THEN v + shift ELSE v

(* The block with more parameters of the given types.                      *)
InjectParams(block, types) ==
  LET base == Len(block.params)
      Shifted(v) == shift_var(v, base, Len(types))
  IN  [params |-> block.params \o types,
       stmts |-> [j \in 1 .. Len(block.stmts) |-> MapStmt(block.stmts[j], Shifted)],
       term |-> RenameTerm(block.term, Shifted)]

add_ir_args_to_edges(term, b, extra) ==
  MapTerm(term, LAMBDA t : IF LeadsTo(t, b) THEN [t EXCEPT !.args = @ \o extra] ELSE t, LAMBDA v : v)

-----------------------------------------------------------------------------
(* Addresses that are provably different.  What is known of a variable     *)
(* comes from the statement that computes it; of a parameter nothing is    *)
(* known.                                                                  *)

Odd(S) == Cardinality(S) % 2 = 1
BitsOf(c, w) == {b \in 0 .. w - 1 : (c \div 2^b) % 2 = 1}
IsPoly(s) == s.op = "Pure" /\ "monos" \in DOMAIN s
MovesBits(s) == s.op = "Pure" /\ "bits" \in DOMAIN s

(* The monomials of a Poly as sets of variables; equal ones cancel.        *)
Monomials(s) ==
  LET VarsOf(mono) == {s.args[p] : p \in mono}
  IN  {key \in {VarsOf(mono) : mono \in s.monos} : Odd({mono \in s.monos : VarsOf(mono) = key})}

ir_addr_poly(v, base, stmts) ==
  LET s == stmts[v - base]
  IN  IF v > base /\ s.op = "Const" THEN [keys |-> {}, constant |-> s.value]
      ELSE IF v > base /\ IsPoly(s) THEN [keys |-> Monomials(s), constant |-> s.constant]
      ELSE [keys |-> {{v}}, constant |-> 0]

ir_polys_xor_nonzero_const(a, b, base, stmts) ==
  LET pa == ir_addr_poly(a, base, stmts)
      pb == ir_addr_poly(b, base, stmts)
  IN  pa.keys = pb.keys /\ pa.constant # pb.constant

NothingKnown == [known |-> {}, value |-> {}]

(* A monomial's coefficient is 1, and the pass takes the bits of a         *)
(* coefficient for a mask: the monomials count at bit 0 alone.             *)
poly_known_bits(s, kb) ==
  LET keys == Monomials(s)
      Zero(key) == \E v \in key : 0 \in kb[v].known \ kb[v].value
      One(key) == \A v \in key : 0 \in kb[v].known \cap kb[v].value
      w == WidthOf(s.ty)
      lowKnown == \A key \in keys : Zero(key) \/ One(key)
      lowSet == Odd({key \in keys : One(key)}) # (s.constant % 2 = 1)
  IN  [known |-> (1 .. w - 1) \cup (IF lowKnown THEN {0} ELSE {}),
       value |-> (BitsOf(s.constant, w) \ {0}) \cup (IF lowKnown /\ lowSet THEN {0} ELSE {})]

shuffle_known_bits(s, kb) ==
  LET From(b) == s.bits[b + 1]
      Known(b) == From(b)[1] \in kb[s.args[From(b)[2]]].known
      places == 0 .. Len(s.bits) - 1
  IN  [known |-> {b \in places : Known(b)},
       value |-> {b \in places : Known(b) /\ From(b)[1] \in kb[s.args[From(b)[2]]].value}]

ir_stmt_known_bits(s, kb) ==
  CASE s.op = "Const" -> [known |-> 0 .. WidthOf(s.ty) - 1, value |-> BitsOf(s.value, WidthOf(s.ty))]
    [] IsPoly(s) -> poly_known_bits(s, kb)
    [] MovesBits(s) -> shuffle_known_bits(s, kb)
    [] OTHER -> NothingKnown

known_bits_map(base, stmts) ==
  LET kb[v \in 1 .. base + Len(stmts)] ==
        IF v <= base THEN NothingKnown ELSE ir_stmt_known_bits(stmts[v - base], kb)
  IN  kb

xor_has_one_bit(x, y) ==
  \E b \in x.known \cap y.known : b \in x.value <=> b \notin y.value

ir_addrs_provably_different(a, b, base, stmts) ==
  /\ a # b
  /\ \/ ir_polys_xor_nonzero_const(a, b, base, stmts)
     \/ LET kb == known_bits_map(base, stmts) IN xor_has_one_bit(kb[a], kb[b])

-----------------------------------------------------------------------------
(* One block.  A cache maps storage, type and address variable to the      *)
(* variable stored.                                                        *)

EmptyMap == [k \in {} |-> 0]
Key(s) == <<s.storage, s.ty, s.addr>>

(* As if different variables were different addresses.                     *)
OverwriteSame(cache, s, base, stmts) == (Key(s) :> s.src) @@ cache

(* A store drops what it may overwrite: everything, when the cache holds   *)
(* as many stores of its storage and type as it may.                       *)
Overwrite(cache, s, base, stmts) ==
  LET same == {k \in DOMAIN cache : k[1] = s.storage /\ k[2] = s.ty}
      kept == IF Cardinality(same) >= MaxStores THEN {}
              ELSE {k \in same : ir_addrs_provably_different(s.addr, k[3], base, stmts)}
  IN  [k \in (DOMAIN cache \ same) \cup kept \cup {Key(s)} |-> IF k = Key(s) THEN s.src ELSE cache[k]]

ForwardStmt(base, st, stmt) ==
  LET s     == MapStmt(stmt, LAMBDA v : canon_alias(st.alias, v))
      stmts == Append(st.stmts, s)
      known == s.op = "StorageRead" /\ Key(s) \in DOMAIN st.cache
  IN  [stmts |-> stmts,
       cache |-> IF s.op = "StorageWrite" THEN Overwrite(st.cache, s, base, stmts) ELSE st.cache,
       alias |-> IF known THEN st.alias @@ (base + Len(stmts) :> st.cache[Key(s)]) ELSE st.alias]

store_forward_ir_block_with_cache(block, incoming) ==
  LET base == Len(block.params)
      done == FoldLeft(LAMBDA st, s : ForwardStmt(base, st, s),
                       [stmts |-> << >>, cache |-> incoming, alias |-> EmptyMap], block.stmts)
  IN  [cache |-> done.cache,
       block |-> [params |-> block.params, stmts |-> done.stmts,
                  term |-> RenameTerm(block.term, LAMBDA v : canon_alias(done.alias, v))]]

-----------------------------------------------------------------------------
(* From block to block.                                                    *)

(* The parameter that receives each variable passed.                       *)
ArgToParam(args) ==
  [v \in Range(args) |-> CHOOSE i \in 1 .. Len(args) : args[i] = v /\ \A j \in 1 .. i - 1 : args[j] # v]

KeyOrder(keys) ==
  SetToSortSeq(keys, LAMBDA k, l :
    \/ k[1] < l[1]
    \/ k[1] = l[1] /\ TypeRank(k[2]) < TypeRank(l[2])
    \/ k[1] = l[1] /\ k[2] = l[2] /\ k[3] < l[3])

translate_ir_cache_with_injection(P, cache, pred, b) ==
  LET Translate(st, k) ==
        IF k[3] \notin DOMAIN st.trans THEN st
        ELSE LET key   == <<k[1], k[2], st.trans[k[3]]>>
                 fresh == Len(P.blocks[b].params) + Len(st.extra) + 1
             IN  IF cache[k] \in DOMAIN st.trans
                 THEN [st EXCEPT !.cache = @ @@ (key :> st.trans[cache[k]])]
                 ELSE [trans |-> st.trans @@ (cache[k] :> fresh),
                       cache |-> st.cache @@ (key :> fresh),
                       extra |-> Append(st.extra, cache[k]),
                       types |-> Append(st.types, k[2])]
      end == FoldLeft(Translate,
                      [trans |-> ArgToParam(ir_edge_args(P.blocks[pred].term, b)),
                       cache |-> EmptyMap, extra |-> << >>, types |-> << >>],
                      KeyOrder(DOMAIN cache))
      injected == [P EXCEPT !.blocks[b] = InjectParams(@, end.types)]
  IN  [cache |-> end.cache,
       prog |-> [injected EXCEPT !.blocks[pred].term = add_ir_args_to_edges(@, b, end.extra)]]

(* As if the first predecessor spoke for all.                              *)
MergeFirst(P, out, preds, b) ==
  LET trans == ArgToParam(ir_edge_args(P.blocks[preds[1]].term, b))
      passed == {k \in DOMAIN out[preds[1]] : {k[3], out[preds[1]][k]} \subseteq DOMAIN trans}
      Moved(k) == <<k[1], k[2], trans[k[3]]>>
  IN  [cache |-> [key \in {Moved(k) : k \in passed} |->
                    trans[out[preds[1]][CHOOSE k \in passed : Moved(k) = key]]],
       prog |-> P]

(* Only what every predecessor has stored at an address is known there.    *)
merge_ir_caches_with_injection(P, out, preds, b) ==
  LET N       == 1 .. Len(preds)
      trans   == [p \in N |-> ArgToParam(ir_edge_args(P.blocks[preds[p]].term, b))]
      Stored(p) == {k \in DOMAIN out[preds[p]] : k[3] \in DOMAIN trans[p]}
      Moved(p, k) == <<k[1], k[2], trans[p][k[3]]>>
      Source(p, key) == out[preds[p]][CHOOSE k \in Stored(p) : Moved(p, k) = key]
      common  == {key \in {Moved(1, k) : k \in Stored(1)} :
                    \A p \in N : \E k \in Stored(p) : Moved(p, k) = key}
      Agreed(key) == \A p \in N : /\ Source(p, key) \in DOMAIN trans[p]
                                  /\ trans[p][Source(p, key)] = trans[1][Source(1, key)]
      fresh   == KeyOrder({key \in common : ~Agreed(key)})
      Param(key) == IF Agreed(key) THEN trans[1][Source(1, key)]
                    ELSE Len(P.blocks[b].params) + (CHOOSE k \in 1 .. Len(fresh) : fresh[k] = key)
      types   == [k \in 1 .. Len(fresh) |-> fresh[k][2]]
      Pass(Q, p) == [Q EXCEPT !.blocks[preds[p]].term =
                       add_ir_args_to_edges(@, b, [k \in 1 .. Len(fresh) |-> Source(p, fresh[k])])]
  IN  [cache |-> [key \in common |-> Param(key)],
       prog |-> FoldLeft(Pass, [P EXCEPT !.blocks[b] = InjectParams(@, types)], [p \in N |-> p])]

(* Nothing is known where a predecessor has not been visited.              *)
Incoming(P, out, b) ==
  LET preds == Preds(src, b)
  IN  IF preds = << >> \/ ~(Range(preds) \subseteq DOMAIN out)
      THEN [cache |-> EmptyMap, prog |-> P]
      ELSE IF Len(preds) = 1
      THEN translate_ir_cache_with_injection(P, out[preds[1]], preds[1], b)
      ELSE merge_ir_caches_with_injection(P, out, preds, b)

-----------------------------------------------------------------------------
(* The pass, and then the program it leaves.                               *)

Run == INSTANCE VolarIR

(* The source program's state: without the parameters injected.            *)
Injected(b) == Len(prog.blocks[b].params) - Len(src.blocks[b].params)
SourceVals ==
  LET base == Len(src.blocks[pc].params)
  IN  SubSeq(vals, 1, base) \o SubSeq(vals, base + Injected(pc) + 1, Len(vals))

Source == INSTANCE VolarIR WITH prog <- src, vals <- SourceVals

Init ==
  /\ Run!Init
  /\ src = prog
  /\ todo = compute_rpo(prog)
  /\ caches = EmptyMap

store_forward_ir_blocks ==
  /\ todo # << >>
  /\ LET b       == Head(todo)
         in      == Incoming(prog, caches, b)
         forward == store_forward_ir_block_with_cache(in.prog.blocks[b], in.cache)
     IN  /\ prog' = [in.prog EXCEPT !.blocks[b] = forward.block]
         /\ caches' = caches @@ (b :> forward.cache)
  /\ todo' = Tail(todo)
  /\ UNCHANGED <<src, runVars>>

Execute ==
  /\ todo = << >>
  /\ \/ Run!eval_ir_stmt
     \/ Run!Jump
     \/ Run!Return
     \/ Run!Panic /\ UNCHANGED <<prog, pc, vals, stor, ret, log>>
  /\ UNCHANGED <<src, todo, caches>>

Next == store_forward_ir_blocks \/ Execute

Spec == Init /\ [][Next]_vars

-----------------------------------------------------------------------------
(* Properties.                                                             *)

(* What the cache says of a block's end is true whenever the program gets  *)
(* there, whichever way it came: storage holds what the cached variable    *)
(* holds (store_forward_ir_block_with_cache returns it to forward loads of *)
(* later blocks from).                                                     *)
CacheTrue ==
  (todo = << >> /\ Run!AtTerminator /\ pc \in DOMAIN caches) =>
    \A k \in DOMAIN caches[pc] :
      stor[<<k[1], k[2], vals[k[3]]>>] = vals[caches[pc][k]]

(* The rewritten program does, statement by statement, what the program    *)
(* before the pass does: it computes the same values, stores and returns   *)
(* them, and takes the same branches (store_forward_ir_blocks).            *)
Refines == Source!Spec
=============================================================================
