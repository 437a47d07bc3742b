----------------------------- MODULE MCOptimizer -----------------------------
(***************************************************************************)
(* Small blocks for Optimizer: bits and words of two bits, a storage that  *)
(* is written and one that is read-only.                                   *)
(***************************************************************************)
EXTENDS Optimizer

Word == <<"word", 2>>
Cells == {0, 1} \X {Bit, Word} \X SUBSET (0 .. 1)
SomeImage == [c \in Cells |-> IF c[2] = Word /\ 0 \in c[3] THEN {0, 1} ELSE IF c[2] = Word THEN c[3] ELSE {}]
SomeMemories == {SomeImage, [c \in Cells |-> IF c[1] = 0 THEN c[3] \cap Ones(c[2]) ELSE SomeImage[c]]}

Const(ty, x) == [op |-> "Const", ty |-> ty, value |-> x]
Poly(ty, monos, c) == [op |-> "Poly", ty |-> ty, monos |-> monos, constant |-> c]
Rol(v, n) == [op |-> "Rol", ty |-> Word, src |-> v, n |-> n]
Ror(v, n) == [op |-> "Ror", ty |-> Word, src |-> v, n |-> n]
Splat(v) == [op |-> "Splat", ty |-> Word, src |-> v]
Transmute(ty, v) == [op |-> "Transmute", ty |-> ty, src |-> v]
Merge(v, w) == [op |-> "Merge", ty |-> Word, parts |-> <<v, w>>]
Shuffle(v, w) == [op |-> "Shuffle", ty |-> Word, bits |-> <<<<1, v>>, <<0, w>>>>]
Read(st, a) == [op |-> "StorageRead", ty |-> Word, storage |-> st, addr |-> a]
Write(a, v) == [op |-> "StorageWrite", ty |-> Word, storage |-> 0, addr |-> a, src |-> v]
Oracle(v) == [op |-> "OracleCall", ty |-> Word, args |-> <<v>>]
OracleOut(v) == [op |-> "OracleOutput", ty |-> Word, call |-> v]
Act(g, v) == [op |-> "ActionCall", ty |-> Word, name |-> "act", guard |-> g, args |-> <<v>>, fallback |-> v]
ActOut(v) == [op |-> "ActionOutput", ty |-> Word, call |-> v]

To(b, args) == [dest |-> "Block", block |-> b, args |-> args]
Ret(args) == [dest |-> "Return", args |-> args]
Dyn(v, args) == [dest |-> "Dyn", var |-> v, args |-> args]
Jmp(t) == [kind |-> "Jmp", target |-> t]
If(v, t, e) == [kind |-> "JumpCond", condition |-> v, then |-> t, else |-> e]
Table(v) == [kind |-> "JumpTable", index |-> v,
             cases |-> [c \in {{}, {0}, {1}} |-> IF c = {} THEN Ret(<<v>>) ELSE To({0}, <<v>>)]]
Blk(params, stmts, term) == [params |-> params, stmts |-> stmts, term |-> term]

-----------------------------------------------------------------------------
(* Folding: sums and products with constants that are zero, all ones or    *)
(* neither, aliases, and what is computed from them.                       *)
Folding ==
  {Blk(<<Bit, Word>>,
       <<Const(Word, c), Const(Bit, d), p, q, Poly(Word, {<<5>>, <<6>>}, {0, 3}), m, Poly(Bit, {<<4>>}, {0})>>, t) :
     c \in {{}, {0}, {0, 1}}, d \in {{}, {0}},
     p \in {Poly(Word, {<<1, 2>>, <<2, 3>>}, {}), Poly(Word, {<<2, 3>>}, {}), Poly(Word, {<<2, 4>>, <<3>>, << >>}, {1})},
     q \in {Poly(Word, {<<2>>, <<5>>, <<3, 5>>}, {}), Rol(3, 1), Shuffle(3, 4), Merge(4, 4)},
     m \in {Splat(4), Ror(7, 3), Transmute(Bit, 3), Poly(Word, {<<5, 6>>, <<6>>}, {})},
     t \in {If(9, To({0}, <<8, 7>>), Ret(<<2, 7>>)), Table(7), Jmp(Dyn(6, <<7>>))}}

-----------------------------------------------------------------------------
(* Effects: loads and stores in order, actions whose outputs nobody uses,  *)
(* equal statements between them, and dead ones.                           *)
Effects ==
  {Blk(<<Bit, Word>>,
       <<Const(Word, {0}), Read(st, 3), w, Read(st, 3), Poly(Word, {<<2>>}, {0}), Poly(Word, {<<2>>}, {0}), x, y,
         Poly(Word, {<<7>>, <<8>>}, {})>>, t) :
     st \in {0, 1}, w \in {Write(2, 4), Write(3, 2), Read(0, 2)},
     x \in {Act(1, 7), Oracle(8), Write(8, 2)},
     y \in {ActOut(9), OracleOut(9), Poly(Word, {<<4>>, <<6>>}, {})},
     t \in {Jmp(Ret(<<4, 6, 8>>)), If(1, To({0}, <<10>>), To({0}, <<11>>))}}

Sensible(b) ==
  CASE b.stmts[8].op = "ActionOutput" -> b.stmts[7].op = "ActionCall"
    [] b.stmts[8].op = "OracleOutput" -> b.stmts[7].op = "OracleCall"
    [] OTHER -> b.stmts[7].op = "StorageWrite"

-----------------------------------------------------------------------------
(* Batching: products and sums of bits that differ in one variable or in   *)
(* two, with holes defined before and after the first of them.             *)
Sums == {{<<1, 2>>}, {<<1, 3>>}, {<<1, 2>>, <<3>>}, {<<1, 3>>, <<2>>}, {<<2>>}}
LateSums == {{<<1, 4>>}, {<<4>>, <<1, 2>>}, {<<2, 3>>}, {<<3>>}}
Batching ==
  {Blk(<<Bit, Bit, Bit>>, <<Poly(Bit, p, {}), Poly(Bit, q, {0}), Poly(Bit, r, c), Poly(Bit, s, {}),
                            Poly(Bit, {<<5>>, <<1, 6>>}, {})>>,
       Jmp(Ret(<<4, 5, 6, 7, 8>>))) :
     p \in Sums, q \in Sums, r \in LateSums, s \in {{<<1, 5>>}, {<<1, 6>>}, {<<2>>, <<3>>}}, c \in {{}, {0}}}

SomeBlocks == Folding \cup {b \in Effects : Sensible(b)} \cup Batching
Named(b) == {Base(b) + 2, Base(b) + Len(b.stmts)}
=============================================================================
