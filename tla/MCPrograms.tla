----------------------------- MODULE MCPrograms -----------------------------
(***************************************************************************)
(* How the small programs of the MC modules are written down: statements,  *)
(* targets, terminators, blocks and memories over words of two bits.       *)
(***************************************************************************)
EXTENDS VolarProgram, FiniteSets

Words == [1 .. 1 -> Val]
IsZero == [x \in Words |-> IF x[1] = 0 THEN 1 ELSE 0]
Low == [x \in Words |-> x[1] % 2]
Not == [x \in Words |-> 1 - (x[1] % 2)]
Succ == [x \in Words |-> (x[1] + 1) % 4]
Pred == [x \in Words |-> (x[1] + 3) % 4]

Pure(f, v) == [op |-> "Pure", args |-> <<v>>, f |-> f]

(* A Poly over the words args: the monomials with odd coefficients, and    *)
(* the constant, bit by bit.  terms are what the monomials are worth.      *)
Poly(args, monos, c) ==
  LET Inputs == [1 .. Len(args) -> Val]
      Set(x, b) == (x \div 2^b) % 2 = 1
      Value(x, b) == Cardinality({mono \in monos : \A p \in mono : Set(x[p], b)}) + (c \div 2^b)
      BitAt(mono, x, b) == IF \A p \in mono : Set(x[p], b) THEN 1 ELSE 0
  IN  [op |-> "Pure", ty |-> "word", args |-> args, monos |-> monos, constant |-> c,
       terms |-> [mono \in monos |-> [x \in Inputs |-> 2 * BitAt(mono, x, 1) + BitAt(mono, x, 0)]],
       f |-> [x \in Inputs |-> 2 * (Value(x, 1) % 2) + (Value(x, 0) % 2)]]

(* Shuffle: the low bits of two words.                                     *)
LowBits(v, w) ==
  [op |-> "Pure", ty |-> "word", args |-> <<v, w>>, bits |-> <<<<0, 1>>, <<0, 2>>>>,
   f |-> [x \in [1 .. 2 -> Val] |-> 2 * (x[2] % 2) + (x[1] % 2)]]

Const(t, x) == [op |-> "Const", ty |-> t, value |-> x]
Read(t, a) == [op |-> "StorageRead", storage |-> 0, ty |-> t, addr |-> a]
Write(t, a, v) == [op |-> "StorageWrite", storage |-> 0, ty |-> t, addr |-> a, src |-> v]
Act(g, v) == [op |-> "ActionCall", name |-> "act", guard |-> g, args |-> <<v>>, f |-> Succ,
              fallback |-> v]

To(i, args) == [dest |-> "Block", block |-> i, args |-> args]
Dyn(t, v, args) == [dest |-> "Dyn", sig |-> t, var |-> v, args |-> args]
Ret(args) == [dest |-> "Return", args |-> args]
Jmp(t) == [kind |-> "Jmp", target |-> t]
If(v, t, e) == [kind |-> "JumpCond", condition |-> v, then |-> t, else |-> e]
Table(v, cases) == [kind |-> "JumpTable", index |-> v, cases |-> cases]

Blk(params, stmts, term) == [params |-> params, stmts |-> stmts, term |-> term]
Memory(f(_)) == [c \in Cells |-> f(c)]
Blank == Memory(LAMBDA c : 0)
Counting == Memory(LAMBDA c : IF c[2] = "word" THEN c[3] % 4 ELSE 0)
Program(blocks, memory) == [n |-> Len(blocks), pre_init |-> memory,
                            blocks |-> [i \in 0 .. Len(blocks) - 1 |-> blocks[i + 1]]]
=============================================================================
