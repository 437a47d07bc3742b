----------------------------- MODULE MCCircuit -----------------------------
(***************************************************************************)
(* Small loops for Circuit: blocks over words of two bits and one storage, *)
(* and blocks over bits whose gates fall on three slots of the cache.      *)
(***************************************************************************)
EXTENDS Circuit, MCPrograms

Values == 0 .. 3
SomeTypes == {"bit", "word"}
TypeValues(t) == IF t = "word" THEN 0 .. 3 ELSE {0, 1}
NoSignature(t) == << >>
XorWords(a, b) == 2 * (((a \div 2) + (b \div 2)) % 2) + ((a + b) % 2)

(* The ways a block that takes two parameters ends: c, x and y are         *)
(* variables of the block.                                                 *)
Loops(c, x, y) ==
  {If(c, Ret(<<x>>), To(0, <<x, y>>)), If(c, Ret(<<x, y, x>>), To(0, <<y, x>>)),
   If(c, To(0, <<x, y>>), Ret(<<y>>)), If(c, To(0, <<y, y>>), Ret(<<1, 2>>)),
   If(c, Ret(<<x, 1>>), Ret(<<2, y>>)), Jmp(To(0, <<y, x>>))}

-----------------------------------------------------------------------------
(* Loops over words: counters, and walks through storage.                  *)

Walks ==
  {Program(<<Blk(<<"word", "word">>, <<Pure(test, 1), Pure(step, 1), s>>, t)>>, Counting) :
     test \in {IsZero, Low}, step \in {Succ, Pred},
     s \in {Read("word", 2), Pure(Pred, 2)}, t \in Loops(3, 4, 5)}

(* Loops that leave traces in storage or call an action: a copy after the  *)
(* end would leave its own, so one copy is made for each call.             *)
Track(s, t) ==
  Program(<<Blk(<<"word", "word">>, <<Pure(IsZero, 1), Pure(Pred, 1), s, Read("word", 1)>>, t)>>, Blank)
Tracks ==
  {Track(s, t) : s \in {Write("word", 4, 2), Write("word", 1, 4)}, t \in Loops(3, 4, 2) \cup Loops(3, 4, 6)}
    \cup {Track(Act(3, 1), If(3, Ret(<<4>>), To(0, <<4, 5>>)))}

(* Sums of the parameters, handed on in ways that keep them apart, and in  *)
(* one that does not.                                                      *)
Sum(t) ==
  Program(<<Blk(<<"word", "word">>, <<Pure(Low, 2), Poly(<<1, 2>>, {{1}, {2}}, 1), Poly(<<4, 1, 2>>, {{1}, {2, 3}, {2}}, 0)>>,
                t)>>, Blank)
Sums == {Sum(t) : t \in Loops(3, 4, 5) \ {If(3, To(0, <<5, 5>>), Ret(<<1, 2>>))}}
EqualSums == {Sum(If(3, To(0, <<5, 5>>), Ret(<<1, 2>>)))}

-----------------------------------------------------------------------------
(* Loops over bits.                                                        *)

Gate(name, args, f(_)) ==
  [op |-> "Pure", gate |-> name, args |-> args, f |-> [x \in [1 .. Len(args) -> Val] |-> f(x)]]
AndGate(a, b) == Gate("And", <<a, b>>, LAMBDA x : (x[1] * x[2]) % 2)
XorGate(a, b) == Gate("Xor", <<a, b>>, LAMBDA x : (x[1] + x[2]) % 2)
NotGate(a) == Gate("Not", <<a>>, LAMBDA x : (x[1] + 1) % 2)

(* The same gate twice, with its operands swapped, and loops that stand    *)
(* still, so that gates recur from copy to copy.                           *)
Boolar ==
  {Program(<<Blk(<<"bit", "bit">>, <<g, XorGate(1, 2), h, XorGate(2, 1), Const("bit", 1)>>, t)>>, Blank) :
     g \in {AndGate(1, 2), NotGate(2), Const("bit", 1)}, h \in {NotGate(3), AndGate(4, 3), Read("bit", 4)},
     t \in Loops(3, 5, 6) \cup Loops(6, 2, 5) \cup {If(6, Ret(<<4, 5>>), To(0, <<1, 2>>))}}

Kind(key) == key[1]
Slots(key) == (CASE Kind(key) = "Const" -> 0 [] Kind(key) = "And" -> 2
                 [] Kind(key) = "Xor" -> 4 [] Kind(key) = "Not" -> 5) + key[2] + key[3]
SmallSlot(key) == Slots(key) % 3

LoopPrograms == Walks \cup Tracks \cup Sums \cup Boolar
LoopForms(P) == {IF P \in Boolar THEN "boolar" ELSE "ir"}
CopiesOf(P) == IF P \in Tracks THEN {1} ELSE 0 .. 3

(* The pass supports all of them, but not the loop that hands one sum on   *)
(* twice.                                                                  *)
ASSUME LoopsSupported ==
  /\ \A P \in LoopPrograms : \A f \in LoopForms(P), n \in CopiesOf(P) : Supported(P, f, n)
  /\ \A P \in EqualSums : ~Supported(P, "ir", 2)

(* Loops whose first parameter counts down to the end, or that always      *)
(* return.                                                                 *)
Ends(P) ==
  LET block == P.blocks[0]
  IN  \/ BothReturn(block.term)
      \/ /\ block.stmts[1].f = IsZero /\ block.stmts[2].f \in {Pred, Succ}
         /\ \E rest \in {5, 6, 2}, ret \in {<<4>>} : block.term = If(3, Ret(ret), To(0, <<4, rest>>))
EndingLoops == {P \in Walks \cup Tracks : Ends(P)}
=============================================================================
