---------------------------- MODULE MCMovfuscate ----------------------------
(***************************************************************************)
(* Small programs for Movfuscate: words of two bits, one storage, a Block  *)
(* type whose blocks take a bit and a word, and one whose blocks take a    *)
(* word.  Values have three bits where block indices need them.            *)
(***************************************************************************)
EXTENDS Movfuscate, MCPrograms

Values == 0 .. 3
WideValues == 0 .. 7
SomeTypes == {"bit", "word", "blk", "wblk"}
References == {"blk", "wblk"}
Signature(t) == IF t = "blk" THEN <<"bit", "word">> ELSE <<"word">>
TypeValues(t) == CASE t = "word" -> 0 .. 3 [] t = "z3" -> 0 .. 2 [] OTHER -> {0, 1}
XorBits(a, b) == LET Sum(j) == 2^j * ((BitOf(a, j) + BitOf(b, j)) % 2)
                 IN  Sum(0) + Sum(1) + Sum(2)

-----------------------------------------------------------------------------
(* Three blocks: they share slots by position and type, store words and    *)
(* references, and jump in every way there is, into undefined cases too.   *)

Entry == {Blk(<<"word">>, <<Pure(Low, 1), Pure(Succ, 1), Const("blk", 1), s>>, t) :
            s \in {Write("word", 2, 3), Read("word", 2)},
            t \in {Jmp(To(1, <<2, 3>>)),
                   If(2, To(1, <<2, 3>>), To(2, <<3, 4>>)),
                   Table(1, [k \in 0 .. 2 |-> IF k = 0 THEN To(1, <<2, 1>>)
                                              ELSE IF k = 1 THEN To(2, <<5, 4>>) ELSE Ret(<<3>>)])}}

Middle == {Blk(<<"bit", "word">>, <<Pure(Not, 1), Pure(Pred, 2), s>>, t) :
             s \in {Write("word", 1, 4), Read("word", 3)},
             t \in {Jmp(To(0, <<4>>)),
                    If(1, Ret(<<4>>), To(0, <<5>>)),
                    If(3, To(1, <<3, 2>>), Ret(<<5>>))}}

Last == {Blk(<<"word", "blk">>, <<Pure(Low, 1), Write("blk", 3, 2), Pure(Not, 1), Read("blk", 5)>>, t) :
           t \in {Jmp(Dyn("blk", 2, <<3, 1>>)),
                  If(3, Dyn("blk", 6, <<5, 1>>), Ret(<<1>>)),
                  If(5, Dyn("blk", 2, <<5, 1>>), Dyn("blk", 6, <<3, 1>>))}}

ThreeBlocks == {Program(<<e, a, b>>, p) : e \in Entry, a \in Middle, b \in Last, p \in {Blank, Counting}}

(* Two blocks: one bit of program counter, so that a reference and a bit   *)
(* share a slot.                                                           *)
TwoBlocks ==
  {Program(<<Blk(<<"word", "bit">>, <<Const("wblk", 1), Pure(Pred, 1), s>>, t),
             Blk(<<"word", "wblk">>, <<Pure(Low, 1), Read("word", 3)>>, u)>>, Counting) :
     s \in {Write("word", 2, 4), Write("word", 2, 1), Read("word", 2)},
     t \in {Jmp(To(1, <<4, 3>>)), If(2, To(1, <<1, 3>>), To(0, <<4, 2>>)), If(2, To(0, <<4, 2>>), Ret(<<1>>))},
     u \in {If(3, To(0, <<4, 3>>), Ret(<<4>>)), Jmp(To(0, <<4, 3>>)), Jmp(Ret(<<1>>))}}

(* Programs that halt: a countdown that leaves a trail in storage, and a   *)
(* caller that stores where to go on and a callee that goes there, in the  *)
(* manner of the calling convention.                                       *)
Countdown ==
  Program(<<Blk(<<"word">>, <<Pure(IsZero, 1), Pure(Pred, 1)>>, If(2, To(2, <<1>>), To(1, <<3>>))),
            Blk(<<"word">>, <<Pure(Low, 1), Write("word", 1, 2)>>, Jmp(To(0, <<1>>))),
            Blk(<<"word">>, <<Read("word", 1), Pure(Succ, 2)>>, Jmp(Ret(<<2, 3>>)))>>, Blank)

CallReturn ==
  Program(<<Blk(<<"word">>, <<Const("wblk", 3), Const("word", 0), Write("wblk", 3, 2), Pure(Low, 1)>>,
                If(5, To(1, <<1>>), To(2, <<5, 1>>))),
            Blk(<<"word">>, <<Const("wblk", 4), Const("word", 0), Write("wblk", 3, 2), Pure(Low, 1)>>,
                Jmp(To(2, <<5, 1>>))),
            Blk(<<"bit", "word">>, <<Pure(Succ, 2), Const("word", 0), Read("wblk", 4)>>,
                Jmp(Dyn("wblk", 5, <<3>>))),
            Blk(<<"word">>, <<Write("word", 1, 1)>>, If(1, Ret(<<1>>), Ret(<<2>>))),
            Blk(<<"word">>, <<Write("word", 1, 1), Read("word", 1)>>, Jmp(Ret(<<3>>)))>>, Counting)

HaltingPrograms == {Countdown, CallReturn}

(* A return in a JumpTable alone makes the pass stop: it looks for the     *)
(* width of the return tuple in Jmp and JumpCond only.                     *)
SupportedPrograms ==
  {P \in ThreeBlocks : compute_return_slot_types(P) = 1} \cup TwoBlocks \cup HaltingPrograms
-----------------------------------------------------------------------------
(* Programs the pass does not support, though nothing stops it on them.    *)

(* An action in the second block.                                          *)
ActingPrograms ==
  {Program(<<Blk(<<"word">>, <<Pure(Succ, 1)>>, Jmp(To(1, <<2>>))),
             Blk(<<"word">>, <<Const("bit", 1), Act(2, 1)>>, Jmp(Ret(<<3>>)))>>, Blank)}

(* A reference in pre_init.                                                *)
PreInitPrograms ==
  {Program(<<Blk(<<"word">>, <<Read("wblk", 1)>>, Jmp(Dyn("wblk", 2, <<1>>))),
             Blk(<<"word">>, <<Pure(Succ, 1)>>, Jmp(Ret(<<2>>)))>>,
           Memory(LAMBDA c : IF c[2] = "wblk" THEN 1 ELSE 0))}

(* A program over PrimeField z3: it doubles its argument and returns it.   *)
(* The pattern 3 is no residue modulo 3.                                   *)
PrimeTypes == {"bit", "z3"}
AddMod3(a, b) == IF 3 \in {a, b} THEN 3 ELSE (a + b) % 3
Double == [x \in Words |-> AddMod3(x[1], x[1])]
PrimePrograms ==
  {Program(<<Blk(<<"z3">>, <<Pure(Double, 1)>>, Jmp(To(1, <<2>>))),
             Blk(<<"z3">>, << >>, Jmp(Ret(<<1>>)))>>, Blank)}
=============================================================================
