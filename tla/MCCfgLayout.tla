----------------------------- MODULE MCCfgLayout -----------------------------
(***************************************************************************)
(* Small programs for CfgLayout: five blocks in an order the walk changes, *)
(* some of them dead, references in constants, parameters and storage.     *)
(***************************************************************************)
EXTENDS CfgLayout, MCPrograms

Values == 0 .. 4
SomeTypes == {"word", "wblk"}
References == {"wblk"}
Signature(t) == <<"word">>
TypeValues(t) == IF t = "word" THEN 0 .. 3 ELSE {0}

-----------------------------------------------------------------------------
(* Blocks 1 to 3 take a word, block 4 a word and where to go on.           *)

Entry == {Blk(<<"word">>, <<Const("wblk", c), Pure(Low, 1), Write("wblk", 1, 2), Pure(Pred, 1)>>, t) :
            c \in {1, 3},
            t \in {Jmp(To(3, <<1>>)), Jmp(To(4, <<5, 2>>)), If(3, To(3, <<1>>), To(2, <<5>>)),
                   Table(1, [k \in 0 .. 2 |-> IF k = 0 THEN To(4, <<5, 2>>) ELSE IF k = 1 THEN To(2, <<1>>)
                                              ELSE Ret(<<2>>)])}}

Looping == {Blk(<<"word">>, <<Pure(Low, 1), Pure(Pred, 1), Read("wblk", 1)>>, t) :
              t \in {Jmp(Ret(<<1, 4>>)), If(2, To(2, <<3>>), Ret(<<3>>)), If(2, Dyn("wblk", 4, <<3>>), To(2, <<3>>)),
                     If(2, To(0, <<3>>), Ret(<<3>>))}}

Forward(t) == Blk(<<"word">>, <<Const("wblk", 1), Write("wblk", 1, 2)>>, Jmp(t))

Calling == {Blk(<<"word", "wblk">>, <<Pure(Succ, 1), Read("wblk", 1)>>, Jmp(t)) : t \in {Dyn("wblk", 2, <<3>>), To(3, <<1>>)}}

FiveBlocks == {Program(<<e, l, Forward(To(1, <<1>>)), Forward(t), c>>, Blank) :
                 e \in Entry, l \in Looping, t \in {To(4, <<1, 2>>), Ret(<<1, 2>>)}, c \in Calling}

(* One block stays as it is.                                               *)
Single == Program(<<Blk(<<"word">>, <<Pure(Low, 1), Pure(Pred, 1)>>, If(2, To(0, <<3>>), Ret(<<1>>)))>>, Blank)

(* Without a Dyn branch a reference may be to a block that is dropped.     *)
RefersToLive(P) ==
  LET live   == Reachable(P)
      consts == UNION {{s.value : s \in {t \in Range(P.blocks[b].stmts) : t.op = "Const"}} : b \in live}
  IN  consts \subseteq live

LayoutPrograms == {P \in FiveBlocks : RefersToLive(P)} \cup {Single}
=============================================================================
