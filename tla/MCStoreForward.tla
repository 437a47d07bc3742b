--------------------------- MODULE MCStoreForward ---------------------------
(***************************************************************************)
(* Small programs for StoreForward: words of two bits, two storages, and   *)
(* caches that hold two stores.                                            *)
(***************************************************************************)
EXTENDS StoreForward, MCPrograms

Values == 0 .. 3
SomeTypes == {"bit", "word", "wblk"}
References == {"wblk"}
Signature(t) == <<"word">>
TypeValues(t) == IF t = "word" THEN 0 .. 3 ELSE {0, 1}
TypeWidth(t) == IF t = "word" THEN 2 ELSE 1
Rank(t) == CASE t = "bit" -> 0 [] t = "word" -> 1 [] t = "wblk" -> 2

WriteTo(st, a, v) == [Write("word", a, v) EXCEPT !.storage = st]
Flip(v) == Poly(<<v>>, {{1}}, 1)
TwoWords == <<"word", "word">>

-----------------------------------------------------------------------------
(* One block: addresses that are equal, provably different, or neither;    *)
(* two storages; more stores than the cache holds; loads forwarded from    *)
(* loads.                                                                  *)
OneBlock ==
  {Program(<<Blk(TwoWords,
                 <<Flip(1), Const("word", 1), LowBits(4, 2), Write("word", 1, 2), WriteTo(st, a, 1),
                   Write("word", b, 3), Read("word", c), Read("word", 9), Flip(10), Read("word", 11)>>,
                 Jmp(Ret(<<9, 10, 12>>)))>>, Counting) :
     st \in {0, 1}, a \in {2, 3, 4}, b \in {1, 2, 3, 4, 5}, c \in {1, 2, 3, 4}}

(* A chain: the second block finds the address among its parameters and    *)
(* the value perhaps not; a value injected is the address of the next.     *)
Chain ==
  {Program(<<Blk(TwoWords, <<Flip(1), Write("word", 1, 3), s>>, t),
             Blk(<<"word">>, <<Read("word", 1), Pure(Low, 2), Read("word", 2), w>>, u)>>, Counting) :
     s \in {Write("word", 3, 2), WriteTo(1, 1, 2), Read("word", 1)},
     t \in {Jmp(To(1, <<1>>)), Jmp(To(1, <<3>>)), If(2, To(1, <<1>>), To(1, <<1>>)),
            Table(2, [k \in 0 .. 2 |-> IF k < 2 THEN To(1, <<1>>) ELSE Ret(<<3, 3>>)])},
     w \in {Write("word", 2, 1), Flip(2)},
     u \in {Jmp(Ret(<<2, 4>>)), If(3, To(1, <<4>>), Ret(<<4, 4>>)), If(3, Ret(<<2, 2>>), To(0, <<2, 4>>))}}

(* A diamond, closed to a loop or not.                                     *)
Top == {Blk(TwoWords, <<Pure(Low, 2), Write("word", 1, 2)>>, t) :
          t \in {If(3, To(1, <<1, 2>>), To(2, <<1, 2>>)), If(3, To(1, <<1, 2>>), To(3, <<1, 2>>))}}

Arm(next) == {Blk(TwoWords, <<Pure(Succ, 1), s>>, Jmp(To(3, next))) :
                s \in {Write("word", 1, 3), Write("word", 3, 2), Read("word", 1)}}

Bottom == {Blk(TwoWords, <<Read("word", 1), Pure(Low, 3), Read("word", 2)>>, t) :
             t \in {Jmp(Ret(<<3, 5>>)), If(4, To(2, <<3, 1>>), Ret(<<3, 5>>))}}
          \cup {Blk(TwoWords, <<Pure(Low, 1)>>, Jmp(Ret(<<1, 2>>)))}

Diamond ==
  {Program(<<top, left, right, bottom>>, Blank) :
     top \in Top, bottom \in Bottom,
     left \in UNION {Arm(next) : next \in {<<1, 2>>, <<1, 3>>}},
     right \in UNION {Arm(next) : next \in {<<1, 2>>, <<3, 1>>}}}

(* Blocks entered through references only.                                 *)
Indirect ==
  {Program(<<Blk(TwoWords, <<Const("wblk", 2), Write("word", 1, 2), Write("wblk", 1, 3), Read("wblk", 1),
                             Pure(Low, 2)>>, If(7, To(1, <<1>>), Dyn("wblk", 6, <<1>>))),
             Blk(<<"word">>, <<Read("word", 1), Read("wblk", 1)>>, Jmp(Dyn("wblk", 3, <<2>>))),
             Blk(<<"word">>, <<s, Read("word", 1)>>, Jmp(Ret(<<3>>)))>>, Blank) :
     s \in {Write("word", 1, 1), Flip(1)}}

ForwardPrograms == OneBlock \cup Chain \cup Diamond \cup Indirect

-----------------------------------------------------------------------------
(* Both branches lead to the same block with different arguments.          *)
EdgePrograms ==
  {Program(<<Blk(TwoWords, <<Pure(Low, 1), Write("word", 1, 2)>>, If(3, To(1, <<1>>), To(1, <<2>>))),
             Blk(<<"word">>, <<Read("word", 1)>>, Jmp(Ret(<<2>>)))>>, Blank)}

(* An address computed by a Poly, and a constant one.                      *)
KnownBitsPrograms ==
  {Program(<<Blk(TwoWords, <<Poly(<<1, 2>>, {{1}, {2}}, 0), Const("word", 2),
                             Write("word", 3, 1), Write("word", 4, 2), Read("word", 3)>>,
                 Jmp(Ret(<<7>>)))>>, Blank)}
=============================================================================
