------------------------------ MODULE MCUnroll ------------------------------
(***************************************************************************)
(* Small programs for Unroll: counted loops, calls that return through a   *)
(* reference kept in storage, and branches that are known in part.         *)
(***************************************************************************)
EXTENDS Unroll

Word == <<"word", 2>>
Ref == <<"block", 2>>
SomeCells == {0} \X {Word, Ref} \X SUBSET (0 .. 1)

Const(ty, x) == [op |-> "Const", ty |-> ty, value |-> x]
Poly(ty, monos, c) == [op |-> "Poly", ty |-> ty, monos |-> monos, constant |-> c]
Merge(v, w) == [op |-> "Merge", ty |-> Word, parts |-> <<v, w>>]
BitOf(v, k) == [op |-> "Shuffle", ty |-> Bit, bits |-> <<<<k, v>>>>]
Read(ty, a) == [op |-> "StorageRead", ty |-> ty, storage |-> 0, addr |-> a]
Write(ty, a, v) == [op |-> "StorageWrite", ty |-> ty, storage |-> 0, addr |-> a, src |-> v]
Act(g, v) == [op |-> "ActionCall", ty |-> Word, name |-> "act", guard |-> g, args |-> <<v>>, fallback |-> v]

To(k, vs) == [dest |-> "Block", block |-> NameOf(k), args |-> vs]
Dyn(v, vs) == [dest |-> "Dyn", var |-> v, args |-> vs]
Ret(vs) == [dest |-> "Return", args |-> vs]
Jmp(t) == [kind |-> "Jmp", target |-> t]
If(v, t, e) == [kind |-> "JumpCond", condition |-> v, then |-> t, else |-> e]
Table(v, cases) == [kind |-> "JumpTable", index |-> v, cases |-> cases]
Blk(params, stmts, t) == [params |-> params, stmts |-> stmts, term |-> t]
Program(blocks, image) == [n |-> Len(blocks), pre_init |-> image,
                           blocks |-> [name \in {NameOf(k) : k \in 0 .. Len(blocks) - 1} |->
                                         blocks[(CHOOSE k \in 1 .. Len(blocks) : NameOf(k - 1) = name)]]]
Address == {0}
Image(x) == (<<0, Word, Address>> :> x)

-----------------------------------------------------------------------------
(* Loops that count a word down, in a parameter or in storage: the bits of *)
(* i - 1, and whether i is zero.  v is where i is, n the variables so far. *)
CountDown(v, n) ==
  <<BitOf(v, 0), BitOf(v, 1), Poly(Bit, {<<n + 1>>}, {0}), Poly(Bit, {<<n + 2>>, <<n + 3>>}, {}), Merge(n + 3, n + 4),
    Poly(Bit, {<<n + 1>>, <<n + 2>>, <<n + 1, n + 2>>}, {0})>>

(* x is carried along, and stays unknown.                                  *)
Counted1(start, x, again) ==
  Program(<<Blk(<<Word>>, <<Const(Word, start)>>, Jmp(To(1, <<2, 1>>))),
            Blk(<<Word, Word>>, CountDown(1, 2) \o <<Poly(Word, {<<2>>}, {0})>>, If(8, Ret(<<9, 1>>), To(1, <<again, x>>)))>>,
          EmptyMap)
Loops == {Counted1(start, x, again) : start \in {{}, {1}, {0, 1}}, x \in {2, 9}, again \in {1, 7}}

(* The counter in storage, from pre_init or from a write.                  *)
Stored(entry, body) ==
  Program(<<Blk(<<Word>>, <<Const(Word, Address)>> \o entry, Jmp(To(1, <<1, 2>>))),
            Blk(<<Word, Word>>, <<Read(Word, 2)>> \o CountDown(3, 3) \o body,
                If(9, Ret(<<1, 3>>), To(1, <<1, 2>>)))>>,
          Image({1}))
StoredLoops == {Stored(entry, body) :
                  entry \in {<< >>, <<Write(Word, 2, 2)>>, <<Write(Word, 2, 1)>>},
                  body \in {<<Write(Word, 2, 8)>>, <<Write(Word, 2, 8), Act(6, 1)>>, <<Poly(Word, {<<1, 3>>}, {1})>>}}

-----------------------------------------------------------------------------
(* A call: block 1 is the callee, block 2 where it returns to; the         *)
(* reference is in a cell, or in a parameter.                              *)
Callee(before) == Blk(<<Word, Ref>>, before, Jmp(Dyn(2, <<1>>)))
StoredCallee(s) == Blk(<<Word, Ref>>, <<Const(Word, Address), s, Read(Ref, 3)>>, Jmp(Dyn(5, <<1>>)))
CallStmts(s) == <<Const(Ref, {1}), Const(Word, Address), Write(Ref, 3, 2), s>>
Calls ==
  {Program(<<Blk(<<Word>>, CallStmts(s), t), c, Blk(<<Word>>, <<Poly(Word, {<<1>>}, {1})>>, e)>>, EmptyMap) :
     s \in {Write(Word, 3, 1), BitOf(1, 0)},
     t \in {Jmp(To(1, <<1, 2>>)), If(5, To(1, <<1, 2>>), To(2, <<1>>))},
     c \in {Callee(<< >>), StoredCallee(Write(Word, 3, 1)), StoredCallee(Write(Ref, 3, 2))},
     e \in {Jmp(Ret(<<2>>)), Jmp(To(0, <<2>>))}}

(* The cell of the reference is overwritten with one that is not known.    *)
Overwritten ==
  {Program(<<Blk(<<Ref, Word>>, <<Const(Ref, {0}), Const(Word, Address), Write(Ref, 4, 3), Write(Ref, 4, v), Read(Ref, 4)>>,
                 Jmp(Dyn(7, <<2>>))),
             Blk(<<Word>>, << >>, Jmp(Ret(<<1>>))), Blk(<<Word>>, << >>, Jmp(To(1, <<1>>)))>>, EmptyMap) : v \in {1, 3}}

-----------------------------------------------------------------------------
(* Branches, known and unknown, back to block 0 among them.                *)
Switches ==
  {Program(<<Blk(<<Word>>, <<BitOf(1, 0), Const(Word, c), Const(Bit, {0}), s>>, t),
             Blk(<<Word, Word>>, <<BitOf(1, 0), BitOf(2, 1), Act(3, 2)>>, u)>>, EmptyMap) :
     c \in {{0}, {1}, {0, 1}}, s \in {Act(4, 1), Write(Word, 3, 1), Read(Word, 1)},
     t \in {Table(3, [k \in {{0}, {1}} |-> IF k = {0} THEN To(1, <<1, 3>>) ELSE Ret(<<5>>)]),
            If(2, To(1, <<3, 1>>), Ret(<<1>>)), If(4, To(1, <<3, 5>>), To(0, <<3>>))},
     u \in {If(3, Ret(<<5>>), Ret(<<1>>)), If(4, Ret(<<2>>), Ret(<<5>>)), Table(1, [k \in {{}, {0}} |-> Ret(<<5>>)])}}

Circuits == {Program(<<Blk(<<Word>>, <<Const(Word, {0}), Poly(Word, {<<1, 2>>}, {1})>>, Jmp(Ret(<<3>>)))>>, EmptyMap)}

UnrollPrograms == Loops \cup StoredLoops \cup Calls \cup Overwritten \cup Switches \cup Circuits
AllModes(P) == {"everything", "prefix", "segments"}
SomeLimits == {[max_steps |-> s, max_states |-> t] : s \in {0, 2, 99}, t \in {99}} \cup {[max_steps |-> 99, max_states |-> 2]}
=============================================================================
