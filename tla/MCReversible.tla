---------------------------- MODULE MCReversible ----------------------------
(***************************************************************************)
(* Small circuits for Reversible: one or two parameters, addresses of      *)
(* one bit in two lanes, one oracle and one action.                        *)
(***************************************************************************)
EXTENDS Reversible

Read(a) == [Stmt("StorageRead", << >>) EXCEPT !.addr = <<a>>]
Write(lane, v, a) == [Stmt("StorageWrite", <<v>>) EXCEPT !.addr = <<a>>, !.lane = lane]
Ask(occ, args) == [Stmt("OracleBit", args) EXCEPT !.occurrence = occ]
Store(guard, fallback, arg, a) == [Stmt("ActionStoreBit", <<guard, fallback, arg>>) EXCEPT !.addr = <<a>>]
Circ(params, stmts, outputs) == [params |-> params, stmts |-> stmts, outputs |-> outputs]

SomeMemories == {{0, 1} \X {<<b>>} : b \in BOOLEAN}
SomeOracle == {<<1, << >>>>, <<1, <<FALSE>>>>, <<2, <<TRUE>>>>}
SomeAct == {<<FALSE>>}

-----------------------------------------------------------------------------
(* Gates: chains of sums that take over wires, operands read once and      *)
(* twice, two disjunctions that may share their scratch wires.             *)
First == {Stmt("Xor", <<1, 2>>), Stmt("And", <<1, 2>>), Stmt("Or", <<2, 1>>), Stmt("Not", <<1>>), Stmt("One", << >>)}
Second == {Stmt("Xor", <<3, 1>>), Stmt("Xor", <<3, 3>>), Stmt("And", <<3, 3>>), Stmt("Or", <<1, 3>>), Stmt("Zero", << >>),
           Ask(1, <<3>>), Ask(2, << >>)}
Third == {Stmt("Xor", <<4, 3>>), Stmt("Xor", <<3, 4>>), Stmt("Or", <<4, 2>>)}

Pairs == {Circ(2, <<a, b>>, out) : a \in First, b \in Second, out \in {<<4>>, <<4, 3>>}}
Triples == {Circ(2, <<a, b, c>>, out) : a \in First, b \in Second, c \in Third, out \in {<<5>>}}
  \cup {Circ(2, <<Stmt("Xor", <<1, 2>>), b, c>>, <<5, 3>>) : b \in Second, c \in Third}

(* Storage: reads before and after writes, the addresses computed.         *)
Stateful3 ==
  {Circ(2, <<Stmt("Xor", <<1, 2>>), a, b, c>>, out) :
     a \in {Read(1), Read(3), Stmt("Or", <<1, 3>>)},
     b \in {Write(0, 4, 1), Write(1, 2, 3), Store(1, 2, 4, 3)},
     c \in {Read(1), Write(0, 1, 2), Store(2, 1, 3, 3), Stmt("Or", <<4, 5>>), Stmt("Xor", <<3, 4>>)}, out \in {<<6>>, <<4, 3>>}}

(* A circuit that only hands its parameters on; circuits that are refused. *)
Odd ==
  {Circ(2, << >>, <<2, 1>>), Circ(1, <<Stmt("Not", <<3>>), Stmt("Not", <<2>>)>>, <<2>>),
   Circ(1, <<Stmt("Legacy", << >>)>>, <<2>>), Circ(1, <<Stmt("Xor", <<1, 2>>)>>, <<2>>)}

SomeCircuits == Pairs \cup Triples \cup Stateful3 \cup Odd

Modes(c) ==
  LET shared == {<<"naive", FALSE>>, <<"naive", TRUE>>}
  IN  IF (c \in Pairs /\ Len(c.outputs) = 1) \/ c \in Odd \/ (c \in Stateful3 /\ c.stmts[2] = Read(1))
      THEN shared \cup {<<"hardened", FALSE>>, <<"hardened", TRUE>>} ELSE shared

(* The circuits with an action, embedded the plain way.                    *)
ActionCircuits == {c \in Stateful3 : \E k \in 1 .. Len(c.stmts) : c.stmts[k].op = "ActionStoreBit"}
Plain(c) == {<<"naive", FALSE>>}
NoGates == {}

(* Reversible circuits with lookups.                                       *)
Lookups ==
  {[n |-> 3, gates |-> <<X(1), XorLut2(1, 2, 3, t), Ccnot(1, 3, 2), XorLut2(3, 2, 1, u)>>] :
     t \in SUBSET [1 .. 2 -> BOOLEAN], u \in {{<<TRUE, FALSE>>}, {<<FALSE, FALSE>>, <<TRUE, TRUE>>}}}
=============================================================================
