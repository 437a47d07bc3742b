-------------------------- MODULE SynthesisProofs --------------------------
(***************************************************************************)
(* The synthesis of a reversible circuit from a Boolar circuit of any      *)
(* size, and to_reversible, which makes it clean up after itself.          *)
(*                                                                         *)
(* The invariant SInv says which wires the gates so far leave as they were *)
(* (Untouched), that variables still to be read have wires of their own,   *)
(* and that the gates put their values there when all wires but the        *)
(* parameters start at 0.  A statement's gates change the wire of its      *)
(* result, and of the scratch wires only those it does not return.         *)
(*                                                                         *)
(* CompactAndCopy closes the gaps between the wires: the gates compute the *)
(* same on the wires they move to.  They are on wires that were given out  *)
(* (UsedInv), so they leave y alone; hence computing, copying and          *)
(* uncomputing adds f(x) to y and nothing else.  harden does so twice,     *)
(* with the zero test around the second copy, and if the workspace was not *)
(* clear, the second undoes the first.  EInv carries this from phase to    *)
(* phase, up to the circuit that is applied (Embeds).                      *)
(***************************************************************************)
EXTENDS ReversibleProofs, FiniteSetTheorems

-----------------------------------------------------------------------------
(* Scratch wires.                                                          *)

PoolOK(p) ==
  /\ GoodPool(p)
  /\ \A k \in 1 .. Len(p.free) : p.free[k] \in p.base + 1 .. p.next_fresh - 1
  /\ \A j, k \in 1 .. Len(p.free) : j # k => p.free[j] # p.free[k]

(* A wire that is to be handed out again, or was never handed out.         *)
Spare(p, w) == (\E k \in 1 .. Len(p.free) : p.free[k] = w) \/ w >= p.next_fresh

(* A pool q that lends what p did, and t as well.                          *)
Lends(p, q, t) ==
  /\ PoolOK(q) /\ q.base = p.base
  /\ t \in p.base + 1 .. q.next_fresh - 1
  /\ p.next_fresh <= q.next_fresh
  /\ Spare(p, t) /\ ~Spare(q, t)
  /\ \A w \in Nat : Spare(q, w) => Spare(p, w)

(* The parts of a pool.                                                    *)
LEMMA PoolParts ==
  ASSUME NEW p, PoolOK(p)
  PROVE  /\ p.base \in Nat /\ p.next_fresh \in Nat /\ p.base < p.next_fresh
         /\ p.free \in Seq(Nat) /\ Len(p.free) \in Nat
BY DEF PoolOK, GoodPool, Pools

(* acquire lends a wire nobody has.                                        *)
LEMMA AcquireLends ==
  ASSUME NEW p, PoolOK(p)
  PROVE  Lends(p, acquire(p), Acquired(p))
<1>1. PICK n \in Nat : n = Len(p.free)
  BY PoolParts
<1>2. PICK q : q = acquire(p)
  OBVIOUS
<1>3. PICK t \in Nat : t = Acquired(p)
  BY PoolTyped DEF PoolOK, GoodPool
<1>4. GoodPool(q)
  BY <1>2, PoolTyped DEF PoolOK, GoodPool
<1>5. CASE p.free # << >>
  <2>1. n # 0
    BY <1>1, <1>5, PoolParts
  <2>2. /\ q.base = p.base /\ q.next_fresh = p.next_fresh /\ q.free = Front(p.free)
    BY <1>2, <1>5, PoolParts DEF acquire, PoolOK, GoodPool, Pools
  <2>3. Len(q.free) = n - 1 /\ \A k \in 1 .. n - 1 : q.free[k] = p.free[k]
    BY <1>1, <2>1, <2>2, PoolParts DEF Front
  <2>4. t = p.free[n] /\ n \in 1 .. n /\ \A k \in 1 .. n - 1 : k \in 1 .. n /\ k # n
    BY <1>1, <1>3, <1>5, <2>1 DEF Acquired, Last
  <2>5. PoolOK(q)
    BY <1>1, <1>4, <2>2, <2>3, <2>4 DEF PoolOK
  <2>6. Spare(p, t)
    BY <1>1, <2>4 DEF Spare
  <2>7. t \in p.base + 1 .. p.next_fresh - 1
    BY <1>1, <2>4 DEF PoolOK
  <2>8. \A k \in 1 .. n - 1 : q.free[k] # t
    BY <1>1, <2>3, <2>4 DEF PoolOK
  <2>9. ~Spare(q, t)
    BY <2>2, <2>3, <2>7, <2>8, PoolParts DEF Spare
  <2>10. \A w \in Nat : Spare(q, w) => Spare(p, w)
    BY <1>1, <2>2, <2>3, <2>4 DEF Spare
  <2> QED BY <1>2, <1>3, <2>2, <2>5, <2>6, <2>7, <2>9, <2>10, PoolParts DEF Lends
<1>6. CASE p.free = << >>
  <2>1. t = p.next_fresh /\ q.base = p.base /\ q.next_fresh = p.next_fresh + 1 /\ q.free = p.free /\ n = 0
    BY <1>1, <1>2, <1>3, <1>6, PoolParts DEF acquire, Acquired, PoolOK, GoodPool, Pools
  <2>2. PoolOK(q)
    BY <1>1, <1>4, <2>1 DEF PoolOK
  <2>3. Spare(p, t) /\ ~Spare(q, t) /\ \A w \in Nat : Spare(q, w) => Spare(p, w)
    BY <1>1, <2>1, PoolParts DEF Spare
  <2> QED BY <1>2, <1>3, <2>1, <2>2, <2>3, PoolParts DEF Lends
<1> QED BY <1>5, <1>6

(* release takes back a wire that is lent.                                 *)
LEMMA ReleaseReturns ==
  ASSUME NEW p, PoolOK(p), NEW t \in p.base + 1 .. p.next_fresh - 1, ~Spare(p, t)
  PROVE  /\ PoolOK(release(p, t))
         /\ release(p, t).base = p.base /\ release(p, t).next_fresh = p.next_fresh
         /\ \A w : Spare(release(p, t), w) <=> Spare(p, w) \/ w = t
<1>1. PICK n \in Nat : n = Len(p.free)
  BY PoolParts
<1>2. PICK q : q = release(p, t)
  OBVIOUS
<1>3. t \in Nat /\ GoodPool(q)
  <2>1. t \in Nat
    BY PoolParts
  <2> QED BY <1>2, <2>1, ReleaseTyped DEF PoolOK, GoodPool
<1>4. q.base = p.base /\ q.next_fresh = p.next_fresh /\ q.free = Append(p.free, t)
  BY <1>2 DEF release, PoolOK, GoodPool, Pools
<1>5. Len(q.free) = n + 1 /\ q.free[n + 1] = t /\ \A k \in 1 .. n : q.free[k] = p.free[k]
  BY <1>1, <1>3, <1>4, PoolParts
<1>6. \A k \in 1 .. n + 1 : k \in 1 .. n \/ k = n + 1
  OBVIOUS
<1>7. \A k \in 1 .. n : p.free[k] # t
  BY <1>1 DEF Spare
<1>8. PoolOK(q)
  <2>1. \A k \in 1 .. n + 1 : q.free[k] \in q.base + 1 .. q.next_fresh - 1
    BY <1>1, <1>4, <1>5, <1>6 DEF PoolOK
  <2>2. ASSUME NEW j \in 1 .. n + 1, NEW k \in 1 .. n + 1, j # k PROVE q.free[j] # q.free[k]
    BY <1>1, <1>5, <1>6, <1>7, <2>2 DEF PoolOK
  <2> QED BY <1>3, <1>5, <2>1, <2>2 DEF PoolOK
<1>9. \A w : Spare(q, w) <=> Spare(p, w) \/ w = t
  BY <1>1, <1>4, <1>5, <1>6 DEF Spare
<1> QED BY <1>2, <1>4, <1>8, <1>9

-----------------------------------------------------------------------------
(* What a statement's gates do.                                            *)

(* Where wires are while statements are lowered: parameters, results,      *)
(* room for the outputs, scratch.                                          *)
Geometry ==
  /\ PoolOK(pool) /\ pool.base = VarSpace(circ) + Len(circ.outputs)
  /\ \A v \in 1 .. Len(wire_of) :
       /\ wire_of[v] \in 1 .. next_anc - 1
       /\ v <= circ.params => wire_of[v] = v
       /\ v > circ.params => wire_of[v] > circ.params

Room == CircuitTyped /\ WiresTyped /\ Geometry /\ Len(wire_of) < VarSpace(circ)

(* A statement that reads variables that have wires.                       *)
Lowerable(s) ==
  /\ s \in Statements /\ s.op # "Legacy"
  /\ Range(s.args) \subseteq 1 .. Len(wire_of) /\ Range(s.addr) \subseteq 1 .. Len(wire_of)

WiresOf(seq) == MapSeq(seq, LAMBDA v : wire_of[v])

(* The wires of the operands hold vals, and the wires to be used next 0.   *)
Given(n, s, st, vals) ==
  /\ vals \in Seq(BOOLEAN) /\ Len(vals) = Len(wire_of)
  /\ \A k \in 1 .. Len(s.args) : st.wires[wire_of[s.args[k]]] = vals[s.args[k]]
  /\ \A k \in 1 .. Len(s.addr) : st.wires[wire_of[s.addr[k]]] = vals[s.addr[k]]
  /\ st.wires[next_anc] = FALSE
  /\ \A w \in 1 .. n : Spare(pool, w) => st.wires[w] = FALSE

PoolMoves(done) ==
  /\ PoolOK(done.pool) /\ done.pool.base = pool.base /\ pool.next_fresh <= done.pool.next_fresh
  /\ \A w \in Nat : Spare(done.pool, w) => Spare(pool, w)

Frame(n, done, st, to) ==
  /\ to \in States(n)
  /\ \A w \in 1 .. n : (w <= pool.base /\ w # done.wire) \/ Spare(done.pool, w) => to.wires[w] = st.wires[w]

(* From vals and mem, statement s computes v and leaves storage as m.      *)
Gives(s, vals, mem, v, m) == EvalToggling(s, [vals |-> vals, mem |-> mem]) = [vals |-> Append(vals, v), mem |-> m]
Yields(s, done, st, to, vals) == Gives(s, vals, st.mem, to.wires[done.wire], to.mem)

(* The gates of done change what they may and compute s.                   *)
Does(n, s, done, st) ==
  LET to == Run!Fold(st, done.gates)
  IN  /\ Frame(n, done, st, to)
      /\ \A vals : Given(n, s, st, vals) => Yields(s, done, st, to, vals)

(* Where the next result goes, and where operands are.                     *)
LEMMA Places ==
  ASSUME Room, NEW n \in Nat, n >= pool.next_fresh - 1
  PROVE  /\ next_anc \in 1 .. n /\ pool.base \in Nat /\ next_anc <= pool.base /\ pool.base <= n
         /\ PoolOK(pool) /\ circ.params \in Nat /\ circ.params < next_anc
         /\ Len(wire_of) \in Nat
         /\ \A v \in 1 .. Len(wire_of) : wire_of[v] \in 1 .. n /\ wire_of[v] < next_anc
<1>1. /\ circ.params \in Nat /\ Len(circ.outputs) \in Nat /\ VarSpace(circ) \in Nat
      /\ Len(wire_of) \in Nat /\ Len(wire_of) < VarSpace(circ)
  BY DEF Room, CircuitTyped, BoolarCircuits, VarSpace, WiresTyped
<1>2. next_anc \in circ.params + 1 .. Len(wire_of) + 1
  BY DEF Room, WiresTyped
<1>3. PoolOK(pool) /\ pool.base = VarSpace(circ) + Len(circ.outputs)
  BY DEF Room, Geometry
<1>4. pool.base \in Nat /\ pool.next_fresh \in Nat /\ pool.base < pool.next_fresh
  BY <1>3, PoolParts
<1>5. next_anc \in 1 .. n /\ next_anc <= pool.base /\ pool.base <= n /\ circ.params < next_anc
  BY SMTT(30), <1>1, <1>2, <1>3, <1>4
<1>6. \A v \in 1 .. Len(wire_of) : wire_of[v] \in 1 .. n /\ wire_of[v] < next_anc
  BY <1>5 DEF Room, Geometry
<1> QED BY <1>1, <1>3, <1>4, <1>5, <1>6

(* The wires of operands lie below that of the next result.                *)
LEMMA OperandWires ==
  ASSUME Room, NEW seq \in Seq(Nat \ {0}), Range(seq) \subseteq 1 .. Len(wire_of)
  PROVE  /\ Len(seq) \in Nat /\ \A k \in 1 .. Len(seq) : seq[k] \in 1 .. Len(wire_of)
         /\ WiresOf(seq) \in Seq(Nat) /\ Len(WiresOf(seq)) = Len(seq)
         /\ \A k \in 1 .. Len(seq) : WiresOf(seq)[k] = wire_of[seq[k]]
         /\ Range(WiresOf(seq)) \subseteq 1 .. next_anc - 1
<1>1. PICK ws : ws = WiresOf(seq)
  OBVIOUS
<1>2. ws \in Seq(Nat) /\ Len(ws) = Len(seq) /\ \A k \in 1 .. Len(seq) : ws[k] = wire_of[seq[k]]
  BY <1>1, MapWires DEF WiresOf, Room, WiresTyped
<1>3. Len(seq) \in Nat /\ \A k \in 1 .. Len(seq) : seq[k] \in 1 .. Len(wire_of)
  BY DEF Range
<1>4. \A k \in 1 .. Len(seq) : ws[k] \in 1 .. next_anc - 1
  BY <1>2, <1>3 DEF Room, Geometry
<1>5. Range(ws) \subseteq 1 .. next_anc - 1
  BY SMTT(30), <1>2, <1>4 DEF Range
<1> QED BY <1>1, <1>2, <1>3, <1>5

(* Reading wires that hold the values of variables reads those.            *)
Shown(seq, wires, vals) ==
  /\ seq \in Seq(Nat \ {0}) /\ Range(seq) \subseteq 1 .. Len(wire_of)
  /\ \A k \in 1 .. Len(seq) : wires[wire_of[seq[k]]] = vals[seq[k]]

(* Reading operands' wires reads their values.                             *)
LEMMA OperandReads ==
  ASSUME Room, NEW seq, NEW wires, NEW vals, Shown(seq, wires, vals)
  PROVE  Reads(WiresOf(seq), wires) = Reads(seq, vals)
<1>1. /\ seq \in Seq(Nat \ {0}) /\ Range(seq) \subseteq 1 .. Len(wire_of)
      /\ \A k \in 1 .. Len(seq) : wires[wire_of[seq[k]]] = vals[seq[k]]
  BY DEF Shown
<1>2. PICK ws : ws = WiresOf(seq) /\ Len(ws) = Len(seq) /\ \A k \in 1 .. Len(seq) : ws[k] = wire_of[seq[k]]
  BY <1>1, OperandWires
<1> QED BY <1>1, <1>2 DEF Reads, MapSeq

(* Scratch wires lie above all others.                                     *)
LEMMA SpareAbove ==
  ASSUME NEW p, PoolOK(p), NEW w \in Nat, Spare(p, w)
  PROVE  w > p.base
<1>1. p.base \in Nat /\ p.next_fresh \in Nat /\ p.base < p.next_fresh
  BY PoolParts
<1>2. CASE w >= p.next_fresh
  BY <1>1, <1>2
<1>3. CASE \E k \in 1 .. Len(p.free) : p.free[k] = w
  <2>1. w \in p.base + 1 .. p.next_fresh - 1
    BY <1>3 DEF PoolOK
  <2> QED BY <1>1, <2>1
<1> QED BY <1>2, <1>3 DEF Spare

(* Gates that change one wire below the scratch wires, and no others.      *)
LEMMA OneWireFrame ==
  ASSUME Room, NEW n \in Nat, n >= pool.next_fresh - 1, NEW st, NEW done, done.pool = pool,
         done.wire <= pool.base, NEW to \in States(n),
         \A w \in 1 .. n : w # done.wire => to.wires[w] = st.wires[w]
  PROVE  PoolMoves(done) /\ Frame(n, done, st, to)
<1>1. PoolMoves(done)
  BY Places, PoolParts DEF PoolMoves
<1>2. ASSUME NEW w \in 1 .. n, Spare(pool, w) PROVE w # done.wire
  BY <1>2, SpareAbove, Places, PoolParts
<1> QED BY <1>1, <1>2 DEF Frame

(* The meaning the synthesis gives to statements differs for actions only. *)
Effected(st, s) == EvalToggling(s, st)
Effect == INSTANCE FoldTheorems WITH op <- Effected
TogglingResult(c, x, mem) == Returned(c, ValuesToggling(c, x, mem))

(* Other statements mean what they do in Boolar.                           *)
LEMMA TogglingSame ==
  ASSUME NEW s, NEW st, s.op # "ActionStoreBit"
  PROVE  EvalToggling(s, st) = EvalStmt(s, st)
BY DEF EvalToggling

(* Evaluation carries values and storage through the statements.           *)
LEMMA TogglingFold ==
  ASSUME NEW c, NEW x, NEW mem
  PROVE  ValuesToggling(c, x, mem) = Effect!Fold([vals |-> x, mem |-> mem], c.stmts)
BY DEF ValuesToggling, Through, Effected, Effect!Fold, Effect!Walk, Effect!Steps

(* Adding a bit to a cell that holds 0 stores it.                          *)
LEMMA FlippedZero ==
  ASSUME NEW mem, NEW cell, cell \notin mem, NEW bit \in BOOLEAN
  PROVE  Flipped(mem, cell, bit) = Stored(mem, cell, bit)
BY DEF Flipped, Stored

(* The cell of a statement, by the values it reads.                        *)
LEMMA CellReads ==
  ASSUME NEW s, NEW vals
  PROVE  StmtCell(s, vals) = <<s.lane, Reads(s.addr, vals)>>
BY Zenon DEF StmtCell, Reads

(* ActionStoreBit.                                                         *)
LEMMA EvalStore ==
  ASSUME NEW s, NEW st, s.op = "ActionStoreBit"
  PROVE  EvalToggling(s, st) = [vals |-> Append(st.vals, FALSE),
                            mem |-> Flipped(st.mem, StmtCell(s, st.vals), ActionValue(Reads(s.args, st.vals)))]
BY Zenon DEF EvalToggling, Reads, StmtCell

(* Where the action of a statement, if it has one, finds a 0.              *)
MeetsZero(s, st) == s.op = "ActionStoreBit" => StmtCell(s, st.vals) \notin st.mem

(* Then the two meanings of a statement agree.                             *)
LEMMA AgreeOnZero ==
  ASSUME NEW s, NEW st, MeetsZero(s, st)
  PROVE  EvalToggling(s, st) = EvalStmt(s, st)
<1>1. CASE s.op # "ActionStoreBit"
  BY <1>1, TogglingSame
<1>2. CASE s.op = "ActionStoreBit"
  <2>1. PICK cell, bit : cell = StmtCell(s, st.vals) /\ bit = ActionValue(Reads(s.args, st.vals))
    OBVIOUS
  <2>2. bit \in BOOLEAN
    BY <2>1 DEF ActionValue
  <2>3. EvalToggling(s, st) = [vals |-> Append(st.vals, FALSE), mem |-> Flipped(st.mem, cell, bit)]
    BY <1>2, <2>1, EvalStore
  <2>4. EvalStmt(s, st) = [vals |-> Append(st.vals, FALSE), mem |-> Stored(st.mem, cell, bit)]
    BY <1>2, <2>1, Zenon DEF EvalStmt, ActionStored, Reads
  <2>5. Flipped(st.mem, cell, bit) = Stored(st.mem, cell, bit)
    BY <1>2, <2>1, <2>2, FlippedZero DEF MeetsZero
  <2> QED BY <2>3, <2>4, <2>5
<1> QED BY <1>1, <1>2

(* One more statement of a sequence.                                       *)
LEMMA PrefixNext ==
  ASSUME NEW s \in Seq(Statements), NEW k \in 0 .. Len(s) - 1
  PROVE  /\ SubSeq(s, 1, k) \in Seq(Statements) /\ s[k + 1] \in Statements
         /\ SubSeq(s, 1, k + 1) = Append(SubSeq(s, 1, k), s[k + 1])
<1>1. k + 1 \in 1 .. Len(s)
  OBVIOUS
<1>2. PICK some, more, long : some = SubSeq(s, 1, k) /\ more = SubSeq(s, 1, k + 1) /\ long = Append(some, s[k + 1])
  OBVIOUS
<1>3. s[k + 1] \in Statements /\ some \in Seq(Statements) /\ more \in Seq(Statements)
  BY <1>1, <1>2
<1>4. /\ Len(some) = k /\ Len(more) = k + 1
      /\ \A j \in 1 .. k : some[j] = s[j]
      /\ \A j \in 1 .. k + 1 : more[j] = s[j]
  BY <1>1, <1>2
<1>5. long \in Seq(Statements) /\ Len(long) = k + 1 /\ long[k + 1] = s[k + 1] /\ \A j \in 1 .. k : long[j] = some[j]
  BY <1>1, <1>2, <1>3, <1>4
<1>6. \A j \in 1 .. k + 1 : j \in 1 .. k \/ j = k + 1
  BY <1>1
<1>7. \A j \in 1 .. k + 1 : long[j] = more[j]
  BY <1>4, <1>5, <1>6
<1> QED BY <1>1, <1>2, <1>3, <1>4, <1>5, <1>7

(* A circuit up to one of its statements is a circuit.                     *)
LEMMA CircuitPrefix ==
  ASSUME NEW c \in BoolarCircuits, NEW k \in 0 .. Len(c.stmts)
  PROVE  /\ [c EXCEPT !.stmts = SubSeq(@, 1, k)] \in BoolarCircuits
         /\ [c EXCEPT !.stmts = SubSeq(@, 1, k)].stmts = SubSeq(c.stmts, 1, k)
<1>1. c.stmts \in Seq(Statements)
  BY DEF BoolarCircuits
<1>2. SubSeq(c.stmts, 1, k) \in Seq(Statements)
  BY <1>1
<1> QED BY <1>2 DEF BoolarCircuits

(* As long as actions find zeros, the whole run is the same in both.       *)
LEMMA AgreeOnZeros ==
  ASSUME NEW c \in BoolarCircuits, NEW x, NEW mem, StoresMeetZeros(c, x, mem)
  PROVE  ValuesToggling(c, x, mem) = Values(c, x, mem)
<1>1. PICK s \in Seq(Statements) : s = c.stmts
  BY DEF BoolarCircuits
<1>2. PICK N \in Nat : N = Len(s)
  OBVIOUS
<1>3. PICK first : first = [vals |-> x, mem |-> mem]
  OBVIOUS
<1>4. PICK T : T = {k \in 0 .. N : Effect!Fold(first, SubSeq(s, 1, k)) = Eval!Fold(first, SubSeq(s, 1, k))}
  OBVIOUS
<1>5. 0 \in T
  <2>1. SubSeq(s, 1, 0) = << >>
    OBVIOUS
  <2>2. Effect!Fold(first, << >>) = first /\ Eval!Fold(first, << >>) = first
    BY Effect!FoldEmpty, Eval!FoldEmpty
  <2>3. 0 \in 0 .. N
    BY <1>2
  <2> QED BY <1>4, <2>1, <2>2, <2>3
<1>6. ASSUME NEW k \in 0 .. N - 1, k \in T PROVE k + 1 \in T
  <2>1. k + 1 \in 0 .. N /\ k + 1 \in 1 .. Len(c.stmts) /\ (k + 1) - 1 = k /\ k \in 0 .. Len(c.stmts) /\ k \in 0 .. Len(s) - 1
    BY <1>1, <1>2
  <2>2. PICK some, st : some = SubSeq(s, 1, k) /\ st = Eval!Fold(first, some)
    OBVIOUS
  <2>3. PICK next : next = s[k + 1]
    OBVIOUS
  <2>4. some \in Seq(Statements) /\ next \in Statements /\ SubSeq(s, 1, k + 1) = Append(some, next)
    BY <2>1, <2>2, <2>3, PrefixNext
  <2>5. Eval!Fold(first, Append(some, next)) = EvalStmt(next, st)
    BY <2>2, <2>4, Eval!FoldAppend DEF Evaluated
  <2>6. Effect!Fold(first, some) = st
    BY <1>4, <1>6, <2>2
  <2>7. Effect!Fold(first, Append(some, next)) = EvalToggling(next, st)
    BY <2>4, <2>6, Effect!FoldAppend DEF Effected
  <2>8. PICK prefix : prefix = [c EXCEPT !.stmts = SubSeq(@, 1, (k + 1) - 1)]
    OBVIOUS
  <2>9. prefix.stmts = some
    <3>1. prefix = [c EXCEPT !.stmts = SubSeq(@, 1, k)]
      BY <2>1, <2>8
    <3> QED BY <1>1, <2>1, <2>2, <3>1, CircuitPrefix
  <2>10. Values(prefix, x, mem) = st
    BY <1>3, <2>2, <2>9, ValuesFold
  <2>11. MeetsZero(next, st)
    BY <1>1, <2>1, <2>3, <2>8, <2>10 DEF StoresMeetZeros, MeetsZero
  <2>12. EvalToggling(next, st) = EvalStmt(next, st)
    BY <2>11, AgreeOnZero
  <2> QED BY <1>4, <2>1, <2>4, <2>5, <2>7, <2>12
<1>7. N \in T
  <2>1. \A k \in 0 .. N - 1 : k \in T => k + 1 \in T
    BY <1>6
  <2>2. \A k \in 0 .. N : k \in T
    BY <1>5, <2>1, Eval!UpTo, Zenon
  <2> QED BY <1>2, <2>2
<1>8. SubSeq(s, 1, N) = s
  BY <1>2
<1>9. Effect!Fold(first, s) = Eval!Fold(first, s)
  BY <1>4, <1>7, <1>8
<1> QED BY <1>1, <1>3, <1>9, TogglingFold, ValuesFold

(* So toggling is what to_reversible has to compute in either case.        *)
LEMMA EmbeddedToggles ==
  ASSUME NEW c \in BoolarCircuits, NEW x, NEW mem
  PROVE  EmbeddedValues(c, x, mem) = ValuesToggling(c, x, mem)
BY AgreeOnZeros DEF EmbeddedValues

(* The constant 0.                                                         *)
LEMMA EvalZero ==
  ASSUME NEW s, NEW st, s.op = "Zero"
  PROVE  EvalStmt(s, st) = [vals |-> Append(st.vals, FALSE), mem |-> st.mem]
BY Zenon DEF EvalStmt

(* Or.                                                                     *)
LEMMA EvalOr ==
  ASSUME NEW s, NEW st, s.op = "Or"
  PROVE  EvalStmt(s, st) = [vals |-> Append(st.vals, Reads(s.args, st.vals)[1] \/ Reads(s.args, st.vals)[2]), mem |-> st.mem]
BY Zenon DEF EvalStmt, Reads

(* What each statement computes from vals and mem.                         *)
LEMMA EvalAt ==
  ASSUME NEW s, NEW vals, NEW mem, NEW args, args = Reads(s.args, vals)
  PROVE  /\ s.op = "Zero" => Gives(s, vals, mem, FALSE, mem)
         /\ s.op = "One" => Gives(s, vals, mem, TRUE, mem)
         /\ s.op = "Xor" => Gives(s, vals, mem, args[1] # args[2], mem)
         /\ s.op = "And" => Gives(s, vals, mem, args[1] /\ args[2], mem)
         /\ s.op = "Or" => Gives(s, vals, mem, args[1] \/ args[2], mem)
         /\ s.op = "Not" => Gives(s, vals, mem, ~args[1], mem)
         /\ s.op = "StorageRead" => Gives(s, vals, mem, StmtCell(s, vals) \in mem, mem)
         /\ s.op = "OracleBit" => Gives(s, vals, mem, <<s.occurrence, args>> \in Oracle, mem)
         /\ s.op = "StorageWrite" => Gives(s, vals, mem, FALSE, Stored(mem, StmtCell(s, vals), args[1]))
         /\ s.op = "ActionStoreBit" => Gives(s, vals, mem, FALSE, Flipped(mem, StmtCell(s, vals), ActionValue(args)))
<1>1. PICK st : st = [vals |-> vals, mem |-> mem]
  OBVIOUS
<1>2. st.vals = vals /\ st.mem = mem
  BY <1>1
<1>3. /\ s.op = "Zero" => EvalStmt(s, st) = [vals |-> Append(st.vals, FALSE), mem |-> st.mem]
      /\ s.op = "One" => EvalStmt(s, st) = [vals |-> Append(st.vals, TRUE), mem |-> st.mem]
  BY EvalZero, EvalOne
<1>4. s.op = "Xor" => EvalStmt(s, st) = [vals |-> Append(st.vals, Reads(s.args, st.vals)[1] # Reads(s.args, st.vals)[2]), mem |-> st.mem]
  BY EvalXor, Zenon
<1>5. s.op = "And" => EvalStmt(s, st) = [vals |-> Append(st.vals, Reads(s.args, st.vals)[1] /\ Reads(s.args, st.vals)[2]), mem |-> st.mem]
  BY EvalAnd, Zenon
<1>6. s.op = "Or" => EvalStmt(s, st) = [vals |-> Append(st.vals, Reads(s.args, st.vals)[1] \/ Reads(s.args, st.vals)[2]), mem |-> st.mem]
  BY EvalOr, Zenon
<1>7. s.op = "Not" => EvalStmt(s, st) = [vals |-> Append(st.vals, ~Reads(s.args, st.vals)[1]), mem |-> st.mem]
  BY EvalNot, Zenon
<1>8. s.op = "StorageRead" => EvalStmt(s, st) = [vals |-> Append(st.vals, StmtCell(s, st.vals) \in st.mem), mem |-> st.mem]
  BY EvalRead, Zenon
<1>9. s.op = "OracleBit" => EvalStmt(s, st) = [vals |-> Append(st.vals, <<s.occurrence, Reads(s.args, st.vals)>> \in Oracle), mem |-> st.mem]
  BY EvalOracle, Zenon
<1>10. s.op = "StorageWrite" => EvalStmt(s, st) = [vals |-> Append(st.vals, FALSE),
                            mem |-> Stored(st.mem, StmtCell(s, st.vals), Reads(s.args, st.vals)[1])]
  BY EvalWrite, Zenon
<1>11. s.op = "ActionStoreBit" => EvalToggling(s, st) = [vals |-> Append(st.vals, FALSE),
                            mem |-> Flipped(st.mem, StmtCell(s, st.vals), ActionValue(Reads(s.args, st.vals)))]
  BY EvalStore, Zenon
<1>12. s.op # "ActionStoreBit" => EvalToggling(s, st) = EvalStmt(s, st)
  BY TogglingSame, Zenon
<1> QED BY <1>1, <1>2, <1>3, <1>4, <1>5, <1>6, <1>7, <1>8, <1>9, <1>10, <1>11, <1>12, Zenon DEF Gives

(* The values of the operands of a statement.                              *)
LEMMA OperandValues ==
  ASSUME NEW s, NEW vals
  PROVE  \A k \in 1 .. Len(s.args) : Reads(s.args, vals)[k] = vals[s.args[k]]
BY DEF Reads, MapSeq

(* Constants.                                                              *)
LEMMA ConstDoes ==
  ASSUME Room, NEW s, Lowerable(s), s.op \in {"Zero", "One"},
         NEW n \in Nat, n >= pool.next_fresh - 1, NEW st \in States(n)
  PROVE  PoolMoves(LowerStmt(s)) /\ Does(n, s, LowerStmt(s), st)
<1>1. next_anc \in 1 .. n /\ next_anc <= pool.base
  BY Places
<1>2. PICK done : done = LowerStmt(s)
  OBVIOUS
<1>3. PICK to : to = Run!Fold(st, done.gates)
  OBVIOUS
<1>4. CASE s.op = "Zero"
  <2>1. done.wire = next_anc /\ done.pool = pool /\ done.gates = << >>
    BY <1>2, <1>4 DEF LowerStmt, NewWire, Lowered
  <2>2. to = st
    BY <1>3, <2>1, Run!FoldEmpty
  <2>3. PoolMoves(done) /\ Frame(n, done, st, to)
    BY <1>1, <2>1, <2>2, OneWireFrame
  <2>4. ASSUME NEW vals, Given(n, s, st, vals) PROVE Yields(s, done, st, to, vals)
    <3>1. to.wires[next_anc] = FALSE /\ to.mem = st.mem
      BY <2>2, <2>4 DEF Given
    <3>2. Gives(s, vals, st.mem, FALSE, st.mem)
      BY <1>4, EvalAt
    <3> QED BY <2>1, <3>1, <3>2 DEF Yields
  <2> QED BY <1>2, <1>3, <2>3, <2>4 DEF Does
<1>5. CASE s.op = "One"
  <2>1. done.wire = next_anc /\ done.pool = pool /\ done.gates = <<X(next_anc)>>
    BY <1>2, <1>5 DEF LowerStmt, NewWire, Lowered
  <2>2. Toggles(n, st, next_anc, TRUE, to)
    BY ZenonT(40), <1>1, <1>3, <2>1, RunOne, GateToggles
  <2>3. PoolMoves(done) /\ Frame(n, done, st, to)
    BY <1>1, <2>1, <2>2, OneWireFrame DEF Toggles
  <2>4. ASSUME NEW vals, Given(n, s, st, vals) PROVE Yields(s, done, st, to, vals)
    <3>1. to.wires[next_anc] = TRUE /\ to.mem = st.mem
      BY <2>2, <2>4 DEF Given, Toggles
    <3>2. Gives(s, vals, st.mem, TRUE, st.mem)
      BY <1>5, EvalAt
    <3> QED BY <2>1, <3>1, <3>2 DEF Yields
  <2> QED BY <1>2, <1>3, <2>3, <2>4 DEF Does
<1> QED BY <1>4, <1>5

(* Bits added up.                                                          *)
LEMMA Bits ==
  ASSUME NEW a \in BOOLEAN, NEW b \in BOOLEAN
  PROVE  /\ (FALSE # a) = a /\ ((FALSE # a) # TRUE) = ~a /\ ((FALSE # a) # b) = (a # b)
         /\ ((a # b) # b) = a
         /\ ((FALSE # (~a /\ ~b)) # TRUE) = (a \/ b)
<1>1. a = TRUE \/ a = FALSE
  OBVIOUS
<1>2. b = TRUE \/ b = FALSE
  OBVIOUS
<1> QED BY <1>1, <1>2

(* The first two operands: their wires, and their values.                  *)
LEMMA OperandParts ==
  ASSUME Room, NEW s, Lowerable(s), NEW n \in Nat, n >= pool.next_fresh - 1, NEW st
  PROVE  /\ s.args \in Seq(Nat \ {0}) /\ s.addr \in Seq(Nat \ {0}) /\ Len(s.args) \in Nat
         /\ \A k \in 1 .. Len(s.args) :
              /\ WiresOf(s.args)[k] = wire_of[s.args[k]] /\ s.args[k] \in 1 .. Len(wire_of)
              /\ WiresOf(s.args)[k] \in 1 .. n /\ WiresOf(s.args)[k] < next_anc
         /\ \A vals : Given(n, s, st, vals) =>
              /\ Reads(WiresOf(s.args), st.wires) = Reads(s.args, vals)
              /\ Reads(WiresOf(s.addr), st.wires) = Reads(s.addr, vals)
              /\ \A k \in 1 .. Len(s.args) :
                   st.wires[WiresOf(s.args)[k]] = Reads(s.args, vals)[k] /\ Reads(s.args, vals)[k] \in BOOLEAN
<1>1. s.args \in Seq(Nat \ {0}) /\ s.addr \in Seq(Nat \ {0})
  BY StmtFacts DEF Lowerable
<1>2. Range(s.args) \subseteq 1 .. Len(wire_of) /\ Range(s.addr) \subseteq 1 .. Len(wire_of)
  BY DEF Lowerable
<1>3. Len(s.args) \in Nat /\ \A k \in 1 .. Len(s.args) : s.args[k] \in 1 .. Len(wire_of) /\ WiresOf(s.args)[k] = wire_of[s.args[k]]
  BY <1>1, <1>2, OperandWires
<1>4. \A v \in 1 .. Len(wire_of) : wire_of[v] \in 1 .. n /\ wire_of[v] < next_anc
  BY Places
<1>5. ASSUME NEW vals, Given(n, s, st, vals)
      PROVE  /\ Reads(WiresOf(s.args), st.wires) = Reads(s.args, vals)
             /\ Reads(WiresOf(s.addr), st.wires) = Reads(s.addr, vals)
             /\ \A k \in 1 .. Len(s.args) :
                  st.wires[WiresOf(s.args)[k]] = Reads(s.args, vals)[k] /\ Reads(s.args, vals)[k] \in BOOLEAN
  <2>1. Reads(WiresOf(s.args), st.wires) = Reads(s.args, vals)
    <3>1. Shown(s.args, st.wires, vals)
      BY <1>1, <1>2, <1>5 DEF Given, Shown
    <3> QED BY <3>1, OperandReads
  <2>2. Reads(WiresOf(s.addr), st.wires) = Reads(s.addr, vals)
    <3>1. Shown(s.addr, st.wires, vals)
      BY <1>1, <1>2, <1>5 DEF Given, Shown
    <3> QED BY <3>1, OperandReads
  <2>3. ASSUME NEW k \in 1 .. Len(s.args)
        PROVE  st.wires[WiresOf(s.args)[k]] = Reads(s.args, vals)[k] /\ Reads(s.args, vals)[k] \in BOOLEAN
    <3>1. Reads(s.args, vals)[k] = vals[s.args[k]]
      BY OperandValues
    <3>2. vals[s.args[k]] \in BOOLEAN
      BY <1>3, <1>5 DEF Given
    <3>3. st.wires[WiresOf(s.args)[k]] = vals[s.args[k]]
      BY <1>3, <1>5 DEF Given
    <3> QED BY <3>1, <3>2, <3>3
  <2> QED BY <2>1, <2>2, <2>3
<1> QED BY <1>1, <1>3, <1>4, <1>5

(* The values of operands are bits.                                        *)
LEMMA OperandBits ==
  ASSUME Room, NEW s, Lowerable(s), NEW n \in Nat, n >= pool.next_fresh - 1, NEW st,
         NEW vals, Given(n, s, st, vals), NEW k \in 1 .. Len(s.args)
  PROVE  st.wires[WiresOf(s.args)[k]] = Reads(s.args, vals)[k] /\ Reads(s.args, vals)[k] \in BOOLEAN
BY OperandParts

(* Not: a copy of the operand, toggled.                                    *)
LEMMA NotDoes ==
  ASSUME Room, NEW s, Lowerable(s), s.op = "Not",
         NEW n \in Nat, n >= pool.next_fresh - 1, NEW st \in States(n)
  PROVE  PoolMoves(LowerStmt(s)) /\ Does(n, s, LowerStmt(s), st)
<1>1. next_anc \in 1 .. n /\ next_anc <= pool.base
  BY Places
<1>2. PICK done : done = LowerStmt(s)
  OBVIOUS
<1>3. PICK to : to = Run!Fold(st, done.gates)
  OBVIOUS
<1>4. PICK c : c = WiresOf(s.args)[1]
  OBVIOUS
<1>5. 1 \in 1 .. Len(s.args) /\ c \in 1 .. n /\ c < next_anc
  <2>1. Len(s.args) = 1
    BY StmtFacts DEF Lowerable, StmtShape
  <2>2. 1 \in 1 .. Len(s.args)
    BY <2>1
  <2> QED BY <1>4, <2>2, OperandParts
<1>6. done.wire = next_anc /\ done.pool = pool /\ done.gates = <<Cnot(c, next_anc), X(next_anc)>>
  BY <1>2, <1>4 DEF LowerStmt, NewWire, Lowered, WiresOf
<1>7. PICK s1 : s1 = Applied(st, Cnot(c, next_anc))
  OBVIOUS
<1>8. to = Applied(s1, X(next_anc))
  BY <1>3, <1>6, <1>7, RunTwo
<1>9. Toggles(n, st, next_anc, st.wires[c], s1)
  BY <1>1, <1>5, <1>7, GateToggles
<1>10. Toggles(n, s1, next_anc, TRUE, to)
  <2>1. s1 \in States(n)
    BY <1>9 DEF Toggles
  <2> QED BY <1>1, <1>8, <2>1, GateToggles
<1>11. /\ to \in States(n) /\ to.mem = st.mem /\ to.wires[next_anc] = ((st.wires[next_anc] # st.wires[c]) # TRUE)
       /\ \A w \in 1 .. n : w # next_anc => to.wires[w] = st.wires[w]
  BY <1>1, <1>9, <1>10 DEF Toggles
<1>12. PoolMoves(done) /\ Frame(n, done, st, to)
  BY <1>1, <1>6, <1>11, OneWireFrame
<1>13. ASSUME NEW vals, Given(n, s, st, vals) PROVE Yields(s, done, st, to, vals)
  <2>1. PICK a \in BOOLEAN : a = Reads(s.args, vals)[1] /\ a = st.wires[c]
    BY <1>4, <1>5, <1>13, OperandParts
  <2>2. to.wires[next_anc] = ~a
    BY <1>11, <1>13, <2>1, Bits DEF Given
  <2>3. Gives(s, vals, st.mem, ~Reads(s.args, vals)[1], st.mem)
    BY EvalAt
  <2> QED BY <1>6, <1>11, <2>1, <2>2, <2>3 DEF Yields
<1> QED BY <1>2, <1>3, <1>12, <1>13 DEF Does

(* And: a Toffoli gate.                                                    *)
LEMMA AndDoes ==
  ASSUME Room, NEW s, Lowerable(s), s.op = "And",
         NEW n \in Nat, n >= pool.next_fresh - 1, NEW st \in States(n)
  PROVE  PoolMoves(LowerStmt(s)) /\ Does(n, s, LowerStmt(s), st)
<1>1. next_anc \in 1 .. n /\ next_anc <= pool.base
  BY Places
<1>2. PICK done : done = LowerStmt(s)
  OBVIOUS
<1>3. PICK to : to = Run!Fold(st, done.gates)
  OBVIOUS
<1>4. PICK c, d : c = WiresOf(s.args)[1] /\ d = WiresOf(s.args)[2]
  OBVIOUS
<1>5. 1 \in 1 .. Len(s.args) /\ 2 \in 1 .. Len(s.args) /\ c \in 1 .. n /\ d \in 1 .. n
  <2>1. Len(s.args) = 2
    BY StmtFacts DEF Lowerable, StmtShape
  <2>2. 1 \in 1 .. Len(s.args) /\ 2 \in 1 .. Len(s.args)
    BY <2>1
  <2> QED BY <1>4, <2>2, OperandParts
<1>6. done.wire = next_anc /\ done.pool = pool /\ done.gates = <<Ccnot(c, d, next_anc)>>
  BY <1>2, <1>4 DEF LowerStmt, NewWire, Lowered, WiresOf
<1>7. Toggles(n, st, next_anc, st.wires[c] /\ st.wires[d], to)
  <2>1. to = Applied(st, Ccnot(c, d, next_anc))
    BY <1>3, <1>6, RunOne
  <2>2. Toggles(n, st, next_anc, st.wires[c] /\ st.wires[d], Applied(st, Ccnot(c, d, next_anc)))
    BY <1>1, <1>5, GateToggles, Zenon
  <2> QED BY <2>1, <2>2, Zenon
<1>8. PoolMoves(done) /\ Frame(n, done, st, to)
  BY <1>1, <1>6, <1>7, OneWireFrame DEF Toggles
<1>9. ASSUME NEW vals, Given(n, s, st, vals) PROVE Yields(s, done, st, to, vals)
  <2>1. PICK args : args = Reads(s.args, vals)
    OBVIOUS
  <2>2. args[1] \in BOOLEAN /\ args[2] \in BOOLEAN /\ st.wires[c] = args[1] /\ st.wires[d] = args[2]
    BY <1>4, <1>5, <1>9, <2>1, OperandParts
  <2>3. PICK a \in BOOLEAN : a = (args[1] /\ args[2])
    BY <2>2
  <2>4. to.wires[next_anc] = a /\ to.mem = st.mem
    BY <1>7, <1>9, <2>2, <2>3, Bits DEF Given, Toggles
  <2>5. Gives(s, vals, st.mem, args[1] /\ args[2], st.mem)
    BY <2>1, EvalAt
  <2> QED BY <1>6, <2>3, <2>4, <2>5 DEF Yields
<1> QED BY <1>2, <1>3, <1>8, <1>9 DEF Does

(* OracleBit: the oracle's answer.                                         *)
LEMMA OracleDoes ==
  ASSUME Room, NEW s, Lowerable(s), s.op = "OracleBit",
         NEW n \in Nat, n >= pool.next_fresh - 1, NEW st \in States(n)
  PROVE  PoolMoves(LowerStmt(s)) /\ Does(n, s, LowerStmt(s), st)
<1>1. next_anc \in 1 .. n /\ next_anc <= pool.base
  BY Places
<1>2. PICK done : done = LowerStmt(s)
  OBVIOUS
<1>3. PICK to : to = Run!Fold(st, done.gates)
  OBVIOUS
<1>4. PICK g : g = ExternalXor(s, WiresOf(s.args), next_anc)
  OBVIOUS
<1>5. g.op = "ExternalXor" /\ g.args = WiresOf(s.args) /\ g.target = next_anc /\ g.occurrence = s.occurrence
  BY <1>4 DEF ExternalXor, Gate
<1>6. done.wire = next_anc /\ done.pool = pool /\ done.gates = <<g>>
  BY <1>2, <1>4 DEF LowerStmt, NewWire, Lowered, WiresOf
<1>7. to = Applied(st, g)
  BY <1>3, <1>6, RunOne
<1>8. Toggles(n, st, next_anc, BitOf(g, st.wires), to)
  BY <1>1, <1>5, <1>7, BitToggles
<1>9. PoolMoves(done) /\ Frame(n, done, st, to)
  BY <1>1, <1>6, <1>8, OneWireFrame DEF Toggles
<1>10. ASSUME NEW vals, Given(n, s, st, vals) PROVE Yields(s, done, st, to, vals)
  <2>1. PICK args : args = Reads(s.args, vals)
    OBVIOUS
  <2>2. Reads(g.args, st.wires) = args
    BY <1>5, <1>10, <2>1, OperandParts
  <2>3. BitOf(g, st.wires) = (<<s.occurrence, args>> \in Oracle)
    BY <1>5, <2>2 DEF BitOf
  <2>4. PICK a \in BOOLEAN : a = (<<s.occurrence, args>> \in Oracle) /\ a = BitOf(g, st.wires)
    BY <1>8, <2>3 DEF Toggles
  <2>5. to.wires[next_anc] = a /\ to.mem = st.mem
    BY <1>8, <1>10, <2>4, Bits DEF Given, Toggles
  <2>6. Gives(s, vals, st.mem, <<s.occurrence, args>> \in Oracle, st.mem)
    BY <2>1, EvalAt
  <2> QED BY <1>6, <2>4, <2>5, <2>6 DEF Yields
<1> QED BY <1>2, <1>3, <1>9, <1>10 DEF Does

(* The wires of a statement's address and arguments are in the circuit.    *)
LEMMA OperandsInside ==
  ASSUME Room, NEW s, Lowerable(s), NEW n \in Nat, n >= pool.next_fresh - 1, NEW wires \in [1 .. n -> BOOLEAN]
  PROVE  /\ WiresOf(s.args) \in Seq(Nat) /\ WiresOf(s.addr) \in Seq(Nat)
         /\ Range(WiresOf(s.args)) \subseteq 1 .. n /\ Range(WiresOf(s.addr)) \subseteq 1 .. n
         /\ Range(WiresOf(s.addr)) \subseteq 1 .. next_anc - 1
         /\ Reads(WiresOf(s.args), wires) \in Seq(BOOLEAN)
         /\ Len(Reads(WiresOf(s.args), wires)) = Len(s.args)
         /\ <<s.lane, Reads(WiresOf(s.addr), wires)>> \in Cells
<1>1. s.args \in Seq(Nat \ {0}) /\ s.addr \in Seq(Nat \ {0}) /\ s.lane \in Nat
  BY StmtFacts DEF Lowerable
<1>2. Range(s.args) \subseteq 1 .. Len(wire_of) /\ Range(s.addr) \subseteq 1 .. Len(wire_of)
  BY DEF Lowerable
<1>3. PICK args \in Seq(Nat), addr \in Seq(Nat) :
        /\ args = WiresOf(s.args) /\ addr = WiresOf(s.addr) /\ Len(args) = Len(s.args)
        /\ Range(args) \subseteq 1 .. next_anc - 1 /\ Range(addr) \subseteq 1 .. next_anc - 1
  BY <1>1, <1>2, OperandWires
<1>4. \A w \in 1 .. next_anc - 1 : w \in 1 .. n
  BY Places
<1>5. Range(args) \subseteq 1 .. n /\ Range(addr) \subseteq 1 .. n
  BY <1>3, <1>4
<1>6. /\ Reads(args, wires) \in Seq(BOOLEAN) /\ Len(Reads(args, wires)) = Len(args)
      /\ Reads(addr, wires) \in Seq(BOOLEAN)
  BY <1>5, MapBits DEF Reads
<1>7. <<s.lane, Reads(addr, wires)>> \in Cells
  BY <1>1, <1>6 DEF Cells
<1> QED BY <1>3, <1>5, <1>6, <1>7

(* ActionStoreBit: the action's answer goes to storage; the result is 0.   *)
LEMMA StoreDoes ==
  ASSUME Room, NEW s, Lowerable(s), s.op = "ActionStoreBit",
         NEW n \in Nat, n >= pool.next_fresh - 1, NEW st \in States(n)
  PROVE  PoolMoves(LowerStmt(s)) /\ Does(n, s, LowerStmt(s), st)
<1>1. next_anc \in 1 .. n /\ next_anc <= pool.base
  BY Places
<1>2. PICK done : done = LowerStmt(s)
  OBVIOUS
<1>3. PICK to : to = Run!Fold(st, done.gates)
  OBVIOUS
<1>4. PICK g : g = ExternalStorageXor(s, WiresOf(s.args), WiresOf(s.addr))
  OBVIOUS
<1>5. g.op = "ExternalStorageXor" /\ g.args = WiresOf(s.args) /\ g.addr = WiresOf(s.addr) /\ g.lane = s.lane
  BY <1>4 DEF ExternalStorageXor, Gate
<1>6. done.wire = next_anc /\ done.pool = pool /\ done.gates = <<g>>
  BY <1>2, <1>4 DEF LowerStmt, NewWire, Lowered, WiresOf
<1>7. to = Applied(st, g)
  BY <1>3, <1>6, RunOne
<1>8. PICK cell, m : /\ cell \in Cells /\ cell = CellOf(g, st.wires)
                     /\ m = Flipped(st.mem, cell, ActionValue(Reads(g.args, st.wires)))
  BY <1>5, OperandsInside, StateParts DEF CellOf
<1>9. to = [wires |-> st.wires, mem |-> m]
  BY <1>5, <1>7, <1>8, StoreApplied DEF Applied
<1>10. m \in SUBSET Cells
  BY <1>8, StateParts, StoredInCells DEF Flipped
<1>11. to \in States(n) /\ to.wires = st.wires /\ to.mem = m
  BY <1>9, <1>10, StateParts DEF States
<1>12. PoolMoves(done) /\ Frame(n, done, st, to)
  BY <1>1, <1>6, <1>11, OneWireFrame
<1>13. ASSUME NEW vals, Given(n, s, st, vals) PROVE Yields(s, done, st, to, vals)
  <2>1. PICK args : args = Reads(s.args, vals)
    OBVIOUS
  <2>2. Reads(g.args, st.wires) = args
    BY <1>5, <1>13, <2>1, OperandParts
  <2>3. cell = StmtCell(s, vals)
    <3>1. Reads(g.addr, st.wires) = Reads(s.addr, vals) /\ g.lane = s.lane
      BY <1>5, <1>13, OperandParts
    <3> QED BY <1>8, <3>1, CellReads DEF CellOf
  <2>4. to.wires[next_anc] = FALSE
    BY <1>11, <1>13 DEF Given
  <2>5. Gives(s, vals, st.mem, FALSE, Flipped(st.mem, StmtCell(s, vals), ActionValue(args)))
    BY <2>1, EvalAt
  <2> QED BY <1>6, <1>8, <1>11, <2>2, <2>3, <2>4, <2>5 DEF Yields
<1> QED BY <1>2, <1>3, <1>12, <1>13 DEF Does

(* Different operands of a statement have different wires.                 *)
Apart(s) ==
  \A j, k \in 1 .. Len(s.args) : s.args[j] # s.args[k] => wire_of[s.args[j]] # wire_of[s.args[k]]

(* The result of a statement goes to a new wire, or the result of an Xor   *)
(* to that of an operand nobody else reads.                                *)
Taken(s, c, other) ==
  /\ \/ c = s.args[1] /\ other = s.args[2]
     \/ c = s.args[2] /\ other = s.args[1]
  /\ c # other /\ c > circ.params /\ uses[c] = 1

(* An Xor that takes over the wire of an operand.                          *)
LEMMA XorTakes ==
  ASSUME NEW s, s.op = "Xor", Consumed(s.args[1], s.args[2]) # {}
  PROVE  \E c, other :
           /\ Taken(s, c, other)
           /\ LowerStmt(s) = Lowered(<<Cnot(wire_of[other], wire_of[c])>>, wire_of[c], pool)
<1>1. PICK a, b : a = s.args[1] /\ b = s.args[2]
  OBVIOUS
<1>2. PICK c : c = CHOOSE v \in Consumed(a, b) : TRUE
  OBVIOUS
<1>3. c \in Consumed(a, b)
  BY <1>1, <1>2
<1>4. a # b /\ c \in {a, b} /\ c > circ.params /\ uses[c] = 1
  BY <1>3 DEF Consumed
<1>5. PICK other : other = IF c = a THEN b ELSE a
  OBVIOUS
<1>6. LowerXor(a, b) = Lowered(<<Cnot(wire_of[other], wire_of[c])>>, wire_of[c], pool)
  BY <1>1, <1>2, <1>5 DEF LowerXor
<1>7. LowerStmt(s) = LowerXor(a, b)
  BY <1>1 DEF LowerStmt
<1>8. Taken(s, c, other)
  BY <1>1, <1>4, <1>5 DEF Taken
<1> QED BY <1>6, <1>7, <1>8

(* Xor on the wire of an operand.                                          *)
LEMMA XorTakenDoes ==
  ASSUME Room, NEW s, Lowerable(s), s.op = "Xor", Apart(s), Consumed(s.args[1], s.args[2]) # {},
         NEW n \in Nat, n >= pool.next_fresh - 1, NEW st \in States(n)
  PROVE  PoolMoves(LowerStmt(s)) /\ Does(n, s, LowerStmt(s), st)
<1>1. next_anc \in 1 .. n /\ next_anc <= pool.base /\ pool.base \in Nat
  BY Places
<1>2. PICK done : done = LowerStmt(s)
  OBVIOUS
<1>3. PICK to : to = Run!Fold(st, done.gates)
  OBVIOUS
<1>4. PICK c, other : /\ Taken(s, c, other)
                      /\ done = Lowered(<<Cnot(wire_of[other], wire_of[c])>>, wire_of[c], pool)
  BY <1>2, XorTakes
<1>5. PICK t, u : t = wire_of[c] /\ u = wire_of[other]
  OBVIOUS
<1>6. 1 \in 1 .. Len(s.args) /\ 2 \in 1 .. Len(s.args)
  <2>1. Len(s.args) = 2
    BY StmtFacts DEF Lowerable, StmtShape
  <2> QED BY <2>1
<1>7. PICK j \in 1 .. Len(s.args), k \in 1 .. Len(s.args) :
        /\ c = s.args[j] /\ other = s.args[k]
        /\ \/ j = 1 /\ k = 2
           \/ j = 2 /\ k = 1
  BY <1>4, <1>6 DEF Taken
<1>8. /\ t = WiresOf(s.args)[j] /\ u = WiresOf(s.args)[k]
      /\ t \in 1 .. n /\ u \in 1 .. n /\ t < next_anc
  BY SMTT(30), <1>5, <1>7, OperandParts
<1>9. t # u
  BY <1>4, <1>5, <1>7 DEF Apart, Taken
<1>10. done.wire = t /\ done.pool = pool /\ done.gates = <<Cnot(u, t)>>
  BY <1>4, <1>5 DEF Lowered
<1>11. Toggles(n, st, t, st.wires[u], to)
  <2>1. to = Applied(st, Cnot(u, t))
    BY <1>3, <1>10, RunOne
  <2>2. Toggles(n, st, t, st.wires[u], Applied(st, Cnot(u, t)))
    BY <1>8, GateToggles
  <2> QED BY <2>1, <2>2
<1>12. PoolMoves(done) /\ Frame(n, done, st, to)
  <2>1. done.wire <= pool.base
    BY <1>1, <1>8, <1>10
  <2> QED BY <2>1, <1>10, <1>11, OneWireFrame DEF Toggles
<1>13. ASSUME NEW vals, Given(n, s, st, vals) PROVE Yields(s, done, st, to, vals)
  <2>1. PICK args : args = Reads(s.args, vals)
    OBVIOUS
  <2>2. /\ st.wires[t] = args[j] /\ st.wires[u] = args[k]
        /\ args[j] \in BOOLEAN /\ args[k] \in BOOLEAN
    <3>1. /\ st.wires[WiresOf(s.args)[j]] = Reads(s.args, vals)[j] /\ Reads(s.args, vals)[j] \in BOOLEAN
          /\ st.wires[WiresOf(s.args)[k]] = Reads(s.args, vals)[k] /\ Reads(s.args, vals)[k] \in BOOLEAN
      BY <1>13, OperandBits
    <3> QED BY <1>8, <2>1, <3>1
  <2>3. PICK a \in BOOLEAN : a = (args[1] # args[2])
    OBVIOUS
  <2>4. to.wires[t] = a /\ to.mem = st.mem
    <3>1. to.wires[t] = (args[j] # args[k]) /\ to.mem = st.mem
      BY <1>11, <2>2 DEF Toggles
    <3>2. (args[j] # args[k]) = (args[1] # args[2])
      BY <1>7
    <3> QED BY <2>3, <3>1, <3>2, Zenon
  <2>5. Gives(s, vals, st.mem, args[1] # args[2], st.mem)
    BY <2>1, EvalAt
  <2> QED BY <1>10, <2>3, <2>4, <2>5 DEF Yields
<1> QED BY <1>2, <1>3, <1>12, <1>13 DEF Does

(* Xor on a wire of its own.                                               *)
LEMMA XorNewDoes ==
  ASSUME Room, NEW s, Lowerable(s), s.op = "Xor", Consumed(s.args[1], s.args[2]) = {},
         NEW n \in Nat, n >= pool.next_fresh - 1, NEW st \in States(n)
  PROVE  /\ LowerStmt(s).wire = next_anc
         /\ PoolMoves(LowerStmt(s)) /\ Does(n, s, LowerStmt(s), st)
<1>1. next_anc \in 1 .. n /\ next_anc <= pool.base
  BY Places
<1>2. PICK done : done = LowerStmt(s)
  OBVIOUS
<1>3. PICK to : to = Run!Fold(st, done.gates)
  OBVIOUS
<1>4. PICK c, d : c = WiresOf(s.args)[1] /\ d = WiresOf(s.args)[2]
  OBVIOUS
<1>5. /\ 1 \in 1 .. Len(s.args) /\ 2 \in 1 .. Len(s.args)
      /\ c \in 1 .. n /\ d \in 1 .. n /\ c < next_anc /\ d < next_anc
      /\ c = wire_of[s.args[1]] /\ d = wire_of[s.args[2]]
  <2>1. Len(s.args) = 2
    BY StmtFacts DEF Lowerable, StmtShape
  <2>2. 1 \in 1 .. Len(s.args) /\ 2 \in 1 .. Len(s.args)
    BY <2>1
  <2> QED BY <1>4, <2>2, OperandParts
<1>6. done.wire = next_anc /\ done.pool = pool /\ done.gates = <<Cnot(c, next_anc), Cnot(d, next_anc)>>
  BY <1>2, <1>5 DEF LowerStmt, LowerXor, NewWire, Lowered
<1>7. PICK s1 : s1 = Applied(st, Cnot(c, next_anc))
  OBVIOUS
<1>8. to = Applied(s1, Cnot(d, next_anc))
  BY <1>3, <1>6, <1>7, RunTwo
<1>9. Toggles(n, st, next_anc, st.wires[c], s1)
  BY <1>1, <1>5, <1>7, GateToggles
<1>10. Toggles(n, s1, next_anc, st.wires[d], to)
  <2>1. s1 \in States(n)
    BY <1>9 DEF Toggles
  <2>2. Toggles(n, s1, next_anc, s1.wires[d], to)
    BY <1>1, <1>5, <1>8, <2>1, GateToggles
  <2>3. s1.wires[d] = st.wires[d]
    <3>1. d # next_anc
      BY <1>1, <1>5
    <3> QED BY <1>5, <1>9, <3>1 DEF Toggles
  <2> QED BY <2>2, <2>3
<1>11. /\ to \in States(n) /\ to.mem = st.mem /\ to.wires[next_anc] = ((st.wires[next_anc] # st.wires[c]) # st.wires[d])
       /\ \A w \in 1 .. n : w # next_anc => to.wires[w] = st.wires[w]
  BY <1>1, <1>9, <1>10 DEF Toggles
<1>12. PoolMoves(done) /\ Frame(n, done, st, to)
  BY <1>1, <1>6, <1>11, OneWireFrame
<1>13. ASSUME NEW vals, Given(n, s, st, vals) PROVE Yields(s, done, st, to, vals)
  <2>1. PICK args : args = Reads(s.args, vals)
    OBVIOUS
  <2>2. args[1] \in BOOLEAN /\ args[2] \in BOOLEAN /\ st.wires[c] = args[1] /\ st.wires[d] = args[2]
    <3>1. \A k \in 1 .. Len(s.args) :
            st.wires[WiresOf(s.args)[k]] = Reads(s.args, vals)[k] /\ Reads(s.args, vals)[k] \in BOOLEAN
      BY <1>13, OperandParts
    <3> QED BY <1>4, <1>5, <2>1, <3>1
  <2>3. PICK a \in BOOLEAN : a = (args[1] # args[2])
    OBVIOUS
  <2>4. to.wires[next_anc] = a
    BY <1>11, <1>13, <2>2, <2>3, Bits DEF Given
  <2>5. Gives(s, vals, st.mem, args[1] # args[2], st.mem)
    BY <2>1, EvalAt
  <2> QED BY <1>6, <1>11, <2>3, <2>4, <2>5 DEF Yields
<1> QED BY <1>2, <1>3, <1>6, <1>12, <1>13 DEF Does

-----------------------------------------------------------------------------
(* Statements that use scratch wires.                                      *)

(* Cell and wire t change places, and nothing else changes.                *)
Swaps(n, st, t, cell, now) ==
  /\ now \in States(n)
  /\ now.wires[t] = (cell \in st.mem)
  /\ \A w \in 1 .. n : w # t => now.wires[w] = st.wires[w]
  /\ now.mem = Stored(st.mem, cell, st.wires[t])

(* StorageSwap does that.                                                  *)
LEMMA SwapDoes ==
  ASSUME NEW n \in Nat, NEW st \in States(n), NEW s, NEW addr, NEW t \in 1 .. n,
         NEW cell \in Cells, cell = <<s.lane, Reads(addr, st.wires)>>
  PROVE  Swaps(n, st, t, cell, Applied(st, StorageSwap(s, addr, t)))
<1>1. PICK g : g = StorageSwap(s, addr, t)
  OBVIOUS
<1>2. g.op = "StorageSwap" /\ g.addr = addr /\ g.target = t /\ g.lane = s.lane
  BY <1>1 DEF StorageSwap, Gate
<1>3. CellOf(g, st.wires) = cell
  BY <1>2 DEF CellOf
<1>4. PICK held \in BOOLEAN : /\ held <=> cell \in st.mem
                              /\ Applied(st, g) = [wires |-> [st.wires EXCEPT ![t] = held],
                                                   mem |-> Stored(st.mem, cell, st.wires[t])]
  BY <1>2, <1>3, SwapApplied DEF Applied
<1>5. PICK now : now = Applied(st, g)
  OBVIOUS
<1>6. /\ now.wires \in [1 .. n -> BOOLEAN] /\ now.wires[t] = held
      /\ \A w \in 1 .. n : w # t => now.wires[w] = st.wires[w]
      /\ now.mem = Stored(st.mem, cell, st.wires[t])
  BY <1>4, <1>5, StateParts
<1>7. now \in States(n)
  <2>1. now.mem \in SUBSET Cells
    BY <1>6, StateParts, StoredInCells
  <2> QED BY <1>4, <1>5, <1>6, <2>1 DEF States
<1>8. held = (cell \in st.mem)
  BY <1>4
<1> QED BY <1>1, <1>5, <1>6, <1>7, <1>8 DEF Swaps

(* What was stored is there; and what was there can be stored back.        *)
LEMMA StoredBack ==
  ASSUME NEW mem, NEW cell, NEW bit \in BOOLEAN
  PROVE  /\ (cell \in Stored(mem, cell, bit)) = bit
         /\ Stored(Stored(mem, cell, bit), cell, cell \in mem) = mem
<1>1. CASE bit = TRUE
  <2>1. Stored(mem, cell, bit) = mem \cup {cell}
    BY <1>1 DEF Stored
  <2>2. cell \in Stored(mem, cell, bit)
    BY <2>1
  <2>3. Stored(Stored(mem, cell, bit), cell, cell \in mem) = mem
    BY <2>1 DEF Stored
  <2> QED BY <1>1, <2>2, <2>3
<1>2. CASE bit = FALSE
  <2>1. Stored(mem, cell, bit) = mem \ {cell}
    BY <1>2 DEF Stored
  <2>2. cell \notin Stored(mem, cell, bit)
    BY <2>1
  <2>3. Stored(Stored(mem, cell, bit), cell, cell \in mem) = mem
    BY <2>1 DEF Stored
  <2> QED BY <1>2, <2>2, <2>3
<1> QED BY <1>1, <1>2

(* What is read depends on the wires that are read only.                   *)
LEMMA ReadsAgree ==
  ASSUME NEW seq \in Seq(Nat), NEW u, NEW v, \A w \in Range(seq) : u[w] = v[w]
  PROVE  Reads(seq, u) = Reads(seq, v)
<1>1. Len(seq) \in Nat /\ \A k \in 1 .. Len(seq) : u[seq[k]] = v[seq[k]]
  BY DEF Range
<1> QED BY <1>1 DEF Reads, MapSeq

(* A wire that is lent and returned is all that changes.                   *)
LEMMA LentAndReturned ==
  ASSUME NEW p, PoolOK(p), NEW q, NEW t, Lends(p, q, t)
  PROVE  /\ PoolOK(release(q, t)) /\ release(q, t).base = p.base
         /\ release(q, t).next_fresh = q.next_fresh /\ p.next_fresh <= q.next_fresh
         /\ \A w \in Nat : Spare(release(q, t), w) => Spare(p, w)
<1>1. /\ PoolOK(q) /\ q.base = p.base /\ t \in q.base + 1 .. q.next_fresh - 1 /\ ~Spare(q, t)
      /\ p.next_fresh <= q.next_fresh /\ Spare(p, t) /\ \A w \in Nat : Spare(q, w) => Spare(p, w)
  BY DEF Lends
<1>2. /\ PoolOK(release(q, t))
      /\ release(q, t).base = q.base /\ release(q, t).next_fresh = q.next_fresh
      /\ \A w : Spare(release(q, t), w) <=> Spare(q, w) \/ w = t
  BY <1>1, ReleaseReturns
<1> QED BY <1>1, <1>2

(* A scratch wire that is lent, in a circuit of n wires.                   *)
LEMMA LentWire ==
  ASSUME Room, NEW q, NEW t, Lends(pool, q, t), NEW n \in Nat, n >= q.next_fresh - 1
  PROVE  /\ n >= pool.next_fresh - 1 /\ t \in 1 .. n /\ t > pool.base
         /\ next_anc \in 1 .. n /\ next_anc <= pool.base /\ t # next_anc
<1>1. /\ PoolOK(q) /\ q.base = pool.base /\ t \in pool.base + 1 .. q.next_fresh - 1
      /\ pool.next_fresh <= q.next_fresh
  BY DEF Lends
<1>2. PoolOK(pool)
  BY DEF Room, Geometry
<1>3. q.next_fresh \in Nat /\ pool.next_fresh \in Nat /\ pool.base \in Nat
  BY <1>1, <1>2, PoolParts
<1>4. n >= pool.next_fresh - 1 /\ t \in 1 .. n /\ t > pool.base
  BY <1>1, <1>3
<1>5. next_anc \in 1 .. n /\ next_anc <= pool.base
  BY <1>4, Places
<1> QED BY <1>3, <1>4, <1>5

(* Being in a set is a bit.                                                *)
LEMMA MemberBit ==
  ASSUME NEW x, NEW S
  PROVE  \E bit \in BOOLEAN : bit = (x \in S)
<1>1. CASE x \in S
  <2>1. TRUE = (x \in S)
    BY <1>1
  <2> QED BY <2>1, Zenon
<1>2. CASE x \notin S
  <2>1. FALSE = (x \in S)
    BY <1>2
  <2> QED BY <2>1, Zenon
<1> QED BY <1>1, <1>2

(* StorageRead: the cell is swapped out and back in.                       *)
LEMMA ReadDoes ==
  ASSUME Room, NEW s, Lowerable(s), s.op = "StorageRead",
         NEW n \in Nat, n >= LowerStmt(s).pool.next_fresh - 1, NEW st \in States(n)
  PROVE  /\ LowerStmt(s).wire = next_anc
         /\ PoolMoves(LowerStmt(s)) /\ Does(n, s, LowerStmt(s), st)
<1>1. PICK done : done = LowerStmt(s)
  OBVIOUS
<1>2. PICK to : to = Run!Fold(st, done.gates)
  OBVIOUS
<1>3. PICK t, q : t = Acquired(pool) /\ q = acquire(pool) /\ Lends(pool, q, t)
  BY AcquireLends DEF Room, Geometry
<1>4. PICK addr : addr = WiresOf(s.addr)
  OBVIOUS
<1>5. PICK g : g = StorageSwap(s, addr, t)
  OBVIOUS
<1>6. /\ done.wire = next_anc /\ done.gates = <<g, Cnot(t, next_anc), g>>
      /\ done.pool = IF share THEN release(q, t) ELSE q
  BY <1>1, <1>3, <1>4, <1>5 DEF LowerStmt, LowerRead, Lowered, WiresOf
<1>7. PoolMoves(done) /\ done.pool.next_fresh = q.next_fresh
  <2>1. PoolOK(pool)
    BY DEF Room, Geometry
  <2>2. CASE share
    BY <1>3, <1>6, <2>1, <2>2, LentAndReturned DEF PoolMoves
  <2>3. CASE ~share
    BY <1>3, <1>6, <2>3 DEF PoolMoves, Lends
  <2> QED BY <2>2, <2>3
<1>8. /\ n >= pool.next_fresh - 1 /\ t \in 1 .. n /\ t > pool.base
      /\ next_anc \in 1 .. n /\ next_anc <= pool.base /\ t # next_anc
  BY <1>1, <1>3, <1>7, LentWire
<1>9. PICK cell \in Cells : cell = <<s.lane, Reads(addr, st.wires)>>
  BY <1>4, <1>8, OperandsInside, StateParts
<1>10. addr \in Seq(Nat) /\ \A w \in Range(addr) : w \in 1 .. n /\ w # t /\ w # next_anc
  <2>1. pool.base \in Nat
    BY <1>8, Places
  <2>2. addr \in Seq(Nat) /\ \A w \in Range(addr) : w \in 1 .. n /\ w \in 1 .. next_anc - 1
    BY <1>4, <1>8, OperandsInside, StateParts
  <2> QED BY <1>8, <2>1, <2>2
<1>11. PICK s1, s2 : s1 = Applied(st, g) /\ s2 = Applied(s1, Cnot(t, next_anc))
  OBVIOUS
<1>12. to = Applied(s2, g)
  BY <1>2, <1>6, <1>11, RunThree
<1>13. Swaps(n, st, t, cell, s1)
  BY <1>5, <1>8, <1>9, <1>11, SwapDoes
<1>14. Toggles(n, s1, next_anc, s1.wires[t], s2)
  <2>1. s1 \in States(n)
    BY <1>13 DEF Swaps
  <2> QED BY <1>8, <1>11, <2>1, GateToggles
<1>15. Reads(addr, s2.wires) = Reads(addr, st.wires)
  <2>1. \A w \in Range(addr) : s2.wires[w] = st.wires[w]
    BY <1>10, <1>13, <1>14 DEF Swaps, Toggles
  <2> QED BY <1>10, <2>1, ReadsAgree
<1>16. Swaps(n, s2, t, cell, to)
  <2>1. s2 \in States(n)
    BY <1>14 DEF Toggles
  <2> QED BY <1>5, <1>8, <1>9, <1>12, <1>15, <2>1, SwapDoes
<1>17. PICK held \in BOOLEAN : held = (cell \in st.mem)
  BY MemberBit
<1>18. st.wires[t] \in BOOLEAN
  BY <1>8, StateParts
<1>19. s2.wires[t] = held /\ s2.mem = Stored(st.mem, cell, st.wires[t])
  BY <1>8, <1>13, <1>14, <1>17 DEF Swaps, Toggles
<1>20. to.wires[t] = st.wires[t] /\ to.mem = st.mem
  BY <1>16, <1>17, <1>18, <1>19, StoredBack DEF Swaps
<1>21. to.wires[next_anc] = (st.wires[next_anc] # held)
  <2>1. to.wires[next_anc] = s2.wires[next_anc]
    BY <1>8, <1>16 DEF Swaps
  <2>2. s2.wires[next_anc] = (s1.wires[next_anc] # s1.wires[t])
    BY <1>14 DEF Toggles
  <2>3. s1.wires[next_anc] = st.wires[next_anc] /\ s1.wires[t] = held
    BY <1>8, <1>13, <1>17 DEF Swaps
  <2> QED BY <2>1, <2>2, <2>3
<1>22. to \in States(n) /\ \A w \in 1 .. n : w # next_anc => to.wires[w] = st.wires[w]
  BY <1>13, <1>14, <1>16, <1>20 DEF Swaps, Toggles
<1>23. Frame(n, done, st, to)
  <2>1. ASSUME NEW w \in 1 .. n, Spare(done.pool, w) PROVE w # next_anc
    <3>1. Spare(pool, w)
      BY <1>7, <2>1 DEF PoolMoves
    <3>2. w > pool.base
      BY <3>1, SpareAbove DEF Room, Geometry
    <3> QED BY <1>8, <3>2, Places
  <2> QED BY <1>6, <1>22, <2>1 DEF Frame
<1>24. ASSUME NEW vals, Given(n, s, st, vals) PROVE Yields(s, done, st, to, vals)
  <2>1. cell = StmtCell(s, vals)
    <3>1. Reads(addr, st.wires) = Reads(s.addr, vals)
      BY <1>4, <1>8, <1>24, OperandParts
    <3> QED BY <1>9, <3>1, CellReads
  <2>2. to.wires[next_anc] = held
    BY <1>17, <1>21, <1>24, Bits DEF Given
  <2>3. Gives(s, vals, st.mem, StmtCell(s, vals) \in st.mem, st.mem)
    BY EvalAt
  <2> QED BY <1>6, <1>17, <1>20, <2>1, <2>2, <2>3 DEF Yields
<1> QED BY <1>1, <1>2, <1>6, <1>7, <1>23, <1>24 DEF Does

(* StorageWrite: a copy of the source is swapped in; what the cell held    *)
(* stays on the scratch wire, which is not returned.                       *)
LEMMA WriteDoes ==
  ASSUME Room, NEW s, Lowerable(s), s.op = "StorageWrite",
         NEW n \in Nat, n >= LowerStmt(s).pool.next_fresh - 1, NEW st \in States(n)
  PROVE  /\ LowerStmt(s).wire = next_anc
         /\ PoolMoves(LowerStmt(s)) /\ Does(n, s, LowerStmt(s), st)
<1>1. PICK done : done = LowerStmt(s)
  OBVIOUS
<1>2. PICK to : to = Run!Fold(st, done.gates)
  OBVIOUS
<1>3. PICK t, q : t = Acquired(pool) /\ q = acquire(pool) /\ Lends(pool, q, t)
  BY AcquireLends DEF Room, Geometry
<1>4. PICK addr, src : addr = WiresOf(s.addr) /\ src = WiresOf(s.args)[1]
  OBVIOUS
<1>5. PICK g : g = StorageSwap(s, addr, t)
  OBVIOUS
<1>6. done.wire = next_anc /\ done.gates = <<Cnot(src, t), g>> /\ done.pool = q
  BY <1>1, <1>3, <1>4, <1>5 DEF LowerStmt, LowerWrite, Lowered, WiresOf
<1>7. PoolMoves(done)
  BY <1>3, <1>6 DEF PoolMoves, Lends
<1>8. /\ n >= pool.next_fresh - 1 /\ t \in 1 .. n /\ t > pool.base
      /\ next_anc \in 1 .. n /\ next_anc <= pool.base /\ t # next_anc
  BY <1>1, <1>3, <1>6, LentWire
<1>9. 1 \in 1 .. Len(s.args) /\ src \in 1 .. n
  <2>1. Len(s.args) = 1
    BY StmtFacts DEF Lowerable, StmtShape
  <2>2. 1 \in 1 .. Len(s.args)
    BY <2>1
  <2> QED BY <1>4, <1>8, <2>2, OperandParts
<1>10. PICK cell \in Cells : cell = <<s.lane, Reads(addr, st.wires)>>
  BY <1>4, <1>8, OperandsInside, StateParts
<1>11. addr \in Seq(Nat) /\ \A w \in Range(addr) : w \in 1 .. n /\ w # t
  <2>1. pool.base \in Nat
    BY <1>8, Places
  <2>2. addr \in Seq(Nat) /\ \A w \in Range(addr) : w \in 1 .. n /\ w \in 1 .. next_anc - 1
    BY <1>4, <1>8, OperandsInside, StateParts
  <2> QED BY <1>8, <2>1, <2>2
<1>12. PICK s1 : s1 = Applied(st, Cnot(src, t))
  OBVIOUS
<1>13. to = Applied(s1, g)
  BY <1>2, <1>6, <1>12, RunTwo
<1>14. Toggles(n, st, t, st.wires[src], s1)
  BY <1>8, <1>9, <1>12, GateToggles
<1>15. Reads(addr, s1.wires) = Reads(addr, st.wires)
  <2>1. \A w \in Range(addr) : s1.wires[w] = st.wires[w]
    BY <1>11, <1>14 DEF Toggles
  <2> QED BY <1>11, <2>1, ReadsAgree
<1>16. Swaps(n, s1, t, cell, to)
  <2>1. s1 \in States(n)
    BY <1>14 DEF Toggles
  <2> QED BY <1>5, <1>8, <1>10, <1>13, <1>15, <2>1, SwapDoes
<1>17. to \in States(n) /\ \A w \in 1 .. n : w # t => to.wires[w] = st.wires[w]
  BY <1>14, <1>16 DEF Swaps, Toggles
<1>18. Frame(n, done, st, to)
  <2>1. ASSUME NEW w \in 1 .. n, w <= pool.base \/ Spare(done.pool, w) PROVE w # t
    <3>1. ~Spare(q, t)
      BY <1>3 DEF Lends
    <3>2. pool.base \in Nat
      BY <1>8, Places
    <3> QED BY <1>6, <1>8, <2>1, <3>1, <3>2
  <2> QED BY <1>17, <2>1 DEF Frame
<1>19. ASSUME NEW vals, Given(n, s, st, vals) PROVE Yields(s, done, st, to, vals)
  <2>1. cell = StmtCell(s, vals)
    <3>1. Reads(addr, st.wires) = Reads(s.addr, vals)
      BY <1>4, <1>8, <1>19, OperandParts
    <3> QED BY <1>10, <3>1, CellReads
  <2>2. PICK args : args = Reads(s.args, vals)
    OBVIOUS
  <2>3. args[1] \in BOOLEAN /\ st.wires[src] = args[1]
    <3>1. \A k \in 1 .. Len(s.args) :
            st.wires[WiresOf(s.args)[k]] = Reads(s.args, vals)[k] /\ Reads(s.args, vals)[k] \in BOOLEAN
      BY <1>8, <1>19, OperandParts
    <3> QED BY <1>4, <1>9, <2>2, <3>1
  <2>4. st.wires[t] = FALSE
    <3>1. Spare(pool, t)
      BY <1>3 DEF Lends
    <3> QED BY <1>8, <1>19, <3>1 DEF Given
  <2>5. s1.wires[t] = args[1] /\ s1.mem = st.mem
    BY <1>14, <2>3, <2>4, Bits DEF Toggles
  <2>6. to.mem = Stored(st.mem, StmtCell(s, vals), args[1])
    BY <1>16, <2>1, <2>5 DEF Swaps
  <2>7. to.wires[next_anc] = FALSE
    BY <1>8, <1>17, <1>19 DEF Given
  <2>8. Gives(s, vals, st.mem, FALSE, Stored(st.mem, StmtCell(s, vals), args[1]))
    BY <2>2, EvalAt
  <2> QED BY <1>6, <2>6, <2>7, <2>8 DEF Yields
<1> QED BY <1>1, <1>2, <1>6, <1>7, <1>18, <1>19 DEF Does

(* Two wires lent one after the other, and both returned.                  *)
LEMMA TwoLent ==
  ASSUME NEW p, PoolOK(p), NEW one, NEW two, NEW na, NEW nb, Lends(p, one, na), Lends(one, two, nb)
  PROVE  /\ na # nb /\ ~Spare(two, na) /\ ~Spare(two, nb) /\ Spare(p, na) /\ Spare(p, nb)
         /\ na \in p.base + 1 .. two.next_fresh - 1 /\ nb \in p.base + 1 .. two.next_fresh - 1
         /\ PoolOK(two) /\ two.base = p.base /\ p.next_fresh <= two.next_fresh
         /\ \A w \in Nat : Spare(two, w) => Spare(p, w)
         /\ \E r : /\ r = release(release(two, na), nb)
                   /\ PoolOK(r) /\ r.base = p.base /\ r.next_fresh = two.next_fresh
                   /\ \A w \in Nat : Spare(r, w) => Spare(p, w)
<1>1. /\ PoolOK(one) /\ one.base = p.base /\ na \in p.base + 1 .. one.next_fresh - 1 /\ p.next_fresh <= one.next_fresh
      /\ Spare(p, na) /\ ~Spare(one, na) /\ \A w \in Nat : Spare(one, w) => Spare(p, w)
  BY DEF Lends
<1>2. /\ PoolOK(two) /\ two.base = p.base /\ nb \in p.base + 1 .. two.next_fresh - 1 /\ one.next_fresh <= two.next_fresh
      /\ Spare(one, nb) /\ ~Spare(two, nb) /\ \A w \in Nat : Spare(two, w) => Spare(one, w)
  BY <1>1 DEF Lends
<1>3. p.base \in Nat /\ p.next_fresh \in Nat /\ one.next_fresh \in Nat /\ two.next_fresh \in Nat
  BY <1>1, <1>2, PoolParts
<1>4. na \in Nat /\ nb \in Nat /\ na \in p.base + 1 .. two.next_fresh - 1 /\ p.next_fresh <= two.next_fresh
  BY <1>1, <1>2, <1>3
<1>5. na # nb /\ ~Spare(two, na) /\ Spare(p, nb) /\ \A w \in Nat : Spare(two, w) => Spare(p, w)
  BY <1>1, <1>2, <1>4
<1>6. PICK q : q = release(two, na)
  OBVIOUS
<1>7. /\ PoolOK(q) /\ q.base = p.base /\ q.next_fresh = two.next_fresh
      /\ \A w : Spare(q, w) <=> Spare(two, w) \/ w = na
  <2>1. na \in two.base + 1 .. two.next_fresh - 1
    BY <1>2, <1>4
  <2> QED BY <1>2, <1>5, <1>6, <2>1, ReleaseReturns
<1>8. PICK r : r = release(q, nb)
  OBVIOUS
<1>9. /\ PoolOK(r) /\ r.base = q.base /\ r.next_fresh = q.next_fresh
      /\ \A w : Spare(r, w) <=> Spare(q, w) \/ w = nb
  <2>1. nb \in q.base + 1 .. q.next_fresh - 1 /\ ~Spare(q, nb)
    BY <1>2, <1>5, <1>7
  <2> QED BY <1>7, <1>8, <2>1, ReleaseReturns
<1>10. \A w \in Nat : Spare(r, w) => Spare(p, w)
  BY <1>1, <1>5, <1>7, <1>9
<1>11. r = release(release(two, na), nb)
  BY <1>6, <1>8
<1>12. \E x : /\ x = release(release(two, na), nb)
              /\ PoolOK(x) /\ x.base = p.base /\ x.next_fresh = two.next_fresh
              /\ \A w \in Nat : Spare(x, w) => Spare(p, w)
  BY <1>7, <1>9, <1>10, <1>11
<1> QED BY <1>1, <1>2, <1>4, <1>5, <1>12

(* The negation of wire c is added to wire t, and nothing else changes.    *)
Negated(n, st, c, t, now) ==
  /\ now \in States(n) /\ now.mem = st.mem
  /\ now.wires[t] = ((st.wires[t] # st.wires[c]) # TRUE)
  /\ \A w \in 1 .. n : w # t => now.wires[w] = st.wires[w]

(* A CNOT and an X gate do that in either order.                           *)
LEMMA NegateDoes ==
  ASSUME NEW n \in Nat, NEW st \in States(n), NEW c \in 1 .. n, NEW t \in 1 .. n, c # t
  PROVE  /\ Negated(n, st, c, t, Applied(Applied(st, Cnot(c, t)), X(t)))
         /\ Negated(n, st, c, t, Applied(Applied(st, X(t)), Cnot(c, t)))
<1>1. PICK s1, s2 : s1 = Applied(st, Cnot(c, t)) /\ s2 = Applied(s1, X(t))
  OBVIOUS
<1>2. Toggles(n, st, t, st.wires[c], s1)
  BY <1>1, GateToggles
<1>3. Toggles(n, s1, t, TRUE, s2)
  <2>1. s1 \in States(n)
    BY <1>2 DEF Toggles
  <2> QED BY <1>1, <2>1, GateToggles
<1>4. Negated(n, st, c, t, s2)
  BY <1>2, <1>3 DEF Toggles, Negated
<1>5. PICK u1, u2 : u1 = Applied(st, X(t)) /\ u2 = Applied(u1, Cnot(c, t))
  OBVIOUS
<1>6. Toggles(n, st, t, TRUE, u1)
  BY <1>5, GateToggles
<1>7. Toggles(n, u1, t, st.wires[c], u2)
  <2>1. u1 \in States(n) /\ u1.wires[c] = st.wires[c]
    BY <1>6 DEF Toggles
  <2>2. Toggles(n, u1, t, u1.wires[c], u2)
    BY <1>5, <2>1, GateToggles
  <2> QED BY <2>1, <2>2
<1>8. Negated(n, st, c, t, u2)
  <2>1. /\ u2 \in States(n) /\ u2.mem = st.mem
        /\ u2.wires[t] = ((st.wires[t] # TRUE) # st.wires[c])
        /\ \A w \in 1 .. n : w # t => u2.wires[w] = st.wires[w]
    BY <1>6, <1>7 DEF Toggles
  <2>2. st.wires[t] \in BOOLEAN /\ st.wires[c] \in BOOLEAN
    BY StateParts
  <2>3. ((st.wires[t] # TRUE) # st.wires[c]) = ((st.wires[t] # st.wires[c]) # TRUE)
    <3>1. ASSUME NEW a \in BOOLEAN, NEW b \in BOOLEAN PROVE ((a # TRUE) # b) = ((a # b) # TRUE)
      OBVIOUS
    <3> QED BY <2>2, <3>1
  <2> QED BY <2>1, <2>3 DEF Negated
<1> QED BY <1>1, <1>4, <1>5, <1>8

(* Adding a negation twice changes nothing.                                *)
LEMMA NegatedTwice ==
  ASSUME NEW a \in BOOLEAN, NEW b \in BOOLEAN
  PROVE  ((((a # b) # TRUE) # b) # TRUE) = a
OBVIOUS

(* One sequence after another is a sequence.                               *)
LEMMA ConcatTyped ==
  ASSUME NEW S, NEW a \in Seq(S), NEW b \in Seq(S)
  PROVE  a \o b \in Seq(S)
OBVIOUS

(* The gates of an Or: negations of both operands on two scratch wires,    *)
(* the result where both are 0, and, with share_scratch, the negations     *)
(* taken back.                                                             *)
OrMade(n, st, c, d, na, nb, t, copy, or) ==
  /\ \E to : /\ to = Run!Fold(st, or) /\ to \in States(n) /\ to.mem = st.mem
             /\ to.wires[na] = ((st.wires[na] # st.wires[c]) # TRUE)
             /\ to.wires[nb] = ((st.wires[nb] # st.wires[d]) # TRUE)
             /\ to.wires[t] = ((st.wires[t] # (to.wires[na] /\ to.wires[nb])) # TRUE)
             /\ \A w \in (1 .. n) \ {na, nb, t} : to.wires[w] = st.wires[w]
  /\ \E to : /\ to = Run!Fold(st, or \o Reverse(copy)) /\ to \in States(n) /\ to.mem = st.mem
             /\ to.wires[t] = Run!Fold(st, or).wires[t]
             /\ \A w \in (1 .. n) \ {t} : to.wires[w] = st.wires[w]

(* An Or's gates are made so.                                              *)
LEMMA OrGates ==
  ASSUME NEW n \in Nat, NEW st \in States(n), NEW c \in 1 .. n, NEW d \in 1 .. n, NEW na \in 1 .. n, NEW nb \in 1 .. n,
         NEW t \in 1 .. n, na # nb, na # t, nb # t, c \notin {na, nb, t}, d \notin {na, nb, t},
         NEW copy, copy = <<Cnot(c, na), X(na), Cnot(d, nb), X(nb)>>,
         NEW or, or = copy \o <<Ccnot(na, nb, t), X(t)>>
  PROVE  OrMade(n, st, c, d, na, nb, t, copy, or)
<1>1. /\ Cnot(c, na) \in Gates /\ X(na) \in Gates /\ Cnot(d, nb) \in Gates /\ X(nb) \in Gates
      /\ Ccnot(na, nb, t) \in Gates /\ X(t) \in Gates
  BY SimpleTyped
<1>2. PICK tail : tail = <<Ccnot(na, nb, t), X(t)>>
  OBVIOUS
<1>3. copy \in Seq(Gates) /\ tail \in Seq(Gates) /\ or = copy \o tail
  BY <1>1, <1>2
<1>4. or \in Seq(Gates)
  BY <1>3, ConcatTyped, Zenon
<1>5. PICK s2, s4, s5, s6 :
        /\ s2 = Applied(Applied(st, Cnot(c, na)), X(na)) /\ s4 = Applied(Applied(s2, Cnot(d, nb)), X(nb))
        /\ s5 = Applied(s4, Ccnot(na, nb, t)) /\ s6 = Applied(s5, X(t))
  OBVIOUS
<1>6. Negated(n, st, c, na, s2)
  BY <1>5, NegateDoes
<1>7. Negated(n, s2, d, nb, s4)
  <2>1. s2 \in States(n)
    BY <1>6 DEF Negated
  <2> QED BY <1>5, <2>1, NegateDoes
<1>8. Toggles(n, s4, t, s4.wires[na] /\ s4.wires[nb], s5)
  <2>1. s4 \in States(n)
    BY <1>7 DEF Negated
  <2>2. Toggles(n, s4, t, s4.wires[na] /\ s4.wires[nb], Applied(s4, Ccnot(na, nb, t)))
    BY <2>1, GateToggles, Zenon
  <2> QED BY <1>5, <2>2, Zenon
<1>9. Toggles(n, s5, t, TRUE, s6)
  <2>1. s5 \in States(n)
    BY <1>8 DEF Toggles
  <2> QED BY <1>5, <2>1, GateToggles
<1>10. s6 = Run!Fold(st, or)
  <2>1. Run!Fold(st, copy) = s4
    BY <1>5, RunFour
  <2>2. Run!Fold(s4, tail) = s6
    BY <1>2, <1>5, RunTwo
  <2>3. Run!Fold(st, copy \o tail) = Run!Fold(Run!Fold(st, copy), tail)
    BY <1>3, RunConcat, Zenon
  <2> QED BY <1>3, <2>1, <2>2, <2>3, Zenon
<1>11. /\ s6 \in States(n) /\ s6.mem = st.mem
       /\ s6.wires[na] = ((st.wires[na] # st.wires[c]) # TRUE)
       /\ \A w \in (1 .. n) \ {na, nb, t} : s6.wires[w] = st.wires[w]
  BY ZenonT(40), <1>6, <1>7, <1>8, <1>9 DEF Negated, Toggles
<1>12. s6.wires[nb] = ((st.wires[nb] # st.wires[d]) # TRUE)
  <2>1. s6.wires[nb] = s4.wires[nb]
    BY <1>8, <1>9 DEF Toggles
  <2>2. s4.wires[nb] = ((s2.wires[nb] # s2.wires[d]) # TRUE)
    BY <1>7 DEF Negated
  <2>3. s2.wires[nb] = st.wires[nb] /\ s2.wires[d] = st.wires[d]
    BY <1>6 DEF Negated
  <2> QED BY <2>1, <2>2, <2>3
<1>13. s6.wires[t] = ((st.wires[t] # (s6.wires[na] /\ s6.wires[nb])) # TRUE)
  <2>1. s6.wires[na] = s4.wires[na] /\ s6.wires[nb] = s4.wires[nb]
    BY <1>8, <1>9 DEF Toggles
  <2>2. s4.wires[t] = st.wires[t]
    BY <1>6, <1>7 DEF Negated
  <2>3. PICK bit \in BOOLEAN : bit = (s4.wires[na] /\ s4.wires[nb])
    OBVIOUS
  <2>4. s5.wires[t] = (s4.wires[t] # bit) /\ s6.wires[t] = (s5.wires[t] # TRUE)
    BY <1>8, <1>9, <2>3 DEF Toggles
  <2> QED BY <2>1, <2>2, <2>3, <2>4
<1>14. PICK undo : undo = Reverse(copy)
  OBVIOUS
<1>15. undo = <<X(nb), Cnot(d, nb), X(na), Cnot(c, na)>>
  <2>1. Len(copy) = 4 /\ copy[1] = Cnot(c, na) /\ copy[2] = X(na) /\ copy[3] = Cnot(d, nb) /\ copy[4] = X(nb)
    OBVIOUS
  <2>2. undo = [k \in 1 .. 4 |-> copy[(4 - k) + 1]]
    BY <1>14, <2>1 DEF Reverse
  <2>3. undo \in Seq({copy[1], copy[2], copy[3], copy[4]}) /\ Len(undo) = 4
    <3>1. \A k \in 1 .. 4 : (4 - k) + 1 \in {1, 2, 3, 4}
      OBVIOUS
    <3> QED BY <2>2, <3>1
  <2>4. undo[1] = copy[4] /\ undo[2] = copy[3] /\ undo[3] = copy[2] /\ undo[4] = copy[1]
    BY <2>2
  <2> QED BY <2>1, <2>3, <2>4
<1>16. PICK s8, s10 : /\ s8 = Applied(Applied(s6, X(nb)), Cnot(d, nb))
                      /\ s10 = Applied(Applied(s8, X(na)), Cnot(c, na))
  OBVIOUS
<1>17. Negated(n, s6, d, nb, s8)
  BY <1>11, <1>16, NegateDoes
<1>18. Negated(n, s8, c, na, s10)
  <2>1. s8 \in States(n)
    BY <1>17 DEF Negated
  <2> QED BY <1>16, <2>1, NegateDoes
<1>19. s10 = Run!Fold(st, or \o undo)
  <2>1. Run!Fold(s6, undo) = s10
    BY <1>15, <1>16, RunFour
  <2>2. undo \in Seq(Gates)
    BY <1>1, <1>15
  <2>3. Run!Fold(st, or \o undo) = Run!Fold(Run!Fold(st, or), undo)
    BY <1>4, <2>2, RunConcat, ZenonT(40)
  <2> QED BY <1>10, <2>1, <2>3, Zenon
<1>20. /\ s10 \in States(n) /\ s10.mem = st.mem /\ s10.wires[t] = s6.wires[t]
       /\ \A w \in (1 .. n) \ {na, nb, t} : s10.wires[w] = st.wires[w]
  BY <1>11, <1>17, <1>18 DEF Negated
<1>21. s10.wires[na] = st.wires[na]
  <2>1. s10.wires[na] = ((s8.wires[na] # s8.wires[c]) # TRUE)
    BY <1>18 DEF Negated
  <2>2. s8.wires[na] = s6.wires[na] /\ s8.wires[c] = st.wires[c]
    BY <1>11, <1>17 DEF Negated
  <2>3. st.wires[na] \in BOOLEAN /\ st.wires[c] \in BOOLEAN
    BY StateParts
  <2>4. s10.wires[na] = ((((st.wires[na] # st.wires[c]) # TRUE) # st.wires[c]) # TRUE)
    BY <1>11, <2>1, <2>2
  <2> QED BY <2>3, <2>4, NegatedTwice
<1>22. s10.wires[nb] = st.wires[nb]
  <2>1. s10.wires[nb] = s8.wires[nb]
    BY <1>18 DEF Negated
  <2>2. s8.wires[nb] = ((s6.wires[nb] # s6.wires[d]) # TRUE)
    BY <1>17 DEF Negated
  <2>3. s6.wires[d] = st.wires[d]
    BY <1>11
  <2>4. st.wires[nb] \in BOOLEAN /\ st.wires[d] \in BOOLEAN
    BY StateParts
  <2>5. s10.wires[nb] = ((((st.wires[nb] # st.wires[d]) # TRUE) # st.wires[d]) # TRUE)
    BY <1>12, <2>1, <2>2, <2>3
  <2> QED BY <2>4, <2>5, NegatedTwice
<1>23. \A w \in (1 .. n) \ {t} : s10.wires[w] = st.wires[w]
  BY <1>20, <1>21, <1>22
<1>24. \E to : /\ to = Run!Fold(st, or) /\ to \in States(n) /\ to.mem = st.mem
               /\ to.wires[na] = ((st.wires[na] # st.wires[c]) # TRUE)
               /\ to.wires[nb] = ((st.wires[nb] # st.wires[d]) # TRUE)
               /\ to.wires[t] = ((st.wires[t] # (to.wires[na] /\ to.wires[nb])) # TRUE)
               /\ \A w \in (1 .. n) \ {na, nb, t} : to.wires[w] = st.wires[w]
  BY <1>10, <1>11, <1>12, <1>13, Zenon
<1>25. \E to : /\ to = Run!Fold(st, or \o Reverse(copy)) /\ to \in States(n) /\ to.mem = st.mem
               /\ to.wires[t] = Run!Fold(st, or).wires[t]
               /\ \A w \in (1 .. n) \ {t} : to.wires[w] = st.wires[w]
  BY <1>10, <1>14, <1>19, <1>20, <1>23, Zenon
<1> QED BY <1>24, <1>25, Zenon DEF OrMade

(* Or.                                                                     *)
LEMMA OrDoes ==
  ASSUME Room, NEW s, Lowerable(s), s.op = "Or",
         NEW n \in Nat, n >= LowerStmt(s).pool.next_fresh - 1, NEW st \in States(n)
  PROVE  /\ LowerStmt(s).wire = next_anc
         /\ PoolMoves(LowerStmt(s)) /\ Does(n, s, LowerStmt(s), st)
<1>1. PICK done : done = LowerStmt(s)
  OBVIOUS
<1>2. PICK to : to = Run!Fold(st, done.gates)
  OBVIOUS
<1>3. PoolOK(pool)
  BY DEF Room, Geometry
<1>4. PICK na, one : na = Acquired(pool) /\ one = acquire(pool) /\ Lends(pool, one, na)
  BY <1>3, AcquireLends
<1>5. PICK nb, two : nb = Acquired(one) /\ two = acquire(one) /\ Lends(one, two, nb)
  BY <1>4, AcquireLends DEF Lends
<1>6. PICK c, d : c = wire_of[s.args[1]] /\ d = wire_of[s.args[2]]
  OBVIOUS
<1>7. PICK copy, or : /\ copy = <<Cnot(c, na), X(na), Cnot(d, nb), X(nb)>>
                      /\ or = copy \o <<Ccnot(na, nb, next_anc), X(next_anc)>>
  OBVIOUS
<1>8. done = IF share THEN Lowered(or \o Reverse(copy), next_anc, release(release(two, na), nb))
             ELSE Lowered(or, next_anc, two)
  BY <1>1, <1>4, <1>5, <1>6, <1>7 DEF LowerStmt, LowerOr
<1>9. /\ na # nb /\ ~Spare(two, na) /\ ~Spare(two, nb) /\ Spare(pool, na) /\ Spare(pool, nb)
      /\ na \in pool.base + 1 .. two.next_fresh - 1 /\ nb \in pool.base + 1 .. two.next_fresh - 1
      /\ PoolOK(two) /\ two.base = pool.base /\ pool.next_fresh <= two.next_fresh
      /\ \A w \in Nat : Spare(two, w) => Spare(pool, w)
  BY ZenonT(40), <1>3, <1>4, <1>5, TwoLent
<1>10. PICK r : /\ r = release(release(two, na), nb)
                /\ PoolOK(r) /\ r.base = pool.base /\ r.next_fresh = two.next_fresh
                /\ \A w \in Nat : Spare(r, w) => Spare(pool, w)
  BY <1>3, <1>4, <1>5, TwoLent
<1>11. /\ done.wire = next_anc
       /\ share => done.pool = r /\ done.gates = or \o Reverse(copy)
       /\ ~share => done.pool = two /\ done.gates = or
  BY <1>8, <1>10 DEF Lowered
<1>12. PoolMoves(done) /\ done.pool.next_fresh = two.next_fresh
  BY <1>9, <1>10, <1>11 DEF PoolMoves
<1>13. pool.base \in Nat /\ two.next_fresh \in Nat /\ n >= pool.next_fresh - 1 /\ pool.next_fresh \in Nat
       /\ n >= two.next_fresh - 1
  BY <1>1, <1>3, <1>9, <1>12, PoolParts
<1>14. next_anc \in 1 .. n /\ next_anc <= pool.base
  BY <1>13, Places
<1>15. /\ 1 \in 1 .. Len(s.args) /\ 2 \in 1 .. Len(s.args)
       /\ c \in 1 .. n /\ d \in 1 .. n /\ c < next_anc /\ d < next_anc
       /\ c = WiresOf(s.args)[1] /\ d = WiresOf(s.args)[2]
  <2>1. Len(s.args) = 2
    BY StmtFacts DEF Lowerable, StmtShape
  <2>2. 1 \in 1 .. Len(s.args) /\ 2 \in 1 .. Len(s.args)
    BY <2>1
  <2> QED BY SMTT(30), <1>6, <1>13, <2>2, OperandParts
<1>16. /\ na \in 1 .. n /\ nb \in 1 .. n /\ na > pool.base /\ nb > pool.base
       /\ na # next_anc /\ nb # next_anc /\ c \notin {na, nb, next_anc} /\ d \notin {na, nb, next_anc}
  <2>1. na \in 1 .. n /\ nb \in 1 .. n /\ na > pool.base /\ nb > pool.base
    BY <1>9, <1>13
  <2>2. na # next_anc /\ nb # next_anc
    BY <1>13, <1>14, <2>1
  <2>3. c # na /\ c # nb /\ c # next_anc /\ d # na /\ d # nb /\ d # next_anc
    <3>1. ASSUME NEW x \in 1 .. n, x < next_anc PROVE x # na /\ x # nb /\ x # next_anc
      BY <1>13, <1>14, <2>1, <3>1
    <3>2. c \in 1 .. n /\ d \in 1 .. n /\ c < next_anc /\ d < next_anc
      BY <1>15
    <3> QED BY <3>1, <3>2
  <2> QED BY <2>1, <2>2, <2>3
<1>17. OrMade(n, st, c, d, na, nb, next_anc, copy, or)
  BY <1>7, <1>9, <1>14, <1>15, <1>16, OrGates
<1>18. PICK mid : /\ mid = Run!Fold(st, or) /\ mid \in States(n) /\ mid.mem = st.mem
                  /\ mid.wires[na] = ((st.wires[na] # st.wires[c]) # TRUE)
                  /\ mid.wires[nb] = ((st.wires[nb] # st.wires[d]) # TRUE)
                  /\ mid.wires[next_anc] = ((st.wires[next_anc] # (mid.wires[na] /\ mid.wires[nb])) # TRUE)
                  /\ \A w \in (1 .. n) \ {na, nb, next_anc} : mid.wires[w] = st.wires[w]
  BY <1>17, Zenon DEF OrMade
<1>19. PICK all : /\ all = Run!Fold(st, or \o Reverse(copy)) /\ all \in States(n) /\ all.mem = st.mem
                  /\ all.wires[next_anc] = mid.wires[next_anc]
                  /\ \A w \in (1 .. n) \ {next_anc} : all.wires[w] = st.wires[w]
  BY <1>18, <1>17, Zenon DEF OrMade
<1>20. /\ to \in States(n) /\ to.mem = st.mem /\ to.wires[next_anc] = mid.wires[next_anc]
       /\ share => \A w \in (1 .. n) \ {next_anc} : to.wires[w] = st.wires[w]
       /\ ~share => \A w \in (1 .. n) \ {na, nb, next_anc} : to.wires[w] = st.wires[w]
  <2>1. CASE share
    BY <1>2, <1>11, <1>19, <2>1
  <2>2. CASE ~share
    BY <1>2, <1>11, <1>18, <2>2
  <2> QED BY <2>1, <2>2
<1>21. Frame(n, done, st, to)
  <2>1. ASSUME NEW w \in 1 .. n, Spare(done.pool, w) PROVE w # next_anc
    <3>1. Spare(pool, w)
      BY <1>12, <2>1 DEF PoolMoves
    <3>2. w > pool.base
      BY <1>3, <3>1, SpareAbove
    <3> QED BY <1>13, <1>14, <3>2
  <2>2. ASSUME NEW w \in 1 .. n, (w <= pool.base /\ w # next_anc) \/ Spare(done.pool, w)
        PROVE  to.wires[w] = st.wires[w]
    <3>1. w # next_anc
      BY <2>1, <2>2
    <3>2. CASE share
      BY <1>20, <3>1, <3>2
    <3>3. CASE ~share
      <4>1. w # na /\ w # nb
        <5>1. CASE w <= pool.base
          BY <1>13, <1>16, <5>1
        <5>2. CASE Spare(done.pool, w)
          BY <1>9, <1>11, <3>3, <5>2
        <5> QED BY <2>2, <5>1, <5>2
      <4> QED BY <1>20, <3>1, <3>3, <4>1
    <3> QED BY <3>2, <3>3
  <2> QED BY <1>11, <1>20, <2>2 DEF Frame
<1>22. ASSUME NEW vals, Given(n, s, st, vals) PROVE Yields(s, done, st, to, vals)
  <2>1. PICK args : args = Reads(s.args, vals)
    OBVIOUS
  <2>2. PICK x \in BOOLEAN, y \in BOOLEAN : x = args[1] /\ y = args[2] /\ st.wires[c] = x /\ st.wires[d] = y
    <3>1. \A k \in 1 .. Len(s.args) :
            st.wires[WiresOf(s.args)[k]] = Reads(s.args, vals)[k] /\ Reads(s.args, vals)[k] \in BOOLEAN
      BY <1>13, <1>22, OperandParts
    <3> QED BY <1>15, <2>1, <3>1
  <2>3. st.wires[na] = FALSE /\ st.wires[nb] = FALSE /\ st.wires[next_anc] = FALSE
    BY <1>9, <1>16, <1>22 DEF Given
  <2>4. mid.wires[na] = ~x /\ mid.wires[nb] = ~y
    BY <1>18, <2>2, <2>3, Bits
  <2>5. to.wires[next_anc] = (x \/ y)
    <3>1. to.wires[next_anc] = ((FALSE # (~x /\ ~y)) # TRUE)
      BY <1>18, <1>20, <2>3, <2>4
    <3> QED BY <3>1, Bits
  <2>6. Gives(s, vals, st.mem, args[1] \/ args[2], st.mem)
    BY <2>1, EvalAt
  <2>7. to.wires[next_anc] = (args[1] \/ args[2])
    BY <2>2, <2>5, Zenon
  <2>8. Gives(s, vals, st.mem, to.wires[next_anc], st.mem)
    BY <2>6, <2>7, Zenon
  <2> QED BY <1>11, <1>20, <2>8 DEF Yields
<1> QED BY <1>1, <1>2, <1>11, <1>12, <1>21, <1>22 DEF Does

(* What every statement's gates do.                                        *)
LEMMA StmtDoes ==
  ASSUME Room, NEW s, Lowerable(s), Apart(s),
         NEW n \in Nat, n >= LowerStmt(s).pool.next_fresh - 1, NEW st \in States(n)
  PROVE  PoolMoves(LowerStmt(s)) /\ Does(n, s, LowerStmt(s), st)
<1>1. s.op \in StmtOps /\ s.op # "Legacy"
  BY StmtFacts DEF Lowerable
<1>2. CASE s.op \in {"Zero", "One", "Not", "And", "Xor", "OracleBit", "ActionStoreBit"}
  <2>1. LowerStmt(s).pool = pool
    BY <1>2 DEF LowerStmt, LowerXor, NewWire, Lowered
  <2>2. n >= pool.next_fresh - 1
    BY <2>1
  <2> QED BY <1>2, <2>2, ConstDoes, NotDoes, AndDoes, XorTakenDoes, XorNewDoes, OracleDoes, StoreDoes
<1>3. CASE s.op \in {"Or", "StorageRead", "StorageWrite"}
  BY <1>3, OrDoes, ReadDoes, WriteDoes
<1> QED BY <1>1, <1>2, <1>3 DEF StmtOps

-----------------------------------------------------------------------------
(* How often variables are read.                                           *)

Counted(counts, s) == CountOperands(counts, s)
Count == INSTANCE FoldTheorems WITH op <- Counted

(* What is read is counted; nothing is counted off.                        *)
LEMMA ReadsCounted ==
  ASSUME NEW V, NEW counts \in [V -> Nat], NEW s, Len(s) \in Nat
  PROVE  /\ CountReads(counts, s) \in [V -> Nat]
         /\ \A v \in V : CountReads(counts, s)[v] >= counts[v]
         /\ \A v \in V : (\E k \in 1 .. Len(s) : s[k] = v) => CountReads(counts, s)[v] >= counts[v] + 1
<1>1. ASSUME NEW v \in V
      PROVE  \E c \in Nat : /\ c = Cardinality({k \in 1 .. Len(s) : s[k] = v})
                            /\ (\E k \in 1 .. Len(s) : s[k] = v) => c >= 1
  <2>1. PICK S : S = {k \in 1 .. Len(s) : s[k] = v}
    OBVIOUS
  <2>2. IsFiniteSet(S)
    <3>1. IsFiniteSet(1 .. Len(s)) /\ S \in SUBSET (1 .. Len(s))
      BY <2>1, FS_Interval
    <3> QED BY <3>1, FS_Subset
  <2>3. Cardinality(S) \in Nat /\ (Cardinality(S) = 0 <=> S = {})
    BY <2>2, FS_CardinalityType, FS_EmptySet
  <2>4. (\E k \in 1 .. Len(s) : s[k] = v) => Cardinality(S) >= 1
    BY <2>1, <2>3
  <2> QED BY <2>1, <2>3, <2>4
<1>2. PICK more : more = CountReads(counts, s)
  OBVIOUS
<1>3. more = [v \in V |-> counts[v] + Cardinality({k \in 1 .. Len(s) : s[k] = v})]
  BY <1>2 DEF CountReads
<1>4. ASSUME NEW v \in V
      PROVE  /\ more[v] \in Nat /\ more[v] >= counts[v]
             /\ (\E k \in 1 .. Len(s) : s[k] = v) => more[v] >= counts[v] + 1
  <2>1. PICK c \in Nat : /\ c = Cardinality({k \in 1 .. Len(s) : s[k] = v})
                         /\ (\E k \in 1 .. Len(s) : s[k] = v) => c >= 1
    BY <1>1
  <2>2. more[v] = counts[v] + c /\ counts[v] \in Nat
    BY <1>3, <2>1
  <2> QED BY <2>1, <2>2
<1>5. more \in [V -> Nat]
  BY <1>3, <1>4
<1> QED BY <1>2, <1>4, <1>5

(* A variable that is read once is read by one operand only: not by two    *)
(* statements, and not by a statement and as an output.                    *)
LEMMA UsedOnce ==
  ASSUME CircuitTyped, NEW c \in 1 .. VarSpace(circ), uses[c] = 1,
         NEW i \in 1 .. Len(circ.stmts), c \in Range(Operands(circ.stmts[i]))
  PROVE  /\ c \notin Range(circ.outputs)
         /\ \A j \in 1 .. Len(circ.stmts) : j # i => c \notin Range(Operands(circ.stmts[j]))
<1>1. PICK N \in Nat : N = Len(circ.stmts)
  BY DEF CircuitTyped, BoolarCircuits
<1>2. PICK V : V = 1 .. VarSpace(circ)
  OBVIOUS
<1>3. PICK none : none = [v \in V |-> 0]
  OBVIOUS
<1>4. PICK first : first = CountReads(none, circ.outputs)
  OBVIOUS
<1>5. PICK t : t = Count!Walk(first, circ.stmts)
  OBVIOUS
<1>6. uses = t[N]
  BY <1>1, <1>2, <1>3, <1>4, <1>5 DEF uses, Through, Counted, Count!Walk, Count!Steps
<1>7. t[0] = first /\ \A k \in 1 .. N : t[k] = CountReads(t[k - 1], Operands(circ.stmts[k]))
  BY <1>1, <1>5, Count!WalkSteps DEF Counted, CountOperands
<1>8. ASSUME NEW k \in 1 .. N
      PROVE  Operands(circ.stmts[k]) \in Seq(Nat) /\ Len(Operands(circ.stmts[k])) \in Nat
  <2>1. circ.stmts[k] \in Statements
    BY <1>1 DEF CircuitTyped, BoolarCircuits
  <2>2. PICK a, b : a = circ.stmts[k].args /\ b = circ.stmts[k].addr /\ a \in Seq(Nat) /\ b \in Seq(Nat)
    <3>1. circ.stmts[k].args \in Seq(Nat \ {0}) /\ circ.stmts[k].addr \in Seq(Nat \ {0})
      BY <2>1, StmtFacts
    <3>2. circ.stmts[k].args \in Seq(Nat) /\ circ.stmts[k].addr \in Seq(Nat)
      BY SMTT(30), <3>1
    <3> QED BY <3>2
  <2>3. Operands(circ.stmts[k]) = a \o b
    BY <2>2 DEF Operands
  <2>4. Operands(circ.stmts[k]) \in Seq(Nat)
    BY <2>2, <2>3, ConcatTyped, Zenon
  <2>5. \A e \in Seq(Nat) : Len(e) \in Nat
    OBVIOUS
  <2> QED BY <2>4, <2>5, Zenon
<1>9. circ.outputs \in Seq(Nat) /\ Len(circ.outputs) \in Nat
  BY DEF CircuitTyped, BoolarCircuits
<1>10. /\ first \in [V -> Nat] /\ none \in [V -> Nat]
       /\ c \in Range(circ.outputs) => first[c] >= 1
  <2>1. none \in [V -> Nat] /\ none[c] = 0 /\ c \in V
    BY <1>2, <1>3
  <2>2. /\ first \in [V -> Nat]
        /\ (\E k \in 1 .. Len(circ.outputs) : circ.outputs[k] = c) => first[c] >= none[c] + 1
    BY <1>4, <1>9, <2>1, ReadsCounted
  <2>3. c \in Range(circ.outputs) => \E k \in 1 .. Len(circ.outputs) : circ.outputs[k] = c
    BY <1>9, RangeMember
  <2> QED BY <2>1, <2>2, <2>3
<1> DEFINE T == {k \in 0 .. N : t[k] \in [V -> Nat]}
<1>11. \A k \in 0 .. N : k \in T
  <2>1. 0 \in T
    <3>1. t[0] = first /\ 0 \in 0 .. N
      BY <1>7
    <3>2. t[0] \in [V -> Nat]
      BY <1>10, <3>1, Zenon
    <3> QED BY <3>1, <3>2
  <2>2. ASSUME NEW k \in 0 .. N - 1, k \in T PROVE k + 1 \in T
    <3>1. k + 1 \in 1 .. N /\ (k + 1) - 1 = k /\ t[k] \in [V -> Nat]
      BY <2>2
    <3>2. t[k + 1] = CountReads(t[k], Operands(circ.stmts[k + 1]))
      BY <1>7, <3>1
    <3>3. t[k + 1] \in [V -> Nat]
      <4>1. PICK counts, s : counts = t[k] /\ s = Operands(circ.stmts[k + 1])
        OBVIOUS
      <4>2. counts \in [V -> Nat] /\ Len(s) \in Nat
        BY <1>8, <3>1, <4>1
      <4>3. CountReads(counts, s) \in [V -> Nat]
        BY <4>2, ReadsCounted
      <4> QED BY <3>2, <4>1, <4>3
    <3> QED BY <3>1, <3>3
  <2> HIDE DEF T
  <2>3. \A k \in 0 .. N - 1 : k \in T => k + 1 \in T
    BY <2>2
  <2> QED BY <2>1, <2>3, Count!UpTo, Zenon
<1>12. \A k \in 0 .. N : t[k][c] \in Nat
  BY <1>2, <1>11
<1>13. ASSUME NEW k \in 1 .. N
       PROVE  /\ t[k][c] >= t[k - 1][c]
              /\ c \in Range(Operands(circ.stmts[k])) => t[k][c] >= t[k - 1][c] + 1
  <2>1. k - 1 \in 0 .. N /\ t[k - 1] \in [V -> Nat] /\ c \in V
    BY <1>2, <1>11
  <2>2. t[k] = CountReads(t[k - 1], Operands(circ.stmts[k]))
    BY <1>7
  <2>3. PICK s \in Seq(Nat) : s = Operands(circ.stmts[k]) /\ Len(s) \in Nat
    BY <1>8
  <2>4. /\ t[k][c] >= t[k - 1][c]
        /\ (\E m \in 1 .. Len(s) : s[m] = c) => t[k][c] >= t[k - 1][c] + 1
    <3>1. PICK counts : counts = t[k - 1]
      OBVIOUS
    <3>2. /\ CountReads(counts, s)[c] >= counts[c]
          /\ (\E m \in 1 .. Len(s) : s[m] = c) => CountReads(counts, s)[c] >= counts[c] + 1
      <4>1. counts \in [V -> Nat] /\ Len(s) \in Nat /\ c \in V
        BY <2>1, <2>3, <3>1
      <4> QED BY <4>1, ReadsCounted
    <3> QED BY <2>2, <2>3, <3>1, <3>2
  <2> QED BY <2>3, <2>4, RangeMember
<1>14. ASSUME NEW m \in 0 .. N, NEW k \in 0 .. N, m <= k PROVE t[m][c] <= t[k][c]
  <2> DEFINE U == {d \in 0 .. N - m : t[m][c] <= t[m + d][c]}
  <2>1. 0 \in U
    BY <1>12
  <2>2. ASSUME NEW d \in 0 .. N - m - 1, d \in U PROVE d + 1 \in U
    <3>1. m + (d + 1) \in 1 .. N /\ (m + (d + 1)) - 1 = m + d /\ m + d \in 0 .. N /\ d + 1 \in 0 .. N - m
      OBVIOUS
    <3>2. t[m + (d + 1)][c] >= t[m + d][c]
      BY <1>13, <3>1
    <3>3. t[m][c] \in Nat /\ t[m + d][c] \in Nat /\ t[m + (d + 1)][c] \in Nat /\ t[m][c] <= t[m + d][c]
      BY <1>12, <2>2, <3>1
    <3> QED BY <3>1, <3>2, <3>3
  <2>3. \A d \in 0 .. N - m : d \in U
    <3> HIDE DEF U
    <3>1. \A d \in 0 .. (N - m) - 1 : d \in U => d + 1 \in U
      BY <2>2
    <3>2. N - m \in Nat
      OBVIOUS
    <3> QED BY <2>1, <3>1, <3>2, Count!UpTo, Zenon
  <2>4. k - m \in U
    BY <1>14, <2>3
  <2> QED BY <2>4
<1>15. t[N][c] = 1 /\ i \in 1 .. N
  BY <1>1, <1>6
<1>16. c \notin Range(circ.outputs)
  <2> SUFFICES ASSUME c \in Range(circ.outputs) PROVE FALSE
    OBVIOUS
  <2>1. t[0][c] >= 1 /\ i - 1 \in 0 .. N /\ 0 \in 0 .. N /\ N \in 0 .. N /\ i \in 0 .. N /\ 0 <= i - 1 /\ i <= N
    <3>1. t[0] = first
      BY <1>7
    <3>2. t[0][c] >= 1
      BY <1>10, <3>1, Zenon
    <3> QED BY <1>15, <3>2
  <2>2. t[i][c] >= t[i - 1][c] + 1
    BY <1>13, <1>15
  <2>3. t[0][c] <= t[i - 1][c]
    BY <1>14, <2>1
  <2>4. t[i][c] <= t[N][c]
    BY <1>14, <1>15, <2>1
  <2>5. t[i - 1][c] \in Nat /\ t[i][c] \in Nat /\ t[0][c] \in Nat
    BY <1>12, <2>1
  <2> QED BY SMTT(30), <1>15, <2>1, <2>2, <2>3, <2>4, <2>5
<1>17. ASSUME NEW a \in 1 .. N, NEW b \in 1 .. N, a < b, c \in Range(Operands(circ.stmts[a])), c \in Range(Operands(circ.stmts[b]))
       PROVE  FALSE
  <2>1. a - 1 \in 0 .. N /\ a \in 0 .. N /\ b - 1 \in 0 .. N /\ b \in 0 .. N /\ a <= b - 1 /\ N \in 0 .. N
    BY <1>17
  <2>2. t[a][c] >= t[a - 1][c] + 1 /\ t[b][c] >= t[b - 1][c] + 1
    BY <1>13, <1>17
  <2>3. t[a][c] <= t[b - 1][c] /\ t[b][c] <= t[N][c]
    BY <1>14, <2>1
  <2>4. PICK x \in Nat, y \in Nat, z \in Nat, u \in Nat : x = t[a - 1][c] /\ y = t[a][c] /\ z = t[b - 1][c] /\ u = t[b][c]
    BY <1>12, <2>1
  <2>5. y >= x + 1 /\ u >= z + 1 /\ y <= z /\ u <= 1
    BY <1>15, <2>2, <2>3, <2>4
  <2> QED BY <2>5
<1>18. ASSUME NEW j \in 1 .. N, j # i, c \in Range(Operands(circ.stmts[j])) PROVE FALSE
  <2>1. c \in Range(Operands(circ.stmts[i])) /\ i \in 1 .. N
    BY <1>15
  <2>2. CASE i < j
    BY <1>17, <1>18, <2>1, <2>2
  <2>3. CASE j < i
    BY <1>17, <1>18, <2>1, <2>3
  <2> QED BY <1>18, <2>1, <2>2, <2>3
<1> QED BY <1>1, <1>16, <1>18

-----------------------------------------------------------------------------
(* The invariant of the synthesis.                                         *)

(* LiveVars, when m variables have wires.                                  *)
Live(c, m) ==
  {v \in 1 .. m :
     \/ v \in Range(c.outputs)
     \/ \E i \in m - c.params + 1 .. Len(c.stmts) : v \in Range(Operands(c.stmts[i]))}

Distinct(c, wires) == \A u, v \in Live(c, Len(wires)) : u # v => wires[u] # wires[v]

(* Parameters, wires for results and outputs still to come, spare scratch. *)
Kept(c, na, p, w) == w <= c.params \/ (na <= w /\ w <= p.base) \/ Spare(p, w)

Untouched(n, c, na, p, gates) ==
  \A st \in States(n) :
    LET to == Run!Fold(st, gates)
    IN  to \in States(n) /\ \A w \in 1 .. n : Kept(c, na, p, w) => to.wires[w] = st.wires[w]

Begun(x, n, mem) == [wires |-> Zeroed(x, n), mem |-> mem]
Wanted(c, x, mem, m) == Effect!Fold([vals |-> x, mem |-> mem], SubSeq(c.stmts, 1, m - c.params))

(* The gates put the values of variables that will be read on their wires. *)
Carries(c, wires, now, want) ==
  /\ want \in Evaluations /\ Len(want.vals) = Len(wires) /\ now.mem = want.mem
  /\ \A v \in Live(c, Len(wires)) \cup 1 .. c.params : now.wires[wires[v]] = want.vals[v]

Computes(n, c, wires, gates) ==
  \A x \in [1 .. c.params -> BOOLEAN], mem \in SUBSET Cells :
    Carries(c, wires, Run!Fold(Begun(x, n, mem), gates), Wanted(c, x, mem, Len(wires)))

SInv ==
  phase = "synth" =>
    /\ Geometry
    /\ Distinct(circ, wire_of)
    /\ \A n \in Nat : n >= pool.next_fresh - 1 =>
         Untouched(n, circ, next_anc, pool, rc.gates) /\ Computes(n, circ, wire_of, rc.gates)

(* The operands of a statement.                                            *)
LEMMA OperandIn ==
  ASSUME NEW s \in Statements
  PROVE  /\ \A k \in 1 .. Len(s.args) : s.args[k] \in Range(Operands(s))
         /\ \A k \in 1 .. Len(s.addr) : s.addr[k] \in Range(Operands(s))
<1>1. PICK a \in Seq(Nat \ {0}), b \in Seq(Nat \ {0}) : a = s.args /\ b = s.addr
  BY StmtFacts
<1>2. PICK both : both = a \o b
  OBVIOUS
<1>3. /\ Len(a) \in Nat /\ Len(b) \in Nat /\ Len(both) = Len(a) + Len(b) /\ DOMAIN both = 1 .. Len(both)
      /\ \A k \in 1 .. Len(a) : both[k] = a[k]
      /\ \A k \in 1 .. Len(b) : both[Len(a) + k] = b[k]
  BY <1>2
<1>4. ASSUME NEW k \in 1 .. Len(a) PROVE a[k] \in Range(both)
  <2>1. k \in DOMAIN both /\ both[k] = a[k]
    BY <1>3
  <2> QED BY <2>1 DEF Range
<1>5. ASSUME NEW k \in 1 .. Len(b) PROVE b[k] \in Range(both)
  <2>1. Len(a) + k \in DOMAIN both /\ both[Len(a) + k] = b[k]
    BY <1>3
  <2> QED BY <2>1 DEF Range
<1> QED BY <1>1, <1>2, <1>4, <1>5 DEF Operands

(* Where the result of a statement goes.                                   *)
LEMMA ResultWire ==
  ASSUME NEW s, s.op \in StmtOps, s.op # "Legacy"
  PROVE  \/ LowerStmt(s).wire = next_anc
         \/ \E c, other : s.op = "Xor" /\ Taken(s, c, other) /\ LowerStmt(s).wire = wire_of[c]
<1>1. CASE s.op = "Xor" /\ Consumed(s.args[1], s.args[2]) # {}
  <2>1. PICK c, other : /\ Taken(s, c, other)
                        /\ LowerStmt(s) = Lowered(<<Cnot(wire_of[other], wire_of[c])>>, wire_of[c], pool)
    BY <1>1, XorTakes
  <2>2. LowerStmt(s).wire = wire_of[c]
    BY <2>1 DEF Lowered
  <2> QED BY <1>1, <2>1, <2>2
<1>2. CASE s.op = "Xor" /\ Consumed(s.args[1], s.args[2]) = {}
  <2>1. LowerStmt(s) = LowerXor(s.args[1], s.args[2])
    BY <1>2 DEF LowerStmt
  <2>2. LowerXor(s.args[1], s.args[2]).wire = next_anc
    BY <1>2 DEF LowerXor, NewWire, Lowered
  <2> QED BY <2>1, <2>2
<1>3. CASE s.op \in {"Zero", "One", "And", "Not", "OracleBit", "ActionStoreBit"}
  BY <1>3 DEF LowerStmt, NewWire, Lowered
<1>4. CASE s.op = "Or"
  <2>1. LowerStmt(s) = LowerOr(s.args[1], s.args[2])
    BY <1>4 DEF LowerStmt
  <2>2. LowerOr(s.args[1], s.args[2]).wire = next_anc
    BY DEF LowerOr, Lowered
  <2> QED BY <2>1, <2>2
<1>5. CASE s.op \in {"StorageRead", "StorageWrite"}
  BY <1>5 DEF LowerStmt, LowerRead, LowerWrite, Lowered
<1> QED BY <1>1, <1>2, <1>3, <1>4, <1>5 DEF StmtOps

(* The statement to be lowered next.                                       *)
Upcoming(s) ==
  /\ Room /\ Lowerable(s) /\ Distinct(circ, wire_of)
  /\ Stmts + 1 \in 1 .. Len(circ.stmts) /\ s = circ.stmts[Stmts + 1]

(* Its operands are alive.                                                 *)
LEMMA OperandsLive ==
  ASSUME NEW s, Upcoming(s)
  PROVE  /\ \A k \in 1 .. Len(s.args) : s.args[k] \in Live(circ, Len(wire_of))
         /\ \A k \in 1 .. Len(s.addr) : s.addr[k] \in Live(circ, Len(wire_of))
         /\ Apart(s)
<1>1. /\ s \in Statements /\ Stmts + 1 \in 1 .. Len(circ.stmts) /\ s = circ.stmts[Stmts + 1]
      /\ Range(s.args) \subseteq 1 .. Len(wire_of) /\ Range(s.addr) \subseteq 1 .. Len(wire_of)
  BY DEF Upcoming, Lowerable
<1>2. \A v \in Range(Operands(s)) : v \in 1 .. Len(wire_of) => v \in Live(circ, Len(wire_of))
  <2>1. Stmts + 1 = Len(wire_of) - circ.params + 1 /\ Stmts + 1 \in Len(wire_of) - circ.params + 1 .. Len(circ.stmts)
    BY <1>1 DEF Stmts, Upcoming, Room, CircuitTyped, BoolarCircuits
  <2> QED BY <1>1, <2>1 DEF Live
<1>3. s.args \in Seq(Nat \ {0}) /\ s.addr \in Seq(Nat \ {0})
  BY <1>1, StmtFacts
<1>4. \A k \in 1 .. Len(s.args) : s.args[k] \in 1 .. Len(wire_of)
  BY <1>1, <1>3 DEF Range
<1>5. \A k \in 1 .. Len(s.addr) : s.addr[k] \in 1 .. Len(wire_of)
  BY <1>1, <1>3 DEF Range
<1>6. /\ \A k \in 1 .. Len(s.args) : s.args[k] \in Live(circ, Len(wire_of))
      /\ \A k \in 1 .. Len(s.addr) : s.addr[k] \in Live(circ, Len(wire_of))
  BY <1>1, <1>2, <1>4, <1>5, OperandIn
<1>7. Apart(s)
  BY <1>6 DEF Apart, Upcoming, Distinct
<1> QED BY <1>6, <1>7

(* The wire of the result is that of no variable that is still alive.      *)
LEMMA OthersApart ==
  ASSUME NEW s, Upcoming(s), NEW v \in 1 .. Len(wire_of), v \in Live(circ, Len(wire_of) + 1) \cup 1 .. circ.params
  PROVE  /\ v \in Live(circ, Len(wire_of)) \cup 1 .. circ.params
         /\ wire_of[v] # LowerStmt(s).wire
<1>1. /\ s \in Statements /\ s.op # "Legacy" /\ Stmts + 1 \in 1 .. Len(circ.stmts) /\ s = circ.stmts[Stmts + 1]
      /\ CircuitTyped /\ Room
  BY DEF Upcoming, Lowerable, Room
<1>2. PICK m \in Nat, p \in Nat : m = Len(wire_of) /\ p = circ.params /\ Stmts = m - p
  <2>1. Len(wire_of) \in Nat /\ circ.params \in Nat
    BY <1>1 DEF Room, WiresTyped, CircuitTyped, BoolarCircuits
  <2> QED BY <2>1 DEF Stmts
<1>3. v \in Live(circ, m) \cup 1 .. p
  <2>1. CASE v \in Live(circ, m + 1)
    <3>1. \A i \in (m + 1) - p + 1 .. Len(circ.stmts) : i \in m - p + 1 .. Len(circ.stmts)
      <4>1. Len(circ.stmts) \in Nat
        BY <1>1 DEF CircuitTyped, BoolarCircuits
      <4> QED BY <1>2, <4>1
    <3>2. \/ v \in Range(circ.outputs)
          \/ \E i \in (m + 1) - p + 1 .. Len(circ.stmts) : v \in Range(Operands(circ.stmts[i]))
      BY <1>2, <2>1 DEF Live
    <3> QED BY <1>2, <3>1, <3>2 DEF Live
  <2>2. CASE v \in 1 .. p
    BY <2>2
  <2> QED BY <1>2, <2>1, <2>2
<1>4. /\ wire_of[v] \in 1 .. next_anc - 1 /\ next_anc \in Nat
      /\ v <= p => wire_of[v] = v
  BY <1>1, <1>2 DEF Room, Geometry, WiresTyped
<1>5. CASE LowerStmt(s).wire = next_anc
  BY <1>2, <1>3, <1>4, <1>5
<1>6. ASSUME NEW c, NEW other, s.op = "Xor", Taken(s, c, other), LowerStmt(s).wire = wire_of[c]
      PROVE  wire_of[v] # LowerStmt(s).wire
  <2>1. c > p /\ uses[c] = 1
    BY <1>2, <1>6 DEF Taken
  <2>2. PICK k \in 1 .. Len(s.args) : c = s.args[k]
    <3>1. Len(s.args) = 2
      BY <1>1, <1>6, StmtFacts DEF StmtShape
    <3>2. 1 \in 1 .. Len(s.args) /\ 2 \in 1 .. Len(s.args)
      BY <3>1
    <3> QED BY <1>6, <3>2 DEF Taken
  <2>3. c \in Live(circ, m) /\ c \in Range(Operands(s))
    BY <1>1, <1>2, <2>2, OperandsLive, OperandIn
  <2>4. c \in 1 .. m /\ c \in 1 .. VarSpace(circ)
    <3>1. c \in 1 .. m
      BY <2>3 DEF Live
    <3>2. m < VarSpace(circ) /\ VarSpace(circ) \in Nat
      BY SMTT(30), <1>1, <1>2 DEF Room, VarSpace, CircuitTyped, BoolarCircuits
    <3> QED BY <3>1, <3>2
  <2>5. /\ c \notin Range(circ.outputs)
        /\ \A j \in 1 .. Len(circ.stmts) : j # Stmts + 1 => c \notin Range(Operands(circ.stmts[j]))
    BY <1>1, <2>1, <2>3, <2>4, UsedOnce
  <2>6. c \notin Live(circ, m + 1)
    <3>1. \A j \in (m + 1) - p + 1 .. Len(circ.stmts) : j \in 1 .. Len(circ.stmts) /\ j # Stmts + 1
      <4>1. Len(circ.stmts) \in Nat /\ m >= p
        BY <1>1, <1>2 DEF CircuitTyped, BoolarCircuits, Room, WiresTyped
      <4> QED BY SMTT(30), <1>2, <4>1
    <3> QED BY <1>2, <2>5, <3>1 DEF Live
  <2>7. CASE v \in 1 .. p
    <3>1. wire_of[c] > p /\ wire_of[v] = v
      BY <1>1, <1>2, <1>4, <2>1, <2>4, <2>7 DEF Room, Geometry
    <3> QED BY <1>6, <2>7, <3>1
  <2>8. CASE v \notin 1 .. p
    <3>1. v \in Live(circ, m) /\ v # c
      BY <1>2, <1>3, <2>6, <2>8
    <3> QED BY <1>2, <1>6, <2>3, <3>1 DEF Upcoming, Distinct
  <2> QED BY <2>7, <2>8
<1>7. s.op \in StmtOps
  BY <1>1, StmtFacts
<1> QED BY <1>1, <1>2, <1>3, <1>5, <1>6, <1>7, ResultWire

(* Lowering a statement, for a circuit of n wires: what it makes of the    *)
(* next wire for a result.                                                 *)
After(done) == IF done.wire = next_anc THEN next_anc + 1 ELSE next_anc

(* The wire of a result is not that of a parameter.                        *)
LEMMA ResultPlace ==
  ASSUME NEW s, Upcoming(s)
  PROVE  \/ LowerStmt(s).wire = next_anc
         \/ LowerStmt(s).wire \in circ.params + 1 .. next_anc - 1
<1>1. s \in Statements /\ s.op # "Legacy" /\ Room /\ s.op \in StmtOps
  BY StmtFacts DEF Upcoming, Lowerable
<1>2. ASSUME NEW c, NEW other, s.op = "Xor", Taken(s, c, other), LowerStmt(s).wire = wire_of[c]
      PROVE  LowerStmt(s).wire \in circ.params + 1 .. next_anc - 1
  <2>1. PICK k \in 1 .. Len(s.args) : c = s.args[k]
    <3>1. Len(s.args) = 2
      BY <1>1, <1>2, StmtFacts DEF StmtShape
    <3>2. 1 \in 1 .. Len(s.args) /\ 2 \in 1 .. Len(s.args)
      BY <3>1
    <3> QED BY <1>2, <3>2 DEF Taken
  <2>2. c \in 1 .. Len(wire_of)
    BY <2>1, OperandsLive DEF Live
  <2>3. c > circ.params
    BY <1>2 DEF Taken
  <2>4. wire_of[c] \in 1 .. next_anc - 1 /\ wire_of[c] > circ.params
    BY <1>1, <2>2, <2>3 DEF Room, Geometry
  <2>5. circ.params \in Nat /\ next_anc \in Nat
    BY <1>1 DEF Room, CircuitTyped, BoolarCircuits, WiresTyped
  <2> QED BY <1>2, <2>4, <2>5
<1> QED BY <1>1, <1>2, ResultWire

(* A statement's gates leave what is to be kept afterwards.                *)
LEMMA UntouchedAfter ==
  ASSUME NEW s, Upcoming(s), NEW n \in Nat, n >= LowerStmt(s).pool.next_fresh - 1,
         NEW gates \in Seq(Gates), LowerStmt(s).gates \in Seq(Gates),
         Untouched(n, circ, next_anc, pool, gates)
  PROVE  Untouched(n, circ, After(LowerStmt(s)), LowerStmt(s).pool, gates \o LowerStmt(s).gates)
<1>1. PICK done : done = LowerStmt(s)
  OBVIOUS
<1>2. Room /\ Lowerable(s) /\ Apart(s)
  BY OperandsLive DEF Upcoming
<1>3. SUFFICES ASSUME NEW st \in States(n)
               PROVE  \E to : /\ to = Run!Fold(st, gates \o done.gates) /\ to \in States(n)
                              /\ \A w \in 1 .. n : Kept(circ, After(done), done.pool, w) => to.wires[w] = st.wires[w]
  BY <1>1 DEF Untouched
<1>4. PICK mid \in States(n) : /\ mid = Run!Fold(st, gates)
                               /\ \A w \in 1 .. n : Kept(circ, next_anc, pool, w) => mid.wires[w] = st.wires[w]
  BY DEF Untouched
<1>5. PICK to : to = Run!Fold(mid, done.gates)
  OBVIOUS
<1>6. to = Run!Fold(st, gates \o done.gates)
  BY <1>1, <1>4, <1>5, RunConcat
<1>7. PoolMoves(done) /\ Frame(n, done, mid, to)
  BY <1>1, <1>2, <1>5, StmtDoes DEF Does
<1>8. /\ circ.params \in Nat /\ next_anc \in Nat /\ circ.params < next_anc
      /\ next_anc <= pool.base /\ pool.base \in Nat /\ done.pool.base = pool.base
  <2>1. PoolOK(pool) /\ PoolOK(done.pool) /\ done.pool.base = pool.base /\ pool.next_fresh <= done.pool.next_fresh
    BY <1>2, <1>7 DEF Room, Geometry, PoolMoves
  <2>2. n >= pool.next_fresh - 1
    BY <1>1, <2>1, PoolParts
  <2>3. next_anc \in 1 .. n
    BY <1>2, <2>2, Places
  <2> QED BY <1>2, <2>1, <2>2, <2>3, Places
<1>9. done.wire = next_anc \/ done.wire \in circ.params + 1 .. next_anc - 1
  BY <1>1, ResultPlace
<1>10. ASSUME NEW w \in 1 .. n, Kept(circ, After(done), done.pool, w) PROVE to.wires[w] = st.wires[w]
  <2>1. CASE w <= circ.params
    <3>1. w <= pool.base /\ w # done.wire
      BY <1>8, <1>9, <2>1
    <3>2. mid.wires[w] = st.wires[w]
      BY <1>4, <2>1 DEF Kept
    <3> QED BY <1>7, <3>1, <3>2 DEF Frame
  <2>2. CASE After(done) <= w /\ w <= done.pool.base
    <3>1. w <= pool.base /\ w # done.wire /\ next_anc <= w
      BY <1>8, <1>9, <2>2 DEF After
    <3>2. mid.wires[w] = st.wires[w]
      BY <1>4, <3>1 DEF Kept
    <3> QED BY <1>7, <3>1, <3>2 DEF Frame
  <2>3. CASE Spare(done.pool, w)
    <3>1. Spare(pool, w)
      BY <1>7, <2>3 DEF PoolMoves
    <3>2. mid.wires[w] = st.wires[w]
      BY <1>4, <3>1 DEF Kept
    <3> QED BY <1>7, <2>3, <3>2 DEF Frame
  <2> QED BY <1>10, <2>1, <2>2, <2>3 DEF Kept
<1> QED BY <1>6, <1>7, <1>10 DEF Frame

(* A run starts with its inputs on the first wires and zeros elsewhere.    *)
Starts(st, x, n, mem, p) ==
  st.mem = mem /\ \A w \in 1 .. n : st.wires[w] = IF w <= p THEN x[w] ELSE FALSE

(* A start of which only the parameters are set.                           *)
LEMMA BegunTyped ==
  ASSUME NEW n \in Nat, NEW p \in Nat, p <= n, NEW x, x \in [1 .. p -> BOOLEAN], NEW mem \in SUBSET Cells
  PROVE  Begun(x, n, mem) \in States(n) /\ Starts(Begun(x, n, mem), x, n, mem, p)
<1>1. Len(x) = p
  OBVIOUS
<1>2. Zeroed(x, n) = [w \in 1 .. n |-> IF w <= p THEN x[w] ELSE FALSE]
  BY <1>1 DEF Zeroed
<1>3. Zeroed(x, n) \in [1 .. n -> BOOLEAN]
  <2>1. ASSUME NEW w \in 1 .. n PROVE (IF w <= p THEN x[w] ELSE FALSE) \in BOOLEAN
    <3>1. CASE w <= p
      <4>1. w \in 1 .. p
        BY <3>1
      <4>2. x[w] \in BOOLEAN
        BY <4>1
      <4> QED BY <3>1, <4>2
    <3>2. CASE ~(w <= p)
      BY <3>2
    <3> QED BY <3>1, <3>2
  <2> QED BY <1>2, <2>1
<1> QED BY <1>2, <1>3 DEF Begun, States, Starts

(* The statements evaluated so far, and one more.                          *)
LEMMA WantedNext ==
  ASSUME CircuitTyped, NEW m \in Nat, m - circ.params + 1 \in 1 .. Len(circ.stmts), NEW x, NEW mem
  PROVE  Wanted(circ, x, mem, m + 1) = EvalToggling(circ.stmts[m - circ.params + 1], Wanted(circ, x, mem, m))
<1>1. PICK k : k = m - circ.params
  OBVIOUS
<1>2. circ.params \in Nat /\ circ.stmts \in Seq(Statements) /\ Len(circ.stmts) \in Nat
  BY DEF CircuitTyped, BoolarCircuits
<1>3. k \in 0 .. Len(circ.stmts) - 1 /\ (m + 1) - circ.params = k + 1 /\ k + 1 \in 1 .. Len(circ.stmts)
  BY <1>1, <1>2
<1>4. PICK some, more, s : some = SubSeq(circ.stmts, 1, k) /\ more = SubSeq(circ.stmts, 1, k + 1) /\ s = circ.stmts[k + 1]
  OBVIOUS
<1>5. s \in Statements /\ some \in Seq(Statements) /\ more \in Seq(Statements)
  BY <1>2, <1>3, <1>4
<1>6. more = Append(some, s)
  <2>1. /\ Len(some) = k /\ Len(more) = k + 1
        /\ \A j \in 1 .. k : some[j] = circ.stmts[j]
        /\ \A j \in 1 .. k + 1 : more[j] = circ.stmts[j]
    BY <1>2, <1>3, <1>4
  <2>2. PICK long : long = Append(some, s)
    OBVIOUS
  <2>3. long \in Seq(Statements) /\ Len(long) = k + 1 /\ \A j \in 1 .. k + 1 : long[j] = more[j]
    <3>1. long \in Seq(Statements) /\ Len(long) = k + 1 /\ long[k + 1] = s /\ \A j \in 1 .. k : long[j] = some[j]
      BY <1>3, <1>5, <2>1, <2>2
    <3>2. \A j \in 1 .. k + 1 : j \in 1 .. k \/ j = k + 1
      BY <1>3
    <3> QED BY <1>4, <2>1, <3>1, <3>2
  <2> QED BY <1>3, <1>5, <2>1, <2>2, <2>3
<1>7. PICK from : from = [vals |-> x, mem |-> mem]
  OBVIOUS
<1>8. Effect!Fold(from, more) = EvalToggling(s, Effect!Fold(from, some))
  BY <1>5, <1>6, Effect!FoldAppend DEF Effected
<1> QED BY <1>1, <1>3, <1>4, <1>7, <1>8 DEF Wanted

(* Operands are where a statement looks for them, and new wires are 0.     *)
LEMMA CarriesGiven ==
  ASSUME NEW s, Upcoming(s), NEW n \in Nat, n >= pool.next_fresh - 1,
         NEW x \in [1 .. circ.params -> BOOLEAN], NEW mem \in SUBSET Cells,
         NEW gates, Untouched(n, circ, next_anc, pool, gates), NEW now, now = Run!Fold(Begun(x, n, mem), gates),
         NEW want, Carries(circ, wire_of, now, want)
  PROVE  now \in States(n) /\ Given(n, s, now, want.vals)
<1>1. Room /\ Lowerable(s) /\ PoolOK(pool)
  BY DEF Upcoming, Room, Geometry
<1>2. /\ next_anc \in 1 .. n /\ next_anc <= pool.base /\ pool.base \in Nat /\ pool.base <= n
      /\ circ.params \in Nat /\ circ.params < next_anc
  BY <1>1, Places
<1>3. PICK st : st = Begun(x, n, mem)
  OBVIOUS
<1>4. st \in States(n) /\ \A w \in 1 .. n : st.wires[w] = IF w <= circ.params THEN x[w] ELSE FALSE
  <2>1. circ.params <= n
    BY <1>2
  <2>2. Begun(x, n, mem) \in States(n) /\ Starts(Begun(x, n, mem), x, n, mem, circ.params)
    BY <1>2, <2>1, BegunTyped
  <2> QED BY <1>3, <2>2 DEF Starts
<1>5. now \in States(n) /\ \A w \in 1 .. n : Kept(circ, next_anc, pool, w) => now.wires[w] = st.wires[w]
  BY <1>3, <1>4 DEF Untouched
<1>6. ASSUME NEW w \in 1 .. n, w > circ.params, Kept(circ, next_anc, pool, w) PROVE now.wires[w] = FALSE
  <2>1. ~(w <= circ.params)
    BY <1>2, <1>6
  <2> QED BY <1>4, <1>5, <1>6, <2>1
<1>7. now.wires[next_anc] = FALSE
  <2>1. Kept(circ, next_anc, pool, next_anc)
    BY <1>2 DEF Kept
  <2> QED BY <1>2, <1>6, <2>1
<1>8. ASSUME NEW w \in 1 .. n, Spare(pool, w) PROVE now.wires[w] = FALSE
  <2>1. w > pool.base
    BY <1>1, <1>8, SpareAbove
  <2>2. w > circ.params
    BY <1>2, <2>1
  <2>3. Kept(circ, next_anc, pool, w)
    BY <1>8 DEF Kept
  <2> QED BY <1>6, <2>2, <2>3
<1>9. PICK vals : vals = want.vals
  OBVIOUS
<1>10. /\ vals \in Seq(BOOLEAN) /\ Len(vals) = Len(wire_of)
       /\ \A v \in Live(circ, Len(wire_of)) : now.wires[wire_of[v]] = vals[v]
  BY <1>9 DEF Carries, Evaluations
<1>11. /\ \A k \in 1 .. Len(s.args) : now.wires[wire_of[s.args[k]]] = vals[s.args[k]]
       /\ \A k \in 1 .. Len(s.addr) : now.wires[wire_of[s.addr[k]]] = vals[s.addr[k]]
  BY <1>10, OperandsLive
<1> QED BY <1>5, <1>7, <1>8, <1>9, <1>10, <1>11 DEF Given

(* A statement's gates put its value on its wire and leave the others.     *)
LEMMA CarriesOn ==
  ASSUME NEW s, Upcoming(s), NEW n \in Nat, n >= LowerStmt(s).pool.next_fresh - 1,
         NEW now \in States(n), NEW want, Carries(circ, wire_of, now, want), Given(n, s, now, want.vals),
         LowerStmt(s).wire \in Nat
  PROVE  Carries(circ, Append(wire_of, LowerStmt(s).wire), Run!Fold(now, LowerStmt(s).gates), EvalToggling(s, want))
<1>1. PICK done : done = LowerStmt(s)
  OBVIOUS
<1>2. Room /\ Lowerable(s) /\ Apart(s)
  BY OperandsLive DEF Upcoming
<1>3. PICK to : to = Run!Fold(now, done.gates)
  OBVIOUS
<1>4. PoolMoves(done) /\ Frame(n, done, now, to) /\ Yields(s, done, now, to, want.vals)
  BY <1>1, <1>2, <1>3, StmtDoes DEF Does
<1>5. PICK vals : vals = want.vals
  OBVIOUS
<1>6. /\ vals \in Seq(BOOLEAN) /\ Len(vals) = Len(wire_of) /\ want = [vals |-> vals, mem |-> now.mem]
      /\ \A v \in Live(circ, Len(wire_of)) \cup 1 .. circ.params : now.wires[wire_of[v]] = vals[v]
  BY <1>5 DEF Carries, Evaluations
<1>7. /\ circ.params \in Nat /\ next_anc \in 1 .. n /\ circ.params < next_anc /\ next_anc <= pool.base /\ pool.base \in Nat
      /\ Len(wire_of) \in Nat /\ circ.params <= Len(wire_of) /\ wire_of \in Seq(Nat)
      /\ \A v \in 1 .. Len(wire_of) : wire_of[v] \in 1 .. n /\ wire_of[v] < next_anc
  <2>1. PoolOK(pool) /\ PoolOK(done.pool) /\ pool.next_fresh <= done.pool.next_fresh
    BY <1>2, <1>4 DEF Room, Geometry, PoolMoves
  <2>2. n >= pool.next_fresh - 1
    BY <1>1, <2>1, PoolParts
  <2> QED BY <1>2, <2>2, Places DEF Room, WiresTyped
<1>8. PICK bit : bit = to.wires[done.wire]
  OBVIOUS
<1>9. bit \in BOOLEAN /\ to \in States(n)
  <2>1. done.wire \in 1 .. n
    <3>1. done.wire = next_anc \/ done.wire \in circ.params + 1 .. next_anc - 1
      BY <1>1, ResultPlace
    <3> QED BY <1>7, <3>1
  <2>2. to \in States(n)
    BY <1>4 DEF Frame
  <2> QED BY <1>8, <2>1, <2>2, StateParts
<1>10. EvalToggling(s, want) = [vals |-> Append(vals, bit), mem |-> to.mem]
  BY <1>4, <1>5, <1>6, <1>8 DEF Yields, Gives
<1>11. PICK more, wires : more = Append(vals, bit) /\ wires = Append(wire_of, done.wire)
  OBVIOUS
<1>12. PICK m \in Nat : m = Len(wire_of)
  BY <1>7
<1>13. more \in Seq(BOOLEAN) /\ Len(more) = m + 1 /\ more[m + 1] = bit /\ \A v \in 1 .. m : more[v] = vals[v]
  BY <1>6, <1>9, <1>11, <1>12
<1>14. Len(wires) = m + 1 /\ wires[m + 1] = done.wire /\ \A v \in 1 .. m : wires[v] = wire_of[v]
  BY <1>1, <1>7, <1>11, <1>12
<1>15. [vals |-> more, mem |-> to.mem] \in Evaluations
  BY <1>9, <1>13, StateParts DEF Evaluations
<1>16. ASSUME NEW v \in Live(circ, m + 1) \cup 1 .. circ.params PROVE to.wires[wires[v]] = more[v]
  <2>1. CASE v = m + 1
    BY <1>8, <1>13, <1>14, <2>1
  <2>2. CASE v # m + 1
    <3>1. v \in 1 .. m
      BY SMTT(30), <1>7, <1>12, <2>2 DEF Live
    <3>2. v \in Live(circ, m) \cup 1 .. circ.params /\ wire_of[v] # done.wire
      BY <1>1, <1>12, <3>1, OthersApart
    <3>3. wire_of[v] \in 1 .. n /\ wire_of[v] <= pool.base
      BY <1>7, <1>12, <3>1
    <3>4. to.wires[wire_of[v]] = now.wires[wire_of[v]]
      BY <1>4, <3>2, <3>3 DEF Frame
    <3>5. now.wires[wire_of[v]] = vals[v]
      BY <1>6, <1>12, <3>2
    <3> QED BY <1>13, <1>14, <3>1, <3>4, <3>5
  <2> QED BY <2>1, <2>2
<1>17. PICK next : next = EvalToggling(s, want)
  OBVIOUS
<1>18. next.vals = more /\ next.mem = to.mem /\ next \in Evaluations
  BY <1>10, <1>11, <1>15, <1>17
<1>19. Carries(circ, wires, to, next)
  BY <1>13, <1>14, <1>16, <1>18 DEF Carries
<1> QED BY <1>1, <1>3, <1>11, <1>17, <1>19

(* So the gates compute the statements after as before.                    *)
LEMMA ComputesAfter ==
  ASSUME NEW s, Upcoming(s), NEW n \in Nat, n >= LowerStmt(s).pool.next_fresh - 1, n >= pool.next_fresh - 1,
         NEW gates \in Seq(Gates), LowerStmt(s).gates \in Seq(Gates), LowerStmt(s).wire \in Nat,
         Untouched(n, circ, next_anc, pool, gates), Computes(n, circ, wire_of, gates)
  PROVE  Computes(n, circ, Append(wire_of, LowerStmt(s).wire), gates \o LowerStmt(s).gates)
<1>1. PICK done : done = LowerStmt(s)
  OBVIOUS
<1>2. PICK wires : wires = Append(wire_of, done.wire)
  OBVIOUS
<1>3. Len(wire_of) \in Nat /\ Len(wires) = Len(wire_of) + 1
  BY <1>1, <1>2 DEF Upcoming, Room, WiresTyped
<1>4. ASSUME NEW x \in [1 .. circ.params -> BOOLEAN], NEW mem \in SUBSET Cells
      PROVE  Carries(circ, wires, Run!Fold(Begun(x, n, mem), gates \o done.gates), Wanted(circ, x, mem, Len(wires)))
  <2>1. PICK now, want : now = Run!Fold(Begun(x, n, mem), gates) /\ want = Wanted(circ, x, mem, Len(wire_of))
    OBVIOUS
  <2>2. Carries(circ, wire_of, now, want)
    BY <2>1 DEF Computes
  <2>3. now \in States(n) /\ Given(n, s, now, want.vals)
    BY <2>1, <2>2, CarriesGiven
  <2>4. Carries(circ, wires, Run!Fold(now, done.gates), EvalToggling(s, want))
    BY <1>1, <1>2, <2>2, <2>3, CarriesOn
  <2>5. Run!Fold(Begun(x, n, mem), gates \o done.gates) = Run!Fold(now, done.gates)
    BY <1>1, <2>1, RunConcat
  <2>6. Wanted(circ, x, mem, Len(wires)) = EvalToggling(s, want)
    <3>1. /\ CircuitTyped /\ Len(wire_of) - circ.params + 1 \in 1 .. Len(circ.stmts)
          /\ s = circ.stmts[Len(wire_of) - circ.params + 1]
      BY DEF Upcoming, Room, Stmts
    <3> QED BY <1>3, <2>1, <3>1, WantedNext
  <2> QED BY <2>4, <2>5, <2>6
<1> QED BY <1>1, <1>2, <1>4 DEF Computes

(* Variables alive afterwards still have wires of their own.               *)
LEMMA DistinctAfter ==
  ASSUME NEW s, Upcoming(s)
  PROVE  Distinct(circ, Append(wire_of, LowerStmt(s).wire))
<1>1. PICK t, wires : t = LowerStmt(s).wire /\ wires = Append(wire_of, t)
  OBVIOUS
<1>2. PICK m \in Nat : m = Len(wire_of)
  BY DEF Upcoming, Room, WiresTyped
<1>3. Len(wires) = m + 1 /\ wires[m + 1] = t /\ \A v \in 1 .. m : wires[v] = wire_of[v]
  BY <1>1, <1>2 DEF Upcoming, Room, WiresTyped
<1>4. ASSUME NEW v \in Live(circ, m + 1), v # m + 1
      PROVE  v \in 1 .. m /\ v \in Live(circ, m) \cup 1 .. circ.params /\ wires[v] = wire_of[v] /\ wires[v] # t
  <2>1. v \in 1 .. m
    BY <1>2, <1>4 DEF Live
  <2> QED BY <1>1, <1>2, <1>3, <2>1, OthersApart
<1>5. /\ \A u, v \in Live(circ, m) : u # v => wire_of[u] # wire_of[v]
      /\ \A v \in 1 .. m : /\ v <= circ.params => wire_of[v] = v
                           /\ v > circ.params => wire_of[v] > circ.params
  BY <1>2 DEF Upcoming, Distinct, Room, Geometry
<1>6. circ.params \in Nat /\ wire_of \in Seq(Nat)
  BY DEF Upcoming, Room, CircuitTyped, BoolarCircuits, WiresTyped
<1>7. ASSUME NEW v \in Live(circ, m + 1), v \in 1 .. m PROVE v \in Live(circ, m)
  <2>1. Len(circ.stmts) \in Nat
    BY DEF Upcoming, Room, CircuitTyped, BoolarCircuits
  <2>2. \A i \in (m + 1) - circ.params + 1 .. Len(circ.stmts) : i \in m - circ.params + 1 .. Len(circ.stmts)
    BY <1>6, <2>1
  <2>3. \/ v \in Range(circ.outputs)
        \/ \E i \in (m + 1) - circ.params + 1 .. Len(circ.stmts) : v \in Range(Operands(circ.stmts[i]))
    BY DEF Live
  <2> QED BY <1>7, <2>2, <2>3 DEF Live
<1>8. ASSUME NEW u \in Live(circ, m + 1), NEW v \in Live(circ, m + 1), u # v PROVE wires[u] # wires[v]
  <2>1. CASE u = m + 1
    BY <1>3, <1>4, <1>8, <2>1
  <2>2. CASE v = m + 1
    BY <1>3, <1>4, <1>8, <2>2
  <2>3. CASE u # m + 1 /\ v # m + 1
    BY <1>4, <1>5, <1>7, <1>8, <2>3
  <2> QED BY <2>1, <2>2, <2>3
<1> QED BY <1>1, <1>3, <1>8 DEF Distinct

(* The scratch wires after a statement.                                    *)
LEMMA PoolAfter ==
  ASSUME NEW s, Upcoming(s), GoodPool(LowerStmt(s).pool)
  PROVE  PoolMoves(LowerStmt(s))
<1>1. PICK n \in Nat : n = LowerStmt(s).pool.next_fresh
  BY DEF GoodPool, Pools
<1>2. PICK st : st = [wires |-> [w \in 1 .. n |-> FALSE], mem |-> {}]
  OBVIOUS
<1>3. st \in States(n)
  BY <1>2 DEF States
<1>4. n >= LowerStmt(s).pool.next_fresh - 1
  BY <1>1
<1> QED BY <1>3, <1>4, StmtDoes, OperandsLive DEF Upcoming

(* At the start there are no gates and no results.                         *)
LEMMA InitSInv ==
  ASSUME Init
  PROVE  SInv
<1> SUFFICES ASSUME phase = "synth" PROVE /\ Geometry
                                          /\ Distinct(circ, wire_of)
                                          /\ \A n \in Nat : n >= pool.next_fresh - 1 =>
                                               /\ Untouched(n, circ, next_anc, pool, rc.gates)
                                               /\ Computes(n, circ, wire_of, rc.gates)
  BY DEF SInv
<1>1. CircuitTyped /\ rc.gates = << >>
  BY InitRInv DEF RInv, Init
<1>2. PICK p \in Nat, base \in Nat : p = circ.params /\ base = VarSpace(circ) + Len(circ.outputs) /\ p <= base
  BY <1>1 DEF CircuitTyped, BoolarCircuits, VarSpace
<1>3. wire_of = Numbers(p) /\ next_anc = p + 1 /\ pool = [base |-> base, next_fresh |-> base + 1, free |-> << >>]
  BY <1>2 DEF Init, EmptyPool
<1>4. Len(wire_of) = p /\ \A v \in 1 .. p : wire_of[v] = v
  BY <1>3 DEF Numbers
<1>5. Geometry
  <2>1. pool \in Pools
    <3>1. << >> \in Seq(Nat)
      OBVIOUS
    <3> QED BY <1>3, <3>1 DEF Pools
  <2>2. PoolOK(pool) /\ pool.base = base
    <3>1. Len(pool.free) = 0
      BY <1>3
    <3> QED BY <1>3, <2>1, <3>1 DEF PoolOK, GoodPool
  <2> QED BY <1>2, <1>3, <1>4, <2>2 DEF Geometry
<1>6. Distinct(circ, wire_of)
  BY <1>4 DEF Distinct, Live
<1>7. ASSUME NEW n \in Nat, n >= pool.next_fresh - 1
      PROVE  Untouched(n, circ, next_anc, pool, rc.gates) /\ Computes(n, circ, wire_of, rc.gates)
  <2>1. n >= p
    BY <1>2, <1>3, <1>7
  <2>2. Untouched(n, circ, next_anc, pool, rc.gates)
    BY <1>1, Run!FoldEmpty DEF Untouched
  <2>3. ASSUME NEW x \in [1 .. circ.params -> BOOLEAN], NEW mem \in SUBSET Cells
        PROVE  Carries(circ, wire_of, Run!Fold(Begun(x, n, mem), rc.gates), Wanted(circ, x, mem, Len(wire_of)))
    <3>1. PICK st : st = Begun(x, n, mem)
      OBVIOUS
    <3>2. /\ st.mem = mem /\ \A w \in 1 .. n : st.wires[w] = IF w <= p THEN x[w] ELSE FALSE
      <4>1. x \in [1 .. p -> BOOLEAN] /\ p <= n
        BY <1>2, <2>1
      <4>2. Starts(Begun(x, n, mem), x, n, mem, p)
        BY <4>1, BegunTyped
      <4> QED BY <3>1, <4>2 DEF Starts
    <3>3. Run!Fold(st, rc.gates) = st
      BY <1>1, Run!FoldEmpty
    <3>4. Wanted(circ, x, mem, Len(wire_of)) = [vals |-> x, mem |-> mem]
      <4>1. PICK none : none = SubSeq(circ.stmts, 1, Len(wire_of) - circ.params)
        OBVIOUS
      <4>2. Len(wire_of) - circ.params = 0
        BY <1>2, <1>4
      <4>3. none = << >>
        BY <4>1, <4>2
      <4> QED BY <4>1, <4>3, Effect!FoldEmpty DEF Wanted
    <3>5. x \in Seq(BOOLEAN) /\ Len(x) = p
      BY <1>2
    <3>6. \A v \in Live(circ, p) \cup 1 .. p : st.wires[wire_of[v]] = x[v]
      <4>1. \A v \in 1 .. p : v \in 1 .. n /\ v <= p
        BY <2>1
      <4> QED BY <1>4, <3>2, <4>1 DEF Live
    <3> QED BY <1>2, <1>4, <3>1, <3>2, <3>3, <3>4, <3>5, <3>6 DEF Carries, Evaluations
  <2> QED BY <2>2, <2>3 DEF Computes
<1> QED BY <1>5, <1>6, <1>7

(* Every step keeps the invariant: the steps other than SynthesizeStmt end *)
(* the synthesis.                                                          *)
LEMMA StepSInv ==
  ASSUME RInv, SInv, [Next]_vars
  PROVE  SInv'
<1>1. CASE SynthesizeStmt
  <2>1. PICK s : s = Current
    OBVIOUS
  <2>2. PICK done : done = LowerStmt(s)
    OBVIOUS
  <2>3. /\ CircuitTyped /\ WiresTyped /\ phase = "synth" /\ Len(wire_of) \in Nat /\ Len(wire_of) < VarSpace(circ)
        /\ Stmts + 1 \in 1 .. Len(circ.stmts) /\ s \in Statements /\ s.op # "Legacy"
        /\ Range(s.args) \subseteq 1 .. Len(wire_of) /\ Range(s.addr) \subseteq 1 .. Len(wire_of)
    BY <1>1, <2>1, CurrentTyped DEF SynthesizeStmt
  <2>4. /\ rc' = [rc EXCEPT !.gates = rc.gates \o done.gates] /\ wire_of' = Append(wire_of, done.wire)
        /\ next_anc' = After(done) /\ pool' = done.pool /\ UNCHANGED <<circ, phase>>
    BY <1>1, <2>1, <2>2 DEF SynthesizeStmt, After
  <2>5. Geometry /\ Distinct(circ, wire_of)
    BY <2>3 DEF SInv
  <2>6. Upcoming(s)
    BY <2>1, <2>3, <2>5 DEF Upcoming, Room, Lowerable, Current
  <2>7. LoweredTyped(done)
    BY <2>2, <2>3, LowerStmtTyped
  <2>8. PoolMoves(done)
    BY <2>2, <2>6, <2>7, PoolAfter DEF LoweredTyped
  <2>9. rc.gates \in Seq(Gates) /\ rc'.gates = rc.gates \o done.gates
    BY <2>3, <2>4 DEF WiresTyped
  <2>10. Geometry'
    <3>1. PICK m \in Nat : m = Len(wire_of)
      BY <2>3
    <3>2. Len(wire_of') = m + 1 /\ wire_of'[m + 1] = done.wire /\ \A v \in 1 .. m : wire_of'[v] = wire_of[v]
      BY <2>3, <2>4, <2>7, <3>1 DEF WiresTyped, LoweredTyped
    <3>3. /\ circ.params \in Nat /\ next_anc \in Nat /\ circ.params < next_anc /\ circ.params <= m
      BY <2>3, <3>1 DEF CircuitTyped, BoolarCircuits, WiresTyped
    <3>4. /\ done.wire = next_anc \/ done.wire \in circ.params + 1 .. next_anc - 1
          /\ next_anc' = IF done.wire = next_anc THEN next_anc + 1 ELSE next_anc
      BY <2>2, <2>4, <2>6, ResultPlace DEF After
    <3>5. ASSUME NEW v \in 1 .. m + 1
          PROVE  /\ wire_of'[v] \in 1 .. next_anc' - 1
                 /\ v <= circ.params => wire_of'[v] = v
                 /\ v > circ.params => wire_of'[v] > circ.params
      <4>1. CASE v = m + 1
        BY <3>2, <3>3, <3>4, <4>1
      <4>2. CASE v # m + 1
        <5>1. v \in 1 .. m
          BY <4>2
        <5>2. /\ wire_of[v] \in 1 .. next_anc - 1
              /\ v <= circ.params => wire_of[v] = v
              /\ v > circ.params => wire_of[v] > circ.params
          BY <2>5, <3>1, <5>1 DEF Geometry
        <5> QED BY <3>2, <3>3, <3>4, <5>1, <5>2
      <4> QED BY <4>1, <4>2
    <3>6. PoolOK(pool') /\ (pool').base = VarSpace(circ) + Len(circ.outputs)
      BY <2>4, <2>5, <2>8 DEF PoolMoves, Geometry
    <3> QED BY <2>4, <3>2, <3>5, <3>6 DEF Geometry, VarSpace
  <2>11. Distinct(circ, wire_of)'
    BY <2>2, <2>4, <2>6, DistinctAfter DEF Distinct, Live
  <2>12. ASSUME NEW n \in Nat, n >= (pool').next_fresh - 1
         PROVE  Untouched(n, circ', next_anc', pool', (rc').gates) /\ Computes(n, circ', wire_of', (rc').gates)
    <3>1. n >= done.pool.next_fresh - 1 /\ n >= pool.next_fresh - 1
      <4>1. pool.next_fresh <= done.pool.next_fresh /\ PoolOK(pool) /\ PoolOK(done.pool)
        BY <2>5, <2>8 DEF PoolMoves, Geometry
      <4> QED BY <2>4, <2>12, <4>1, PoolParts
    <3>2. Untouched(n, circ, next_anc, pool, rc.gates) /\ Computes(n, circ, wire_of, rc.gates)
      BY <2>3, <3>1 DEF SInv
    <3>3. done.gates \in Seq(Gates) /\ done.wire \in Nat
      BY <2>7 DEF LoweredTyped
    <3>4. Untouched(n, circ, After(done), done.pool, rc.gates \o done.gates)
      BY <2>2, <2>6, <2>9, <3>1, <3>2, <3>3, UntouchedAfter
    <3>5. Computes(n, circ, Append(wire_of, done.wire), rc.gates \o done.gates)
      BY <2>2, <2>6, <2>9, <3>1, <3>2, <3>3, ComputesAfter
    <3> QED BY <2>4, <2>9, <3>4, <3>5
  <2> QED BY <2>10, <2>11, <2>12 DEF SInv
<1>2. CASE Refuse \/ Panic \/ CompactAndCopy \/ harden \/ to_boolar_circuit \/ ApplyCircuit
  <2>1. phase' # "synth"
    BY <1>2 DEF Refuse, Panic, CompactAndCopy, harden, to_boolar_circuit, ApplyCircuit
  <2> QED BY <2>1 DEF SInv
<1>3. CASE UNCHANGED vars
  BY <1>3 DEF vars, SInv, Geometry, Distinct, Live, Untouched, Computes, Kept, Carries, Wanted, VarSpace
<1> QED BY <1>1, <1>2, <1>3 DEF Next

(* While a circuit is being synthesized, the invariants of its steps hold. *)
LEMMA Synthesis == Spec => []SInv
<1>1. Init => SInv
  BY InitSInv
<1>2. RInv /\ SInv /\ [Next]_vars => SInv'
  BY StepSInv
<1> QED BY <1>1, <1>2, Invariance, PTL DEF Spec

(* synthesize_naive, for every circuit: variables that somebody still has  *)
(* to read have wires of their own, also when a result takes over the wire *)
(* of an operand that is read for the last time, and the gates emitted so  *)
(* far put the values of these variables on their wires, leave parameters  *)
(* alone, and do to storage what the statements so far do.                 *)
THEOREM WiresLive == Spec => []LiveWires
<1>1. RInv /\ SInv => LiveWires
  <2> SUFFICES ASSUME RInv, SInv, phase = "synth" PROVE LiveWires
    BY DEF LiveWires
  <2>1. LiveVars = Live(circ, Len(wire_of))
    BY DEF LiveVars, Live, Stmts
  <2>2. PICK n \in Nat : n = pool.next_fresh /\ n >= pool.next_fresh - 1
    BY DEF SInv, Geometry, PoolOK, GoodPool, Pools
  <2>3. Distinct(circ, wire_of) /\ Computes(n, circ, wire_of, rc.gates)
    BY <2>2 DEF SInv
  <2>4. ASSUME NEW x \in [1 .. circ.params -> BOOLEAN], NEW mem \in Memories
        PROVE  LET now  == apply(rc.gates, [wires |-> Zeroed(x, pool.next_fresh), mem |-> mem])
                   want == EmbeddedValues([circ EXCEPT !.stmts = SubSeq(@, 1, Stmts)], x, mem)
               IN  /\ now.mem = want.mem
                   /\ \A v \in LiveVars \cup 1 .. circ.params : now.wires[wire_of[v]] = want.vals[v]
    <3>1. mem \in SUBSET Cells
      BY MemoriesAssumption
    <3>2. PICK now : now = apply(rc.gates, [wires |-> Zeroed(x, pool.next_fresh), mem |-> mem])
      OBVIOUS
    <3>3. now = Run!Fold(Begun(x, n, mem), rc.gates)
      BY <2>2, <3>2, ApplyIsFold DEF Begun
    <3>4. PICK want : want = EmbeddedValues([circ EXCEPT !.stmts = SubSeq(@, 1, Stmts)], x, mem)
      OBVIOUS
    <3>5. want = Wanted(circ, x, mem, Len(wire_of))
      <4>1. PICK c : c = [circ EXCEPT !.stmts = SubSeq(@, 1, Stmts)]
        OBVIOUS
      <4>2. c.stmts = SubSeq(circ.stmts, 1, Len(wire_of) - circ.params)
        BY <4>1 DEF RInv, CircuitTyped, BoolarCircuits, Stmts
      <4>3. c \in BoolarCircuits
        <5>1. circ \in BoolarCircuits /\ Stmts \in 0 .. Len(circ.stmts)
          BY DEF RInv, CircuitTyped, BoolarCircuits, WiresTyped, VarSpace, Stmts
        <5> QED BY <4>1, <5>1, CircuitPrefix
      <4>4. want = ValuesToggling(c, x, mem)
        BY <3>4, <4>1, <4>3, EmbeddedToggles
      <4> QED BY <4>2, <4>4, TogglingFold DEF Wanted
    <3>6. Carries(circ, wire_of, now, want)
      BY <2>3, <3>1, <3>3, <3>5 DEF Computes
    <3> QED BY <2>1, <3>2, <3>4, <3>6 DEF Carries
  <2> QED BY <2>1, <2>3, <2>4 DEF LiveWires, Distinct
<1> QED BY <1>1, Invariance, Synthesis, PTL

(* The contract of AncillaPool, for every circuit: a scratch wire that was *)
(* returned, and may be acquired again, holds what it held before any gate *)
(* was emitted, whatever the wires and storage held then.                  *)
THEOREM ScratchIsRestored == Spec => []ScratchRestored
<1>1. SInv => ScratchRestored
  <2> SUFFICES ASSUME SInv, phase = "synth",
                      NEW wires \in [1 .. pool.next_fresh - 1 -> BOOLEAN], NEW mem \in Memories,
                      NEW w \in Range(pool.free)
               PROVE  apply(rc.gates, [wires |-> wires, mem |-> mem]).wires[w] = wires[w]
    BY DEF ScratchRestored
  <2>1. PoolOK(pool)
    BY DEF SInv, Geometry
  <2>2. pool.base \in Nat /\ pool.next_fresh \in Nat /\ pool.base < pool.next_fresh /\ pool.free \in Seq(Nat)
    BY <2>1 DEF PoolOK, GoodPool, Pools
  <2>3. PICK n \in Nat : n = pool.next_fresh - 1
    BY <2>2
  <2>4. PICK k \in 1 .. Len(pool.free) : pool.free[k] = w
    BY <2>2, RangeMember
  <2>5. w \in 1 .. n /\ Spare(pool, w)
    BY SMTT(30), <2>1, <2>2, <2>3, <2>4 DEF PoolOK, Spare
  <2>6. PICK st : st = [wires |-> wires, mem |-> mem]
    OBVIOUS
  <2>7. st \in States(n)
    BY <2>3, <2>6, MemoriesAssumption DEF States
  <2>8. Untouched(n, circ, next_anc, pool, rc.gates)
    BY <2>3 DEF SInv
  <2>9. Run!Fold(st, rc.gates).wires[w] = st.wires[w]
    BY <2>5, <2>7, <2>8 DEF Untouched, Kept
  <2> QED BY <2>6, <2>9, ApplyIsFold
<1> QED BY <1>1, Synthesis, PTL

-----------------------------------------------------------------------------
(* The wires the gates of the synthesis are on.                            *)

(* Wires given out for results, and scratch wires handed out.              *)
UsedWires(na, p) == (1 .. na - 1) \cup (p.base + 1 .. p.next_fresh - 1)

(* X, CNOT and Toffoli gates.                                              *)
LEMMA ToggleOn ==
  ASSUME NEW W \in SUBSET Nat, NEW c \in W, NEW d \in W, NEW t \in W
  PROVE  /\ GateOn(W, X(t))
         /\ c # t => GateOn(W, Cnot(c, t))
         /\ c # t /\ d # t => GateOn(W, Ccnot(c, d, t))
<1>1. c \in Nat /\ d \in Nat /\ t \in Nat
  OBVIOUS
<1>2. GateOn(W, X(t))
  <2>1. PICK g : g = X(t)
    OBVIOUS
  <2>2. g \in Gates /\ g.op = "Toggle" /\ g.args = << >> /\ g.addr = << >> /\ g.target = t
    BY <1>1, <2>1, SimpleTyped DEF X, Toggle, Gate
  <2>3. Len(g.args) = 0 /\ Len(g.addr) = 0
    BY <2>2
  <2> QED BY <2>1, <2>2, <2>3 DEF GateOn
<1>3. ASSUME c # t PROVE GateOn(W, Cnot(c, t))
  <2>1. PICK g : g = Cnot(c, t)
    OBVIOUS
  <2>2. g \in Gates /\ g.op = "Toggle" /\ g.args = <<c>> /\ g.addr = << >> /\ g.target = t
    BY <1>1, <2>1, SimpleTyped DEF Cnot, Toggle, Gate
  <2>3. Len(g.args) = 1 /\ g.args[1] = c /\ Len(g.addr) = 0
    BY <2>2
  <2> QED BY <1>3, <2>1, <2>2, <2>3 DEF GateOn
<1>4. ASSUME c # t, d # t PROVE GateOn(W, Ccnot(c, d, t))
  <2>1. PICK g : g = Ccnot(c, d, t)
    OBVIOUS
  <2>2. g \in Gates /\ g.op = "Toggle" /\ g.args = <<c, d>> /\ g.addr = << >> /\ g.target = t
    BY <1>1, <2>1, SimpleTyped DEF Ccnot, Toggle, Gate
  <2>3. Len(g.args) = 2 /\ g.args[1] = c /\ g.args[2] = d /\ Len(g.addr) = 0
    BY <2>2
  <2>4. \A k \in 1 .. 2 : k = 1 \/ k = 2
    OBVIOUS
  <2> QED BY <1>4, <2>1, <2>2, <2>3, <2>4 DEF GateOn
<1> QED BY <1>2, <1>3, <1>4

(* Wires that operands are on.                                             *)
WiresIn(W, seq) == seq \in Seq(Nat) /\ \A k \in 1 .. Len(seq) : seq[k] \in W

(* Gates on storage and oracles.                                           *)
LEMMA StorageOn ==
  ASSUME NEW W \in SUBSET Nat, NEW V, V \subseteq W, NEW s \in Statements, NEW args, WiresIn(V, args),
         NEW addr, WiresIn(V, addr), NEW t \in W, t \notin V
  PROVE  /\ GateOn(W, StorageSwap(s, addr, t))
         /\ GateOn(W, ExternalXor(s, args, t))
         /\ Len(args) >= 2 => GateOn(W, ExternalStorageXor(s, args, addr))
<1>1. args \in Seq(Nat) /\ addr \in Seq(Nat) /\ t \in Nat
  BY DEF WiresIn
<1>2. /\ \A k \in 1 .. Len(args) : args[k] \in W /\ args[k] # t
      /\ \A k \in 1 .. Len(addr) : addr[k] \in W /\ addr[k] # t
  BY DEF WiresIn
<1>3. Len(<< >>) = 0
  OBVIOUS
<1>4. GateOn(W, StorageSwap(s, addr, t))
  <2>1. PICK g : g = StorageSwap(s, addr, t)
    OBVIOUS
  <2>2. g \in Gates /\ g.op = "StorageSwap" /\ g.args = << >> /\ g.addr = addr /\ g.target = t
    BY <1>1, <2>1, StorageTyped DEF StorageSwap, Gate
  <2> QED BY <1>2, <1>3, <2>1, <2>2 DEF GateOn
<1>5. GateOn(W, ExternalXor(s, args, t))
  <2>1. PICK g : g = ExternalXor(s, args, t)
    OBVIOUS
  <2>2. g \in Gates /\ g.op = "ExternalXor" /\ g.args = args /\ g.addr = << >> /\ g.target = t
    BY <1>1, <2>1, StorageTyped DEF ExternalXor, Gate
  <2> QED BY <1>2, <1>3, <2>1, <2>2 DEF GateOn
<1>6. ASSUME Len(args) >= 2 PROVE GateOn(W, ExternalStorageXor(s, args, addr))
  <2>1. PICK g : g = ExternalStorageXor(s, args, addr)
    OBVIOUS
  <2>2. g \in Gates
    BY <1>1, <1>6, <2>1, StorageTyped
  <2>3. g.op = "ExternalStorageXor" /\ g.args = args /\ g.addr = addr
    BY <2>1 DEF ExternalStorageXor, Gate
  <2> QED BY <1>2, <2>1, <2>2, <2>3 DEF GateOn
<1> QED BY <1>4, <1>5, <1>6

(* A few gates.                                                            *)
LEMMA FewOn ==
  ASSUME NEW W, NEW a, GateOn(W, a), NEW b, GateOn(W, b), NEW c, GateOn(W, c), NEW d, GateOn(W, d)
  PROVE  /\ GatesOn(W, << >>) /\ GatesOn(W, <<a>>) /\ GatesOn(W, <<a, b>>) /\ GatesOn(W, <<a, b, c>>)
         /\ GatesOn(W, <<a, b, c, d>>)
<1>1. a \in Gates /\ b \in Gates /\ c \in Gates /\ d \in Gates
  BY DEF GateOn
<1>2. GatesOn(W, << >>)
  <2>1. << >> \in Seq(Gates) /\ Len(<< >>) = 0
    OBVIOUS
  <2> QED BY <2>1 DEF GatesOn
<1>3. GatesOn(W, <<a>>)
  <2>1. PICK q : q = <<a>>
    OBVIOUS
  <2>2. q \in Seq(Gates) /\ Len(q) = 1 /\ q[1] = a
    BY <1>1, <2>1
  <2> QED BY <2>1, <2>2 DEF GatesOn
<1>4. GatesOn(W, <<a, b>>)
  <2>1. PICK q : q = <<a, b>>
    OBVIOUS
  <2>2. q \in Seq(Gates) /\ Len(q) = 2 /\ q[1] = a /\ q[2] = b
    BY <1>1, <2>1
  <2>3. \A k \in 1 .. 2 : k = 1 \/ k = 2
    OBVIOUS
  <2> QED BY <2>1, <2>2, <2>3 DEF GatesOn
<1>5. GatesOn(W, <<a, b, c>>)
  <2>1. PICK q : q = <<a, b, c>>
    OBVIOUS
  <2>2. q \in Seq(Gates) /\ Len(q) = 3 /\ q[1] = a /\ q[2] = b /\ q[3] = c
    BY <1>1, <2>1
  <2>3. \A k \in 1 .. 3 : k = 1 \/ k = 2 \/ k = 3
    OBVIOUS
  <2> QED BY <2>1, <2>2, <2>3 DEF GatesOn
<1>6. GatesOn(W, <<a, b, c, d>>)
  <2>1. PICK q : q = <<a, b, c, d>>
    OBVIOUS
  <2>2. q \in Seq(Gates) /\ Len(q) = 4 /\ q[1] = a /\ q[2] = b /\ q[3] = c /\ q[4] = d
    BY <1>1, <2>1
  <2>3. \A k \in 1 .. 4 : k = 1 \/ k = 2 \/ k = 3 \/ k = 4
    OBVIOUS
  <2> QED BY <2>1, <2>2, <2>3 DEF GatesOn
<1> QED BY <1>2, <1>3, <1>4, <1>5, <1>6

(* Where a statement finds its operands and puts its result, in a set of   *)
(* wires it may use.                                                       *)
Roomy(s, W) ==
  /\ Room /\ Lowerable(s) /\ W \in SUBSET Nat /\ UsedWires(next_anc, pool) \subseteq W

(* The wires of a statement's operands are in use.                         *)
LEMMA OperandsOn ==
  ASSUME NEW s, NEW W, Roomy(s, W)
  PROVE  LET V == 1 .. next_anc - 1
         IN  /\ s \in Statements /\ s.op \in StmtOps /\ s.op # "Legacy"
             /\ V \subseteq W /\ next_anc \in Nat /\ next_anc \notin V /\ next_anc <= pool.base /\ pool.base \in Nat
             /\ WiresIn(V, WiresOf(s.args)) /\ WiresIn(V, WiresOf(s.addr))
             /\ Len(WiresOf(s.args)) = Len(s.args)
             /\ \A k \in 1 .. Len(s.args) : wire_of[s.args[k]] = WiresOf(s.args)[k] /\ wire_of[s.args[k]] \in V
<1>1. Room /\ Lowerable(s) /\ PoolOK(pool)
  BY DEF Roomy, Room, Geometry
<1>2. /\ s \in Statements /\ s.op # "Legacy"
      /\ Range(s.args) \subseteq 1 .. Len(wire_of) /\ Range(s.addr) \subseteq 1 .. Len(wire_of)
  BY <1>1 DEF Lowerable
<1>3. s.args \in Seq(Nat \ {0}) /\ s.addr \in Seq(Nat \ {0}) /\ s.op \in StmtOps
  BY <1>2, StmtFacts
<1>4. PICK n \in Nat : n = pool.next_fresh /\ n >= pool.next_fresh - 1
  BY <1>1, PoolParts
<1>5. next_anc \in Nat /\ next_anc <= pool.base /\ pool.base \in Nat
  BY <1>1, <1>4, Places
<1>6. PICK V : V = 1 .. next_anc - 1
  OBVIOUS
<1>7. V \subseteq W /\ next_anc \notin V
  BY <1>5, <1>6 DEF Roomy, UsedWires
<1>8. PICK args, addr : args = WiresOf(s.args) /\ addr = WiresOf(s.addr)
  OBVIOUS
<1>9. /\ args \in Seq(Nat) /\ Len(args) = Len(s.args) /\ Range(args) \subseteq V
      /\ \A k \in 1 .. Len(s.args) : args[k] = wire_of[s.args[k]]
  BY <1>1, <1>2, <1>3, <1>6, <1>8, OperandWires
<1>10. addr \in Seq(Nat) /\ Range(addr) \subseteq V
  BY <1>1, <1>2, <1>3, <1>6, <1>8, OperandWires
<1>11. WiresIn(V, args) /\ WiresIn(V, addr)
  BY <1>9, <1>10 DEF WiresIn, Range
<1>12. \A k \in 1 .. Len(s.args) : wire_of[s.args[k]] = args[k] /\ wire_of[s.args[k]] \in V
  BY <1>9, <1>11 DEF WiresIn
<1> QED BY <1>2, <1>3, <1>5, <1>6, <1>7, <1>8, <1>9, <1>11, <1>12

(* Statements that use no scratch wire.                                    *)
LEMMA PlainOn ==
  ASSUME NEW s, NEW W, Roomy(s, W), Apart(s), s.op \in {"Zero", "One", "Xor", "And", "Not", "OracleBit", "ActionStoreBit"},
         LowerStmt(s).wire = next_anc => next_anc \in W
  PROVE  GatesOn(W, LowerStmt(s).gates)
<1>1. PICK V : V = 1 .. next_anc - 1
  OBVIOUS
<1>2. PICK done, args, addr : done = LowerStmt(s) /\ args = WiresOf(s.args) /\ addr = WiresOf(s.addr)
  OBVIOUS
<1>3. /\ s \in Statements /\ V \subseteq W /\ next_anc \notin V
      /\ WiresIn(V, args) /\ WiresIn(V, addr) /\ Len(args) = Len(s.args)
      /\ \A k \in 1 .. Len(s.args) : wire_of[s.args[k]] = args[k] /\ args[k] \in V /\ args[k] \in W /\ args[k] # next_anc
  BY <1>1, <1>2, OperandsOn
<1>4. W \in SUBSET Nat /\ Lowerable(s) /\ StmtShape(s)
  BY <1>3, StmtFacts DEF Roomy
<1>5. CASE s.op = "Zero"
  <2>1. done.gates = << >>
    BY <1>2, <1>5 DEF LowerStmt, NewWire, Lowered
  <2>2. << >> \in Seq(Gates) /\ Len(<< >>) = 0
    OBVIOUS
  <2> QED BY <1>2, <2>1, <2>2 DEF GatesOn
<1>6. CASE s.op = "One"
  <2>1. done.gates = <<X(next_anc)>> /\ done.wire = next_anc
    BY <1>2, <1>6 DEF LowerStmt, NewWire, Lowered
  <2>2. next_anc \in W
    BY <1>2, <2>1
  <2> QED BY <1>2, <1>4, <2>1, <2>2, ToggleOn, FewOn
<1>7. CASE s.op = "And"
  <2>1. done.gates = <<Ccnot(args[1], args[2], next_anc)>> /\ done.wire = next_anc
    BY <1>2, <1>7 DEF LowerStmt, NewWire, Lowered, WiresOf
  <2>2. next_anc \in W
    BY <1>2, <2>1
  <2>3. Len(s.args) = 2 /\ 1 \in 1 .. Len(s.args) /\ 2 \in 1 .. Len(s.args)
    BY <1>4, <1>7 DEF StmtShape
  <2>4. args[1] \in W /\ args[2] \in W /\ args[1] # next_anc /\ args[2] # next_anc
    BY <1>3, <2>3
  <2> QED BY <1>2, <1>4, <2>1, <2>2, <2>4, ToggleOn, FewOn
<1>8. CASE s.op = "Not"
  <2>1. done.gates = <<Cnot(args[1], next_anc), X(next_anc)>> /\ done.wire = next_anc
    BY <1>2, <1>8 DEF LowerStmt, NewWire, Lowered, WiresOf
  <2>2. next_anc \in W
    BY <1>2, <2>1
  <2>3. Len(s.args) = 1 /\ 1 \in 1 .. Len(s.args)
    <3>1. Len(s.args) = 1
      BY <1>4, <1>8, SMTT(30) DEF StmtShape
    <3>2. 1 \in 1 .. 1
      OBVIOUS
    <3> QED BY <3>1, <3>2, Zenon
  <2>4. args[1] \in W /\ args[1] # next_anc
    BY <1>3, <2>3
  <2> QED BY <1>2, <1>4, <2>1, <2>2, <2>4, ToggleOn, FewOn
<1>9. CASE s.op = "OracleBit"
  <2>1. done.gates = <<ExternalXor(s, args, next_anc)>> /\ done.wire = next_anc
    BY <1>2, <1>9 DEF LowerStmt, NewWire, Lowered, WiresOf
  <2>2. next_anc \in W
    BY <1>2, <2>1
  <2>3. GateOn(W, ExternalXor(s, args, next_anc))
    BY <1>3, <1>4, <2>2, StorageOn
  <2> QED BY <1>2, <2>1, <2>3, FewOn
<1>10. CASE s.op = "ActionStoreBit"
  <2>1. done.gates = <<ExternalStorageXor(s, args, addr)>> /\ done.wire = next_anc
    BY <1>2, <1>10 DEF LowerStmt, NewWire, Lowered, WiresOf
  <2>2. next_anc \in W
    BY <1>2, <2>1
  <2>3. Len(args) >= 2
    BY <1>3, <1>4, <1>10 DEF StmtShape
  <2>4. GateOn(W, ExternalStorageXor(s, args, addr))
    BY <1>3, <1>4, <2>2, <2>3, StorageOn
  <2> QED BY <1>2, <2>1, <2>4, FewOn
<1>11. CASE s.op = "Xor"
  <2>1. Len(s.args) = 2 /\ 1 \in 1 .. Len(s.args) /\ 2 \in 1 .. Len(s.args)
    BY <1>4, <1>11 DEF StmtShape
  <2>2. /\ args[1] \in W /\ args[2] \in W /\ args[1] # next_anc /\ args[2] # next_anc
        /\ wire_of[s.args[1]] = args[1] /\ wire_of[s.args[2]] = args[2]
    BY <1>3, <2>1
  <2>3. CASE Consumed(s.args[1], s.args[2]) = {}
    <3>1. done.gates = <<Cnot(args[1], next_anc), Cnot(args[2], next_anc)>> /\ done.wire = next_anc
      BY <1>2, <1>11, <2>2, <2>3 DEF LowerStmt, LowerXor, NewWire, Lowered
    <3>2. next_anc \in W
      BY <1>2, <3>1
    <3>3. GateOn(W, Cnot(args[1], next_anc)) /\ GateOn(W, Cnot(args[2], next_anc))
      BY <1>4, <2>2, <3>2, ToggleOn
    <3> QED BY <1>2, <3>1, <3>3, FewOn
  <2>4. CASE Consumed(s.args[1], s.args[2]) # {}
    <3>1. PICK c, other : /\ Taken(s, c, other)
                          /\ done = Lowered(<<Cnot(wire_of[other], wire_of[c])>>, wire_of[c], pool)
      BY <1>2, <1>11, <2>4, XorTakes
    <3>2. PICK t, u : t = wire_of[c] /\ u = wire_of[other]
      OBVIOUS
    <3>3. t \in W /\ u \in W /\ t # u
      BY <2>1, <2>2, <3>1, <3>2 DEF Taken, Apart
    <3>4. done.gates = <<Cnot(u, t)>>
      BY <3>1, <3>2 DEF Lowered
    <3>5. GateOn(W, Cnot(u, t))
      BY <1>4, <3>3, ToggleOn
    <3> QED BY <1>2, <3>4, <3>5, FewOn
  <2> QED BY <2>3, <2>4
<1> QED BY <1>5, <1>6, <1>7, <1>8, <1>9, <1>10, <1>11

(* Statements that use one scratch wire.                                   *)
LEMMA ScratchOn ==
  ASSUME NEW s, NEW W, Roomy(s, W), s.op \in {"StorageRead", "StorageWrite"},
         next_anc \in W, UsedWires(next_anc, LowerStmt(s).pool) \subseteq W
  PROVE  GatesOn(W, LowerStmt(s).gates)
<1>1. PICK V : V = 1 .. next_anc - 1
  OBVIOUS
<1>2. PICK done, args, addr : done = LowerStmt(s) /\ args = WiresOf(s.args) /\ addr = WiresOf(s.addr)
  OBVIOUS
<1>3. /\ s \in Statements /\ V \subseteq W /\ next_anc \notin V
      /\ WiresIn(V, args) /\ WiresIn(V, addr) /\ Len(args) = Len(s.args)
      /\ \A k \in 1 .. Len(s.args) : wire_of[s.args[k]] = args[k] /\ args[k] \in V
      /\ next_anc \in Nat /\ next_anc <= pool.base /\ pool.base \in Nat
  BY <1>1, <1>2, OperandsOn
<1>4. W \in SUBSET Nat /\ PoolOK(pool) /\ StmtShape(s)
  BY <1>3, StmtFacts DEF Roomy, Room, Geometry
<1>5. PICK t, q : t = Acquired(pool) /\ q = acquire(pool) /\ Lends(pool, q, t)
  BY <1>4, AcquireLends
<1>6. done.pool.base = pool.base /\ done.pool.next_fresh = q.next_fresh
  <2>1. PoolOK(q) /\ q.base = pool.base
    BY <1>5 DEF Lends
  <2>2. release(q, t).base = q.base /\ release(q, t).next_fresh = q.next_fresh
    BY <2>1 DEF PoolOK, GoodPool, Pools, release
  <2>3. done.pool = q \/ done.pool = release(q, t)
    BY <1>2, <1>5 DEF LowerStmt, LowerRead, LowerWrite, Lowered
  <2> QED BY <2>1, <2>2, <2>3
<1>7. t \in W /\ t \notin V /\ t # next_anc
  <2>1. t \in pool.base + 1 .. q.next_fresh - 1
    BY <1>5 DEF Lends
  <2>2. t \in UsedWires(next_anc, done.pool)
    BY <1>6, <2>1 DEF UsedWires
  <2>3. PoolOK(q) /\ q.next_fresh \in Nat
    BY <1>5, PoolParts DEF Lends
  <2>4. t > pool.base
    BY <1>3, <2>1, <2>3
  <2> QED BY <1>1, <1>2, <1>3, <2>1, <2>2, <2>3, <2>4
<1>8. PICK g : g = StorageSwap(s, addr, t) /\ GateOn(W, g)
  BY <1>3, <1>4, <1>7, StorageOn
<1>9. CASE s.op = "StorageRead"
  <2>1. done.gates = <<g, Cnot(t, next_anc), g>>
    BY <1>2, <1>5, <1>8, <1>9 DEF LowerStmt, LowerRead, Lowered, WiresOf
  <2>2. GateOn(W, Cnot(t, next_anc))
    BY <1>4, <1>7, ToggleOn
  <2> QED BY <1>2, <1>8, <2>1, <2>2, FewOn
<1>10. CASE s.op = "StorageWrite"
  <2>1. done.gates = <<Cnot(args[1], t), g>>
    BY <1>2, <1>5, <1>8, <1>10 DEF LowerStmt, LowerWrite, Lowered, WiresOf
  <2>2. Len(s.args) = 1 /\ 1 \in 1 .. Len(s.args)
    <3>1. s.op \in {"Not", "StorageWrite"}
      BY <1>10
    <3>2. Len(s.args) = 1
      BY <1>4, <3>1 DEF StmtShape
    <3> QED BY <3>2
  <2>3. args[1] \in W /\ args[1] # t
    BY <1>3, <1>7, <2>2
  <2>4. GateOn(W, Cnot(args[1], t))
    BY <1>4, <1>7, <2>3, ToggleOn
  <2> QED BY <1>2, <1>8, <2>1, <2>4, FewOn
<1> QED BY <1>9, <1>10

(* Two scratch wires are different wires of the pool.                      *)
LEMMA TwoScratch ==
  ASSUME NEW p, PoolOK(p), NEW one, NEW two, NEW na, NEW nb, Lends(p, one, na), Lends(one, two, nb)
  PROVE  /\ na # nb /\ PoolOK(two) /\ two.base = p.base
         /\ na \in p.base + 1 .. two.next_fresh - 1 /\ nb \in p.base + 1 .. two.next_fresh - 1
<1>1. /\ PoolOK(one) /\ one.base = p.base /\ na \in p.base + 1 .. one.next_fresh - 1 /\ ~Spare(one, na)
  BY DEF Lends
<1>2. /\ PoolOK(two) /\ two.base = one.base /\ nb \in one.base + 1 .. two.next_fresh - 1
      /\ one.next_fresh <= two.next_fresh /\ Spare(one, nb)
  BY DEF Lends
<1>3. PICK b \in Nat, f \in Nat, g \in Nat : b = p.base /\ f = one.next_fresh /\ g = two.next_fresh
  BY <1>1, <1>2, PoolParts
<1>4. na \in b + 1 .. f - 1 /\ f <= g
  BY <1>1, <1>2, <1>3, Zenon
<1>5. na \in b + 1 .. g - 1
  BY ONLY b \in Nat, f \in Nat, g \in Nat, <1>4
<1>6. nb \in b + 1 .. g - 1
  BY <1>1, <1>2, <1>3, Zenon
<1>7. na # nb
  BY <1>1, <1>2, Zenon
<1> QED BY <1>1, <1>2, <1>3, <1>5, <1>6, <1>7, Zenon

(* Or uses two.                                                            *)
LEMMA OrOn ==
  ASSUME NEW s, NEW W, Roomy(s, W), s.op = "Or",
         next_anc \in W, UsedWires(next_anc, LowerStmt(s).pool) \subseteq W
  PROVE  GatesOn(W, LowerStmt(s).gates)
<1>1. PICK V : V = 1 .. next_anc - 1
  OBVIOUS
<1>2. PICK done : done = LowerStmt(s)
  OBVIOUS
<1>3. /\ s \in Statements /\ V \subseteq W /\ next_anc \notin V
      /\ next_anc \in Nat /\ next_anc <= pool.base /\ pool.base \in Nat
      /\ \A k \in 1 .. Len(s.args) : wire_of[s.args[k]] \in V
  BY <1>1, <1>2, OperandsOn
<1>4. W \in SUBSET Nat /\ PoolOK(pool) /\ StmtShape(s)
  BY <1>3, StmtFacts DEF Roomy, Room, Geometry
<1>5. PICK na, one : na = Acquired(pool) /\ one = acquire(pool) /\ Lends(pool, one, na)
  BY <1>4, AcquireLends
<1>6. PICK nb, two : nb = Acquired(one) /\ two = acquire(one) /\ Lends(one, two, nb)
  BY <1>5, AcquireLends DEF Lends
<1>7. /\ na # nb /\ PoolOK(two) /\ two.base = pool.base
      /\ na \in pool.base + 1 .. two.next_fresh - 1 /\ nb \in pool.base + 1 .. two.next_fresh - 1
  <2>1. PoolOK(pool) /\ Lends(pool, one, na) /\ Lends(one, two, nb)
    BY <1>4, <1>5, <1>6
  <2> QED BY <2>1, TwoScratch
<1>8. done.pool.base = pool.base /\ done.pool.next_fresh = two.next_fresh
  <2>1. PICK r : r = release(release(two, na), nb)
    OBVIOUS
  <2>2. r.base = two.base /\ r.next_fresh = two.next_fresh
    BY <1>7, <2>1 DEF PoolOK, GoodPool, Pools, release
  <2>3. done.pool = two \/ done.pool = r
    BY <1>2, <1>5, <1>6, <2>1 DEF LowerStmt, LowerOr, Lowered
  <2> QED BY <1>7, <2>2, <2>3
<1>9. na \in W /\ nb \in W /\ na > pool.base /\ nb > pool.base /\ na \in Nat /\ nb \in Nat
  <2>1. na \in UsedWires(next_anc, done.pool) /\ nb \in UsedWires(next_anc, done.pool)
    BY <1>7, <1>8 DEF UsedWires
  <2>2. two.next_fresh \in Nat
    BY <1>7, PoolParts
  <2> QED BY <1>2, <1>3, <1>7, <2>1, <2>2
<1>10. PICK c, d : c = wire_of[s.args[1]] /\ d = wire_of[s.args[2]]
  OBVIOUS
<1>11. c \in W /\ d \in W /\ c \notin {na, nb} /\ d \notin {na, nb} /\ next_anc \notin {na, nb}
  <2>1. Len(s.args) = 2 /\ 1 \in 1 .. Len(s.args) /\ 2 \in 1 .. Len(s.args)
    BY <1>4 DEF StmtShape
  <2>2. c \in V /\ d \in V
    BY <1>3, <1>10, <2>1
  <2>3. \A w \in V : w <= pool.base
    BY <1>1, <1>3
  <2> QED BY <1>3, <1>9, <2>2, <2>3
<1>12. PICK copy, top : copy = <<Cnot(c, na), X(na), Cnot(d, nb), X(nb)>> /\ top = <<Ccnot(na, nb, next_anc), X(next_anc)>>
  OBVIOUS
<1>13. GatesOn(W, copy)
  <2>1. GateOn(W, Cnot(c, na)) /\ GateOn(W, X(na))
    BY <1>4, <1>9, <1>11, ToggleOn
  <2>2. GateOn(W, Cnot(d, nb)) /\ GateOn(W, X(nb))
    BY <1>4, <1>9, <1>11, ToggleOn
  <2> QED BY <1>12, <2>1, <2>2, FewOn
<1>14. GatesOn(W, top)
  <2>1. GateOn(W, Ccnot(na, nb, next_anc)) /\ GateOn(W, X(next_anc))
    BY <1>4, <1>9, <1>11, ToggleOn
  <2> QED BY <1>12, <2>1, FewOn
<1>15. done.gates = copy \o top \/ done.gates = (copy \o top) \o Reverse(copy)
  BY <1>2, <1>5, <1>6, <1>10, <1>12 DEF LowerStmt, LowerOr, Lowered
<1>16. GatesOn(W, copy \o top) /\ GatesOn(W, Reverse(copy))
  BY <1>13, <1>14, OnConcat, OnReverse
<1> QED BY <1>2, <1>15, <1>16, OnConcat

(* A statement's gates are on wires that are given out then.               *)
LEMMA LoweredOn ==
  ASSUME NEW s, Upcoming(s), PoolMoves(LowerStmt(s))
  PROVE  LET W == UsedWires(After(LowerStmt(s)), LowerStmt(s).pool)
         IN  UsedWires(next_anc, pool) \subseteq W /\ GatesOn(W, LowerStmt(s).gates)
<1>1. PICK done : done = LowerStmt(s)
  OBVIOUS
<1>2. PICK W : W = UsedWires(After(done), done.pool)
  OBVIOUS
<1>3. /\ Room /\ Lowerable(s) /\ Apart(s) /\ s.op \in StmtOps /\ s.op # "Legacy" /\ PoolOK(pool)
  BY OperandsLive, StmtFacts DEF Upcoming, Lowerable, Room, Geometry
<1>4. PoolOK(done.pool) /\ done.pool.base = pool.base /\ pool.next_fresh <= done.pool.next_fresh
  BY <1>1 DEF PoolMoves
<1>5. /\ pool.base \in Nat /\ pool.next_fresh \in Nat /\ done.pool.next_fresh \in Nat /\ next_anc \in Nat
      /\ circ.params \in Nat /\ next_anc > circ.params
  <2>1. next_anc \in Nat /\ circ.params \in Nat /\ next_anc > circ.params
    BY <1>3 DEF Room, WiresTyped, CircuitTyped, BoolarCircuits
  <2> QED BY <1>3, <1>4, <2>1, PoolParts
<1>6. W \in SUBSET Nat /\ UsedWires(next_anc, pool) \subseteq W /\ UsedWires(next_anc, done.pool) \subseteq W
  <2>1. After(done) \in Nat /\ next_anc <= After(done)
    BY <1>5 DEF After
  <2> QED BY <1>2, <1>4, <1>5, <2>1 DEF UsedWires
<1>7. done.wire = next_anc => next_anc \in W
  BY <1>2, <1>5 DEF After, UsedWires
<1>8. Roomy(s, W)
  BY <1>3, <1>6 DEF Roomy
<1>9. CASE s.op \in {"Zero", "One", "Xor", "And", "Not", "OracleBit", "ActionStoreBit"}
  BY <1>1, <1>2, <1>3, <1>6, <1>7, <1>8, <1>9, PlainOn
<1>10. CASE s.op \in {"Or", "StorageRead", "StorageWrite"}
  <2>1. done.wire = next_anc
    <3>1. \/ done.wire = next_anc
          \/ \E c, other : s.op = "Xor" /\ Taken(s, c, other) /\ done.wire = wire_of[c]
      BY <1>1, <1>3, ResultWire
    <3> QED BY <1>10, <3>1
  <2> QED BY <1>1, <1>2, <1>6, <1>7, <1>8, <1>10, <2>1, OrOn, ScratchOn
<1> QED BY <1>1, <1>2, <1>3, <1>6, <1>9, <1>10 DEF StmtOps

(* While a circuit is being synthesized, its gates are on wires given out. *)
UsedInv == phase = "synth" => GatesOn(UsedWires(next_anc, pool), rc.gates)

(* No gate has been made at first.                                         *)
LEMMA InitUsed ==
  ASSUME Init
  PROVE  UsedInv
<1>1. CASE rc = [n |-> 0, gates |-> << >>]
  <2>1. << >> \in Seq(Gates) /\ Len(<< >>) = 0
    OBVIOUS
  <2> QED BY <1>1, <2>1 DEF UsedInv, GatesOn
<1>2. CASE phase = "ready"
  BY <1>2 DEF UsedInv
<1> QED BY <1>1, <1>2 DEF Init

(* Statements' gates are on wires given out before or for them.            *)
LEMMA StepUsed ==
  ASSUME RInv, SInv, UsedInv, [Next]_vars
  PROVE  UsedInv'
<1>1. CASE SynthesizeStmt
  <2>1. PICK s : s = Current
    OBVIOUS
  <2>2. PICK done : done = LowerStmt(s)
    OBVIOUS
  <2>3. /\ CircuitTyped /\ WiresTyped /\ phase = "synth" /\ Len(wire_of) < VarSpace(circ)
        /\ Stmts + 1 \in 1 .. Len(circ.stmts) /\ s \in Statements /\ s.op # "Legacy"
        /\ Range(s.args) \subseteq 1 .. Len(wire_of) /\ Range(s.addr) \subseteq 1 .. Len(wire_of)
    BY <1>1, <2>1, CurrentTyped DEF SynthesizeStmt
  <2>4. /\ rc' = [rc EXCEPT !.gates = rc.gates \o done.gates]
        /\ next_anc' = After(done) /\ pool' = done.pool
    BY <1>1, <2>1, <2>2 DEF SynthesizeStmt, After
  <2>5. Upcoming(s)
    BY <2>1, <2>3 DEF SInv, Upcoming, Room, Lowerable, Current
  <2>6. LoweredTyped(done)
    BY <2>2, <2>3, LowerStmtTyped
  <2>7. PoolMoves(done)
    BY <2>2, <2>5, <2>6, PoolAfter DEF LoweredTyped
  <2>8. PICK W : W = UsedWires(After(done), done.pool) /\ UsedWires(next_anc, pool) \subseteq W /\ GatesOn(W, done.gates)
    BY <2>2, <2>5, <2>7, LoweredOn
  <2>9. GatesOn(W, rc.gates)
    BY <2>3, <2>8, OnMore DEF UsedInv
  <2>10. GatesOn(W, rc.gates \o done.gates)
    BY <2>8, <2>9, OnConcat
  <2>11. (rc').gates = rc.gates \o done.gates /\ UsedWires(next_anc', pool') = W
    BY <2>3, <2>4, <2>8 DEF WiresTyped
  <2>12. GatesOn(UsedWires(next_anc', pool'), (rc').gates)
    BY <2>10, <2>11
  <2> QED BY <2>12 DEF UsedInv, UsedWires, GatesOn
<1>2. CASE Refuse \/ Panic \/ CompactAndCopy \/ harden \/ to_boolar_circuit \/ ApplyCircuit
  <2>1. phase' # "synth"
    BY <1>2 DEF Refuse, Panic, CompactAndCopy, harden, to_boolar_circuit, ApplyCircuit
  <2> QED BY <2>1 DEF UsedInv
<1>3. CASE UNCHANGED vars
  BY <1>3 DEF vars, UsedInv, UsedWires, GatesOn
<1> QED BY <1>1, <1>2, <1>3 DEF Next

-----------------------------------------------------------------------------
(* The circuit without its gaps.                                           *)

Ys(c, base) == base + 1 .. base + Len(c.outputs)
Inside(c, n, base) == (1 .. n) \ Ys(c, base)
Cleared(c, n, base, wires) == \A w \in Inside(c, n, base) : w > c.params => ~wires[w]

(* Parameters are as they were; if the workspace was 0, the outputs are    *)
(* on their wires, and storage is as it should be.                         *)
ComputedBy(c, wires, n, base, st, to) ==
  LET f == TogglingResult(c, SubSeq(st.wires, 1, c.params), st.mem)
  IN  /\ \A w \in 1 .. c.params : to.wires[w] = st.wires[w]
      /\ Cleared(c, n, base, st.wires) =>
           to.mem = f.mem /\ \A k \in 1 .. Len(c.outputs) : to.wires[wires[c.outputs[k]]] = f.out[k]

(* Gates that compute circuit c without using the wires for its outputs.   *)
Embedded(c, wires, n, base, compute) ==
  /\ base \in Nat /\ n \in Nat /\ c.params <= base /\ base + Len(c.outputs) <= n
  /\ \A k \in 1 .. Len(c.outputs) : wires[c.outputs[k]] \in 1 .. base
  /\ GatesOn(Inside(c, n, base), compute)
  /\ \A m \in Nat : m >= n =>
       \A st \in States(m) : ComputedBy(c, wires, n, base, st, Run!Fold(st, compute))

(* The parts of a circuit.                                                 *)
LEMMA CircuitParts ==
  ASSUME CircuitTyped
  PROVE  /\ circ.params \in Nat /\ circ.stmts \in Seq(Statements) /\ Len(circ.stmts) \in Nat
         /\ circ.outputs \in Seq(Nat \ {0}) /\ Len(circ.outputs) \in Nat
         /\ VarSpace(circ) = circ.params + Len(circ.stmts) /\ VarSpace(circ) \in Nat
         /\ \A k \in 1 .. Len(circ.outputs) : circ.outputs[k] \in 1 .. VarSpace(circ) /\ circ.outputs[k] \in Range(circ.outputs)
<1>1. circ.params \in Nat /\ circ.stmts \in Seq(Statements) /\ circ.outputs \in Seq(Nat \ {0})
  BY DEF CircuitTyped, BoolarCircuits
<1>2. VarSpace(circ) = circ.params + Len(circ.stmts) /\ VarSpace(circ) \in Nat
  BY <1>1 DEF VarSpace
<1>3. \A k \in 1 .. Len(circ.outputs) : circ.outputs[k] \in Range(circ.outputs)
  BY <1>1 DEF Range
<1> QED BY <1>1, <1>2, <1>3 DEF CircuitTyped

(* All statements.                                                         *)
LEMMA WantedAll ==
  ASSUME CircuitTyped, NEW x, NEW mem, NEW want, want = Wanted(circ, x, mem, VarSpace(circ)),
         NEW f, f = TogglingResult(circ, x, mem)
  PROVE  f.mem = want.mem /\ \A k \in 1 .. Len(circ.outputs) : f.out[k] = want.vals[circ.outputs[k]]
<1>1. SubSeq(circ.stmts, 1, VarSpace(circ) - circ.params) = circ.stmts
  <2>1. PICK s \in Seq(Statements) : s = circ.stmts
    BY CircuitParts
  <2>2. VarSpace(circ) - circ.params = Len(s)
    BY <2>1, CircuitParts
  <2>3. SubSeq(s, 1, Len(s)) = s
    OBVIOUS
  <2> QED BY <2>1, <2>2, <2>3
<1>2. want = ValuesToggling(circ, x, mem)
  BY <1>1, TogglingFold DEF Wanted
<1>3. f = [out |-> MapSeq(circ.outputs, LAMBDA v : want.vals[v]), mem |-> want.mem]
  BY <1>2 DEF TogglingResult, Returned
<1> QED BY <1>3, CircuitParts DEF MapSeq

(* Where the wires of the synthesis go.                                    *)
Closed(w) == IF w > VarSpace(circ) THEN w - (VarSpace(circ) - (next_anc - 1)) ELSE w
Synthesized == RInv /\ SInv /\ UsedInv /\ phase = "synth" /\ Len(wire_of) = VarSpace(circ)
Closing == [w \in UsedWires(next_anc, pool) |-> Closed(w)]
ClosedWires == next_anc - 1 + Len(circ.outputs) + peak_allocated(pool)

(* Where wires go when the gaps are closed.                                *)
LEMMA ClosingPlaces ==
  ASSUME Synthesized
  PROVE  LET base == next_anc - 1
             W    == UsedWires(next_anc, pool)
             V    == Inside(circ, ClosedWires, base)
         IN  /\ base \in Nat /\ ClosedWires \in Nat /\ circ.params <= base /\ base + Len(circ.outputs) <= ClosedWires
             /\ pool.next_fresh - 1 \in Nat /\ pool.next_fresh - 1 >= 0 /\ W \in SUBSET (1 .. pool.next_fresh - 1)
             /\ \A w \in W : Closing[w] \in V /\ (w > circ.params => Closing[w] > circ.params)
             /\ \A u, v \in W : Closing[u] = Closing[v] => u = v
             /\ \A w \in 1 .. base : w \in W /\ Closing[w] = w
<1>1. /\ CircuitTyped /\ WiresTyped /\ Geometry
  BY DEF Synthesized, RInv, SInv
<1>2. PICK p \in Nat, prov \in Nat, outs \in Nat : p = circ.params /\ prov = VarSpace(circ) /\ outs = Len(circ.outputs) /\ p <= prov
  BY <1>1, CircuitParts
<1>3. PICK base \in Nat : base = next_anc - 1 /\ p <= base /\ base <= prov
  BY <1>1, <1>2 DEF WiresTyped, Synthesized
<1>4. PICK above \in Nat, fresh \in Nat : above = pool.base /\ fresh = pool.next_fresh /\ above < fresh /\ above = prov + outs
  BY <1>1, <1>2, PoolParts DEF Geometry
<1>5. PICK n \in Nat : n = ClosedWires /\ n = base + outs + (fresh - above - 1)
  <2>1. peak_allocated(pool) = fresh - above - 1 /\ fresh - above - 1 \in Nat
    BY <1>4 DEF peak_allocated
  <2>2. ClosedWires = base + outs + (fresh - above - 1)
    BY <1>2, <1>3, <2>1 DEF ClosedWires
  <2> QED BY <1>2, <1>3, <2>1, <2>2
<1>6. PICK W : W = UsedWires(next_anc, pool) /\ W = (1 .. base) \cup (above + 1 .. fresh - 1)
  BY <1>3, <1>4 DEF UsedWires
<1>7. W \in SUBSET (1 .. fresh - 1)
  <2>1. base <= fresh - 1 /\ 1 <= above + 1
    BY <1>2, <1>3, <1>4
  <2>2. W = (1 .. base) \cup (above + 1 .. fresh - 1)
    BY <1>6
  <2>3. \A w \in W : w \in 1 .. fresh - 1
    BY ONLY base \in Nat, above \in Nat, fresh \in Nat, <2>1, <2>2, SMTT(30)
  <2> QED BY <2>3, Zenon
<1>8. /\ \A w \in 1 .. base : w \in W /\ Closing[w] = w
      /\ \A w \in above + 1 .. fresh - 1 : w \in W /\ Closing[w] = w - (prov - base)
  <2>1. \A w \in W : Closing[w] = IF w > prov THEN w - (prov - base) ELSE w
    BY <1>2, <1>3, <1>6 DEF Closing, Closed
  <2> QED BY SMTT(30), <1>2, <1>3, <1>4, <1>6, <2>1
<1>9. PICK V : V = Inside(circ, n, base) /\ V = (1 .. n) \ (base + 1 .. base + outs)
  BY <1>2 DEF Inside, Ys
<1>10. ASSUME NEW w \in W PROVE Closing[w] \in V /\ (w > p => Closing[w] > p)
  <2>1. CASE w \in 1 .. base
    <3>1. Closing[w] = w
      BY <1>8, <2>1
    <3>2. fresh - above - 1 \in Nat
      BY <1>4
    <3>3. PICK extra \in Nat : extra = fresh - above - 1 /\ n = base + outs + extra
      BY <1>5, <3>2
    <3>4. w \in Nat /\ w >= 1 /\ w <= base
      BY <1>3, <2>1
    <3>5. w \in 1 .. n
      BY <1>2, <1>3, <3>3, <3>4
    <3>6. w \notin base + 1 .. base + outs
      BY <1>2, <1>3, <3>4
    <3> QED BY <1>9, <3>1, <3>5, <3>6
  <2>2. CASE w \in above + 1 .. fresh - 1
    <3>1. Closing[w] = w - (prov - base)
      BY <1>8, <2>2
    <3>2. w - (prov - base) > base + outs /\ w - (prov - base) <= n /\ w - (prov - base) \in Nat
      BY <1>3, <1>4, <1>5, <2>2
    <3> QED BY <1>3, <1>5, <1>9, <3>1, <3>2
  <2> QED BY <1>6, <2>1, <2>2
<1>11. ASSUME NEW u \in W, NEW v \in W, Closing[u] = Closing[v] PROVE u = v
  <2>1. \A w \in above + 1 .. fresh - 1 : w - (prov - base) > base
    BY <1>3, <1>4
  <2>2. CASE u \in 1 .. base /\ v \in 1 .. base
    BY <1>8, <1>11, <2>2
  <2>3. CASE u \in above + 1 .. fresh - 1 /\ v \in above + 1 .. fresh - 1
    BY <1>8, <1>11, <2>3
  <2>4. CASE u \in 1 .. base /\ v \in above + 1 .. fresh - 1
    BY <1>8, <1>11, <2>1, <2>4
  <2>5. CASE u \in above + 1 .. fresh - 1 /\ v \in 1 .. base
    BY <1>8, <1>11, <2>1, <2>5
  <2> QED BY <1>6, <2>2, <2>3, <2>4, <2>5
<1>12. base + outs <= n /\ fresh - 1 \in Nat /\ fresh - 1 >= 0
  BY <1>4, <1>5
<1> QED BY <1>2, <1>3, <1>4, <1>5, <1>6, <1>7, <1>8, <1>9, <1>10, <1>11, <1>12

(* The gates of the synthesis, with their wires closed up, compute the     *)
(* circuit in any circuit with wires enough.                               *)
LEMMA ClosedComputes ==
  ASSUME Synthesized, NEW moved \in Seq(Gates), LikeAll(Closing, rc.gates, moved)
  PROVE  Embedded(circ, wire_of, ClosedWires, next_anc - 1, moved)
<1>1. PICK base, n, W, V :
        /\ base \in Nat /\ n \in Nat
        /\ base = next_anc - 1 /\ n = ClosedWires /\ W = UsedWires(next_anc, pool) /\ V = Inside(circ, n, base)
        /\ circ.params <= base /\ base + Len(circ.outputs) <= n
  BY ClosingPlaces
<1>2. PICK old \in Nat : old = pool.next_fresh - 1 /\ old >= pool.next_fresh - 1 /\ W \in SUBSET (1 .. old)
  BY <1>1, ClosingPlaces
<1>3. PICK r : r = Closing /\ r \in [W -> V] /\ \A u, v \in W : r[u] = r[v] => u = v
  <2>1. \A w \in W : Closing[w] \in V
    BY <1>1, ClosingPlaces
  <2>2. \A u, v \in W : Closing[u] = Closing[v] => u = v
    BY <1>1, ClosingPlaces
  <2>3. Closing \in [W -> V]
    BY <1>1, <2>1 DEF Closing
  <2> QED BY <2>2, <2>3
<1>4. \A w \in 1 .. base : w \in W /\ r[w] = w
  BY <1>1, <1>3, ClosingPlaces
<1>5. \A w \in W : w > circ.params => r[w] > circ.params
  BY <1>1, <1>3, ClosingPlaces
<1>6. CircuitTyped /\ Geometry /\ GatesOn(W, rc.gates) /\ Len(wire_of) = VarSpace(circ) /\ next_anc \in Nat
  BY <1>1 DEF Synthesized, RInv, SInv, UsedInv, WiresTyped
<1>7. Untouched(old, circ, next_anc, pool, rc.gates) /\ Computes(old, circ, wire_of, rc.gates)
  BY <1>2 DEF Synthesized, SInv
<1>8. \A k \in 1 .. Len(circ.outputs) : wire_of[circ.outputs[k]] \in 1 .. base
  BY <1>1, <1>6, CircuitParts DEF Geometry
<1>9. GatesOn(V, moved)
  <2>1. Injective(r, W, V)
    BY <1>3 DEF Injective
  <2>2. ASSUME NEW k \in 1 .. Len(moved) PROVE GateOn(V, moved[k])
    <3>1. k \in 1 .. Len(rc.gates) /\ Like(r, rc.gates[k], moved[k]) /\ GateOn(W, rc.gates[k]) /\ moved[k] \in Gates
      BY <1>3, <1>6 DEF LikeAll, GatesOn
    <3> QED BY <2>1, <3>1, LikeOn
  <2> QED BY <2>2 DEF GatesOn
<1>10. ASSUME NEW m \in Nat, m >= n, NEW st \in States(m)
       PROVE  ComputedBy(circ, wire_of, n, base, st, Run!Fold(st, moved))
  <2>1. \A w \in V : w \in 1 .. m
    BY <1>1, <1>10 DEF Inside
  <2>2. Injective(r, W, 1 .. m)
    BY <1>3, <2>1 DEF Injective
  <2>3. PICK to : to = Run!Fold(st, moved)
    OBVIOUS
  <2>4. st.wires \in [1 .. m -> BOOLEAN] /\ st.mem \in SUBSET Cells
    BY StateParts
  <2>5. ASSUME NEW a \in States(old), SameOn(r, W, a, st)
        PROVE  SameOn(r, W, Run!Fold(a, rc.gates), to)
    <3>1. Related(old, m, W, r, a, st)
      BY <1>2, <2>2, <2>5 DEF Related
    <3>2. Related(old, m, W, r, Run!Fold(a, rc.gates), Run!Fold(st, moved))
      BY <1>3, <1>6, <3>1, RunLike
    <3> QED BY <2>3, <3>2 DEF Related
  <2>6. ASSUME NEW w \in 1 .. circ.params PROVE to.wires[w] = st.wires[w]
    <3>1. PICK a : a = [wires |-> [v \in 1 .. old |-> IF v \in W THEN st.wires[r[v]] ELSE FALSE], mem |-> st.mem]
      OBVIOUS
    <3>2. \A v \in W : v \in 1 .. old /\ r[v] \in 1 .. m /\ a.wires[v] = st.wires[r[v]]
      BY <1>2, <1>3, <2>1, <3>1
    <3>3. a \in States(old)
      <4>1. \A v \in 1 .. old : (IF v \in W THEN st.wires[r[v]] ELSE FALSE) \in BOOLEAN
        BY <2>4, <3>2
      <4> QED BY <2>4, <3>1, <4>1 DEF States
    <3>4. SameOn(r, W, a, st)
      BY <3>1, <3>2 DEF SameOn
    <3>5. PICK b : b = Run!Fold(a, rc.gates) /\ SameOn(r, W, b, to)
      BY <2>5, <3>3, <3>4
    <3>6. circ.params \in Nat
      BY <1>6, CircuitParts
    <3>7. w \in W /\ r[w] = w /\ w \in 1 .. old /\ w <= circ.params
      BY <1>1, <1>4, <3>2, <3>6
    <3>8. b.wires[w] = a.wires[w]
      BY <1>7, <3>3, <3>5, <3>7 DEF Untouched, Kept
    <3>9. to.wires[w] = b.wires[w] /\ a.wires[w] = st.wires[w]
      BY <3>2, <3>5, <3>7 DEF SameOn
    <3> QED BY <3>8, <3>9
  <2>7. ASSUME Cleared(circ, n, base, st.wires), NEW f, f = TogglingResult(circ, SubSeq(st.wires, 1, circ.params), st.mem)
        PROVE  to.mem = f.mem /\ \A k \in 1 .. Len(circ.outputs) : to.wires[wire_of[circ.outputs[k]]] = f.out[k]
    <3>1. circ.params \in Nat /\ circ.params <= m /\ circ.params <= old
      <4>1. circ.params \in Nat
        BY <1>6, CircuitParts
      <4>2. circ.params <= old
        <5>1. CASE circ.params = 0
          BY <5>1
        <5>2. CASE circ.params # 0
          BY <1>1, <1>2, <1>4, <4>1, <5>2
        <5> QED BY <5>1, <5>2
      <4>3. Len(circ.outputs) \in Nat
        BY <1>6, CircuitParts
      <4> QED BY <1>1, <1>10, <4>1, <4>2, <4>3
    <3>2. PICK x : x = SubSeq(st.wires, 1, circ.params)
      OBVIOUS
    <3>3. x = [w \in 1 .. circ.params |-> st.wires[w]]
      <4>1. st.wires \in Seq(BOOLEAN) /\ Len(st.wires) = m
        BY <2>4
      <4> QED BY <3>1, <3>2, <4>1
    <3>4. x \in [1 .. circ.params -> BOOLEAN]
      BY <2>4, <3>1, <3>3
    <3>5. PICK a : a = Begun(x, old, st.mem)
      OBVIOUS
    <3>6. a \in States(old) /\ Starts(a, x, old, st.mem, circ.params)
      BY <2>4, <3>1, <3>4, <3>5, BegunTyped
    <3>7. SameOn(r, W, a, st)
      <4>1. ASSUME NEW w \in W PROVE st.wires[r[w]] = a.wires[w]
        <5>1. a.wires[w] = IF w <= circ.params THEN x[w] ELSE FALSE
          BY <1>2, <3>6 DEF Starts
        <5>2. CASE w <= circ.params
          <6>1. w \in 1 .. circ.params /\ r[w] = w
            BY <1>1, <1>2, <1>4, <3>1, <5>2
          <6> QED BY <3>3, <5>1, <5>2, <6>1
        <5>3. CASE ~(w <= circ.params)
          <6>1. r[w] \in V /\ r[w] > circ.params
            BY <1>2, <1>3, <1>5, <3>1, <5>3
          <6>2. ~st.wires[r[w]]
            BY <1>1, <2>7, <6>1 DEF Cleared
          <6>3. st.wires[r[w]] \in BOOLEAN
            BY <2>1, <2>4, <6>1
          <6> QED BY <5>1, <5>3, <6>2, <6>3
        <5> QED BY <5>2, <5>3
      <4> QED BY <3>6, <4>1 DEF SameOn, Starts
    <3>8. PICK b : b = Run!Fold(a, rc.gates) /\ SameOn(r, W, b, to)
      BY <2>5, <3>6, <3>7
    <3>9. PICK want : want = Wanted(circ, x, st.mem, VarSpace(circ)) /\ Carries(circ, wire_of, b, want)
      BY <1>6, <1>7, <2>4, <3>4, <3>5, <3>8 DEF Computes
    <3>10. f.mem = want.mem /\ \A k \in 1 .. Len(circ.outputs) : f.out[k] = want.vals[circ.outputs[k]]
      BY <1>6, <2>7, <3>2, <3>9, WantedAll
    <3>11. to.mem = f.mem
      BY <3>8, <3>9, <3>10 DEF SameOn, Carries
    <3>12. ASSUME NEW k \in 1 .. Len(circ.outputs) PROVE to.wires[wire_of[circ.outputs[k]]] = f.out[k]
      <4>1. PICK v : v = circ.outputs[k] /\ v \in Live(circ, Len(wire_of))
        BY <1>6, CircuitParts DEF Live
      <4>2. b.wires[wire_of[v]] = want.vals[v]
        BY <3>9, <4>1 DEF Carries
      <4>3. wire_of[v] \in W /\ r[wire_of[v]] = wire_of[v]
        BY <1>4, <1>8, <4>1
      <4>4. to.wires[wire_of[v]] = b.wires[wire_of[v]]
        BY <3>8, <4>3 DEF SameOn
      <4> QED BY <3>10, <4>1, <4>2, <4>4
    <3> QED BY <3>11, <3>12
  <2> QED BY <2>3, <2>6, <2>7 DEF ComputedBy
<1> QED BY <1>1, <1>8, <1>9, <1>10 DEF Embedded

(* The gates with their wires closed up, as CompactAndCopy makes them.     *)
Renamed(g) ==
  Gate(g.op, MapSeq(g.args, Closed), MapSeq(g.addr, Closed), Closed(g.target), g.lane, g.occurrence, g.table)
Moving == [k \in 1 .. Len(rc.gates) |-> Renamed(rc.gates[k])]

(* The gates that CompactAndCopy moves are the synthesized ones renamed.   *)
LEMMA MovingLike ==
  ASSUME Synthesized
  PROVE  Moving \in Seq(Gates) /\ LikeAll(Closing, rc.gates, Moving)
<1>1. PICK W : W = UsedWires(next_anc, pool) /\ GatesOn(W, rc.gates) /\ W \in SUBSET Nat
  <2>1. pool.next_fresh - 1 \in Nat /\ UsedWires(next_anc, pool) \in SUBSET (1 .. pool.next_fresh - 1)
    BY ClosingPlaces
  <2> QED BY <2>1 DEF Synthesized, UsedInv
<1>2. \A w \in W : Closing[w] = Closed(w)
  BY <1>1 DEF Closing
<1>3. \A w \in Nat : Closed(w) \in Nat
  <2>1. PICK prov \in Nat, base \in Nat : prov = VarSpace(circ) /\ base = next_anc - 1 /\ base <= prov
    <3>1. CircuitTyped /\ WiresTyped
      BY DEF Synthesized, RInv
    <3>2. circ.params \in Nat /\ VarSpace(circ) \in Nat /\ next_anc \in circ.params + 1 .. VarSpace(circ) + 1
      BY <3>1, CircuitParts DEF WiresTyped, Synthesized
    <3> QED BY <3>2
  <2> QED BY <2>1 DEF Closed
<1>4. ASSUME NEW s \in Seq(Nat)
      PROVE  /\ MapSeq(s, Closed) \in Seq(Nat) /\ Len(MapSeq(s, Closed)) = Len(s)
             /\ \A k \in 1 .. Len(s) : MapSeq(s, Closed)[k] = Closed(s[k])
  <2>1. PICK N \in Nat : N = Len(s)
    OBVIOUS
  <2>2. \A k \in 1 .. N : s[k] \in Nat
    BY <2>1
  <2>3. \A k \in 1 .. N : Closed(s[k]) \in Nat
    BY <1>3, <2>2
  <2>4. PICK t : t = MapSeq(s, Closed) /\ t = [k \in 1 .. N |-> Closed(s[k])]
    BY <2>1 DEF MapSeq
  <2>5. t \in Seq(Nat) /\ Len(t) = N /\ \A k \in 1 .. N : t[k] = Closed(s[k])
    BY <2>3, <2>4
  <2> QED BY <2>1, <2>4, <2>5
<1>5. ASSUME NEW g, GateOn(W, g) PROVE Renamed(g) \in Gates /\ Like(Closing, g, Renamed(g))
  <2>1. /\ g \in [op : GateOps, args : Seq(Nat), addr : Seq(Nat), target : Nat, lane : Nat, occurrence : Nat,
                  table : SUBSET [1 .. 2 -> BOOLEAN]] /\ GateShape(g)
    BY <1>5 DEF GateOn, Gates
  <2>2. PICK args : /\ args = MapSeq(g.args, Closed) /\ args \in Seq(Nat) /\ Len(args) = Len(g.args)
                    /\ \A k \in 1 .. Len(g.args) : args[k] = Closed(g.args[k])
    BY <1>4, <2>1
  <2>3. PICK addr : /\ addr = MapSeq(g.addr, Closed) /\ addr \in Seq(Nat) /\ Len(addr) = Len(g.addr)
                    /\ \A k \in 1 .. Len(g.addr) : addr[k] = Closed(g.addr[k])
    BY <1>4, <2>1
  <2>4. PICK target \in Nat : target = Closed(g.target)
    BY <1>3, <2>1
  <2>5. PICK m : m = Renamed(g) /\ m = Gate(g.op, args, addr, target, g.lane, g.occurrence, g.table)
    BY <2>2, <2>3, <2>4 DEF Renamed
  <2>6. /\ m.op = g.op /\ m.args = args /\ m.addr = addr /\ m.target = target
        /\ m.lane = g.lane /\ m.occurrence = g.occurrence
    BY <2>5 DEF Gate
  <2>7. m \in [op : GateOps, args : Seq(Nat), addr : Seq(Nat), target : Nat, lane : Nat, occurrence : Nat,
               table : SUBSET [1 .. 2 -> BOOLEAN]]
    <3>1. g.op \in GateOps /\ g.lane \in Nat /\ g.occurrence \in Nat /\ g.table \in SUBSET [1 .. 2 -> BOOLEAN]
      BY <2>1
    <3>2. args \in Seq(Nat) /\ addr \in Seq(Nat)
      BY <2>2, <2>3
    <3>3. m = [op |-> g.op, args |-> args, addr |-> addr, target |-> target, lane |-> g.lane,
               occurrence |-> g.occurrence, table |-> g.table]
      BY <2>5 DEF Gate
    <3> QED BY <3>1, <3>2, <3>3
  <2>8. m \in Gates
    <3>1. GateShape(m)
      BY <2>1, <2>2, <2>6 DEF GateShape
    <3> QED BY <2>7, <3>1 DEF Gates
  <2>9. Like(Closing, g, m)
    <3>1. \A k \in 1 .. Len(g.args) : m.args[k] = Closing[g.args[k]]
      BY <1>2, <1>5, <2>2, <2>6 DEF GateOn
    <3>2. \A k \in 1 .. Len(g.addr) : m.addr[k] = Closing[g.addr[k]]
      BY <1>2, <1>5, <2>3, <2>6 DEF GateOn
    <3>3. g.op # "ExternalStorageXor" => m.target = Closing[g.target]
      BY <1>2, <1>5, <2>4, <2>6 DEF GateOn
    <3> QED BY <2>2, <2>3, <2>6, <3>1, <3>2, <3>3 DEF Like
  <2> QED BY <2>5, <2>8, <2>9
<1>6. Len(rc.gates) \in Nat /\ \A k \in 1 .. Len(rc.gates) : GateOn(W, rc.gates[k])
  BY <1>1 DEF GatesOn
<1>7. \A k \in 1 .. Len(rc.gates) : Renamed(rc.gates[k]) \in Gates /\ Like(Closing, rc.gates[k], Renamed(rc.gates[k]))
  BY <1>5, <1>6
<1>8. PICK m : m = Moving /\ m = [k \in 1 .. Len(rc.gates) |-> Renamed(rc.gates[k])]
  BY DEF Moving
<1>9. m \in Seq(Gates) /\ Len(m) = Len(rc.gates) /\ \A k \in 1 .. Len(rc.gates) : m[k] = Renamed(rc.gates[k])
  BY <1>6, <1>7, <1>8
<1> QED BY <1>7, <1>8, <1>9 DEF LikeAll

-----------------------------------------------------------------------------
(* The outputs.                                                            *)

Copies(c, wires, base) == [k \in 1 .. Len(c.outputs) |-> Cnot(wires[c.outputs[k]], base + k)]
ControlledCopies(c, wires, base, selector) ==
  [k \in 1 .. Len(c.outputs) |-> Ccnot(wires[c.outputs[k]], selector, base + k)]

(* What a CNOT and a Toffoli gate add.                                     *)
LEMMA AddedBit ==
  ASSUME NEW n \in Nat, NEW wires \in [1 .. n -> BOOLEAN], NEW c \in 1 .. n, NEW d \in 1 .. n, NEW t
  PROVE  /\ BitOf(Cnot(c, t), wires) = wires[c]
         /\ BitOf(Ccnot(c, d, t), wires) = (wires[c] /\ wires[d])
<1>1. /\ Cnot(c, t).op = "Toggle" /\ Cnot(c, t).args = <<c>>
      /\ Ccnot(c, d, t).op = "Toggle" /\ Ccnot(c, d, t).args = <<c, d>>
  BY DEF Cnot, Ccnot, Toggle, Gate
<1>2. BitOf(Cnot(c, t), wires) = wires[c]
  <2>1. PICK s : s = Reads(<<c>>, wires)
    OBVIOUS
  <2>2. Len(s) = 1 /\ s[1] = wires[c]
    BY <2>1, ReadsOne DEF Reads, MapSeq
  <2>3. BitOf(Cnot(c, t), wires) = \A k \in 1 .. Len(s) : s[k]
    BY <1>1, <2>1 DEF BitOf
  <2>4. CASE wires[c] = TRUE
    <3>1. \A k \in 1 .. Len(s) : s[k] = TRUE
      <4>1. 1 .. Len(s) = {1}
        BY <2>2
      <4> QED BY <2>2, <2>4, <4>1, Zenon
    <3> QED BY <2>3, <2>4, <3>1
  <2>5. CASE wires[c] = FALSE
    <3>1. 1 \in 1 .. Len(s) /\ s[1] = FALSE
      BY <2>2, <2>5
    <3> QED BY <2>3, <2>5, <3>1
  <2> QED BY <2>4, <2>5
<1>3. BitOf(Ccnot(c, d, t), wires) = (wires[c] /\ wires[d])
  <2>1. PICK s : s = Reads(<<c, d>>, wires)
    OBVIOUS
  <2>2. Len(s) = 2 /\ s[1] = wires[c] /\ s[2] = wires[d]
    BY <2>1, ReadsTwo DEF Reads, MapSeq
  <2>3. BitOf(Ccnot(c, d, t), wires) = \A k \in 1 .. Len(s) : s[k]
    BY <1>1, <2>1 DEF BitOf
  <2>4. CASE wires[c] = TRUE /\ wires[d] = TRUE
    <3>1. \A k \in 1 .. Len(s) : s[k] = TRUE
      <4>1. 1 .. Len(s) = {1, 2}
        BY <2>2
      <4> QED BY <2>2, <2>4, <4>1, Zenon
    <3> QED BY <2>3, <2>4, <3>1
  <2>5. CASE wires[c] = FALSE \/ wires[d] = FALSE
    <3>1. \E k \in 1 .. Len(s) : s[k] = FALSE
      BY <2>2, <2>5
    <3> QED BY <2>3, <2>5, <3>1
  <2> QED BY <2>4, <2>5
<1> QED BY <1>2, <1>3

(* Outputs on wires up to base, in a circuit with room for their copies.   *)
Copyable(c, wires, base, n) ==
  /\ base \in Nat /\ n \in Nat /\ Len(c.outputs) \in Nat /\ base + Len(c.outputs) <= n
  /\ \A k \in 1 .. Len(c.outputs) : wires[c.outputs[k]] \in 1 .. base

(* The copies add the outputs' wires to y.                                 *)
LEMMA CopiesAdd ==
  ASSUME NEW c, NEW wires, NEW base, NEW n, Copyable(c, wires, base, n)
  PROVE  LET M == Copies(c, wires, base)
         IN  /\ GatesOn(1 .. n, M) /\ Adders(n, base, M) /\ Len(M) = Len(c.outputs)
             /\ \A k \in 1 .. Len(c.outputs), bits \in [1 .. n -> BOOLEAN] : BitOf(M[k], bits) = bits[wires[c.outputs[k]]]
<1>1. PICK N \in Nat : N = Len(c.outputs) /\ base \in Nat /\ n \in Nat /\ base + N <= n
  BY DEF Copyable
<1>2. PICK M : M = Copies(c, wires, base) /\ M = [k \in 1 .. N |-> Cnot(wires[c.outputs[k]], base + k)]
  BY <1>1 DEF Copies
<1>3. ASSUME NEW k \in 1 .. N
      PROVE  \E u \in 1 .. base : /\ u = wires[c.outputs[k]] /\ M[k] = Cnot(u, base + k) /\ u \in 1 .. n
                                  /\ base + k \in 1 .. n /\ u # base + k
  <2>1. PICK u \in 1 .. base : u = wires[c.outputs[k]]
    BY <1>1 DEF Copyable
  <2>2. M[k] = Cnot(u, base + k)
    BY <1>2, <2>1
  <2>3. u \in 1 .. n /\ base + k \in 1 .. n /\ u # base + k
    BY <1>1
  <2> QED BY <2>1, <2>2, <2>3
<1>4. \A k \in 1 .. N : GateOn(1 .. n, M[k]) /\ M[k] \in Gates
  <2>1. ASSUME NEW k \in 1 .. N PROVE GateOn(1 .. n, M[k]) /\ M[k] \in Gates
    <3>1. PICK u \in 1 .. base : M[k] = Cnot(u, base + k) /\ u \in 1 .. n /\ base + k \in 1 .. n /\ u # base + k
      BY <1>3
    <3>2. 1 .. n \in SUBSET Nat
      OBVIOUS
    <3>3. GateOn(1 .. n, M[k])
      BY <3>1, <3>2, ToggleOn
    <3> QED BY <3>3 DEF GateOn
  <2> QED BY <2>1
<1>5. M \in Seq(Gates) /\ Len(M) = N
  <2>1. \A k \in 1 .. N : Cnot(wires[c.outputs[k]], base + k) \in Gates
    BY <1>2, <1>4
  <2> QED BY <1>1, <1>2, <2>1
<1>6. Adders(n, base, M)
  <2>1. ASSUME NEW k \in 1 .. N
        PROVE  /\ M[k].op = "Toggle" /\ M[k].target = base + k
               /\ \A j \in 1 .. Len(M[k].args) : M[k].args[j] \in 1 .. n /\ M[k].args[j] \notin base + 1 .. base + N
    <3>1. PICK u \in 1 .. base : M[k] = Cnot(u, base + k) /\ u \in 1 .. n
      BY <1>3
    <3>2. PICK g : g = M[k] /\ g.op = "Toggle" /\ g.target = base + k /\ g.args = <<u>>
      BY <3>1 DEF Cnot, Toggle, Gate
    <3>3. \A j \in 1 .. Len(g.args) : g.args[j] = u
      BY <3>2
    <3>4. u \notin base + 1 .. base + N
      BY <1>1
    <3> QED BY <3>1, <3>2, <3>3, <3>4
  <2> QED BY <1>1, <1>5, <2>1 DEF Adders
<1>7. ASSUME NEW k \in 1 .. N, NEW bits \in [1 .. n -> BOOLEAN] PROVE BitOf(M[k], bits) = bits[wires[c.outputs[k]]]
  <2>1. PICK u \in 1 .. base : u = wires[c.outputs[k]] /\ M[k] = Cnot(u, base + k) /\ u \in 1 .. n
    BY <1>3
  <2> QED BY <1>1, <2>1, AddedBit
<1> QED BY <1>1, <1>2, <1>4, <1>5, <1>6, <1>7 DEF GatesOn

(* Controlled copies do so if the selector is set.                         *)
LEMMA ControlledCopiesAdd ==
  ASSUME NEW c, NEW wires, NEW base, NEW m, NEW n \in Nat, Copyable(c, wires, base, m), NEW selector \in m + 1 .. n
  PROVE  LET M == ControlledCopies(c, wires, base, selector)
         IN  /\ GatesOn(1 .. n, M) /\ Adders(n, base, M) /\ Len(M) = Len(c.outputs)
             /\ \A k \in 1 .. Len(c.outputs), bits \in [1 .. n -> BOOLEAN] :
                  BitOf(M[k], bits) = (bits[wires[c.outputs[k]]] /\ bits[selector])
<1>1. PICK N \in Nat : N = Len(c.outputs) /\ base \in Nat /\ m \in Nat /\ base + N <= m
  BY DEF Copyable
<1>2. selector \in 1 .. n /\ selector > m /\ m < n
  BY <1>1
<1>3. PICK M : M = ControlledCopies(c, wires, base, selector) /\ M = [k \in 1 .. N |-> Ccnot(wires[c.outputs[k]], selector, base + k)]
  BY <1>1 DEF ControlledCopies
<1>4. ASSUME NEW k \in 1 .. N
      PROVE  \E u \in 1 .. base : /\ u = wires[c.outputs[k]] /\ M[k] = Ccnot(u, selector, base + k) /\ u \in 1 .. n
                                  /\ base + k \in 1 .. n /\ u # base + k /\ selector # base + k
  <2>1. PICK u \in 1 .. base : u = wires[c.outputs[k]]
    BY <1>1 DEF Copyable
  <2>2. M[k] = Ccnot(u, selector, base + k)
    BY <1>3, <2>1
  <2>3. u \in 1 .. n /\ base + k \in 1 .. n /\ u # base + k /\ selector # base + k
    BY <1>1, <1>2
  <2> QED BY <2>1, <2>2, <2>3
<1>5. \A k \in 1 .. N : GateOn(1 .. n, M[k]) /\ M[k] \in Gates
  <2>1. ASSUME NEW k \in 1 .. N PROVE GateOn(1 .. n, M[k]) /\ M[k] \in Gates
    <3>1. PICK u \in 1 .. base : /\ M[k] = Ccnot(u, selector, base + k) /\ u \in 1 .. n /\ base + k \in 1 .. n
                                 /\ u # base + k /\ selector # base + k
      BY <1>4
    <3>2. 1 .. n \in SUBSET Nat
      OBVIOUS
    <3>3. GateOn(1 .. n, M[k])
      BY <1>2, <3>1, <3>2, ToggleOn
    <3> QED BY <3>3 DEF GateOn
  <2> QED BY <2>1
<1>6. M \in Seq(Gates) /\ Len(M) = N
  <2>1. \A k \in 1 .. N : Ccnot(wires[c.outputs[k]], selector, base + k) \in Gates
    BY <1>3, <1>5
  <2>2. M = [k \in 1 .. N |-> Ccnot(wires[c.outputs[k]], selector, base + k)]
    BY <1>3
  <2> HIDE DEF Ccnot
  <2> QED BY <1>1, <2>1, <2>2, SMTT(30)
<1>7. Adders(n, base, M)
  <2>1. ASSUME NEW k \in 1 .. N
        PROVE  /\ M[k].op = "Toggle" /\ M[k].target = base + k
               /\ \A j \in 1 .. Len(M[k].args) : M[k].args[j] \in 1 .. n /\ M[k].args[j] \notin base + 1 .. base + N
    <3>1. PICK u \in 1 .. base : M[k] = Ccnot(u, selector, base + k) /\ u \in 1 .. n
      BY <1>4
    <3>2. PICK g : g = M[k] /\ g.op = "Toggle" /\ g.target = base + k /\ g.args = <<u, selector>>
      BY <3>1 DEF Ccnot, Toggle, Gate
    <3>3. \A j \in 1 .. Len(g.args) : g.args[j] = u \/ g.args[j] = selector
      <4>1. \A j \in 1 .. 2 : j = 1 \/ j = 2
        OBVIOUS
      <4> QED BY <3>2, <4>1
    <3>4. u \notin base + 1 .. base + N /\ selector \notin base + 1 .. base + N
      BY <1>1, <1>2
    <3> QED BY <1>2, <3>1, <3>2, <3>3, <3>4
  <2> QED BY <1>1, <1>2, <1>6, <2>1 DEF Adders
<1>8. ASSUME NEW k \in 1 .. N, NEW bits \in [1 .. n -> BOOLEAN]
      PROVE  BitOf(M[k], bits) = (bits[wires[c.outputs[k]]] /\ bits[selector])
  <2>1. PICK u \in 1 .. base : u = wires[c.outputs[k]] /\ M[k] = Ccnot(u, selector, base + k) /\ u \in 1 .. n
    BY <1>4
  <2> QED BY <1>2, <2>1, AddedBit
<1> QED BY <1>1, <1>3, <1>5, <1>6, <1>7, <1>8 DEF GatesOn

(* What to_reversible promises of a circuit of n wires, the first m of     *)
(* which are not borrowed (see Embeds).                                    *)
Promised(c, hard, m, n, base, st, to) ==
  LET f == TogglingResult(c, SubSeq(st.wires, 1, c.params), st.mem)
      Want(w) == IF w \in Ys(c, base) THEN st.wires[w] # f.out[w - base] ELSE st.wires[w]
  IN  /\ Cleared(c, m, base, st.wires) =>
           /\ to.mem = f.mem
           /\ \A w \in IF hard THEN 1 .. n ELSE (1 .. c.params) \cup Ys(c, base) : to.wires[w] = Want(w)
      /\ hard /\ ~Cleared(c, m, base, st.wires) => to = st

(* The outputs of a circuit that is embedded can be copied.                *)
LEMMA EmbeddedParts ==
  ASSUME NEW c, NEW wires, NEW n, NEW base, NEW compute, Embedded(c, wires, n, base, compute),
         c.params \in Nat, Len(c.outputs) \in Nat
  PROVE  /\ Copyable(c, wires, base, n) /\ n \in Nat /\ base \in Nat /\ c.params <= base /\ base + Len(c.outputs) <= n
         /\ Inside(c, n, base) \in SUBSET (1 .. n)
         /\ GatesOn(Inside(c, n, base), compute) /\ GatesOn(1 .. n, compute) /\ compute \in Seq(Gates)
         /\ \A k \in 1 .. Len(c.outputs) : base + k \in 1 .. n /\ base + k \notin Inside(c, n, base)
         /\ \A k \in 1 .. Len(c.outputs) : wires[c.outputs[k]] \in Inside(c, n, base)
         /\ \A w \in 1 .. c.params : w \in 1 .. n /\ w \in Inside(c, n, base) /\ w \notin Ys(c, base)
<1>1. PICK b \in Nat, N \in Nat, p \in Nat, m \in Nat :
        b = base /\ N = Len(c.outputs) /\ p = c.params /\ m = n /\ p <= b /\ b + N <= m
  BY DEF Embedded
<1>2. PICK W : W = Inside(c, n, base) /\ W = (1 .. m) \ (b + 1 .. b + N)
  BY <1>1 DEF Inside, Ys
<1>3. GatesOn(W, compute) /\ W \in SUBSET (1 .. m) /\ compute \in Seq(Gates)
  BY <1>2 DEF Embedded, GatesOn
<1>4. GatesOn(1 .. m, compute)
  BY <1>3, OnMore
<1>5. Copyable(c, wires, base, n)
  BY <1>1 DEF Embedded, Copyable
<1>6. \A k \in 1 .. N : b + k \in 1 .. m /\ b + k \notin W
  BY <1>1, <1>2
<1>7. \A k \in 1 .. b : k \in W
  BY <1>1, <1>2
<1>8. \A k \in 1 .. N : wires[c.outputs[k]] \in W
  <2>1. \A k \in 1 .. N : wires[c.outputs[k]] \in 1 .. b
    BY <1>1 DEF Embedded
  <2> QED BY <1>7, <2>1
<1>9. \A w \in 1 .. p : w \in 1 .. m /\ w \in W /\ w \notin Ys(c, base)
  <2>1. \A w \in 1 .. p : w \in 1 .. b
    BY <1>1
  <2>2. \A w \in 1 .. b : w \notin Ys(c, base)
    BY <1>1 DEF Ys
  <2> QED BY <1>2, <1>7, <2>1, <2>2
<1> QED BY <1>1, <1>2, <1>3, <1>4, <1>5, <1>6, <1>8, <1>9

(* Every output wire, and which output it is for.                          *)
LEMMA OutputWire ==
  ASSUME NEW c, NEW base \in Nat, Len(c.outputs) \in Nat, NEW w \in Ys(c, base)
  PROVE  w - base \in 1 .. Len(c.outputs) /\ base + (w - base) = w
BY DEF Ys

(* The naive circuit.                                                      *)
LEMMA NaivePromise ==
  ASSUME NEW c, NEW wires, NEW n, NEW base, NEW compute, Embedded(c, wires, n, base, compute),
         c.params \in Nat, Len(c.outputs) \in Nat
  PROVE  LET gates == compute \o Copies(c, wires, base)
         IN  /\ GatesOn(1 .. n, gates)
             /\ \A st \in States(n) : Promised(c, FALSE, n, n, base, st, Run!Fold(st, gates))
<1>1. /\ Copyable(c, wires, base, n) /\ n \in Nat /\ base \in Nat /\ c.params <= base /\ base + Len(c.outputs) <= n
      /\ Inside(c, n, base) \in SUBSET (1 .. n)
      /\ GatesOn(Inside(c, n, base), compute) /\ GatesOn(1 .. n, compute) /\ compute \in Seq(Gates)
      /\ \A k \in 1 .. Len(c.outputs) : base + k \in 1 .. n /\ base + k \notin Inside(c, n, base)
      /\ \A w \in 1 .. c.params : w \in 1 .. n /\ w \in Inside(c, n, base) /\ w \notin Ys(c, base)
  BY EmbeddedParts
<1>2. PICK M : /\ M = Copies(c, wires, base) /\ GatesOn(1 .. n, M) /\ Adders(n, base, M) /\ Len(M) = Len(c.outputs)
               /\ \A k \in 1 .. Len(c.outputs), bits \in [1 .. n -> BOOLEAN] : BitOf(M[k], bits) = bits[wires[c.outputs[k]]]
  <2>1. Copyable(c, wires, base, n)
    BY <1>1
  <2> QED BY <2>1, CopiesAdd
<1>3. GatesOn(1 .. n, compute \o M)
  BY <1>1, <1>2, OnConcat
<1>4. ASSUME NEW st \in States(n) PROVE Promised(c, FALSE, n, n, base, st, Run!Fold(st, compute \o M))
  <2>1. PICK mid : mid = Run!Fold(st, compute)
    OBVIOUS
  <2>2. mid \in States(n) /\ Still(n, Inside(c, n, base), st, mid)
    BY <1>1, <2>1, RunOn
  <2>3. PICK to : to = Run!Fold(st, compute \o M) /\ to = Run!Fold(mid, M)
    BY <1>1, <1>2, <2>1, RunConcat DEF GatesOn
  <2>4. Added(n, base, M, mid, to, Len(c.outputs))
    BY <1>1, <1>2, <2>2, <2>3, AddersRun
  <2>5. PICK f : f = TogglingResult(c, SubSeq(st.wires, 1, c.params), st.mem)
    OBVIOUS
  <2>6. n >= n
    BY <1>1
  <2>7. ComputedBy(c, wires, n, base, st, mid)
    BY <1>1, <2>1, <2>6 DEF Embedded
  <2>8. \A w \in 1 .. c.params : to.wires[w] = st.wires[w]
    <3>1. \A w \in 1 .. c.params : w \in 1 .. n /\ w <= base
      BY <1>1
    <3>2. \A w \in 1 .. c.params : to.wires[w] = mid.wires[w]
      BY <2>4, <3>1 DEF Added
    <3>3. \A w \in 1 .. c.params : mid.wires[w] = st.wires[w]
      BY <2>7 DEF ComputedBy
    <3> QED BY <3>2, <3>3
  <2>9. ASSUME Cleared(c, n, base, st.wires)
        PROVE  /\ to.mem = f.mem
               /\ \A w \in Ys(c, base) : to.wires[w] = (st.wires[w] # f.out[w - base])
    <3>1. mid.mem = f.mem /\ \A k \in 1 .. Len(c.outputs) : mid.wires[wires[c.outputs[k]]] = f.out[k]
      BY <2>5, <2>7, <2>9 DEF ComputedBy
    <3>2. to.mem = f.mem
      BY <2>4, <3>1 DEF Added
    <3>3. ASSUME NEW w \in Ys(c, base) PROVE to.wires[w] = (st.wires[w] # f.out[w - base])
      <4>1. PICK k \in 1 .. Len(c.outputs) : k = w - base /\ base + k = w
        BY <1>1, OutputWire
      <4>2. mid.wires[w] = st.wires[w]
        BY <1>1, <2>2, <4>1 DEF Still
      <4>3. BitOf(M[k], mid.wires) = mid.wires[wires[c.outputs[k]]]
        BY <1>2, <2>2, StateParts
      <4>4. to.wires[w] = (mid.wires[w] # BitOf(M[k], mid.wires))
        BY <2>4, <4>1 DEF Added
      <4> QED BY <3>1, <4>1, <4>2, <4>3, <4>4
    <3> QED BY <3>2, <3>3
  <2>10. \A w \in 1 .. c.params : w \notin Ys(c, base)
    BY <1>1
  <2> QED BY <2>3, <2>5, <2>8, <2>9, <2>10 DEF Promised
<1> QED BY <1>2, <1>3, <1>4

-----------------------------------------------------------------------------
(* harden.                                                                 *)

(* The copies under a control, between computing and taking that back.     *)
Copied(c, n, base, selector, g, st, to) ==
  /\ to \in States(n) /\ to.mem = st.mem
  /\ \A w \in (1 .. n) \ Ys(c, base) : to.wires[w] = st.wires[w]
  /\ \A k \in 1 .. Len(c.outputs) : to.wires[base + k] = (st.wires[base + k] # (g[k] /\ st.wires[selector]))

(* Compute, controlled copy, uncompute.                                    *)
LEMMA ControlledCopy ==
  ASSUME NEW c, NEW wires, NEW m, NEW base, NEW compute, Embedded(c, wires, m, base, compute),
         c.params \in Nat, Len(c.outputs) \in Nat, NEW n \in Nat, NEW selector \in m + 1 .. n
  PROVE  LET copy == compute \o ControlledCopies(c, wires, base, selector) \o Reverse(compute)
         IN  /\ GatesOn(1 .. n, copy)
             /\ \A st \in States(n) :
                  Copied(c, n, base, selector,
                         [k \in 1 .. Len(c.outputs) |-> Run!Fold(st, compute).wires[wires[c.outputs[k]]]],
                         st, Run!Fold(st, copy))
<1>1. PICK W : /\ W = Inside(c, m, base) /\ Copyable(c, wires, base, m) /\ m \in Nat /\ base \in Nat
               /\ W \in SUBSET (1 .. m) /\ GatesOn(W, compute) /\ base + Len(c.outputs) <= m
               /\ \A k \in 1 .. Len(c.outputs) : base + k \in 1 .. m /\ base + k \notin W
  BY EmbeddedParts
<1>2. m < n /\ selector \in 1 .. n /\ selector > m
  BY <1>1
<1>3. W \in SUBSET (1 .. n) /\ GatesOn(1 .. n, compute)
  <2>1. W \in SUBSET (1 .. n)
    BY <1>1, <1>2
  <2> QED BY <1>1, <2>1, OnMore
<1>4. PICK M : /\ M = ControlledCopies(c, wires, base, selector)
               /\ GatesOn(1 .. n, M) /\ Adders(n, base, M) /\ Len(M) = Len(c.outputs)
               /\ \A k \in 1 .. Len(c.outputs), bits \in [1 .. n -> BOOLEAN] :
                    BitOf(M[k], bits) = (bits[wires[c.outputs[k]]] /\ bits[selector])
  BY SMTT(30), <1>1, ControlledCopiesAdd
<1>5. PICK copy : copy = compute \o M \o Reverse(compute)
  OBVIOUS
<1>6. GatesOn(1 .. n, copy)
  <2>1. GatesOn(1 .. n, compute \o M)
    BY <1>3, <1>4, OnConcat
  <2>2. GatesOn(1 .. n, Reverse(compute))
    BY <1>3, OnReverse
  <2> QED BY <1>5, <2>1, <2>2, OnConcat
<1>7. ASSUME NEW st \in States(n), NEW mid, mid = Run!Fold(st, compute), NEW to, to = Run!Fold(st, copy)
      PROVE  /\ to \in States(n) /\ to.mem = st.mem
             /\ \A w \in (1 .. n) \ Ys(c, base) : to.wires[w] = st.wires[w]
             /\ \A k \in 1 .. Len(c.outputs) :
                  to.wires[base + k] = (st.wires[base + k] # (mid.wires[wires[c.outputs[k]]] /\ st.wires[selector]))
  <2>1. mid \in States(n) /\ Still(n, W, st, mid)
    BY <1>1, <1>3, <1>7, RunOn
  <2>2. PICK now : now = Run!Fold(mid, M)
    OBVIOUS
  <2>3. Added(n, base, M, mid, now, Len(c.outputs))
    BY <1>1, <1>4, <2>1, <2>2, AddersRun
  <2>4. now \in States(n) /\ M \in Seq(Gates)
    BY <1>4, <2>3 DEF Added, GatesOn
  <2>5. \A w \in 1 .. n : w \notin Ys(c, base) => now.wires[w] = mid.wires[w]
    <3>1. \A w \in 1 .. n : w \notin Ys(c, base) => w <= base \/ w > base + Len(c.outputs)
      BY <1>1 DEF Ys
    <3> QED BY <2>3, <3>1 DEF Added
  <2>6. Agree(W, mid, now)
    <3>1. \A w \in W : w \in 1 .. n /\ w \notin Ys(c, base)
      BY <1>1, <1>3 DEF Inside
    <3>2. now.mem = mid.mem
      BY <2>3 DEF Added
    <3> QED BY <2>5, <3>1, <3>2 DEF Agree
  <2>7. to \in States(n) /\ Agree(W, st, to) /\ Still(n, W, now, to)
    <3>1. /\ Run!Fold(st, compute \o M \o Reverse(compute)) \in States(n)
          /\ Agree(W, st, Run!Fold(st, compute \o M \o Reverse(compute)))
          /\ Still(n, W, now, Run!Fold(st, compute \o M \o Reverse(compute)))
      BY <1>1, <1>3, <1>7, <2>2, <2>4, <2>6, Conjugated
    <3> QED BY <1>5, <1>7, <3>1
  <2>8. to.mem = st.mem
    BY <2>7 DEF Agree
  <2>9. ASSUME NEW w \in (1 .. n) \ Ys(c, base) PROVE to.wires[w] = st.wires[w]
    <3>1. CASE w \in W
      BY <2>7, <3>1 DEF Agree
    <3>2. CASE w \notin W
      BY <2>1, <2>5, <2>7, <3>2 DEF Still
    <3> QED BY <3>1, <3>2
  <2>10. ASSUME NEW k \in 1 .. Len(c.outputs)
         PROVE  to.wires[base + k] = (st.wires[base + k] # (mid.wires[wires[c.outputs[k]]] /\ st.wires[selector]))
    <3>1. base + k \in 1 .. n /\ base + k \notin W
      BY <1>1, <1>2
    <3>2. to.wires[base + k] = now.wires[base + k] /\ mid.wires[base + k] = st.wires[base + k]
      BY <2>1, <2>7, <3>1 DEF Still
    <3>3. BitOf(M[k], mid.wires) = (mid.wires[wires[c.outputs[k]]] /\ mid.wires[selector])
      BY <1>4, <2>1, StateParts
    <3>4. now.wires[base + k] = (mid.wires[base + k] # BitOf(M[k], mid.wires))
      BY <2>3 DEF Added
    <3>5. mid.wires[selector] = st.wires[selector]
      <4>1. selector \notin W
        BY <1>1, <1>2
      <4> QED BY <1>2, <2>1, <4>1 DEF Still
    <3> QED BY <3>2, <3>3, <3>4, <3>5
  <2> QED BY <2>7, <2>8, <2>9, <2>10
<1>8. ASSUME NEW st \in States(n)
      PROVE  Copied(c, n, base, selector,
                    [k \in 1 .. Len(c.outputs) |-> Run!Fold(st, compute).wires[wires[c.outputs[k]]]],
                    st, Run!Fold(st, copy))
  <2>1. PICK mid : mid = Run!Fold(st, compute)
    OBVIOUS
  <2>2. PICK to : to = Run!Fold(st, copy)
    OBVIOUS
  <2>3. /\ to \in States(n) /\ to.mem = st.mem
        /\ \A w \in (1 .. n) \ Ys(c, base) : to.wires[w] = st.wires[w]
        /\ \A k \in 1 .. Len(c.outputs) :
             to.wires[base + k] = (st.wires[base + k] # (mid.wires[wires[c.outputs[k]]] /\ st.wires[selector]))
    BY <1>7, <2>1, <2>2
  <2>4. PICK g : g = [k \in 1 .. Len(c.outputs) |-> Run!Fold(st, compute).wires[wires[c.outputs[k]]]]
    OBVIOUS
  <2>5. \A k \in 1 .. Len(c.outputs) : g[k] = mid.wires[wires[c.outputs[k]]]
    BY <2>1, <2>4
  <2>6. Copied(c, n, base, selector, g, st, to)
    BY <2>3, <2>5 DEF Copied
  <2> QED BY <2>2, <2>4, <2>6
<1> QED BY <1>4, <1>5, <1>6, <1>8

(* Numbers before and after a gap of N.                                    *)
LEMMA BeforeGap ==
  ASSUME NEW p \in Nat, NEW N \in Nat, NEW m \in Nat, NEW b \in Nat, p <= b, b + N <= m,
         NEW L \in Nat, L = m - p - N, NEW k \in 1 .. L, k <= b - p
  PROVE  p + k \in 1 .. m /\ p + k \notin b + 1 .. b + N /\ p + k > p
OBVIOUS

(* And behind it.                                                          *)
LEMMA AfterGap ==
  ASSUME NEW p \in Nat, NEW N \in Nat, NEW m \in Nat, NEW b \in Nat, p <= b, b + N <= m,
         NEW L \in Nat, L = m - p - N, NEW k \in 1 .. L, ~(k <= b - p)
  PROVE  p + k + N \in 1 .. m /\ p + k + N \notin b + 1 .. b + N /\ p + k + N > p
OBVIOUS

(* The number that is put at w.                                            *)
LEMMA BesideGap ==
  ASSUME NEW p \in Nat, NEW N \in Nat, NEW m \in Nat, NEW b \in Nat, p <= b, b + N <= m,
         NEW L \in Nat, L = m - p - N, NEW w \in 1 .. m, w > p
  PROVE  /\ w <= b => w - p \in 1 .. L /\ w - p <= b - p /\ p + (w - p) = w
         /\ w > b + N => w - p - N \in 1 .. L /\ ~(w - p - N <= b - p) /\ p + (w - p - N) + N = w
OBVIOUS

(* Different numbers stay different.                                       *)
LEMMA ApartGap ==
  ASSUME NEW p \in Nat, NEW N \in Nat, NEW b \in Nat, NEW j \in Nat, NEW k \in Nat, j # k
  PROVE  /\ p + j # p + k /\ p + j + N # p + k + N
         /\ j <= b - p /\ ~(k <= b - p) => p + j # p + k + N
         /\ ~(j <= b - p) /\ k <= b - p => p + j + N # p + k
OBVIOUS

(* Workspace, of any circuit.                                              *)
Spaces(c, n, base) ==
  [k \in 1 .. n - c.params - Len(c.outputs) |-> c.params + k + IF k <= base - c.params THEN 0 ELSE Len(c.outputs)]

(* What a circuit of n wires needs to have its outputs after base.         *)
Placed(c, n, base) ==
  c.params \in Nat /\ Len(c.outputs) \in Nat /\ n \in Nat /\ base \in Nat /\ c.params <= base /\ base + Len(c.outputs) <= n

(* It is every wire that is not a parameter's or an output's.              *)
LEMMA SpacesCover ==
  ASSUME NEW c, NEW n, NEW base, Placed(c, n, base)
  PROVE  /\ Separate(n, Spaces(c, n, base)) /\ Len(Spaces(c, n, base)) \in Nat
         /\ \A k \in 1 .. Len(Spaces(c, n, base)) : /\ Spaces(c, n, base)[k] \in Inside(c, n, base)
                                                    /\ Spaces(c, n, base)[k] > c.params
         /\ \A w \in Inside(c, n, base) : w > c.params => \E k \in 1 .. Len(Spaces(c, n, base)) : Spaces(c, n, base)[k] = w
<1>1. PICK p \in Nat, N \in Nat, m \in Nat, b \in Nat :
        p = c.params /\ N = Len(c.outputs) /\ m = n /\ b = base /\ p <= b /\ b + N <= m
  BY DEF Placed
<1>12. p <= b /\ b + N <= m
  BY <1>1
<1>2. PICK L \in Nat : L = m - p - N
  <2>1. m - p - N \in Nat
    BY <1>1
  <2> QED BY <2>1
<1>3. PICK s : s = Spaces(c, n, base) /\ s = [k \in 1 .. L |-> p + k + IF k <= b - p THEN 0 ELSE N]
  BY <1>1, <1>2 DEF Spaces
<1>4. \A k \in 1 .. L : /\ k <= b - p => s[k] = p + k
                        /\ ~(k <= b - p) => s[k] = p + k + N
  BY <1>1, <1>2, <1>3
<1>5. PICK V : V = Inside(c, n, base) /\ V = (1 .. m) \ (b + 1 .. b + N)
  BY <1>1 DEF Inside, Ys
<1>6. ASSUME NEW k \in 1 .. L PROVE s[k] \in Nat /\ s[k] \in 1 .. m /\ s[k] \in V /\ s[k] > p
  <2>1. CASE k <= b - p
    <3>1. s[k] = p + k
      BY <1>4, <2>1
    <3>2. p + k \in 1 .. m /\ p + k \notin b + 1 .. b + N /\ p + k > p
      BY <1>2, <1>12, <2>1, BeforeGap
    <3> QED BY <1>5, <3>1, <3>2
  <2>2. CASE ~(k <= b - p)
    <3>1. s[k] = p + k + N
      BY <1>4, <2>2
    <3>2. p + k + N \in 1 .. m /\ p + k + N \notin b + 1 .. b + N /\ p + k + N > p
      BY <1>2, <1>12, <2>2, AfterGap
    <3> QED BY <1>5, <3>1, <3>2
  <2> QED BY <2>1, <2>2
<1>7. s \in Seq(Nat) /\ Len(s) = L
  <2>1. s = [k \in 1 .. L |-> s[k]]
    BY <1>3
  <2>2. \A k \in 1 .. L : s[k] \in Nat
    BY <1>6
  <2> QED BY <1>2, <2>1, <2>2
<1>8. ASSUME NEW j \in 1 .. L, NEW k \in 1 .. L, j # k PROVE s[j] # s[k]
  <2>9. j \in Nat /\ k \in Nat
    OBVIOUS
  <2>1. CASE j <= b - p /\ k <= b - p
    <3>1. s[j] = p + j /\ s[k] = p + k
      BY <1>4, <2>1
    <3>2. p + j # p + k
      BY <1>8, <2>9, <2>1, ApartGap
    <3> QED BY <3>1, <3>2
  <2>2. CASE j <= b - p /\ ~(k <= b - p)
    <3>1. s[j] = p + j /\ s[k] = p + k + N
      BY <1>4, <2>2
    <3>2. p + j # p + k + N
      BY <1>8, <2>9, <2>2, ApartGap
    <3> QED BY <3>1, <3>2
  <2>3. CASE ~(j <= b - p) /\ k <= b - p
    <3>1. s[j] = p + j + N /\ s[k] = p + k
      BY <1>4, <2>3
    <3>2. p + j + N # p + k
      BY <1>8, <2>9, <2>3, ApartGap
    <3> QED BY <3>1, <3>2
  <2>4. CASE ~(j <= b - p) /\ ~(k <= b - p)
    <3>1. s[j] = p + j + N /\ s[k] = p + k + N
      BY <1>4, <2>4
    <3>2. p + j + N # p + k + N
      BY <1>8, <2>9, <2>4, ApartGap
    <3> QED BY <3>1, <3>2
  <2> QED BY <2>1, <2>2, <2>3, <2>4
<1>9. ASSUME NEW w \in V, w > p PROVE \E k \in 1 .. L : s[k] = w
  <2>1. w \in 1 .. m /\ (w <= b \/ w > b + N)
    BY <1>1, <1>5
  <2>2. CASE w <= b
    <3>1. w - p \in 1 .. L /\ w - p <= b - p /\ p + (w - p) = w
      BY <1>2, <1>9, <1>12, <2>1, <2>2, BesideGap
    <3> QED BY <1>4, <3>1
  <2>3. CASE w > b + N
    <3>1. w - p - N \in 1 .. L /\ ~(w - p - N <= b - p) /\ p + (w - p - N) + N = w
      BY <1>2, <1>9, <1>12, <2>1, <2>3, BesideGap
    <3> QED BY <1>4, <3>1
  <2> QED BY <2>1, <2>2, <2>3
<1>10. Separate(n, s)
  BY <1>1, <1>6, <1>7, <1>8 DEF Separate
<1> QED BY <1>1, <1>2, <1>3, <1>5, <1>6, <1>7, <1>9, <1>10

(* The workspace is clear if each of its wires is.                         *)
LEMMA ClearedSpaces ==
  ASSUME NEW c, NEW n, NEW base, Placed(c, n, base), NEW wires
  PROVE  Cleared(c, n, base, wires) = Clear(wires, Spaces(c, n, base))
<1>1. PICK s : s = Spaces(c, n, base)
  OBVIOUS
<1>2. /\ \A k \in 1 .. Len(s) : s[k] \in Inside(c, n, base) /\ s[k] > c.params
      /\ \A w \in Inside(c, n, base) : w > c.params => \E k \in 1 .. Len(s) : s[k] = w
  BY <1>1, SpacesCover
<1>3. Cleared(c, n, base, wires) => Clear(wires, s)
  BY <1>2 DEF Cleared, Clear
<1>4. Clear(wires, s) => Cleared(c, n, base, wires)
  BY <1>2 DEF Cleared, Clear
<1>5. Cleared(c, n, base, wires) \in BOOLEAN /\ Clear(wires, s) \in BOOLEAN
  BY DEF Cleared, Clear
<1> QED BY <1>1, <1>3, <1>4, <1>5

(* A circuit without statements on storage leaves it.                      *)
LEMMA EvalLeaves ==
  ASSUME NEW s, NEW st, ~Stateful(s)
  PROVE  EvalToggling(s, st).mem = st.mem
<1>1. s.op # "StorageWrite" /\ s.op # "ActionStoreBit"
  BY DEF Stateful
<1>2. EvalStmt(s, st).mem = st.mem
  BY <1>1, Zenon DEF EvalStmt
<1> QED BY <1>1, <1>2, TogglingSame

(* Without stateful statements storage is as it was.                       *)
LEMMA MemKept ==
  ASSUME CircuitTyped, \A i \in 1 .. Len(circ.stmts) : ~Stateful(circ.stmts[i]), NEW x, NEW mem
  PROVE  TogglingResult(circ, x, mem).mem = mem
<1>1. PICK s \in Seq(Statements) : s = circ.stmts
  BY CircuitParts
<1>2. PICK N \in Nat : N = Len(s)
  OBVIOUS
<1>3. PICK first : first = [vals |-> x, mem |-> mem]
  OBVIOUS
<1>4. PICK t : t = Effect!Walk(first, s)
  OBVIOUS
<1>5. t[0] = first /\ \A k \in 1 .. N : t[k] = Effected(t[k - 1], s[k])
  BY <1>2, <1>4, Effect!WalkSteps
<1>6. PICK T : T = {k \in 0 .. N : t[k].mem = mem}
  OBVIOUS
<1>7. 0 \in T
  BY <1>2, <1>3, <1>5, <1>6
<1>8. ASSUME NEW k \in 0 .. N - 1, k \in T PROVE k + 1 \in T
  <2>1. k + 1 \in 1 .. N /\ k + 1 \in 0 .. N /\ (k + 1) - 1 = k
    BY <1>2
  <2>2. t[k + 1] = EvalToggling(s[k + 1], t[k])
    BY <1>5, <2>1 DEF Effected
  <2>3. ~Stateful(s[k + 1])
    BY <1>1, <1>2, <2>1
  <2>4. t[k + 1].mem = t[k].mem
    BY <2>2, <2>3, EvalLeaves
  <2> QED BY <1>6, <1>8, <2>1, <2>4
<1>9. N \in T
  <2>1. \A k \in 0 .. N - 1 : k \in T => k + 1 \in T
    BY <1>8
  <2>2. \A k \in 0 .. N : k \in T
    BY <1>7, <2>1, Effect!UpTo, Zenon
  <2> QED BY <1>2, <2>2
<1>10. t[N].mem = mem
  BY <1>6, <1>9
<1>11. ValuesToggling(circ, x, mem) = t[N]
  BY <1>1, <1>2, <1>3, <1>4, TogglingFold DEF Effect!Fold
<1> QED BY <1>10, <1>11 DEF TogglingResult, Returned

(* The borrowed wires, the last of which is the control.                   *)
LEMMA Lent ==
  ASSUME NEW c, NEW m, NEW base, Placed(c, m, base), NEW dirty \in Nat,
         dirty = IF Len(Spaces(c, m, base)) <= 2 THEN 0 ELSE Len(Spaces(c, m, base)) - 2,
         NEW lent, lent = [k \in 1 .. dirty + 1 |-> m + k]
  PROVE  /\ Len(lent) = dirty + 1 /\ m + Len(lent) \in Nat /\ m + Len(lent) = m + dirty + 1
         /\ Last(lent) = m + dirty + 1 /\ Last(lent) \in m + 1 .. m + Len(lent)
         /\ Controlled(m + Len(lent), Spaces(c, m, base), Last(lent), Front(lent))
         /\ Separate(m + Len(lent), Spaces(c, m, base))
<1>1. m \in Nat
  BY DEF Placed
<1>2. PICK s, L : /\ s = Spaces(c, m, base) /\ L = Len(s) /\ L \in Nat /\ Separate(m, s)
  BY SpacesCover
<1>3. lent \in Seq(Nat) /\ Len(lent) = dirty + 1 /\ \A k \in 1 .. dirty + 1 : lent[k] = m + k
  BY <1>1, SMTT(30)
<1>4. PICK n \in Nat : n = m + Len(lent) /\ n = m + dirty + 1
  BY <1>1, <1>3
<1>5. Last(lent) = n
  <2>1. dirty + 1 \in 1 .. dirty + 1
    OBVIOUS
  <2> QED BY <1>3, <1>4, <2>1 DEF Last
<1>6. PICK d : d = Front(lent) /\ d \in Seq(Nat) /\ Len(d) = dirty /\ \A k \in 1 .. dirty : d[k] = m + k
  <2>1. Front(lent) = SubSeq(lent, 1, Len(lent) - 1)
    BY DEF Front
  <2>2. Len(lent) - 1 = dirty
    BY <1>3
  <2>3. SubSeq(lent, 1, dirty) = [i \in 1 .. dirty |-> lent[i]]
    BY <1>3
  <2>4. \A k \in 1 .. dirty : k \in 1 .. dirty + 1 /\ lent[k] = m + k /\ m + k \in Nat
    BY <1>1, <1>3
  <2>5. PICK d : d = Front(lent) /\ d = [i \in 1 .. dirty |-> lent[i]]
    BY <2>1, <2>2, <2>3
  <2>6. \A k \in 1 .. dirty : lent[k] \in Nat
    BY <2>4
  <2>7. d \in Seq(Nat) /\ Len(d) = dirty
    <3>1. d = [i \in 1 .. dirty |-> lent[i]]
      BY <2>5
    <3> QED BY ONLY <2>6, <3>1, dirty \in Nat
  <2>8. \A k \in 1 .. dirty : d[k] = m + k
    BY <2>4, <2>5
  <2> QED BY <2>5, <2>7, <2>8
<1>7. /\ s \in Seq(Nat) /\ \A k \in 1 .. L : s[k] \in 1 .. m
      /\ \A j, k \in 1 .. L : j # k => s[j] # s[k]
  BY <1>2 DEF Separate
<1>8. Separate(n, s)
  <2>1. \A k \in 1 .. L : s[k] \in 1 .. n
    BY <1>1, <1>4, <1>7
  <2> QED BY <1>2, <1>7, <2>1 DEF Separate
<1>9. Rungs(n, s, n, d)
  <2>1. n \in 1 .. n
    BY <1>1, <1>4
  <2>2. \A k \in 1 .. L : s[k] \in 1 .. n /\ s[k] # n
    BY <1>1, <1>4, <1>7
  <2>6. \A k \in 1 .. dirty : d[k] = m + k
    BY <1>6
  <2>7. \A k \in 1 .. dirty : m + k \in 1 .. n /\ m + k # n /\ m + k \notin 1 .. m
    BY <1>1, <1>4
  <2>3. \A k \in 1 .. dirty : d[k] \in 1 .. n /\ d[k] # n /\ d[k] \notin 1 .. m
    BY <2>6, <2>7
  <2>4. \A j, k \in 1 .. dirty : j # k => d[j] # d[k]
    <3>1. \A j, k \in 1 .. dirty : j # k => m + j # m + k
      BY <1>1
    <3> QED BY <2>6, <3>1
  <2>5. \A j \in 1 .. dirty, k \in 1 .. L : d[j] # s[k]
    BY <1>7, <2>3
  <2>8. d \in Seq(Nat) /\ Len(d) = dirty /\ s \in Seq(Nat) /\ Len(s) = L
    BY <1>2, <1>6, <1>7
  <2> QED BY <2>1, <2>2, <2>3, <2>4, <2>5, <2>8 DEF Rungs
<1>10. Len(s) >= 3 => Len(d) = Len(s) - 2
  BY <1>2, <1>6
<1>11. Controlled(n, s, n, d)
  BY <1>9, <1>10 DEF Controlled
<1>12. n \in m + 1 .. n
  BY <1>1, <1>4
<1> QED BY <1>2, <1>3, <1>4, <1>5, <1>6, <1>8, <1>11, <1>12

(* The outputs have been added if the workspace was clean, and nothing     *)
(* else has changed.                                                       *)
Cleanly(c, n, base, clean, g, st, to) ==
  /\ to \in States(n) /\ to.mem = st.mem
  /\ \A w \in (1 .. n) \ Ys(c, base) : to.wires[w] = st.wires[w]
  /\ \A k \in 1 .. Len(c.outputs) : to.wires[base + k] = (st.wires[base + k] # (g[k] /\ clean))

(* Adding with and without the test leaves what is added once.             *)
LEMMA SelectedOnce ==
  ASSUME NEW a \in BOOLEAN, NEW g \in BOOLEAN, NEW s \in BOOLEAN, NEW clean \in BOOLEAN
  PROVE  /\ ((a # (g /\ s)) # (g /\ (s # clean))) = (a # (g /\ clean))
         /\ ((s # clean) # clean) = s
OBVIOUS

(* The parts of a circuit with borrowed wires.                             *)
Hardening(c, wires, m, base, compute, n, space, selector, dirty) ==
  /\ Embedded(c, wires, m, base, compute) /\ c.params \in Nat /\ Len(c.outputs) \in Nat
  /\ n \in Nat /\ selector \in m + 1 .. n
  /\ space = Spaces(c, m, base)
  /\ Controlled(n, space, selector, dirty) /\ Separate(n, space)

Outputs(c, wires, compute, st) == [k \in 1 .. Len(c.outputs) |-> Run!Fold(st, compute).wires[wires[c.outputs[k]]]]

(* The copy and the test under way twice.                                  *)
LEMMA TwiceCopied ==
  ASSUME NEW c, NEW wires, NEW m, NEW base, NEW compute, NEW n, NEW space, NEW selector, NEW dirty,
         Hardening(c, wires, m, base, compute, n, space, selector, dirty),
         NEW copy, copy = compute \o ControlledCopies(c, wires, base, selector) \o Reverse(compute),
         NEW test, test = append_zero_test(space, selector, dirty), NEW st \in States(n)
  PROVE  /\ GatesOn(1 .. n, copy) /\ GatesOn(1 .. n, test)
         /\ Cleanly(c, n, base, Cleared(c, m, base, st.wires), Outputs(c, wires, compute, st), st,
                    Run!Fold(Run!Fold(Run!Fold(Run!Fold(st, copy), test), copy), test))
<1>1. PICK W : /\ W = Inside(c, m, base) /\ m \in Nat /\ base \in Nat /\ c.params <= base /\ base + Len(c.outputs) <= m
               /\ W \in SUBSET (1 .. m) /\ GatesOn(W, compute)
               /\ \A k \in 1 .. Len(c.outputs) : base + k \in 1 .. m
               /\ \A k \in 1 .. Len(c.outputs) : wires[c.outputs[k]] \in W
  BY EmbeddedParts DEF Hardening
<1>2. n \in Nat /\ selector \in 1 .. n /\ selector > m /\ m < n
  BY <1>1 DEF Hardening
<1>3. Placed(c, m, base)
  BY <1>1 DEF Hardening, Placed
<1>4. \A w \in W : w \in (1 .. n) \ Ys(c, base) /\ w # selector
  BY <1>1, <1>2 DEF Inside
<1>5. /\ GatesOn(1 .. n, copy)
      /\ \A a \in States(n) : Copied(c, n, base, selector, Outputs(c, wires, compute, a), a, Run!Fold(a, copy))
  <2>1. Embedded(c, wires, m, base, compute) /\ c.params \in Nat /\ Len(c.outputs) \in Nat /\ selector \in m + 1 .. n
    BY DEF Hardening
  <2> QED BY <1>2, <2>1, ControlledCopy DEF Outputs
<1>6. \A a \in States(n) : GatesOn(1 .. n, test) /\ Toggles(n, a, selector, Clear(a.wires, space), Run!Fold(a, test))
  <2>1. Controlled(n, space, selector, dirty) /\ Separate(n, space)
    BY DEF Hardening
  <2> QED BY <1>2, <2>1, ZeroTestRun
<1>7. PICK clean \in BOOLEAN : clean = Clear(st.wires, space) /\ clean = Cleared(c, m, base, st.wires)
  <2>1. Cleared(c, m, base, st.wires) = Clear(st.wires, space)
    BY <1>3, ClearedSpaces DEF Hardening
  <2>2. Clear(st.wires, space) \in BOOLEAN
    BY DEF Clear
  <2> QED BY <2>1, <2>2
<1>8. ASSUME NEW a, \A w \in W : a.wires[w] = st.wires[w] PROVE Clear(a.wires, space) = clean
  <2>1. \A k \in 1 .. Len(space) : space[k] \in W
    BY <1>1, <1>3, SpacesCover DEF Hardening
  <2>2. \A k \in 1 .. Len(space) : a.wires[space[k]] = st.wires[space[k]]
    BY <1>8, <2>1
  <2> QED BY <1>7, <2>2 DEF Clear
<1>9. PICK g : g = Outputs(c, wires, compute, st)
  OBVIOUS
<1>10. PICK N \in Nat : N = Len(c.outputs) /\ \A k \in 1 .. N : base + k \in 1 .. n /\ base + k \in Ys(c, base) /\ base + k # selector
  <2>1. Len(c.outputs) \in Nat
    BY DEF Hardening
  <2>2. \A k \in 1 .. Len(c.outputs) : base + k \in Ys(c, base)
    BY <1>1, <2>1 DEF Ys
  <2>3. \A k \in 1 .. Len(c.outputs) : base + k \in 1 .. n /\ base + k # selector
    <3>1. \A w \in 1 .. m : w \in 1 .. n /\ w # selector
      BY <1>1, <1>2
    <3> QED BY <1>1, <3>1
  <2> QED BY <2>1, <2>2, <2>3
<1>11. selector \in (1 .. n) \ Ys(c, base)
  <2>1. Len(c.outputs) \in Nat
    BY DEF Hardening
  <2> QED BY <1>1, <1>2, <2>1 DEF Ys
<1>12. PICK a : a = Run!Fold(st, copy) /\ Copied(c, n, base, selector, g, st, a)
  BY <1>5, <1>9
<1>13. PICK b : b = Run!Fold(a, test) /\ Toggles(n, a, selector, clean, b)
  <2>1. \A w \in W : a.wires[w] = st.wires[w]
    BY <1>4, <1>12 DEF Copied
  <2>2. Clear(a.wires, space) = clean
    BY <1>8, <2>1
  <2> QED BY <1>6, <1>12, <2>2 DEF Copied
<1>14. /\ b \in States(n) /\ b.mem = st.mem
       /\ \A w \in (1 .. n) \ Ys(c, base) : w # selector => b.wires[w] = st.wires[w]
       /\ b.wires[selector] = (st.wires[selector] # clean)
       /\ \A k \in 1 .. N : b.wires[base + k] = (st.wires[base + k] # (g[k] /\ st.wires[selector]))
  <2>1. b \in States(n) /\ b.mem = st.mem
    BY <1>12, <1>13 DEF Copied, Toggles
  <2>2. \A w \in (1 .. n) \ Ys(c, base) : w # selector => b.wires[w] = st.wires[w]
    BY <1>12, <1>13 DEF Copied, Toggles
  <2>3. b.wires[selector] = (st.wires[selector] # clean)
    BY <1>11, <1>12, <1>13 DEF Copied, Toggles
  <2>4. \A k \in 1 .. N : b.wires[base + k] = (st.wires[base + k] # (g[k] /\ st.wires[selector]))
    BY <1>10, <1>12, <1>13 DEF Copied, Toggles
  <2> QED BY <2>1, <2>2, <2>3, <2>4
<1>15. Agree(W, st, b)
  BY <1>4, <1>14 DEF Agree
<1>16. Outputs(c, wires, compute, b) = g
  <2>1. W \in SUBSET (1 .. n)
    BY <1>4
  <2>2. Agree(W, Run!Fold(st, compute), Run!Fold(b, compute))
    BY <1>1, <1>2, <1>14, <1>15, <2>1, RunApart
  <2>3. PICK u, v : u = Run!Fold(st, compute) /\ v = Run!Fold(b, compute)
    OBVIOUS
  <2>4. \A k \in 1 .. Len(c.outputs) : v.wires[wires[c.outputs[k]]] = u.wires[wires[c.outputs[k]]]
    BY <1>1, <2>2, <2>3 DEF Agree
  <2>5. [k \in 1 .. Len(c.outputs) |-> v.wires[wires[c.outputs[k]]]] = [k \in 1 .. Len(c.outputs) |-> u.wires[wires[c.outputs[k]]]]
    BY <2>4
  <2> QED BY <1>9, <2>3, <2>5 DEF Outputs
<1>17. PICK d : d = Run!Fold(b, copy) /\ Copied(c, n, base, selector, g, b, d)
  BY <1>5, <1>14, <1>16
<1>18. PICK to : to = Run!Fold(d, test) /\ Toggles(n, d, selector, clean, to)
  <2>1. \A w \in W : d.wires[w] = st.wires[w]
    BY <1>4, <1>14, <1>17 DEF Copied
  <2>2. Clear(d.wires, space) = clean
    BY <1>8, <2>1
  <2> QED BY <1>6, <1>17, <2>2 DEF Copied
<1>19. Cleanly(c, n, base, clean, g, st, to)
  <2>1. to \in States(n) /\ to.mem = st.mem
    BY <1>14, <1>17, <1>18 DEF Copied, Toggles
  <2>2. st.wires[selector] \in BOOLEAN
    BY <1>2, StateParts
  <2>3. ASSUME NEW w \in (1 .. n) \ Ys(c, base) PROVE to.wires[w] = st.wires[w]
    <3>1. d.wires[w] = b.wires[w]
      BY <1>17 DEF Copied
    <3>2. CASE w = selector
      <4>1. to.wires[w] = (d.wires[w] # clean)
        BY <1>18, <3>2 DEF Toggles
      <4>2. b.wires[w] = (st.wires[w] # clean)
        BY <1>14, <3>2
      <4>3. ((st.wires[w] # clean) # clean) = st.wires[w]
        BY <2>2, <3>2, SelectedOnce
      <4> QED BY <3>1, <4>1, <4>2, <4>3
    <3>3. CASE w # selector
      <4>1. to.wires[w] = d.wires[w]
        BY <1>18, <3>3 DEF Toggles
      <4> QED BY <1>14, <3>1, <3>3, <4>1
    <3> QED BY <3>2, <3>3
  <2>4. ASSUME NEW k \in 1 .. N PROVE to.wires[base + k] = (st.wires[base + k] # (g[k] /\ clean))
    <3>1. PICK x \in BOOLEAN, s \in BOOLEAN, y \in BOOLEAN : x = st.wires[base + k] /\ s = st.wires[selector] /\ y = g[k]
      <4>1. st.wires[base + k] \in BOOLEAN
        BY <1>10, StateParts
      <4>2. g[k] \in BOOLEAN
        <5>1. W \in SUBSET (1 .. n)
          BY <1>4
        <5>2. Run!Fold(st, compute) \in States(n)
          BY <1>1, <1>2, <5>1, RunOn
        <5>3. wires[c.outputs[k]] \in 1 .. n
          BY <1>1, <1>10, <5>1
        <5>4. Run!Fold(st, compute).wires[wires[c.outputs[k]]] \in BOOLEAN
          BY <5>2, <5>3, StateParts
        <5> QED BY <1>9, <1>10, <5>4 DEF Outputs
      <4> QED BY <2>2, <4>1, <4>2
    <3>2. b.wires[base + k] = (x # (y /\ s)) /\ b.wires[selector] = (s # clean)
      BY <1>14, <3>1
    <3>3. d.wires[base + k] = (b.wires[base + k] # (y /\ b.wires[selector]))
      BY <1>10, <1>17, <3>1 DEF Copied
    <3>4. to.wires[base + k] = d.wires[base + k]
      BY <1>10, <1>18 DEF Toggles
    <3>5. ((x # (y /\ s)) # (y /\ (s # clean))) = (x # (y /\ clean))
      BY SelectedOnce
    <3> QED BY <3>1, <3>2, <3>3, <3>4, <3>5
  <2> QED BY <1>10, <2>1, <2>3, <2>4 DEF Cleanly
<1> QED BY <1>5, <1>6, <1>7, <1>9, <1>12, <1>13, <1>17, <1>18, <1>19

(* The hardened circuit.                                                   *)
LEMMA HardenedPromise ==
  ASSUME CircuitTyped, \A i \in 1 .. Len(circ.stmts) : ~Stateful(circ.stmts[i]),
         NEW m, NEW compute, NEW n, NEW space, NEW selector, NEW dirty,
         Hardening(circ, wire_of, m, y_base, compute, n, space, selector, dirty),
         NEW gates, gates = HardenedGates(compute, space, dirty, selector)
  PROVE  /\ GatesOn(1 .. n, gates)
         /\ \A st \in States(n) : Promised(circ, TRUE, m, n, y_base, st, Run!Fold(st, gates))
<1>1. PICK copy, test :
        /\ copy = compute \o ControlledCopies(circ, wire_of, y_base, selector) \o Reverse(compute)
        /\ test = append_zero_test(space, selector, dirty)
  OBVIOUS
<1>2. gates = ((copy \o test) \o copy) \o test
  BY <1>1 DEF HardenedGates, ControlledCopies
<1>3. \A st \in States(n) :
        /\ GatesOn(1 .. n, copy) /\ GatesOn(1 .. n, test)
        /\ Cleanly(circ, n, y_base, Cleared(circ, m, y_base, st.wires), Outputs(circ, wire_of, compute, st), st,
                   Run!Fold(Run!Fold(Run!Fold(Run!Fold(st, copy), test), copy), test))
  BY <1>1, TwiceCopied
<1>4. GatesOn(1 .. n, copy) /\ GatesOn(1 .. n, test)
  <2>1. [wires |-> [w \in 1 .. n |-> FALSE], mem |-> {}] \in States(n)
    BY DEF States
  <2> QED BY <1>3, <2>1
<1>5. GatesOn(1 .. n, copy \o test) /\ GatesOn(1 .. n, (copy \o test) \o copy) /\ GatesOn(1 .. n, gates)
  BY <1>2, <1>4, OnConcat
<1>6. ASSUME NEW st \in States(n) PROVE Promised(circ, TRUE, m, n, y_base, st, Run!Fold(st, gates))
  <2>1. PICK to : to = Run!Fold(st, gates)
    OBVIOUS
  <2>2. to = Run!Fold(Run!Fold(Run!Fold(Run!Fold(st, copy), test), copy), test)
    <3>1. copy \in Seq(Gates) /\ test \in Seq(Gates) /\ copy \o test \in Seq(Gates) /\ (copy \o test) \o copy \in Seq(Gates)
      BY <1>4, <1>5 DEF GatesOn
    <3>2. Run!Fold(st, copy \o test) = Run!Fold(Run!Fold(st, copy), test)
      BY <3>1, RunConcat
    <3>3. Run!Fold(st, (copy \o test) \o copy) = Run!Fold(Run!Fold(st, copy \o test), copy)
      BY <3>1, RunConcat
    <3>4. Run!Fold(st, ((copy \o test) \o copy) \o test) = Run!Fold(Run!Fold(st, (copy \o test) \o copy), test)
      BY <3>1, RunConcat
    <3> QED BY <1>2, <2>1, <3>2, <3>3, <3>4
  <2>9. PICK g : g = Outputs(circ, wire_of, compute, st)
    OBVIOUS
  <2>3. PICK clean \in BOOLEAN : /\ clean = Cleared(circ, m, y_base, st.wires)
                                 /\ Cleanly(circ, n, y_base, clean, g, st, to)
    <3>1. Cleared(circ, m, y_base, st.wires) \in BOOLEAN
      BY DEF Cleared
    <3>2. Cleanly(circ, n, y_base, Cleared(circ, m, y_base, st.wires), g, st, to)
      BY <1>3, <2>2, <2>9
    <3> QED BY <3>1, <3>2
  <2>4. PICK f : f = TogglingResult(circ, SubSeq(st.wires, 1, circ.params), st.mem)
    OBVIOUS
  <2>5. f.mem = st.mem
    BY <2>4, MemKept
  <2>6. y_base \in Nat /\ Len(circ.outputs) \in Nat /\ circ.params \in Nat /\ m \in Nat /\ n \in Nat /\ n >= m
    BY EmbeddedParts DEF Hardening
  <2>7. ASSUME clean
        PROVE  /\ to.mem = f.mem
               /\ \A w \in 1 .. n : to.wires[w] = IF w \in Ys(circ, y_base) THEN st.wires[w] # f.out[w - y_base] ELSE st.wires[w]
    <3>1. ComputedBy(circ, wire_of, m, y_base, st, Run!Fold(st, compute))
      BY <2>6 DEF Hardening, Embedded
    <3>2. \A k \in 1 .. Len(circ.outputs) : g[k] = f.out[k]
      BY <2>3, <2>4, <2>7, <2>9, <3>1 DEF ComputedBy, Outputs
    <3>3. ASSUME NEW w \in 1 .. n, w \in Ys(circ, y_base) PROVE to.wires[w] = (st.wires[w] # f.out[w - y_base])
      <4>1. PICK k \in 1 .. Len(circ.outputs) : k = w - y_base /\ y_base + k = w
        BY <2>6, <3>3, OutputWire
      <4>2. to.wires[w] = (st.wires[w] # (g[k] /\ clean))
        BY <2>3, <4>1 DEF Cleanly
      <4>3. g[k] \in BOOLEAN
        <5>1. Inside(circ, m, y_base) \in SUBSET (1 .. n) /\ GatesOn(Inside(circ, m, y_base), compute)
              /\ wire_of[circ.outputs[k]] \in Inside(circ, m, y_base)
          BY SMTT(30), <2>6, EmbeddedParts DEF Hardening
        <5>2. Run!Fold(st, compute) \in States(n)
          BY <2>6, <5>1, RunOn
        <5>3. Run!Fold(st, compute).wires[wire_of[circ.outputs[k]]] \in BOOLEAN
          BY <5>1, <5>2, StateParts
        <5> QED BY <2>9, <5>3 DEF Outputs
      <4>4. (g[k] /\ clean) = f.out[k]
        BY <2>7, <3>2, <4>3
      <4> QED BY <4>1, <4>2, <4>4
    <3>4. \A w \in 1 .. n : w \notin Ys(circ, y_base) => to.wires[w] = st.wires[w]
      BY <2>3 DEF Cleanly
    <3>5. to.mem = f.mem
      BY <2>3, <2>5 DEF Cleanly
    <3> QED BY <3>3, <3>4, <3>5
  <2>8. ASSUME ~clean PROVE to = st
    <3>1. to \in States(n) /\ to.mem = st.mem
      BY <2>3 DEF Cleanly
    <3>2. ASSUME NEW w \in 1 .. n PROVE to.wires[w] = st.wires[w]
      <4>1. CASE w \in Ys(circ, y_base)
        <5>1. PICK k \in 1 .. Len(circ.outputs) : k = w - y_base /\ y_base + k = w
          BY <2>6, <4>1, OutputWire
        <5>2. to.wires[w] = (st.wires[w] # (g[k] /\ clean))
          BY <2>3, <5>1 DEF Cleanly
        <5>3. st.wires[w] \in BOOLEAN
          BY StateParts
        <5> QED BY <2>8, <5>2, <5>3
      <4>2. CASE w \notin Ys(circ, y_base)
        BY <2>3, <4>2 DEF Cleanly
      <4> QED BY <4>1, <4>2
    <3>3. to.wires = st.wires
      <4>1. to.wires \in [1 .. n -> BOOLEAN] /\ st.wires \in [1 .. n -> BOOLEAN]
        BY <3>1, StateParts
      <4>2. PICK u \in [1 .. n -> BOOLEAN], v \in [1 .. n -> BOOLEAN] : u = to.wires /\ v = st.wires
        BY <4>1
      <4>3. \A w \in 1 .. n : u[w] = v[w]
        BY <3>2, <4>2
      <4>4. u = [w \in 1 .. n |-> u[w]] /\ v = [w \in 1 .. n |-> v[w]]
        OBVIOUS
      <4>5. [w \in 1 .. n |-> u[w]] = [w \in 1 .. n |-> v[w]]
        BY <4>3
      <4>6. u = v
        BY <4>4, <4>5
      <4> QED BY <4>2, <4>6
    <3> QED BY <3>1, <3>3, StateParts
  <2> QED BY <2>1, <2>3, <2>4, <2>7, <2>8 DEF Promised
<1> QED BY <1>5, <1>6

(* A circuit all of whose wires are parameters and outputs is hardened as  *)
(* it is.                                                                  *)
LEMMA BarePromise ==
  ASSUME NEW c, NEW n, NEW base, Placed(c, n, base), Spaces(c, n, base) = << >>, NEW st \in States(n), NEW to,
         Promised(c, FALSE, n, n, base, st, to)
  PROVE  Promised(c, TRUE, n, n, base, st, to)
<1>1. \A w \in Inside(c, n, base) : ~(w > c.params)
  <2>1. PICK s : s = Spaces(c, n, base) /\ Len(s) = 0
    OBVIOUS
  <2>2. \A w \in Inside(c, n, base) : w > c.params => \E k \in 1 .. Len(s) : s[k] = w
    BY <2>1, SpacesCover
  <2>3. \A k \in 1 .. Len(s) : FALSE
    BY <2>1
  <2> QED BY <2>2, <2>3
<1>2. Cleared(c, n, base, st.wires)
  BY <1>1 DEF Cleared
<1>3. \A w \in 1 .. n : w \in (1 .. c.params) \cup Ys(c, base)
  <2>1. \A w \in 1 .. n : w \in Inside(c, n, base) \/ w \in Ys(c, base)
    BY DEF Inside
  <2>2. \A w \in Inside(c, n, base) : w \in 1 .. c.params
    <3>1. c.params \in Nat
      BY DEF Placed
    <3>2. \A w \in Inside(c, n, base) : w \in Nat /\ w >= 1
      BY DEF Inside, Placed
    <3> QED BY <1>1, <3>1, <3>2
  <2> QED BY <2>1, <2>2
<1> QED BY <1>2, <1>3 DEF Promised

-----------------------------------------------------------------------------
(* From synthesis to the circuit that is applied.                          *)

Compacted ==
  \E compute : /\ Embedded(circ, wire_of, rc.n, y_base, compute)
               /\ rc.gates = compute \o Copies(circ, wire_of, y_base)

Delivered ==
  \E m \in Nat :
    /\ m = rc.n - Len(borrowed) /\ m <= rc.n /\ Placed(circ, m, y_base)
    /\ \A st \in States(rc.n) : Promised(circ, mode = "hardened", m, rc.n, y_base, st, Run!Fold(st, rc.gates))

EInv ==
  /\ phase \in {"synth", "harden"} => borrowed = << >>
  /\ phase = "harden" => mode = "hardened" /\ ~RefusesHardening /\ Compacted
  /\ phase \in {"ready", "lowered", "applied"} /\ mode # "given" => Delivered
  /\ Validated

(* What holds of a circuit at each phase holds from the start on.          *)
LEMMA InitEInv ==
  ASSUME Init
  PROVE  EInv
BY DEF Init, EInv, Validated

(* CompactAndCopy makes valid gates, which compute the circuit and copy    *)
(* its outputs.                                                            *)
LEMMA CompactFacts ==
  ASSUME RInv, SInv, UsedInv, CompactAndCopy
  PROVE  /\ CircuitTyped /\ VarSpace(circ) \in Nat /\ circ.params \in Nat /\ Len(circ.outputs) \in Nat
         /\ ~RefusesHardening /\ phase = "synth"
         /\ UNCHANGED <<circ, mode, wire_of, borrowed>>
         /\ Embedded(circ, wire_of, (rc').n, y_base', Moving)
         /\ (rc').gates = Moving \o Copies(circ, wire_of, y_base')
         /\ phase' = IF mode = "hardened" THEN "harden" ELSE "ready"
<1>1. Synthesized /\ CircuitTyped /\ ~RefusesHardening /\ phase = "synth"
  BY DEF RInv, CompactAndCopy, Synthesizing, Synthesized
<1>2. UNCHANGED <<circ, mode, wire_of, borrowed>>
  BY DEF CompactAndCopy
<1>3. PICK n, base : n = ClosedWires /\ base = next_anc - 1
  OBVIOUS
<1>4. /\ rc' = [n |-> n, gates |-> Moving \o Copies(circ, wire_of, base)] /\ y_base' = base
      /\ phase' = IF ~validate((rc').n, (rc').gates) THEN "panic" ELSE IF mode = "hardened" THEN "harden" ELSE "ready"
  BY <1>3, Zenon DEF CompactAndCopy, Moving, Renamed, Closed, Copies, ClosedWires
<1>5. Embedded(circ, wire_of, n, base, Moving)
  BY <1>1, <1>3, MovingLike, ClosedComputes
<1>6. circ.params \in Nat /\ Len(circ.outputs) \in Nat /\ VarSpace(circ) \in Nat
  BY <1>1, CircuitParts
<1>7. GatesOn(1 .. n, Moving \o Copies(circ, wire_of, base)) /\ n \in Nat
  <2>1. GatesOn(1 .. n, Moving \o Copies(circ, wire_of, base))
    BY <1>5, <1>6, NaivePromise
  <2> QED BY <1>5, <2>1 DEF Embedded
<1>8. validate(n, Moving \o Copies(circ, wire_of, base))
  BY <1>7, AllValid
<1>9. (rc').n = n /\ (rc').gates = Moving \o Copies(circ, wire_of, base)
  BY <1>4
<1> QED BY <1>1, <1>2, <1>4, <1>5, <1>6, <1>8, <1>9

(* The gates before the last ones.                                         *)
LEMMA WithoutLast ==
  ASSUME NEW s \in Seq(Gates), NEW t \in Seq(Gates), NEW long, long = s \o t
  PROVE  SubSeq(long, 1, Len(long) - Len(t)) = s
<1>1. PICK m \in Nat, n \in Nat : m = Len(s) /\ n = Len(t)
  OBVIOUS
<1>2. long \in Seq(Gates) /\ Len(long) = m + n /\ \A k \in 1 .. m : long[k] = s[k]
  BY <1>1
<1>3. Len(long) - Len(t) = m /\ m <= Len(long)
  BY <1>1, <1>2
<1>4. SubSeq(long, 1, m) = [k \in 1 .. m |-> long[k]]
  BY <1>1, <1>2, <1>3
<1>5. s = [k \in 1 .. m |-> s[k]]
  BY <1>1
<1>6. [k \in 1 .. m |-> long[k]] = [k \in 1 .. m |-> s[k]]
  BY <1>2
<1> QED BY <1>3, <1>4, <1>5, <1>6

(* The wires harden lends, by number.                                      *)
Lend(m, dirty) == [k \in 1 .. dirty + 1 |-> m + k]

(* Lent, of a workspace and a number of wires that have names.             *)
LEMMA LentWires ==
  ASSUME NEW c, NEW m, NEW base, Placed(c, m, base), NEW space, space = Spaces(c, m, base),
         NEW dirty \in Nat, dirty = IF Len(space) <= 2 THEN 0 ELSE Len(space) - 2,
         NEW lent, lent = Lend(m, dirty), NEW n, n = m + Len(lent)
  PROVE  /\ Len(lent) \in Nat /\ n \in Nat /\ Last(lent) \in m + 1 .. n
         /\ Controlled(n, space, Last(lent), Front(lent)) /\ Separate(n, space)
<1>1. dirty = IF Len(Spaces(c, m, base)) <= 2 THEN 0 ELSE Len(Spaces(c, m, base)) - 2
  OBVIOUS
<1>2. lent = [k \in 1 .. dirty + 1 |-> m + k]
  BY DEF Lend
<1>3. /\ Len(lent) = dirty + 1 /\ m + Len(lent) \in Nat
      /\ Last(lent) \in m + 1 .. m + Len(lent)
      /\ Controlled(m + Len(lent), Spaces(c, m, base), Last(lent), Front(lent))
      /\ Separate(m + Len(lent), Spaces(c, m, base))
  BY <1>1, <1>2, Lent
<1>4. Len(lent) \in Nat
  BY <1>3
<1> QED BY <1>3, <1>4, Zenon

(* What harden delivers.                                                   *)
LEMMA HardenFacts ==
  ASSUME RInv, EInv, harden
  PROVE  phase' = "ready" /\ Delivered'
<1>1. CircuitTyped /\ mode = "hardened" /\ ~RefusesHardening /\ borrowed = << >>
      /\ UNCHANGED <<circ, mode, wire_of, y_base>>
  BY DEF RInv, EInv, harden
<1>2. circ.params \in Nat /\ Len(circ.outputs) \in Nat /\ \A i \in 1 .. Len(circ.stmts) : ~Stateful(circ.stmts[i])
  BY <1>1, CircuitParts DEF RefusesHardening
<1>3. PICK compute : /\ Embedded(circ, wire_of, rc.n, y_base, compute)
                     /\ rc.gates = compute \o Copies(circ, wire_of, y_base)
  BY DEF EInv, harden, Compacted
<1>4. PICK m \in Nat : m = rc.n /\ y_base \in Nat /\ Placed(circ, m, y_base) /\ compute \in Seq(Gates)
  <2>1. rc.n \in Nat /\ y_base \in Nat /\ circ.params <= y_base /\ y_base + Len(circ.outputs) <= rc.n /\ compute \in Seq(Gates)
    BY <1>3 DEF Embedded, GatesOn
  <2> QED BY <1>2, <2>1 DEF Placed
<1>5. SubSeq(rc.gates, 1, Len(rc.gates) - Len(circ.outputs)) = compute
  <2>1. PICK M : M = Copies(circ, wire_of, y_base) /\ M \in Seq(Gates) /\ Len(M) = Len(circ.outputs)
    <3>1. Copyable(circ, wire_of, y_base, rc.n)
      BY <1>2, <1>3, EmbeddedParts
    <3> QED BY <3>1, CopiesAdd DEF GatesOn
  <2>2. SubSeq(rc.gates, 1, Len(rc.gates) - Len(M)) = compute
    BY <1>3, <1>4, <2>1, WithoutLast
  <2> QED BY <2>1, <2>2
<1>6. PICK space : space = Spaces(circ, m, y_base) /\ space = Workspace(rc.n)
  BY <1>4 DEF Spaces, Workspace
<1>7. PICK dirty \in Nat : dirty = IF Len(space) <= 2 THEN 0 ELSE Len(space) - 2
  <2>1. Len(space) \in Nat
    BY <1>4, <1>6, SpacesCover
  <2> QED BY <2>1
<1>8. PICK lent : lent = [k \in 1 .. dirty + 1 |-> m + k]
  OBVIOUS
<1>9. PICK gates : gates = HardenedGates(compute, space, Front(lent), Last(lent))
  OBVIOUS
<1>10. IF space = << >> THEN phase' = "ready" /\ UNCHANGED <<rc, borrowed>>
       ELSE /\ borrowed' = lent
            /\ rc' = [n |-> m + Len(lent), gates |-> gates]
            /\ phase' = IF validate((rc').n, (rc').gates) THEN "ready" ELSE "panic"
  BY <1>4, <1>5, <1>6, <1>7, <1>8, <1>9, Zenon DEF harden
<1>11. CASE space = << >>
  <2>1. phase' = "ready" /\ rc' = rc /\ borrowed' = << >>
    BY <1>1, <1>10, <1>11
  <2>2. \A st \in States(m) : Promised(circ, FALSE, m, m, y_base, st, Run!Fold(st, rc.gates))
    BY <1>2, <1>3, <1>4, NaivePromise
  <2>3. \A st \in States(m) : Promised(circ, TRUE, m, m, y_base, st, Run!Fold(st, rc.gates))
    BY <1>4, <1>6, <1>11, <2>2, BarePromise
  <2>4. (mode' = "hardened") = TRUE /\ m = (rc').n - Len(borrowed') /\ m <= (rc').n
    BY <1>1, <1>4, <2>1
  <2>5. Delivered'
    BY <1>1, <1>4, <2>1, <2>3, <2>4 DEF Delivered
  <2> QED BY <2>1, <2>5
<1>12. CASE space # << >>
  <2>1. PICK n : n = m + Len(lent)
    OBVIOUS
  <2>2. /\ Len(lent) \in Nat /\ n \in Nat /\ Last(lent) \in m + 1 .. n
        /\ Controlled(n, space, Last(lent), Front(lent)) /\ Separate(n, space)
    <3>1. Placed(circ, m, y_base) /\ space = Spaces(circ, m, y_base) /\ lent = Lend(m, dirty)
      BY <1>4, <1>6, <1>8 DEF Lend
    <3>2. dirty \in Nat /\ dirty = IF Len(space) <= 2 THEN 0 ELSE Len(space) - 2
      BY <1>7
    <3> QED BY <2>1, <3>1, <3>2, LentWires
  <2>3. Hardening(circ, wire_of, m, y_base, compute, n, space, Last(lent), Front(lent))
    BY <1>2, <1>3, <1>4, <1>6, <2>2 DEF Hardening
  <2>4. GatesOn(1 .. n, gates) /\ \A st \in States(n) : Promised(circ, TRUE, m, n, y_base, st, Run!Fold(st, gates))
    BY <1>1, <1>2, <1>9, <2>3, HardenedPromise
  <2>5. validate(n, gates)
    BY <2>2, <2>4, AllValid
  <2>6. (rc').n = n /\ (rc').gates = gates /\ borrowed' = lent /\ phase' = "ready"
    BY <1>10, <1>12, <2>1, <2>5
  <2>7. (mode' = "hardened") = TRUE /\ m = (rc').n - Len(borrowed') /\ m <= (rc').n
    <3>1. PICK len \in Nat : len = Len(lent)
      BY <2>2
    <3>2. m = (m + len) - len /\ m <= m + len
      OBVIOUS
    <3> QED BY <1>1, <2>1, <2>6, <3>1, <3>2
  <2>8. Delivered'
    BY <1>1, <1>4, <2>4, <2>6, <2>7 DEF Delivered
  <2> QED BY <2>6, <2>8
<1> QED BY <1>11, <1>12

(* Every step keeps it.                                                    *)
LEMMA StepEInv ==
  ASSUME RInv, SInv, UsedInv, EInv, [Next]_vars
  PROVE  EInv'
<1>1. CASE SynthesizeStmt
  BY <1>1 DEF SynthesizeStmt, InStmt, Synthesizing, EInv, Validated
<1>2. CASE Refuse
  BY <1>2 DEF Refuse, EInv, Validated
<1>3. CASE Panic
  <2>1. phase' = "panic" /\ InStmt /\ UsesItself /\ UNCHANGED <<circ, wire_of>>
    BY <1>3 DEF Panic
  <2>2. Validated'
    BY <2>1 DEF InStmt, UsesItself, Current, Stmts, VarSpace, Validated
  <2> QED BY <2>1, <2>2 DEF EInv
<1>4. CASE CompactAndCopy
  <2>1. /\ CircuitTyped /\ circ.params \in Nat /\ Len(circ.outputs) \in Nat
        /\ ~RefusesHardening /\ phase = "synth"
        /\ UNCHANGED <<circ, mode, wire_of, borrowed>>
        /\ Embedded(circ, wire_of, (rc').n, y_base', Moving)
        /\ (rc').gates = Moving \o Copies(circ, wire_of, y_base')
        /\ phase' = IF mode = "hardened" THEN "harden" ELSE "ready"
    BY <1>4, CompactFacts
  <2>2. borrowed' = << >>
    BY <2>1 DEF EInv
  <2>3. phase' # "panic"
    BY <2>1
  <2>4. CASE mode = "hardened"
    <3>1. phase' = "harden" /\ mode' = "hardened"
      BY <2>1, <2>4
    <3>2. Compacted'
      <4>1. Embedded(circ', wire_of', (rc').n, y_base', Moving) /\ (rc').gates = Moving \o Copies(circ', wire_of', y_base')
        BY <2>1
      <4> QED BY <4>1 DEF Compacted
    <3>3. (~RefusesHardening)'
      BY <2>1 DEF RefusesHardening, Stateful
    <3> QED BY <2>2, <3>1, <3>2, <3>3 DEF EInv, Validated
  <2>5. CASE mode # "hardened"
    <3>1. phase' = "ready"
      BY <2>1, <2>5
    <3>2. PICK n, base, gates : n = (rc').n /\ base = y_base' /\ gates = (rc').gates
      OBVIOUS
    <3>3. Embedded(circ, wire_of, n, base, Moving) /\ gates = Moving \o Copies(circ, wire_of, base)
      BY <2>1, <3>2
    <3>4. \A st \in States(n) : Promised(circ, FALSE, n, n, base, st, Run!Fold(st, gates))
      BY <2>1, <3>3, NaivePromise
    <3>5. n \in Nat /\ Placed(circ, n, base)
      BY <2>1, <3>3 DEF Embedded, Placed
    <3>6. n = n - Len(borrowed') /\ n <= n
      BY <2>2, <3>5
    <3>7. (mode' = "hardened") = FALSE
      BY <2>1, <2>5
    <3>8. Delivered'
      BY <2>1, <3>2, <3>4, <3>5, <3>6, <3>7 DEF Delivered
    <3> QED BY <3>1, <3>8 DEF EInv, Validated
  <2> QED BY <2>4, <2>5
<1>5. CASE harden
  BY <1>5, HardenFacts DEF EInv, Validated
<1>6. CASE to_boolar_circuit \/ ApplyCircuit
  <2>1. /\ phase \in {"ready", "lowered"} /\ phase' \in {"lowered", "applied"}
        /\ UNCHANGED <<circ, mode, rc, y_base, borrowed>>
    BY <1>6 DEF to_boolar_circuit, ApplyCircuit
  <2>2. (mode # "given" => Delivered)'
    BY <2>1 DEF EInv, Delivered
  <2> QED BY <2>1, <2>2 DEF EInv, Validated
<1>7. CASE UNCHANGED vars
  BY <1>7 DEF vars, EInv, Validated, Delivered, Compacted, RefusesHardening, Stateful, UsesItself, Current, Stmts, VarSpace
<1> QED BY <1>1, <1>2, <1>3, <1>4, <1>5, <1>6, <1>7 DEF Next

(* Hence it always holds.                                                  *)
LEMMA Embedding == Spec => [](RInv /\ EInv)
<1>1. Init => UsedInv /\ EInv
  BY InitUsed, InitEInv
<1>2. RInv /\ SInv /\ UsedInv /\ [Next]_vars => UsedInv'
  BY StepUsed
<1>3. RInv /\ SInv /\ UsedInv /\ EInv /\ [Next]_vars => EInv'
  BY StepEInv
<1> QED BY <1>1, <1>2, <1>3, Invariance, Synthesis, PTL DEF Spec

(* to_reversible, for every circuit, in both modes: parameters come out as *)
(* they went in; if the workspace went in as 0, f(x) is added to y and     *)
(* storage is as f leaves it; a hardened circuit restores workspace and    *)
(* borrowed wires, and leaves everything alone if the workspace was not 0. *)
THEOREM ToReversibleEmbeds == Spec => []Embeds
<1>1. ASSUME RInv, EInv PROVE Embeds
  <2> SUFFICES ASSUME phase = "applied", mode # "given"
               PROVE  LET params == 1 .. circ.params
                          y      == y_base + 1 .. y_base + Len(circ.outputs)
                          f      == EmbeddedResult(circ, SubSeq(start.wires, 1, circ.params), start.mem)
                          inner  == Range(Workspace(rc.n - Len(borrowed)))
                          clean  == \A w \in inner : ~start.wires[w]
                          want   == [w \in 1 .. rc.n |-> IF w \in y THEN start.wires[w] # f.out[w - y_base] ELSE start.wires[w]]
                      IN  /\ clean => /\ end.mem = f.mem
                                      /\ \A w \in IF mode = "hardened" THEN 1 .. rc.n ELSE params \cup y : end.wires[w] = want[w]
                          /\ mode = "hardened" /\ ~clean => end = start
    BY DEF Embeds
  <2>1. start \in States(rc.n) /\ end = Run!Fold(start, rc.gates) /\ rc.n \in Nat
    BY <1>1, ApplyIsFold DEF RInv, RunDone, WiresTyped
  <2>2. PICK m \in Nat : /\ m = rc.n - Len(borrowed) /\ m <= rc.n /\ Placed(circ, m, y_base)
                         /\ Promised(circ, mode = "hardened", m, rc.n, y_base, start, end)
    BY <1>1, <2>1 DEF EInv, Delivered
  <2>3. PICK space : space = Workspace(rc.n - Len(borrowed)) /\ space = Spaces(circ, m, y_base)
    BY <2>2 DEF Spaces, Workspace
  <2>4. (\A w \in Range(space) : ~start.wires[w]) = Cleared(circ, m, y_base, start.wires)
    <3>1. space \in Seq(Nat)
      BY <2>2, <2>3, SpacesCover DEF Separate
    <3>2. \A w : w \in Range(space) <=> \E k \in 1 .. Len(space) : space[k] = w
      BY <3>1, RangeMember
    <3>3. (\A w \in Range(space) : ~start.wires[w]) <=> Clear(start.wires, space)
      BY <3>2 DEF Clear
    <3>4. Cleared(circ, m, y_base, start.wires) = Clear(start.wires, space)
      BY <2>2, <2>3, ClearedSpaces
    <3>5. (\A w \in Range(space) : ~start.wires[w]) \in BOOLEAN /\ Clear(start.wires, space) \in BOOLEAN
      BY DEF Clear
    <3> QED BY <3>3, <3>4, <3>5
  <2>5. PICK y : y = y_base + 1 .. y_base + Len(circ.outputs) /\ y = Ys(circ, y_base)
    BY DEF Ys
  <2>6. (1 .. circ.params) \cup y \subseteq 1 .. rc.n
    <3>1. PICK p \in Nat, N \in Nat, b \in Nat, n \in Nat :
            p = circ.params /\ N = Len(circ.outputs) /\ b = y_base /\ n = rc.n /\ p <= b /\ b + N <= m /\ m <= n
      BY <2>1, <2>2 DEF Placed
    <3>2. (1 .. p) \cup (b + 1 .. b + N) \subseteq 1 .. n
      BY <3>1
    <3> QED BY <2>5, <3>1, <3>2
  <2>7. PICK f : f = EmbeddedResult(circ, SubSeq(start.wires, 1, circ.params), start.mem)
    OBVIOUS
  <2>8. PICK want : want = [w \in 1 .. rc.n |-> IF w \in y THEN start.wires[w] # f.out[w - y_base] ELSE start.wires[w]]
    OBVIOUS
  <2>9. PICK some : some = IF mode = "hardened" THEN 1 .. rc.n ELSE (1 .. circ.params) \cup y
    OBVIOUS
  <2>10. \A w \in some : want[w] = IF w \in y THEN start.wires[w] # f.out[w - y_base] ELSE start.wires[w]
    BY <2>6, <2>8, <2>9
  <2>11. Cleared(circ, m, y_base, start.wires) => end.mem = f.mem /\ \A w \in some : end.wires[w] = want[w]
    <3>1. circ \in BoolarCircuits
      BY <1>1 DEF RInv, CircuitTyped
    <3>2. f = TogglingResult(circ, SubSeq(start.wires, 1, circ.params), start.mem)
      BY <2>7, <3>1, EmbeddedToggles DEF EmbeddedResult, TogglingResult
    <3> QED BY <2>2, <2>5, <2>9, <2>10, <3>2 DEF Promised
  <2>12. mode = "hardened" /\ ~Cleared(circ, m, y_base, start.wires) => end = start
    BY <2>2 DEF Promised
  <2> QED BY <2>3, <2>4, <2>5, <2>7, <2>8, <2>9, <2>11, <2>12
<1> QED BY <1>1, Embedding, PTL

(* The passes make valid gates: they never panic over what RCircuit::new   *)
(* refuses, only over a statement that reads its own result.               *)
THEOREM GatesAreValid == Spec => []Validated
<1>1. EInv => Validated
  BY DEF EInv
<1> QED BY <1>1, Embedding, PTL
=============================================================================
