-------------------------- MODULE ReversibleProofs --------------------------
(***************************************************************************)
(* Proofs about Reversible, for circuits of any size.                      *)
(*                                                                         *)
(* A valid gate undoes itself, so gates in reverse order lead from where   *)
(* a run ended to where it started: the invariant RInv says that what is   *)
(* run is always valid.  And the statements a gate is lowered to compute   *)
(* what the gate does, so that a builder and the wires keep pace, gate by  *)
(* gate (Holds).  Both go by induction over the gates (FoldTheorems).      *)
(*                                                                         *)
(* The rest says what sequences of gates do: which wires they leave alone, *)
(* that gates with their wires renamed do the same to the renamed wires,   *)
(* that a ladder over borrowed wires is an X with any number of controls,  *)
(* and that the zero test toggles its target if the workspace is clear.    *)
(***************************************************************************)
EXTENDS Reversible, TLAPS

States(n) == [wires : [1 .. n -> BOOLEAN], mem : SUBSET Cells]

(* Reading wires one by one gives as many bits.                            *)
LEMMA MapBits ==
  ASSUME NEW n \in Nat, NEW bits \in [1 .. n -> BOOLEAN], NEW s \in Seq(Nat), Range(s) \subseteq 1 .. n
  PROVE  /\ MapSeq(s, LAMBDA w : bits[w]) \in Seq(BOOLEAN)
         /\ Len(MapSeq(s, LAMBDA w : bits[w])) = Len(s)
<1>1. Len(s) \in Nat /\ \A k \in 1 .. Len(s) : s[k] \in 1 .. n
  BY DEF Range
<1> QED BY <1>1 DEF MapSeq

(* A cell toggled twice by the same bit is as it was.                      *)
LEMMA FlippedTwice ==
  ASSUME NEW mem, NEW cell, NEW bit \in BOOLEAN
  PROVE  Flipped(Flipped(mem, cell, bit), cell, bit) = mem
BY DEF Flipped, Stored

(* What a gate reads, and what it is about to add.                         *)
Reads(seq, wires) == MapSeq(seq, LAMBDA w : wires[w])
CellOf(g, wires) == <<g.lane, Reads(g.addr, wires)>>
BitOf(g, wires) ==
  CASE g.op = "Toggle" -> \A k \in 1 .. Len(Reads(g.args, wires)) : Reads(g.args, wires)[k]
    [] g.op = "XorLut2" -> Reads(g.args, wires) \in g.table
    [] g.op = "ExternalXor" -> <<g.occurrence, Reads(g.args, wires)>> \in Oracle
FlipWire(wires, t, bit) == [wires EXCEPT ![t] = @ # bit]

(* Two assignments of bits that agree everywhere are one.                  *)
LEMMA SameBits ==
  ASSUME NEW S, NEW u \in [S -> BOOLEAN], NEW v \in [S -> BOOLEAN], \A w \in S : u[w] = v[w]
  PROVE  u = v
OBVIOUS

(* A wire toggled twice by the same bit is as it was.                      *)
LEMMA FlipTwice ==
  ASSUME NEW n, NEW wires \in [1 .. n -> BOOLEAN], NEW t \in 1 .. n, NEW bit \in BOOLEAN
  PROVE  FlipWire(FlipWire(wires, t, bit), t, bit) = wires
<1>1. PICK u : u = FlipWire(wires, t, bit)
  OBVIOUS
<1>2. u \in [1 .. n -> BOOLEAN] /\ u[t] = (wires[t] # bit) /\ \A w \in 1 .. n : w # t => u[w] = wires[w]
  BY <1>1 DEF FlipWire
<1>3. PICK v \in [1 .. n -> BOOLEAN] : v = FlipWire(u, t, bit)
  BY <1>2 DEF FlipWire
<1>4. \A w \in 1 .. n : v[w] = wires[w]
  BY <1>2, <1>3 DEF FlipWire
<1>5. v = wires
  <2>1. v = [w \in 1 .. n |-> v[w]] /\ wires = [w \in 1 .. n |-> wires[w]]
    OBVIOUS
  <2>2. [w \in 1 .. n |-> v[w]] = [w \in 1 .. n |-> wires[w]]
    BY <1>4, Zenon
  <2> QED BY <2>1, <2>2, Zenon
<1> QED BY <1>1, <1>3, <1>5

(* What is read does not depend on a wire that is not read.                *)
LEMMA ReadsSame ==
  ASSUME NEW n \in Nat, NEW s \in Seq(Nat), NEW t,
         NEW u \in [1 .. n -> BOOLEAN], NEW v \in [1 .. n -> BOOLEAN],
         \A w \in 1 .. n : w # t => u[w] = v[w],
         Range(s) \subseteq 1 .. n, t \notin Range(s)
  PROVE  Reads(s, u) = Reads(s, v)
<1>1. Len(s) \in Nat /\ \A k \in 1 .. Len(s) : s[k] \in 1 .. n /\ s[k] # t
  BY DEF Range
<1> QED BY <1>1 DEF Reads, MapSeq

(* The gates that toggle their target, as FlipWire and BitOf.              *)
LEMMA FlipApplied ==
  ASSUME NEW g, NEW st, g.op \in {"Toggle", "XorLut2", "ExternalXor"}
  PROVE  /\ ApplyGate(g, st) = [wires |-> FlipWire(st.wires, g.target, BitOf(g, st.wires)), mem |-> st.mem]
         /\ BitOf(g, st.wires) \in BOOLEAN
<1>1. CASE g.op = "Toggle"
  <2>1. BitOf(g, st.wires) \in BOOLEAN
    BY <1>1, Zenon DEF BitOf
  <2>2. ApplyGate(g, st) = [wires |-> FlipWire(st.wires, g.target, BitOf(g, st.wires)), mem |-> st.mem]
    BY <1>1, Zenon DEF ApplyGate, FlipWire, BitOf, Reads
  <2> QED BY <2>1, <2>2
<1>2. CASE g.op = "XorLut2"
  <2>1. BitOf(g, st.wires) \in BOOLEAN
    BY <1>2 DEF BitOf
  <2>2. ApplyGate(g, st) = [wires |-> FlipWire(st.wires, g.target, BitOf(g, st.wires)), mem |-> st.mem]
    BY <1>2, Zenon DEF ApplyGate, FlipWire, BitOf, Reads
  <2> QED BY <2>1, <2>2
<1>3. CASE g.op = "ExternalXor"
  <2>1. BitOf(g, st.wires) \in BOOLEAN
    BY <1>3 DEF BitOf
  <2>2. ApplyGate(g, st) = [wires |-> FlipWire(st.wires, g.target, BitOf(g, st.wires)), mem |-> st.mem]
    BY <1>3, Zenon DEF ApplyGate, FlipWire, BitOf, Reads
  <2> QED BY <2>1, <2>2
<1> QED BY <1>1, <1>2, <1>3

(* StorageSwap: wire and cell change places.                               *)
LEMMA SwapApplied ==
  ASSUME NEW g, NEW st, g.op = "StorageSwap"
  PROVE  \E held \in BOOLEAN :
           /\ held <=> CellOf(g, st.wires) \in st.mem
           /\ ApplyGate(g, st) = [wires |-> [st.wires EXCEPT ![g.target] = held],
                                  mem |-> Stored(st.mem, CellOf(g, st.wires), st.wires[g.target])]
<1>1. ApplyGate(g, st) = [wires |-> [st.wires EXCEPT ![g.target] = CellOf(g, st.wires) \in st.mem],
                          mem |-> Stored(st.mem, CellOf(g, st.wires), st.wires[g.target])]
  BY Zenon DEF ApplyGate, CellOf, Reads
<1>2. CASE CellOf(g, st.wires) \in st.mem
  <2>1. (CellOf(g, st.wires) \in st.mem) = TRUE
    BY <1>2
  <2> QED BY <1>1, <2>1
<1>3. CASE CellOf(g, st.wires) \notin st.mem
  <2>1. (CellOf(g, st.wires) \in st.mem) = FALSE
    BY <1>3
  <2> QED BY <1>1, <2>1
<1> QED BY <1>2, <1>3

(* ExternalStorageXor toggles its cell by what the action answers.         *)
LEMMA StoreApplied ==
  ASSUME NEW g, NEW st, g.op = "ExternalStorageXor"
  PROVE  ApplyGate(g, st) = [wires |-> st.wires,
                             mem |-> Flipped(st.mem, CellOf(g, st.wires), ActionValue(Reads(g.args, st.wires)))]
BY DEF ApplyGate, CellOf, Reads

(* Storage stays a set of cells.                                           *)
LEMMA StoredInCells ==
  ASSUME NEW mem \in SUBSET Cells, NEW cell \in Cells, NEW bit
  PROVE  Stored(mem, cell, bit) \in SUBSET Cells
BY DEF Stored

(* What validate_gate_at says of a gate of the right type.                 *)
LEMMA GateFacts ==
  ASSUME NEW n \in Nat, NEW g \in Gates, validate_gate_at(n, g), NEW wires \in [1 .. n -> BOOLEAN]
  PROVE  /\ g.op \in GateOps /\ g.args \in Seq(Nat) /\ g.addr \in Seq(Nat)
         /\ Range(g.args) \subseteq 1 .. n /\ Range(g.addr) \subseteq 1 .. n
         /\ g.op # "ExternalStorageXor" => g.target \in 1 .. n /\ g.target \notin Range(g.args) /\ g.target \notin Range(g.addr)
         /\ Reads(g.args, wires) \in Seq(BOOLEAN) /\ Len(Reads(g.args, wires)) = Len(g.args)
         /\ CellOf(g, wires) \in Cells
<1>1. g \in [op : GateOps, args : Seq(Nat), addr : Seq(Nat), target : Nat, lane : Nat, occurrence : Nat,
              table : SUBSET [1 .. 2 -> BOOLEAN]]
  BY DEF Gates
<1>2. g.op \in GateOps /\ g.args \in Seq(Nat) /\ g.addr \in Seq(Nat) /\ g.lane \in Nat
  BY <1>1
<1>3. Range(g.args) \subseteq 1 .. n /\ Range(g.addr) \subseteq 1 .. n
  BY DEF validate_gate_at
<1>4. g.op # "ExternalStorageXor" => g.target \in 1 .. n /\ g.target \notin Range(g.args) /\ g.target \notin Range(g.addr)
  BY DEF validate_gate_at
<1>5. Reads(g.args, wires) \in Seq(BOOLEAN) /\ Len(Reads(g.args, wires)) = Len(g.args) /\ Reads(g.addr, wires) \in Seq(BOOLEAN)
  BY <1>2, <1>3, MapBits DEF Reads
<1> QED BY <1>2, <1>3, <1>4, <1>5 DEF CellOf, Cells

(* A gate leaves a state of the wires and of storage.                      *)
LEMMA GateTyped ==
  ASSUME NEW n \in Nat, NEW g \in Gates, validate_gate_at(n, g), NEW st \in States(n)
  PROVE  ApplyGate(g, st) \in States(n)
<1>1. st.wires \in [1 .. n -> BOOLEAN] /\ st.mem \in SUBSET Cells
  BY DEF States
<1>2. CASE g.op \in {"Toggle", "XorLut2", "ExternalXor"}
  <2>1. PICK bit \in BOOLEAN : ApplyGate(g, st) = [wires |-> FlipWire(st.wires, g.target, bit), mem |-> st.mem]
    BY <1>2, FlipApplied
  <2>2. FlipWire(st.wires, g.target, bit) \in [1 .. n -> BOOLEAN]
    BY <1>1 DEF FlipWire
  <2> QED BY <1>1, <2>1, <2>2 DEF States
<1>3. CASE g.op = "StorageSwap"
  <2>1. Stored(st.mem, CellOf(g, st.wires), st.wires[g.target]) \in SUBSET Cells
    BY <1>1, GateFacts, StoredInCells
  <2>2. PICK held \in BOOLEAN : ApplyGate(g, st) = [wires |-> [st.wires EXCEPT ![g.target] = held],
                                  mem |-> Stored(st.mem, CellOf(g, st.wires), st.wires[g.target])]
    BY <1>3, SwapApplied
  <2>3. [st.wires EXCEPT ![g.target] = held] \in [1 .. n -> BOOLEAN]
    BY <1>1
  <2> QED BY <1>1, <2>1, <2>2, <2>3 DEF States
<1>4. CASE g.op = "ExternalStorageXor"
  <2>1. Flipped(st.mem, CellOf(g, st.wires), ActionValue(Reads(g.args, st.wires))) \in SUBSET Cells
    BY <1>1, GateFacts, StoredInCells DEF Flipped
  <2> QED BY <1>1, <1>4, <2>1, StoreApplied DEF States
<1> QED BY <1>1, <1>2, <1>3, <1>4, GateFacts DEF GateOps

(* Every gate undoes itself ("an involution").                             *)
LEMMA GateTwice ==
  ASSUME NEW n \in Nat, NEW g \in Gates, validate_gate_at(n, g), NEW st \in States(n)
  PROVE  ApplyGate(g, ApplyGate(g, st)) = st
<1>1. PICK wires \in [1 .. n -> BOOLEAN], mem \in SUBSET Cells : st = [wires |-> wires, mem |-> mem]
  BY DEF States
<1>2. PICK now : now = ApplyGate(g, st)
  OBVIOUS
<1>3. CASE g.op \in {"Toggle", "XorLut2", "ExternalXor"}
  <2>1. PICK bit \in BOOLEAN : bit = BitOf(g, wires)
    BY <1>1, <1>3, FlipApplied
  <2>2. now.wires = FlipWire(wires, g.target, bit) /\ now.mem = mem
    BY <1>1, <1>2, <1>3, <2>1, FlipApplied
  <2>3. now.wires \in [1 .. n -> BOOLEAN] /\ \A w \in 1 .. n : w # g.target => now.wires[w] = wires[w]
    BY <2>2 DEF FlipWire
  <2>4. Reads(g.args, now.wires) = Reads(g.args, wires)
    <3>1. PICK args \in Seq(Nat) : args = g.args /\ Range(args) \subseteq 1 .. n /\ g.target \notin Range(args)
      BY <1>3, GateFacts
    <3>2. PICK u \in [1 .. n -> BOOLEAN] : u = now.wires /\ \A w \in 1 .. n : w # g.target => u[w] = wires[w]
      BY <2>3
    <3>3. Reads(args, u) = Reads(args, wires)
      <4>1. Len(args) \in Nat /\ \A k \in 1 .. Len(args) : args[k] \in 1 .. n /\ args[k] # g.target
        BY <3>1 DEF Range
      <4>2. \A k \in 1 .. Len(args) : u[args[k]] = wires[args[k]]
        BY <3>2, <4>1
      <4> QED BY <4>1, <4>2 DEF Reads, MapSeq
    <3> QED BY <3>1, <3>2, <3>3
  <2>5. BitOf(g, now.wires) = bit
    BY <2>1, <2>4 DEF BitOf
  <2>6. ApplyGate(g, now) = [wires |-> FlipWire(now.wires, g.target, bit), mem |-> mem]
    BY <1>3, <2>2, <2>5, FlipApplied
  <2>7. FlipWire(now.wires, g.target, bit) = wires
    <3>1. g.target \in 1 .. n
      BY <1>3, GateFacts
    <3> QED BY <2>2, <3>1, FlipTwice
  <2> QED BY <1>1, <1>2, <2>6, <2>7
<1>4. CASE g.op = "StorageSwap"
  <2>1. PICK cell : cell = CellOf(g, wires)
    OBVIOUS
  <2>2. PICK held \in BOOLEAN : /\ held <=> cell \in mem
                                /\ now = [wires |-> [wires EXCEPT ![g.target] = held],
                                          mem |-> Stored(mem, cell, wires[g.target])]
    <3>1. st.wires = wires /\ st.mem = mem
      BY <1>1
    <3> QED BY <1>2, <1>4, <2>1, <3>1, SwapApplied
  <2>3. PICK u : u = [wires EXCEPT ![g.target] = held]
    OBVIOUS
  <2>4. PICK m : m = Stored(mem, cell, wires[g.target])
    OBVIOUS
  <2>5. now.wires = u /\ now.mem = m
    BY <2>2, <2>3, <2>4
  <2>6. g.target \in 1 .. n /\ g.target \notin Range(g.addr) /\ g.addr \in Seq(Nat) /\ Range(g.addr) \subseteq 1 .. n
    BY <1>4, GateFacts
  <2>7. u \in [1 .. n -> BOOLEAN] /\ \A w \in 1 .. n : w # g.target => u[w] = wires[w]
    BY <2>3
  <2>8. Reads(g.addr, u) = Reads(g.addr, wires)
    BY SMTT(30), <2>6, <2>7, ReadsSame
  <2>9. CellOf(g, u) = cell
    BY <2>1, <2>8 DEF CellOf
  <2>10. PICK again \in BOOLEAN : /\ again <=> cell \in m
                                  /\ ApplyGate(g, now) = [wires |-> [u EXCEPT ![g.target] = again],
                                                          mem |-> Stored(m, cell, u[g.target])]
    BY <1>4, <2>5, <2>9, SwapApplied
  <2>11. again = wires[g.target] /\ u[g.target] = held
    BY <2>3, <2>4, <2>6, <2>10 DEF Stored
  <2>12. [u EXCEPT ![g.target] = again] = wires
    BY <2>3, <2>6, <2>11
  <2>13. Stored(m, cell, u[g.target]) = mem
    BY <2>2, <2>4, <2>11 DEF Stored
  <2> QED BY <1>1, <1>2, <2>10, <2>12, <2>13
<1>5. CASE g.op = "ExternalStorageXor"
  <2>1. PICK cell : cell = CellOf(g, wires)
    OBVIOUS
  <2>2. PICK bit \in BOOLEAN : bit = ActionValue(Reads(g.args, wires))
    BY DEF ActionValue
  <2>3. now = [wires |-> wires, mem |-> Flipped(mem, cell, bit)]
    BY <1>1, <1>2, <1>5, <2>1, <2>2, StoreApplied
  <2>4. ApplyGate(g, now) = [wires |-> wires, mem |-> Flipped(Flipped(mem, cell, bit), cell, bit)]
    BY <1>5, <2>1, <2>2, <2>3, StoreApplied
  <2> QED BY <1>1, <1>2, <2>4, FlippedTwice
<1> QED BY <1>1, <1>3, <1>4, <1>5, GateFacts DEF GateOps

-----------------------------------------------------------------------------
(* Gates one after the other.                                              *)

Applied(st, g) == ApplyGate(g, st)
Run == INSTANCE FoldTheorems WITH op <- Applied

(* apply carries the state through the gates (RCircuit::apply).            *)
LEMMA ApplyIsFold ==
  ASSUME NEW gates, NEW st
  PROVE  apply(gates, st) = Run!Fold(st, gates)
BY DEF apply, Through, Applied, Run!Fold, Run!Walk, Run!Steps

(* A member of a valid sequence of gates is a valid gate.                  *)
LEMMA ValidGates ==
  ASSUME NEW n \in Nat, NEW gates \in Seq(Gates), validate(n, gates)
  PROVE  \A k \in 1 .. Len(gates) : gates[k] \in Gates /\ validate_gate_at(n, gates[k])
<1>1. \A k \in 1 .. Len(gates) : gates[k] \in Gates
  OBVIOUS
<1> QED BY <1>1 DEF validate

(* The states on the way.                                                  *)
LEMMA RunTyped ==
  ASSUME NEW n \in Nat, NEW gates \in Seq(Gates), validate(n, gates), NEW st \in States(n)
  PROVE  \A k \in 0 .. Len(gates) : Run!Walk(st, gates)[k] \in States(n)
<1>1. PICK N \in Nat : N = Len(gates)
  OBVIOUS
<1>2. PICK t : t = Run!Walk(st, gates)
  OBVIOUS
<1>3. t[0] = st /\ \A k \in 1 .. N : t[k] = ApplyGate(gates[k], t[k - 1])
  BY <1>1, <1>2, Run!WalkSteps DEF Applied
<1> DEFINE T == {k \in 0 .. N : t[k] \in States(n)}
<1>4. 0 \in T
  BY <1>3
<1>5. ASSUME NEW k \in 0 .. N - 1, k \in T PROVE k + 1 \in T
  <2>1. k + 1 \in 1 .. N /\ (k + 1) - 1 = k
    OBVIOUS
  <2>2. t[k + 1] = ApplyGate(gates[k + 1], t[k])
    BY <1>3, <2>1
  <2>3. t[k] \in States(n) /\ gates[k + 1] \in Gates /\ validate_gate_at(n, gates[k + 1])
    BY <1>1, <1>5, <2>1, ValidGates
  <2> QED BY <2>1, <2>2, <2>3, GateTyped
<1>6. \A k \in 0 .. N : k \in T
  <2> HIDE DEF T
  <2>1. \A k \in 0 .. N - 1 : k \in T => k + 1 \in T
    BY <1>5
  <2> QED BY <1>4, <2>1, Run!UpTo, Zenon
<1> QED BY <1>1, <1>2, <1>6

(* A circuit run backwards from where it ended comes to where it started.  *)
LEMMA BackToStart ==
  ASSUME NEW n \in Nat, NEW gates \in Seq(Gates), validate(n, gates), NEW st \in States(n)
  PROVE  apply(inverse(gates), apply(gates, st)) = st
<1>1. PICK N \in Nat : N = Len(gates)
  OBVIOUS
<1>2. PICK t : t = Run!Walk(st, gates)
  OBVIOUS
<1>3. t[0] = st /\ \A k \in 1 .. N : t[k] = ApplyGate(gates[k], t[k - 1])
  BY <1>1, <1>2, Run!WalkSteps DEF Applied
<1>4. \A k \in 0 .. N : t[k] \in States(n)
  BY <1>1, <1>2, RunTyped
<1>5. PICK back_gates : back_gates = inverse(gates)
  OBVIOUS
<1>6. Len(back_gates) = N /\ \A k \in 1 .. N : back_gates[k] = gates[N - k + 1]
  BY <1>1, <1>5 DEF inverse, Reverse
<1>7. PICK u : u = Run!Walk(t[N], back_gates)
  OBVIOUS
<1>8. u[0] = t[N] /\ \A k \in 1 .. N : u[k] = ApplyGate(back_gates[k], u[k - 1])
  <2>1. PICK last : last = t[N]
    OBVIOUS
  <2>2. u = Run!Walk(last, back_gates)
    BY <1>7, <2>1
  <2>3. Len(back_gates) \in Nat
    BY <1>6
  <2>4. /\ Run!Walk(last, back_gates)[0] = last
        /\ \A k \in 1 .. Len(back_gates) :
             Run!Walk(last, back_gates)[k] = Applied(Run!Walk(last, back_gates)[k - 1], back_gates[k])
    BY <2>3, Run!WalkSteps
  <2>5. u[0] = last /\ \A k \in 1 .. N : u[k] = ApplyGate(back_gates[k], u[k - 1])
    BY <1>6, <2>2, <2>4 DEF Applied
  <2> QED BY <2>1, <2>5
<1> DEFINE T == {k \in 0 .. N : u[k] = t[N - k]}
<1>9. 0 \in T
  BY <1>8
<1>10. ASSUME NEW k \in 0 .. N - 1, k \in T PROVE k + 1 \in T
  <2>1. PICK j \in 1 .. N : j = N - k
    OBVIOUS
  <2>2. k + 1 \in 1 .. N /\ (k + 1) - 1 = k /\ N - (k + 1) + 1 = j /\ N - (k + 1) = j - 1 /\ j - 1 \in 0 .. N
    BY <2>1
  <2>3. u[k + 1] = ApplyGate(gates[j], t[j])
    BY <1>6, <1>8, <1>10, <2>1, <2>2
  <2>4. t[j] = ApplyGate(gates[j], t[j - 1])
    BY <1>3
  <2>5. t[j - 1] \in States(n) /\ gates[j] \in Gates /\ validate_gate_at(n, gates[j])
    BY <1>1, <1>4, <2>2, ValidGates
  <2>6. ApplyGate(gates[j], t[j]) = t[j - 1]
    BY <2>4, <2>5, GateTwice
  <2> QED BY <2>2, <2>3, <2>6
<1>11. u[N] = t[0]
  <2>1. \A k \in 0 .. N : k \in T
    <3> HIDE DEF T
    <3>1. \A k \in 0 .. N - 1 : k \in T => k + 1 \in T
      BY <1>10
    <3> QED BY <1>9, <3>1, Run!UpTo, Zenon
  <2> QED BY <2>1
<1>12. apply(gates, st) = t[N]
  BY <1>1, <1>2, ApplyIsFold DEF Run!Fold
<1>13. apply(back_gates, t[N]) = u[N]
  BY <1>6, <1>7, ApplyIsFold DEF Run!Fold
<1> QED BY <1>3, <1>5, <1>11, <1>12, <1>13

-----------------------------------------------------------------------------
(* What holds in every state: the types of what the passes keep, the       *)
(* validity of a circuit that is handed on, and what has been applied to   *)
(* what.                                                                   *)

BoolarCircuits == [params : Nat, stmts : Seq(Statements), outputs : Seq(Nat \ {0})]
Pools == [base : Nat, next_fresh : Nat, free : Seq(Nat)]
Phases == {"synth", "refused", "panic", "harden", "ready", "lowered", "applied"}

CircuitTyped ==
  /\ circ \in BoolarCircuits
  /\ Range(circ.outputs) \subseteq 1 .. VarSpace(circ)

WiresTyped ==
  /\ phase \in Phases
  /\ wire_of \in Seq(Nat) /\ Len(wire_of) \in circ.params .. VarSpace(circ)
  /\ next_anc \in circ.params + 1 .. Len(wire_of) + 1
  /\ pool \in Pools /\ pool.base < pool.next_fresh
  /\ y_base \in Nat /\ circ.params <= y_base
  /\ rc \in [n : Nat, gates : Seq(Gates)]

Made ==
  phase = "harden" =>
    /\ Len(wire_of) = VarSpace(circ)
    /\ Len(rc.gates) >= Len(circ.outputs)
    /\ rc.n >= y_base + Len(circ.outputs)

Valid == phase \in {"harden", "ready", "lowered", "applied"} => validate(rc.n, rc.gates)
RunDone == phase = "applied" => start \in States(rc.n) /\ end = apply(rc.gates, start)

RInv == CircuitTyped /\ WiresTyped /\ Made /\ Valid /\ RunDone
-----------------------------------------------------------------------------
(* The gates the passes make.                                              *)

(* X, CNOT and Toffoli gates are gates.                                    *)
LEMMA ToggleTyped ==
  ASSUME NEW args \in Seq(Nat), Len(args) <= 2, NEW t \in Nat
  PROVE  Toggle(args, t) \in Gates
BY DEF Toggle, Gate, Gates, GateOps, GateShape

(* So are the gates written with X, Cnot and Ccnot.                        *)
LEMMA SimpleTyped ==
  ASSUME NEW c \in Nat, NEW d \in Nat, NEW t \in Nat
  PROVE  X(t) \in Gates /\ Cnot(c, t) \in Gates /\ Ccnot(c, d, t) \in Gates
<1>1. << >> \in Seq(Nat) /\ Len(<< >>) <= 2
  OBVIOUS
<1>2. <<c>> \in Seq(Nat) /\ Len(<<c>>) <= 2
  OBVIOUS
<1>3. <<c, d>> \in Seq(Nat) /\ Len(<<c, d>>) <= 2
  OBVIOUS
<1> QED BY <1>1, <1>2, <1>3, ToggleTyped DEF X, Cnot, Ccnot

(* The parts of a statement.                                               *)
LEMMA StmtFacts ==
  ASSUME NEW s \in Statements
  PROVE  /\ s.op \in StmtOps /\ s.args \in Seq(Nat \ {0}) /\ s.addr \in Seq(Nat \ {0})
         /\ s.lane \in Nat /\ s.occurrence \in Nat /\ StmtShape(s)
BY DEF Statements

(* The gates made of a statement on storage or an oracle are gates.        *)
LEMMA StorageTyped ==
  ASSUME NEW s \in Statements, NEW args \in Seq(Nat), NEW addr \in Seq(Nat), NEW t \in Nat
  PROVE  /\ StorageSwap(s, addr, t) \in Gates
         /\ ExternalXor(s, args, t) \in Gates
         /\ Len(args) >= 2 => ExternalStorageXor(s, args, addr) \in Gates
<1>1. s.lane \in Nat /\ s.occurrence \in Nat
  BY StmtFacts
<1>2. StorageSwap(s, addr, t) \in Gates
  BY <1>1 DEF StorageSwap, Gate, Gates, GateOps, GateShape
<1>3. ExternalXor(s, args, t) \in Gates
  BY <1>1 DEF ExternalXor, Gate, Gates, GateOps, GateShape
<1>4. Len(args) >= 2 => ExternalStorageXor(s, args, addr) \in Gates
  BY <1>1 DEF ExternalStorageXor, Gate, Gates, GateOps, GateShape
<1> QED BY <1>2, <1>3, <1>4

(* Reversed gates are gates.                                               *)
LEMMA ReverseTyped ==
  ASSUME NEW S, NEW seq \in Seq(S)
  PROVE  Reverse(seq) \in Seq(S) /\ Len(Reverse(seq)) = Len(seq)
<1>1. Len(seq) \in Nat /\ \A k \in 1 .. Len(seq) : seq[k] \in S
  OBVIOUS
<1>2. \A k \in 1 .. Len(seq) : Len(seq) - k + 1 \in 1 .. Len(seq)
  BY <1>1
<1> QED BY <1>1, <1>2 DEF Reverse

(* acquire hands out a wire and keeps the pool a pool.                     *)
LEMMA PoolTyped ==
  ASSUME NEW p \in Pools, p.base < p.next_fresh
  PROVE  /\ Acquired(p) \in Nat
         /\ acquire(p) \in Pools /\ acquire(p).base < acquire(p).next_fresh
<1>1. p.free \in Seq(Nat) /\ p.base \in Nat /\ p.next_fresh \in Nat
  BY DEF Pools
<1>2. CASE p.free # << >>
  <2>1. Last(p.free) \in Nat /\ Front(p.free) \in Seq(Nat)
    BY <1>1, <1>2 DEF Last, Front
  <2>2. acquire(p) = [p EXCEPT !.free = Front(p.free)]
    BY <1>2 DEF acquire
  <2> QED BY <1>1, <1>2, <2>1, <2>2 DEF Acquired, Pools
<1>3. CASE p.free = << >>
  <2>1. acquire(p) = [p EXCEPT !.next_fresh = p.next_fresh + 1]
    BY <1>3 DEF acquire
  <2> QED BY <1>1, <1>3, <2>1 DEF Acquired, Pools
<1> QED BY <1>2, <1>3

(* So does release.                                                        *)
LEMMA ReleaseTyped ==
  ASSUME NEW p \in Pools, p.base < p.next_fresh, NEW w \in Nat
  PROVE  release(p, w) \in Pools /\ release(p, w).base < release(p, w).next_fresh
<1>1. p.free \in Seq(Nat) /\ p.base \in Nat /\ p.next_fresh \in Nat
  BY DEF Pools
<1>2. Append(p.free, w) \in Seq(Nat)
  BY <1>1
<1> QED BY <1>1, <1>2 DEF release, Pools

GoodPool(p) == p \in Pools /\ p.base < p.next_fresh
LoweredTyped(done) == done.gates \in Seq(Gates) /\ done.wire \in Nat /\ GoodPool(done.pool)

(* The wires of variables that have one are numbers.                       *)
LEMMA MapWires ==
  ASSUME NEW wires \in Seq(Nat), NEW s \in Seq(Nat \ {0}), Range(s) \subseteq 1 .. Len(wires)
  PROVE  /\ MapSeq(s, LAMBDA v : wires[v]) \in Seq(Nat)
         /\ Len(MapSeq(s, LAMBDA v : wires[v])) = Len(s)
         /\ \A k \in 1 .. Len(s) : MapSeq(s, LAMBDA v : wires[v])[k] = wires[s[k]] /\ wires[s[k]] \in Nat
<1>1. Len(s) \in Nat /\ \A k \in 1 .. Len(s) : s[k] \in 1 .. Len(wires)
  BY DEF Range
<1>2. \A k \in 1 .. Len(s) : wires[s[k]] \in Nat
  BY <1>1
<1> QED BY <1>1, <1>2 DEF MapSeq

(* There is a wire for the next result, and a pool of scratch wires.       *)
LEMMA NextWire ==
  ASSUME WiresTyped, CircuitTyped
  PROVE  next_anc \in Nat /\ GoodPool(pool)
<1>1. circ.params \in Nat
  BY DEF CircuitTyped, BoolarCircuits
<1>2. next_anc \in circ.params + 1 .. Len(wire_of) + 1 /\ wire_of \in Seq(Nat)
  BY DEF WiresTyped
<1>3. GoodPool(pool)
  BY DEF WiresTyped, GoodPool
<1> QED BY <1>1, <1>2, <1>3

(* What an Xor is lowered to has its type, operand taken over or not.      *)
LEMMA XorTyped ==
  ASSUME WiresTyped, CircuitTyped, NEW a \in 1 .. Len(wire_of), NEW b \in 1 .. Len(wire_of)
  PROVE  LoweredTyped(LowerXor(a, b))
<1>1. wire_of[a] \in Nat /\ wire_of[b] \in Nat /\ next_anc \in Nat /\ GoodPool(pool)
  <2>1. wire_of \in Seq(Nat)
    BY DEF WiresTyped
  <2>2. wire_of[a] \in Nat /\ wire_of[b] \in Nat
    BY <2>1
  <2>3. next_anc \in Nat /\ GoodPool(pool)
    BY NextWire
  <2> QED BY <2>2, <2>3
<1>2. CASE Consumed(a, b) = {}
  <2>1. <<Cnot(wire_of[a], next_anc), Cnot(wire_of[b], next_anc)>> \in Seq(Gates)
    BY <1>1, SimpleTyped
  <2> QED BY <1>1, <1>2, <2>1 DEF LowerXor, NewWire, Lowered, LoweredTyped
<1>3. CASE Consumed(a, b) # {}
  <2>1. Consumed(a, b) \subseteq {a, b}
    BY DEF Consumed
  <2>2. PICK c \in {a, b} : c = CHOOSE v \in Consumed(a, b) : TRUE
    BY <1>3, <2>1
  <2>3. PICK other \in {a, b} : other = IF c = a THEN b ELSE a
    BY <2>2
  <2>4. LowerXor(a, b) = Lowered(<<Cnot(wire_of[other], wire_of[c])>>, wire_of[c], pool)
    BY <1>3, <2>2, <2>3 DEF LowerXor
  <2>5. wire_of[c] \in Nat /\ wire_of[other] \in Nat
    BY <1>1
  <2>6. <<Cnot(wire_of[other], wire_of[c])>> \in Seq(Gates)
    BY <2>5, SimpleTyped
  <2> QED BY <1>1, <2>4, <2>5, <2>6 DEF Lowered, LoweredTyped
<1> QED BY <1>2, <1>3

(* What an Or is lowered to has its type.                                  *)
LEMMA OrTyped ==
  ASSUME WiresTyped, CircuitTyped, NEW a \in 1 .. Len(wire_of), NEW b \in 1 .. Len(wire_of)
  PROVE  LoweredTyped(LowerOr(a, b))
<1>1. wire_of[a] \in Nat /\ wire_of[b] \in Nat /\ next_anc \in Nat /\ GoodPool(pool)
  <2>1. wire_of \in Seq(Nat)
    BY DEF WiresTyped
  <2>2. wire_of[a] \in Nat /\ wire_of[b] \in Nat
    BY <2>1
  <2>3. next_anc \in Nat /\ GoodPool(pool)
    BY NextWire
  <2> QED BY <2>2, <2>3
<1>2. PICK na \in Nat : na = Acquired(pool)
  BY <1>1, PoolTyped DEF GoodPool
<1>3. PICK one : one = acquire(pool) /\ GoodPool(one)
  BY <1>1, PoolTyped DEF GoodPool
<1>4. PICK nb \in Nat : nb = Acquired(one)
  BY <1>3, PoolTyped DEF GoodPool
<1>5. PICK two : two = acquire(one) /\ GoodPool(two)
  BY <1>3, PoolTyped DEF GoodPool
<1>6. PICK copy : copy = <<Cnot(wire_of[a], na), X(na), Cnot(wire_of[b], nb), X(nb)>>
  OBVIOUS
<1>7. copy \in Seq(Gates)
  BY <1>1, <1>2, <1>4, <1>6, SimpleTyped
<1>8. PICK or : or = copy \o <<Ccnot(na, nb, next_anc), X(next_anc)>>
  OBVIOUS
<1>9. or \in Seq(Gates)
  <2>1. <<Ccnot(na, nb, next_anc), X(next_anc)>> \in Seq(Gates)
    BY <1>1, <1>2, <1>4, SimpleTyped
  <2> QED BY <1>7, <1>8, <2>1
<1>10. LowerOr(a, b) = IF share THEN Lowered(or \o Reverse(copy), next_anc, release(release(two, na), nb))
                       ELSE Lowered(or, next_anc, two)
  BY <1>2, <1>3, <1>4, <1>5, <1>6, <1>8 DEF LowerOr
<1>11. or \o Reverse(copy) \in Seq(Gates)
  BY <1>7, <1>9, ReverseTyped
<1>12. GoodPool(release(release(two, na), nb))
  BY <1>2, <1>4, <1>5, ReleaseTyped DEF GoodPool
<1> QED BY <1>1, <1>5, <1>9, <1>10, <1>11, <1>12 DEF Lowered, LoweredTyped
(* What a StorageRead is lowered to has its type.                          *)
LEMMA ReadTyped ==
  ASSUME WiresTyped, CircuitTyped, NEW s \in Statements, NEW addr \in Seq(Nat)
  PROVE  LoweredTyped(LowerRead(s, addr))
<1>1. next_anc \in Nat /\ GoodPool(pool)
  BY NextWire
<1>2. PICK t \in Nat : t = Acquired(pool)
  BY <1>1, PoolTyped DEF GoodPool
<1>3. GoodPool(acquire(pool)) /\ GoodPool(release(acquire(pool), t))
  BY <1>1, <1>2, PoolTyped, ReleaseTyped DEF GoodPool
<1>4. StorageSwap(s, addr, t) \in Gates
  BY <1>2, StorageTyped
<1>5. <<StorageSwap(s, addr, t), Cnot(t, next_anc), StorageSwap(s, addr, t)>> \in Seq(Gates)
  BY <1>1, <1>2, <1>4, SimpleTyped
<1> QED BY <1>1, <1>2, <1>3, <1>5 DEF LowerRead, Lowered, LoweredTyped

(* What a StorageWrite is lowered to has its type.                         *)
LEMMA WriteTyped ==
  ASSUME WiresTyped, CircuitTyped, NEW s \in Statements, NEW src \in Nat, NEW addr \in Seq(Nat)
  PROVE  LoweredTyped(LowerWrite(s, src, addr))
<1>1. next_anc \in Nat /\ GoodPool(pool)
  BY NextWire
<1>2. PICK t \in Nat : t = Acquired(pool)
  BY <1>1, PoolTyped DEF GoodPool
<1>3. GoodPool(acquire(pool))
  BY <1>1, PoolTyped DEF GoodPool
<1>4. StorageSwap(s, addr, t) \in Gates
  BY <1>2, StorageTyped
<1>5. <<Cnot(src, t), StorageSwap(s, addr, t)>> \in Seq(Gates)
  BY <1>2, <1>4, SimpleTyped
<1> QED BY <1>1, <1>2, <1>3, <1>5 DEF LowerWrite, Lowered, LoweredTyped

(* Every statement that reads earlier ones only is lowered to gates, a     *)
(* wire and a pool.                                                        *)
LEMMA LowerStmtTyped ==
  ASSUME WiresTyped, CircuitTyped, NEW s \in Statements, s.op # "Legacy",
         Range(s.args) \subseteq 1 .. Len(wire_of), Range(s.addr) \subseteq 1 .. Len(wire_of)
  PROVE  LoweredTyped(LowerStmt(s))
<1>1. next_anc \in Nat /\ GoodPool(pool) /\ wire_of \in Seq(Nat)
  BY NextWire DEF WiresTyped
<1>2. s.op \in StmtOps /\ s.args \in Seq(Nat \ {0}) /\ s.addr \in Seq(Nat \ {0}) /\ StmtShape(s)
  BY StmtFacts
<1>3. PICK args \in Seq(Nat) : /\ args = MapSeq(s.args, LAMBDA v : wire_of[v])
                               /\ Len(args) = Len(s.args)
                               /\ \A k \in 1 .. Len(s.args) : args[k] \in Nat
  <2>1. PICK args : args = MapSeq(s.args, LAMBDA v : wire_of[v])
    OBVIOUS
  <2>2. args \in Seq(Nat) /\ Len(args) = Len(s.args)
    BY <1>1, <1>2, <2>1, MapWires
  <2>3. \A k \in 1 .. Len(args) : args[k] \in Nat
    BY <2>2
  <2> QED BY <2>1, <2>2, <2>3
<1>4. PICK addr \in Seq(Nat) : addr = MapSeq(s.addr, LAMBDA v : wire_of[v])
  BY <1>1, <1>2, MapWires
<1>5. \A k \in 1 .. Len(s.args) : s.args[k] \in 1 .. Len(wire_of)
  BY <1>2 DEF Range
<1>6. ASSUME NEW gates \in Seq(Gates) PROVE LoweredTyped(NewWire(gates))
  BY <1>1 DEF NewWire, Lowered, LoweredTyped
<1>7. CASE s.op = "Zero"
  <2>1. << >> \in Seq(Gates)
    OBVIOUS
  <2>2. LowerStmt(s) = NewWire(<< >>)
    BY <1>7 DEF LowerStmt
  <2> QED BY <1>6, <2>1, <2>2
<1>8. CASE s.op = "One"
  <2>1. <<X(next_anc)>> \in Seq(Gates)
    BY <1>1, SimpleTyped
  <2>2. LowerStmt(s) = NewWire(<<X(next_anc)>>)
    BY <1>8 DEF LowerStmt
  <2> QED BY <1>6, <2>1, <2>2
<1>9. CASE s.op = "Xor"
  <2>1. LowerStmt(s) = LowerXor(s.args[1], s.args[2])
    BY <1>9 DEF LowerStmt
  <2>2. s.args[1] \in 1 .. Len(wire_of) /\ s.args[2] \in 1 .. Len(wire_of)
    BY <1>2, <1>5, <1>9 DEF StmtShape
  <2> QED BY <2>1, <2>2, XorTyped
<1>10. CASE s.op = "And"
  <2>1. LowerStmt(s) = NewWire(<<Ccnot(args[1], args[2], next_anc)>>)
    BY <1>3, <1>10 DEF LowerStmt
  <2>2. args[1] \in Nat /\ args[2] \in Nat
    BY <1>2, <1>3, <1>10 DEF StmtShape
  <2>3. <<Ccnot(args[1], args[2], next_anc)>> \in Seq(Gates)
    BY <1>1, <2>2, SimpleTyped
  <2> QED BY <1>6, <2>1, <2>3
<1>11. CASE s.op = "Not"
  <2>1. LowerStmt(s) = NewWire(<<Cnot(args[1], next_anc), X(next_anc)>>)
    BY <1>3, <1>11 DEF LowerStmt
  <2>2. args[1] \in Nat
    BY <1>2, <1>3, <1>11 DEF StmtShape
  <2>3. <<Cnot(args[1], next_anc), X(next_anc)>> \in Seq(Gates)
    BY <1>1, <2>2, SimpleTyped
  <2> QED BY <1>6, <2>1, <2>3
<1>12. CASE s.op = "Or"
  <2>1. LowerStmt(s) = LowerOr(s.args[1], s.args[2])
    BY <1>12 DEF LowerStmt
  <2>2. s.args[1] \in 1 .. Len(wire_of) /\ s.args[2] \in 1 .. Len(wire_of)
    BY <1>2, <1>5, <1>12 DEF StmtShape
  <2> QED BY <2>1, <2>2, OrTyped
<1>13. CASE s.op = "StorageRead"
  <2>1. LowerStmt(s) = LowerRead(s, addr)
    BY <1>4, <1>13 DEF LowerStmt
  <2> QED BY <1>4, <2>1, ReadTyped
<1>14. CASE s.op = "StorageWrite"
  <2>1. LowerStmt(s) = LowerWrite(s, args[1], addr)
    BY <1>3, <1>4, <1>14 DEF LowerStmt
  <2>2. args[1] \in Nat
    BY <1>2, <1>3, <1>14 DEF StmtShape
  <2> QED BY <1>4, <2>1, <2>2, WriteTyped
<1>15. CASE s.op = "OracleBit"
  <2>1. LowerStmt(s) = NewWire(<<ExternalXor(s, args, next_anc)>>)
    BY <1>3, <1>15 DEF LowerStmt
  <2>2. ExternalXor(s, args, next_anc) \in Gates
    BY <1>1, <1>3, <1>4, StorageTyped
  <2>3. <<ExternalXor(s, args, next_anc)>> \in Seq(Gates)
    BY <2>2
  <2> QED BY <1>6, <2>1, <2>3
<1>16. CASE s.op = "ActionStoreBit"
  <2>1. LowerStmt(s) = NewWire(<<ExternalStorageXor(s, args, addr)>>)
    BY <1>3, <1>4, <1>16 DEF LowerStmt
  <2>2. Len(args) >= 2
    BY <1>2, <1>3, <1>16 DEF StmtShape
  <2>3. ExternalStorageXor(s, args, addr) \in Gates
    BY <1>1, <1>3, <1>4, <2>2, StorageTyped
  <2>4. <<ExternalStorageXor(s, args, addr)>> \in Seq(Gates)
    BY <2>3
  <2> QED BY <1>6, <2>1, <2>4
<1> QED BY <1>2, <1>7, <1>8, <1>9, <1>10, <1>11, <1>12, <1>13, <1>14, <1>15, <1>16 DEF StmtOps

-----------------------------------------------------------------------------
(* The gates of a hardened circuit.                                        *)

(* append_dirty_ladder makes gates when there are two controls more than   *)
(* dirty wires.                                                            *)
LEMMA LadderTyped ==
  ASSUME NEW controls \in Seq(Nat), NEW target \in Nat, NEW dirty \in Seq(Nat),
         Len(controls) >= 3, Len(dirty) = Len(controls) - 2, NEW first \in {1, 2}
  PROVE  append_dirty_ladder(controls, target, dirty, first) \in Seq(Gates)
<1>1. ASSUME NEW i \in 1 .. Len(dirty) PROVE Rung(controls, dirty, i) \in Gates
  <2>1. dirty[i] \in Nat /\ i + 1 \in 1 .. Len(controls) /\ controls[i + 1] \in Nat
    <3>1. dirty[i] \in Nat
      BY SMTT(30)
    <3>2. i + 1 \in 1 .. Len(controls)
      OBVIOUS
    <3>3. controls[i + 1] \in Nat
      BY <3>2
    <3> QED BY <3>1, <3>2, <3>3
  <2>2. CASE i = 1
    <3>1. controls[1] \in Nat /\ controls[2] \in Nat
      BY SMTT(30)
    <3> QED BY <2>1, <2>2, <3>1, SimpleTyped DEF Rung
  <2>3. CASE i # 1
    <3>1. dirty[i - 1] \in Nat
      BY SMTT(30), <2>3
    <3> QED BY <2>1, <2>3, <3>1, SimpleTyped DEF Rung
  <2> QED BY <2>2, <2>3
<1>2. PICK up : up = [k \in 1 .. Len(dirty) - first + 1 |-> Rung(controls, dirty, first + k - 1)]
  OBVIOUS
<1>3. up \in Seq(Gates)
  <2>1. Len(dirty) - first + 1 \in Nat
    OBVIOUS
  <2>2. \A k \in 1 .. Len(dirty) - first + 1 : first + k - 1 \in 1 .. Len(dirty)
    OBVIOUS
  <2>3. \A k \in 1 .. Len(dirty) - first + 1 : Rung(controls, dirty, first + k - 1) \in Gates
    BY <1>1, <2>2
  <2> QED BY <1>2, <2>1, <2>3
<1>4. PICK mid : mid = <<Ccnot(Last(dirty), Last(controls), target)>>
  OBVIOUS
<1>5. mid \in Seq(Gates)
  <2>1. Last(dirty) \in Nat /\ Last(controls) \in Nat
    BY DEF Last
  <2> QED BY <1>4, <2>1, SimpleTyped
<1>6. append_dirty_ladder(controls, target, dirty, first) = up \o mid \o Reverse(up)
  BY <1>2, <1>4 DEF append_dirty_ladder
<1> QED BY <1>3, <1>5, <1>6, ReverseTyped

(* append_zero_test makes gates when dirty wires suffice.                  *)
LEMMA ZeroTestTyped ==
  ASSUME NEW controls \in Seq(Nat), NEW target \in Nat, NEW dirty \in Seq(Nat),
         Len(controls) >= 3 => Len(dirty) = Len(controls) - 2
  PROVE  append_zero_test(controls, target, dirty) \in Seq(Gates)
<1>1. append_mcx_with_dirty(controls, target, dirty) \in Seq(Gates)
  <2>1. CASE Len(controls) <= 2
    <3>1. Toggle(controls, target) \in Gates
      BY <2>1, ToggleTyped
    <3> QED BY <2>1, <3>1 DEF append_mcx_with_dirty
  <2>2. CASE ~(Len(controls) <= 2)
    <3>1. Len(controls) >= 3 /\ Len(dirty) = Len(controls) - 2
      BY <2>2
    <3>2. /\ append_dirty_ladder(controls, target, dirty, 1) \in Seq(Gates)
          /\ append_dirty_ladder(controls, target, dirty, 2) \in Seq(Gates)
      BY <3>1, LadderTyped
    <3> QED BY <2>2, <3>2 DEF append_mcx_with_dirty
  <2> QED BY <2>1, <2>2
<1>2. PICK negate : negate = MapSeq(controls, X)
  OBVIOUS
<1>3. negate \in Seq(Gates)
  <2>1. Len(controls) \in Nat /\ \A k \in 1 .. Len(controls) : controls[k] \in Nat
    OBVIOUS
  <2>2. \A k \in 1 .. Len(controls) : X(controls[k]) \in Gates
    BY <2>1, SimpleTyped
  <2> QED BY <1>2, <2>1, <2>2 DEF MapSeq
<1>4. append_zero_test(controls, target, dirty) = negate \o append_mcx_with_dirty(controls, target, dirty) \o negate
  BY <1>2 DEF append_zero_test
<1> QED BY <1>1, <1>3, <1>4

(* Once all statements are lowered, every output has a wire.               *)
LEMMA OutputsTyped ==
  ASSUME CircuitTyped, WiresTyped, Len(wire_of) = VarSpace(circ)
  PROVE  /\ Len(circ.outputs) \in Nat
         /\ \A k \in 1 .. Len(circ.outputs) : wire_of[circ.outputs[k]] \in Nat
<1>1. circ.outputs \in Seq(Nat \ {0}) /\ wire_of \in Seq(Nat)
  BY DEF CircuitTyped, WiresTyped, BoolarCircuits
<1>2. \A k \in 1 .. Len(circ.outputs) : circ.outputs[k] \in 1 .. Len(wire_of)
  BY <1>1 DEF CircuitTyped, Range
<1> QED BY <1>1, <1>2

(* harden makes gates.                                                     *)
LEMMA HardenedTyped ==
  ASSUME CircuitTyped, WiresTyped, Len(wire_of) = VarSpace(circ), NEW compute \in Seq(Gates),
         NEW workspace \in Seq(Nat), NEW dirty \in Seq(Nat), NEW selector \in Nat,
         Len(workspace) >= 3 => Len(dirty) = Len(workspace) - 2
  PROVE  HardenedGates(compute, workspace, dirty, selector) \in Seq(Gates)
<1>1. PICK copy : copy = [k \in 1 .. Len(circ.outputs) |-> Ccnot(wire_of[circ.outputs[k]], selector, y_base + k)]
  OBVIOUS
<1>2. copy \in Seq(Gates)
  <2>1. y_base \in Nat
    BY DEF WiresTyped
  <2>2. \A k \in 1 .. Len(circ.outputs) : Ccnot(wire_of[circ.outputs[k]], selector, y_base + k) \in Gates
    BY SMTT(30), <2>1, OutputsTyped, SimpleTyped
  <2> QED BY <1>1, <2>2, OutputsTyped
<1>3. PICK clean : clean = compute \o copy \o Reverse(compute)
  OBVIOUS
<1>4. clean \in Seq(Gates)
  BY <1>2, <1>3, ReverseTyped
<1>5. PICK test \in Seq(Gates) : test = append_zero_test(workspace, selector, dirty)
  BY ZeroTestTyped
<1>6. HardenedGates(compute, workspace, dirty, selector) = clean \o test \o clean \o test
  BY <1>1, <1>3, <1>5 DEF HardenedGates
<1> QED BY <1>4, <1>5, <1>6
-----------------------------------------------------------------------------
(* The passes keep the invariant.                                          *)

(* The invariant holds when the passes begin.                              *)
LEMMA InitRInv ==
  ASSUME Init
  PROVE  RInv
<1>1. CASE phase = "synth" /\ circ \in Circuits /\ rc = [n |-> 0, gates |-> << >>]
  <2>1. circ \in BoolarCircuits /\ Range(circ.outputs) \subseteq 1 .. VarSpace(circ)
    BY <1>1, CircuitsAssumption DEF BoolarCircuits
  <2>2. circ.params \in Nat /\ Len(circ.stmts) \in Nat /\ Len(circ.outputs) \in Nat
    BY <2>1 DEF BoolarCircuits
  <2>3. wire_of \in Seq(Nat) /\ Len(wire_of) = circ.params
    BY <2>2 DEF Init, Numbers
  <2>4. WiresTyped
    <3>1. rc \in [n : Nat, gates : Seq(Gates)]
      BY <1>1
    <3>2. pool \in Pools /\ pool.base < pool.next_fresh
      <4>1. PICK base \in Nat : base = VarSpace(circ) + Len(circ.outputs)
        BY <2>2 DEF VarSpace
      <4>2. pool = [base |-> base, next_fresh |-> base + 1, free |-> << >>]
        BY <4>1 DEF Init, EmptyPool
      <4>3. << >> \in Seq(Nat)
        OBVIOUS
      <4> QED BY <4>1, <4>2, <4>3 DEF Pools
    <3> QED BY <1>1, <2>2, <2>3, <3>1, <3>2 DEF Init, WiresTyped, Phases, VarSpace
  <2> QED BY <1>1, <2>1, <2>4 DEF RInv, CircuitTyped, Made, Valid, RunDone
<1>2. CASE phase = "ready" /\ circ = NoCircuit /\ rc \in RCircuits
  <2>1. circ \in BoolarCircuits /\ Range(circ.outputs) \subseteq 1 .. VarSpace(circ) /\ circ.params = 0 /\ VarSpace(circ) = 0
        /\ Len(circ.outputs) = 0
    BY <1>2 DEF BoolarCircuits, NoCircuit, Range, VarSpace
  <2>2. wire_of \in Seq(Nat) /\ Len(wire_of) = 0
    BY <2>1 DEF Init, Numbers
  <2>3. rc \in [n : Nat, gates : Seq(Gates)] /\ validate(rc.n, rc.gates)
    BY <1>2, RCircuitsAssumption
  <2>4. pool \in Pools /\ pool.base < pool.next_fresh
    <3>1. pool = [base |-> 0, next_fresh |-> 1, free |-> << >>]
      BY <2>1 DEF Init, EmptyPool
    <3>2. << >> \in Seq(Nat)
      OBVIOUS
    <3> QED BY <3>1, <3>2 DEF Pools
  <2>5. WiresTyped
    BY <1>2, <2>1, <2>2, <2>3, <2>4 DEF Init, WiresTyped, Phases
  <2> QED BY <1>2, <2>1, <2>3, <2>5 DEF RInv, CircuitTyped, Made, Valid, RunDone
<1> QED BY <1>1, <1>2 DEF Init

(* The statement that is lowered next, and what it may read.               *)
LEMMA CurrentTyped ==
  ASSUME RInv, SynthesizeStmt
  PROVE  /\ CircuitTyped /\ WiresTyped /\ phase = "synth"
         /\ circ.params \in Nat /\ circ.stmts \in Seq(Statements)
         /\ Len(wire_of) \in Nat /\ Len(wire_of) < VarSpace(circ)
         /\ Stmts + 1 \in 1 .. Len(circ.stmts) /\ Current \in Statements
         /\ Range(Current.args) \subseteq 1 .. Len(wire_of) /\ Range(Current.addr) \subseteq 1 .. Len(wire_of)
<1>1. CircuitTyped /\ WiresTyped /\ phase = "synth"
  BY DEF RInv, SynthesizeStmt, InStmt, Synthesizing
<1>2. circ.params \in Nat /\ circ.stmts \in Seq(Statements) /\ Len(wire_of) \in Nat /\ Len(wire_of) < VarSpace(circ)
  BY <1>1 DEF CircuitTyped, WiresTyped, BoolarCircuits, SynthesizeStmt, InStmt
<1>3. Stmts + 1 \in 1 .. Len(circ.stmts) /\ Current \in Statements
  <2>1. Stmts + 1 \in 1 .. Len(circ.stmts)
    <3>1. PICK p \in Nat, w \in Nat, l \in Nat : p = circ.params /\ w = Len(wire_of) /\ l = Len(circ.stmts)
      BY <1>2
    <3>2. p <= w /\ w < p + l
      BY <1>1, <1>2, <3>1 DEF VarSpace, WiresTyped
    <3>3. w - p + 1 \in 1 .. l
      BY ONLY p \in Nat, w \in Nat, l \in Nat, <3>2
    <3> QED BY <3>1, <3>3 DEF Stmts
  <2>2. Current \in Statements
    BY <1>2, <2>1 DEF Current
  <2> QED BY <2>1, <2>2
<1>4. Range(Current.args) \subseteq 1 .. Len(wire_of) /\ Range(Current.addr) \subseteq 1 .. Len(wire_of)
  <2>1. PICK args \in Seq(Nat \ {0}), addr \in Seq(Nat \ {0}) : args = Current.args /\ addr = Current.addr
    BY <1>3, StmtFacts
  <2>2. \A v \in Range(args \o addr) : ~(v > Len(wire_of) + 1) /\ v # Len(wire_of) + 1
    BY <2>1 DEF SynthesizeStmt, UsesBeforeDef, UsesItself, Operands
  <2>3. ASSUME NEW k \in 1 .. Len(args) PROVE args[k] \in 1 .. Len(wire_of)
    <3>1. k \in 1 .. Len(args \o addr) /\ (args \o addr)[k] = args[k] /\ DOMAIN (args \o addr) = 1 .. Len(args \o addr)
      OBVIOUS
    <3>2. args[k] \in Range(args \o addr)
      BY <3>1 DEF Range
    <3>3. args[k] \in Nat \ {0}
      BY <2>1
    <3>4. ~(args[k] > Len(wire_of) + 1) /\ args[k] # Len(wire_of) + 1
      BY <2>2, <3>2
    <3> QED BY <1>2, <3>3, <3>4
  <2>4. ASSUME NEW k \in 1 .. Len(addr) PROVE addr[k] \in 1 .. Len(wire_of)
    <3>1. PICK j : j = Len(args) + k
      OBVIOUS
    <3>2. j \in 1 .. Len(args \o addr) /\ (args \o addr)[j] = addr[k] /\ DOMAIN (args \o addr) = 1 .. Len(args \o addr)
      BY <3>1
    <3>3. addr[k] \in Range(args \o addr)
      BY <3>2 DEF Range
    <3>4. addr[k] \in Nat \ {0}
      BY <2>1
    <3> QED BY <1>2, <2>2, <3>3, <3>4
  <2> QED BY <2>1, <2>3, <2>4 DEF Range
<1> QED BY <1>1, <1>2, <1>3, <1>4

(* Lowering a statement keeps the invariant.                               *)
LEMMA SynthesizeKeeps ==
  ASSUME RInv, SynthesizeStmt
  PROVE  RInv'
<1>1. CircuitTyped /\ WiresTyped /\ phase = "synth"
  BY CurrentTyped
<1>2. circ.params \in Nat /\ circ.stmts \in Seq(Statements) /\ Len(wire_of) \in Nat /\ Len(wire_of) < VarSpace(circ)
  BY CurrentTyped
<1>3. Current \in Statements
  BY CurrentTyped
<1>4. Range(Current.args) \subseteq 1 .. Len(wire_of) /\ Range(Current.addr) \subseteq 1 .. Len(wire_of)
  BY CurrentTyped
<1>5. PICK done : /\ LoweredTyped(done)
                  /\ rc' = [rc EXCEPT !.gates = @ \o done.gates]
                  /\ wire_of' = Append(wire_of, done.wire)
                  /\ next_anc' = IF done.wire = next_anc THEN next_anc + 1 ELSE next_anc
                  /\ pool' = done.pool
  BY <1>1, <1>3, <1>4, LowerStmtTyped DEF SynthesizeStmt
<1>6. UNCHANGED <<circ, phase, y_base>>
  BY DEF SynthesizeStmt
<1>7. CircuitTyped'
  BY <1>1, <1>6 DEF CircuitTyped, VarSpace, BoolarCircuits
<1>8. rc' \in [n : Nat, gates : Seq(Gates)]
  <2>1. rc.gates \o done.gates \in Seq(Gates)
    BY <1>1, <1>5 DEF WiresTyped, LoweredTyped
  <2> QED BY <1>1, <1>5, <2>1 DEF WiresTyped
<1>9. wire_of' \in Seq(Nat) /\ Len(wire_of') = Len(wire_of) + 1
  BY <1>1, <1>5 DEF WiresTyped, LoweredTyped
<1>10. WiresTyped'
  <2>1. pool' \in Pools /\ (pool').base < (pool').next_fresh
    BY <1>5 DEF LoweredTyped, GoodPool
  <2>2. next_anc' \in circ.params + 1 .. Len(wire_of) + 2
    BY <1>1, <1>2, <1>5 DEF WiresTyped
  <2>3. VarSpace(circ) \in Nat /\ (VarSpace(circ))' = VarSpace(circ)
    BY <1>2, <1>6 DEF VarSpace
  <2>4. Len(wire_of') \in circ.params .. VarSpace(circ)
    BY <1>1, <1>2, <1>9, <2>3 DEF WiresTyped
  <2>5. next_anc' \in circ.params + 1 .. Len(wire_of') + 1
    BY <1>2, <1>9, <2>2
  <2>6. y_base' \in Nat /\ circ.params <= y_base' /\ phase' \in Phases /\ circ' = circ
    BY <1>1, <1>6 DEF WiresTyped
  <2> QED BY <1>8, <1>9, <2>1, <2>3, <2>4, <2>5, <2>6 DEF WiresTyped
<1> QED BY <1>1, <1>6, <1>7, <1>10 DEF RInv, Made, Valid, RunDone

(* Closing up the wires keeps the invariant: what is not valid panics.     *)
LEMMA CompactKeeps ==
  ASSUME RInv, CompactAndCopy
  PROVE  RInv'
<1>1. CircuitTyped /\ WiresTyped /\ phase = "synth"
  BY DEF RInv, CompactAndCopy, Synthesizing
<1>2. Len(wire_of) = VarSpace(circ) /\ UNCHANGED <<circ, wire_of, next_anc, pool>>
  BY DEF CompactAndCopy
<1>3. circ.params \in Nat /\ VarSpace(circ) \in Nat /\ next_anc \in circ.params + 1 .. VarSpace(circ) + 1
  BY <1>1, <1>2 DEF CircuitTyped, WiresTyped, BoolarCircuits, VarSpace
<1> DEFINE prov == VarSpace(circ)
           base == next_anc - 1
<1>4. prov \in Nat /\ base \in Nat
  BY <1>3
<1>5. base <= prov /\ circ.params <= base
  BY <1>3
<1> DEFINE Shift(w) == IF w > prov THEN w - (prov - base) ELSE w
           Moved(g) == Gate(g.op, MapSeq(g.args, Shift), MapSeq(g.addr, Shift), Shift(g.target), g.lane, g.occurrence, g.table)
           moved == [k \in 1 .. Len(rc.gates) |-> Moved(rc.gates[k])]
           outs == [k \in 1 .. Len(circ.outputs) |-> Cnot(wire_of[circ.outputs[k]], base + k)]
<1>6. /\ rc' = [n |-> base + Len(circ.outputs) + peak_allocated(pool), gates |-> moved \o outs]
      /\ y_base' = base
      /\ phase' = IF ~validate((rc').n, (rc').gates) THEN "panic" ELSE IF mode = "hardened" THEN "harden" ELSE "ready"
  BY Zenon DEF CompactAndCopy
<1> HIDE DEF prov, base
<1>7. \A w \in Nat : Shift(w) \in Nat
  BY <1>4, <1>5
<1>8. ASSUME NEW s \in Seq(Nat) PROVE MapSeq(s, Shift) \in Seq(Nat) /\ Len(MapSeq(s, Shift)) = Len(s)
  <2>1. Len(s) \in Nat /\ \A k \in 1 .. Len(s) : Shift(s[k]) \in Nat
    BY <1>7
  <2> HIDE DEF Shift
  <2> QED BY <2>1 DEF MapSeq
<1>9. ASSUME NEW g \in Gates PROVE Moved(g) \in Gates
  <2>1. g \in [op : GateOps, args : Seq(Nat), addr : Seq(Nat), target : Nat, lane : Nat, occurrence : Nat,
               table : SUBSET [1 .. 2 -> BOOLEAN]] /\ GateShape(g)
    BY DEF Gates
  <2>2. PICK args : args = MapSeq(g.args, Shift) /\ args \in Seq(Nat) /\ Len(args) = Len(g.args)
    BY <1>8, <2>1
  <2>3. PICK addr : addr = MapSeq(g.addr, Shift) /\ addr \in Seq(Nat)
    BY <1>8, <2>1
  <2>4. PICK target \in Nat : target = Shift(g.target)
    BY <1>7, <2>1
  <2>5. Moved(g) = Gate(g.op, args, addr, target, g.lane, g.occurrence, g.table)
    BY <2>2, <2>3, <2>4
  <2> HIDE DEF Moved, Shift
  <2>6. PICK m : m = Gate(g.op, args, addr, target, g.lane, g.occurrence, g.table)
    OBVIOUS
  <2>7. m \in [op : GateOps, args : Seq(Nat), addr : Seq(Nat), target : Nat, lane : Nat, occurrence : Nat,
               table : SUBSET [1 .. 2 -> BOOLEAN]]
    BY <2>1, <2>2, <2>3, <2>4, <2>6 DEF Gate
  <2>8. m.op = g.op /\ Len(m.args) = Len(g.args)
    BY <2>2, <2>6 DEF Gate
  <2>9. GateShape(m)
    BY <2>1, <2>8 DEF GateShape
  <2> QED BY <2>5, <2>6, <2>7, <2>9 DEF Gates
<1>10. moved \in Seq(Gates)
  <2>1. Len(rc.gates) \in Nat /\ \A k \in 1 .. Len(rc.gates) : rc.gates[k] \in Gates
    BY <1>1 DEF WiresTyped
  <2> HIDE DEF Moved
  <2> QED BY <1>9, <2>1
<1>11. outs \in Seq(Gates) /\ Len(outs) = Len(circ.outputs) /\ Len(circ.outputs) \in Nat
  <2>1. \A k \in 1 .. Len(circ.outputs) : Cnot(wire_of[circ.outputs[k]], base + k) \in Gates
    BY <1>1, <1>2, <1>4, OutputsTyped, SimpleTyped
  <2> QED BY <1>1, <1>2, <2>1, OutputsTyped
<1> HIDE DEF moved, outs
<1>12. moved \o outs \in Seq(Gates) /\ Len(moved \o outs) >= Len(circ.outputs)
  BY <1>10, <1>11
<1>13. peak_allocated(pool) \in Nat
  BY <1>1 DEF WiresTyped, Pools, peak_allocated
<1>14. PICK n \in Nat : n = base + Len(circ.outputs) + peak_allocated(pool) /\ n >= base + Len(circ.outputs)
  BY <1>4, <1>11, <1>13
<1>15. rc' \in [n : Nat, gates : Seq(Gates)] /\ (rc').n >= base + Len(circ.outputs) /\ Len((rc').gates) >= Len(circ.outputs)
  BY <1>6, <1>12, <1>14
<1>16. phase' \in {"panic", "harden", "ready"} /\ (phase' # "panic" => validate((rc').n, (rc').gates))
  BY <1>6
<1>17. CircuitTyped' /\ WiresTyped'
  <2>1. CircuitTyped'
    BY <1>1, <1>2 DEF CircuitTyped, BoolarCircuits, VarSpace
  <2>2. VarSpace(circ)' = VarSpace(circ)
    BY <1>2 DEF VarSpace
  <2>3. WiresTyped'
    BY <1>1, <1>2, <1>4, <1>5, <1>6, <1>15, <1>16, <2>2 DEF WiresTyped, Phases, Pools
  <2> QED BY <2>1, <2>3
<1>18. Made'
  <2>1. VarSpace(circ)' = VarSpace(circ)
    BY <1>2 DEF VarSpace
  <2> QED BY <1>2, <1>6, <1>15, <2>1 DEF Made
<1> QED BY <1>16, <1>17, <1>18 DEF RInv, Valid, RunDone

(* harden keeps the invariant, with a workspace or without one.            *)
LEMMA HardenKeeps ==
  ASSUME RInv, harden
  PROVE  RInv'
<1>1. CircuitTyped /\ WiresTyped /\ phase = "harden" /\ Made
  BY DEF RInv, harden
<1>2. UNCHANGED <<circ, wire_of, next_anc, pool, y_base>>
  BY DEF harden
<1>3. PICK outs \in Nat, params \in Nat : outs = Len(circ.outputs) /\ params = circ.params
  BY <1>1 DEF CircuitTyped, BoolarCircuits
<1>4. rc.n \in Nat /\ rc.gates \in Seq(Gates) /\ y_base \in Nat /\ params <= y_base /\ rc.n >= y_base + outs
      /\ Len(rc.gates) >= outs /\ Len(wire_of) = VarSpace(circ)
  BY <1>1, <1>3 DEF WiresTyped, Made
<1>5. PICK workspace \in Seq(Nat) : workspace = Workspace(rc.n)
  <2>1. rc.n - params - outs \in Nat
    BY SMTT(30), <1>3, <1>4
  <2>2. \A k \in 1 .. rc.n - params - outs : params + k + (IF k <= y_base - params THEN 0 ELSE outs) \in Nat
    BY SMTT(30), <1>3, <1>4
  <2>3. [k \in 1 .. rc.n - params - outs |-> params + k + (IF k <= y_base - params THEN 0 ELSE outs)] \in Seq(Nat)
    BY SMTT(30), <2>1, <2>2
  <2>4. Workspace(rc.n) = [k \in 1 .. rc.n - params - outs |-> params + k + (IF k <= y_base - params THEN 0 ELSE outs)]
    BY <1>3 DEF Workspace
  <2>5. Workspace(rc.n) \in Seq(Nat)
    BY <2>3, <2>4
  <2> QED BY <2>5
<1>6. PICK dirty \in Nat : dirty = IF Len(workspace) <= 2 THEN 0 ELSE Len(workspace) - 2
  <2>1. PICK len \in Nat : len = Len(workspace)
    BY <1>5
  <2>2. (IF len <= 2 THEN 0 ELSE len - 2) \in Nat
    BY <2>1
  <2> QED BY <2>1, <2>2
<1>7. PICK compute : compute = SubSeq(rc.gates, 1, Len(rc.gates) - Len(circ.outputs))
  OBVIOUS
<1>8. compute \in Seq(Gates)
  BY <1>3, <1>4, <1>7
<1>9. PICK lent : lent = [k \in 1 .. dirty + 1 |-> rc.n + k]
  OBVIOUS
<1>10. lent \in Seq(Nat) /\ Len(lent) = dirty + 1 /\ Last(lent) \in Nat /\ Front(lent) \in Seq(Nat) /\ Len(Front(lent)) = dirty
  <2>1. lent \in Seq(Nat) /\ Len(lent) = dirty + 1
    BY SMTT(30), <1>4, <1>6, <1>9
  <2>2. Last(lent) \in Nat
    BY <1>6, <2>1 DEF Last
  <2>3. Front(lent) \in Seq(Nat) /\ Len(Front(lent)) = dirty
    <3>1. Front(lent) = SubSeq(lent, 1, Len(lent) - 1)
      BY DEF Front
    <3>2. Len(lent) - 1 = dirty /\ dirty \in 0 .. Len(lent)
      BY <1>6, <2>1
    <3>3. SubSeq(lent, 1, dirty) \in Seq(Nat) /\ Len(SubSeq(lent, 1, dirty)) = dirty
      <4>1. SubSeq(lent, 1, dirty) = [i \in 1 .. dirty |-> lent[i]]
        BY <1>6, <2>1
      <4>2. \A i \in 1 .. dirty : lent[i] \in Nat
        BY SMTT(30), <1>6, <2>1
      <4> QED BY <1>6, <4>1, <4>2
    <3> QED BY <3>1, <3>2, <3>3
  <2> QED BY <2>1, <2>2, <2>3
<1>11. PICK gates \in Seq(Gates) : gates = HardenedGates(compute, workspace, Front(lent), Last(lent))
  <2>1. Len(workspace) >= 3 => Len(Front(lent)) = Len(workspace) - 2
    BY SMTT(30), <1>5, <1>6, <1>10
  <2> QED BY <1>1, <1>4, <1>5, <1>8, <1>10, <2>1, HardenedTyped
<1>12. IF workspace = << >> THEN phase' = "ready" /\ UNCHANGED rc
       ELSE /\ rc' = [n |-> rc.n + Len(lent), gates |-> gates]
            /\ phase' = IF validate((rc').n, (rc').gates) THEN "ready" ELSE "panic"
  BY <1>5, <1>6, <1>7, <1>9, <1>11 DEF harden
<1>13. CircuitTyped' /\ VarSpace(circ)' = VarSpace(circ)
  BY <1>1, <1>2 DEF CircuitTyped, BoolarCircuits, VarSpace
<1>14. rc' \in [n : Nat, gates : Seq(Gates)] /\ phase' \in {"ready", "panic"}
  <2>1. CASE workspace = << >>
    BY <1>1, <1>12, <2>1 DEF WiresTyped
  <2>2. CASE workspace # << >>
    <3>1. rc.n + Len(lent) \in Nat
      <4>1. PICK d \in Nat : d = Len(lent)
        BY <1>6, <1>10
      <4> QED BY <1>4, <4>1
    <3> QED BY <1>11, <1>12, <2>2, <3>1
  <2> QED BY <2>1, <2>2
<1>15. WiresTyped'
  BY <1>1, <1>2, <1>13, <1>14 DEF WiresTyped, Phases, Pools
<1>16. phase' = "ready" => validate((rc').n, (rc').gates)
  <2>1. CASE workspace = << >>
    BY <1>1, <1>12, <2>1 DEF RInv, Valid
  <2>2. CASE workspace # << >>
    BY <1>12, <2>2
  <2> QED BY <2>1, <2>2
<1> QED BY <1>13, <1>14, <1>15, <1>16 DEF RInv, Made, Valid, RunDone

(* Every step keeps the invariant.                                         *)
LEMMA InvKept ==
  ASSUME RInv, [Next]_vars
  PROVE  RInv'
<1>1. CASE SynthesizeStmt
  BY <1>1, SynthesizeKeeps
<1>2. CASE Refuse \/ Panic
  <2>1. phase' \in {"refused", "panic"} /\ UNCHANGED <<circ, wire_of, next_anc, pool, rc, y_base>>
    BY <1>2 DEF Refuse, Panic
  <2>2. CircuitTyped' /\ VarSpace(circ)' = VarSpace(circ)
    BY <2>1 DEF RInv, CircuitTyped, BoolarCircuits, VarSpace
  <2>3. WiresTyped'
    BY <2>1, <2>2 DEF RInv, WiresTyped, Phases, Pools
  <2> QED BY <2>1, <2>2, <2>3 DEF RInv, Made, Valid, RunDone
<1>3. CASE CompactAndCopy
  BY <1>3, CompactKeeps
<1>4. CASE harden
  BY <1>4, HardenKeeps
<1>5. CASE to_boolar_circuit
  <2>1. phase = "ready" /\ phase' = "lowered" /\ UNCHANGED <<circ, wire_of, next_anc, pool, rc, y_base>>
    BY <1>5 DEF to_boolar_circuit
  <2>2. CircuitTyped' /\ VarSpace(circ)' = VarSpace(circ)
    BY <2>1 DEF RInv, CircuitTyped, BoolarCircuits, VarSpace
  <2>3. WiresTyped'
    BY <2>1, <2>2 DEF RInv, WiresTyped, Phases, Pools
  <2> QED BY <2>1, <2>2, <2>3 DEF RInv, Made, Valid, RunDone
<1>6. CASE ApplyCircuit
  <2>1. phase = "lowered" /\ phase' = "applied" /\ UNCHANGED <<circ, wire_of, next_anc, pool, rc, y_base>>
    BY <1>6 DEF ApplyCircuit
  <2>2. CircuitTyped' /\ VarSpace(circ)' = VarSpace(circ)
    BY <2>1 DEF RInv, CircuitTyped, BoolarCircuits, VarSpace
  <2>3. WiresTyped'
    BY <2>1, <2>2 DEF RInv, WiresTyped, Phases, Pools
  <2>4. start' \in [wires : [1 .. rc.n -> BOOLEAN], mem : Memories] /\ end' = apply(rc.gates, start')
    BY <1>6 DEF ApplyCircuit
  <2>5. start' \in States(rc.n)
    BY <2>4, MemoriesAssumption DEF States
  <2> QED BY <2>1, <2>2, <2>3, <2>4, <2>5 DEF RInv, Made, Valid, RunDone
<1>7. CASE UNCHANGED vars
  <2>1. UNCHANGED <<circ, phase, wire_of, next_anc, pool, rc, y_base, start, end>>
    BY <1>7 DEF vars
  <2>2. CircuitTyped' /\ VarSpace(circ)' = VarSpace(circ)
    BY <2>1 DEF RInv, CircuitTyped, BoolarCircuits, VarSpace
  <2>3. WiresTyped'
    BY <2>1, <2>2 DEF RInv, WiresTyped, Phases, Pools
  <2> QED BY <2>1, <2>2, <2>3 DEF RInv, Made, Valid, RunDone
<1> QED BY <1>1, <1>2, <1>3, <1>4, <1>5, <1>6, <1>7 DEF Next

(* Whatever circuits are embedded or given: gates are well formed as they  *)
(* are made, a circuit that is run is a valid one (RCircuit::new), and the *)
(* run is that of its gates.                                               *)
THEOREM Invariance == Spec => []RInv
<1>1. Init => RInv
  BY InitRInv
<1>2. RInv /\ [Next]_vars => RInv'
  BY InvKept
<1> QED BY <1>1, <1>2, PTL DEF Spec

(* Every circuit that is made or given, whatever its gates, is undone by   *)
(* its inverse, from every state of the wires and of storage               *)
(* (RCircuit::inverse).                                                    *)
THEOREM InverseUndoes == Spec => []Undoes
<1>1. RInv => Undoes
  <2> SUFFICES ASSUME RInv, phase = "applied" PROVE apply(inverse(rc.gates), end) = start
    BY DEF Undoes
  <2>1. rc.n \in Nat /\ rc.gates \in Seq(Gates) /\ validate(rc.n, rc.gates) /\ start \in States(rc.n)
        /\ end = apply(rc.gates, start)
    BY DEF RInv, WiresTyped, Valid, RunDone
  <2> QED BY <2>1, BackToStart
<1> QED BY <1>1, Invariance, PTL

-----------------------------------------------------------------------------
(* The circuit led back to: what a builder has computed so far, and that   *)
(* its variables hold what the wires do.                                   *)

Evaluated(st, s) == EvalStmt(s, st)
Eval == INSTANCE FoldTheorems WITH op <- Evaluated
Build == INSTANCE FoldTheorems WITH op <- LowerGate

BackOps == {"One", "Not", "Xor", "And", "StorageRead", "StorageWrite", "OracleBit", "ActionBit"}
BackStatements == [op : BackOps, args : Seq(Nat), addr : Seq(Nat), lane : Nat, occurrence : Nat]
Builders(n) == [params : {n}, stmts : Seq(BackStatements), wires : [1 .. n -> Nat]]
Evaluations == [vals : Seq(BOOLEAN), mem : SUBSET Cells]

Computed(x, b) == Eval!Fold(x, b.stmts)
ValueOf(x, b, v) == Computed(x, b).vals[v]

Holds(n, x, b, wires, mem) ==
  /\ b \in Builders(n)
  /\ Computed(x, b) \in Evaluations
  /\ Computed(x, b).mem = mem
  /\ Len(Computed(x, b).vals) = VarSpace(b)
  /\ \A w \in 1 .. n : b.wires[w] \in 1 .. VarSpace(b) /\ ValueOf(x, b, b.wires[w]) = wires[w]

(* After one more statement, with value v, that leaves storage as m.       *)
EmitKeeps(n, x, b, c, wires, v, m) ==
  /\ Holds(n, x, c, wires, m)
  /\ c.wires = b.wires
  /\ Newest(c) = VarSpace(b) + 1 /\ VarSpace(c) = VarSpace(b) + 1
  /\ ValueOf(x, c, VarSpace(b) + 1) = v
  /\ \A u \in 1 .. VarSpace(b) : ValueOf(x, c, u) = ValueOf(x, b, u)

(* The variables of a builder are its parameters and its statements.       *)
LEMMA BuilderSize ==
  ASSUME NEW n \in Nat, NEW b \in Builders(n)
  PROVE  VarSpace(b) \in Nat /\ VarSpace(b) = n + Len(b.stmts) /\ Len(b.stmts) \in Nat
BY DEF Builders, VarSpace

(* BoolarBuilder::emit: earlier variables keep their values, and the new   *)
(* one has the value of the statement.                                     *)
LEMMA EmitHolds ==
  ASSUME NEW n \in Nat, NEW x, NEW b, NEW wires, NEW mem, Holds(n, x, b, wires, mem),
         NEW s \in BackStatements, NEW v \in BOOLEAN, NEW m \in SUBSET Cells,
         EvalStmt(s, Computed(x, b)) = [vals |-> Append(Computed(x, b).vals, v), mem |-> m]
  PROVE  EmitKeeps(n, x, b, Emit(b, s), wires, v, m)
<1>1. PICK c : c = Emit(b, s)
  OBVIOUS
<1>2. b \in Builders(n) /\ VarSpace(b) \in Nat /\ b.stmts \in Seq(BackStatements)
  BY BuilderSize DEF Holds, Builders
<1>3. c \in Builders(n) /\ c.wires = b.wires /\ c.stmts = Append(b.stmts, s) /\ c.params = b.params
  <2>1. Append(b.stmts, s) \in Seq(BackStatements)
    BY <1>2
  <2> QED BY <1>1, <1>2, <2>1 DEF Emit, Builders
<1>4. VarSpace(c) = VarSpace(b) + 1
  BY SMTT(30), <1>2, <1>3, BuilderSize DEF VarSpace
<1>5. PICK vals \in Seq(BOOLEAN) : vals = Computed(x, b).vals /\ Len(vals) = VarSpace(b)
  BY DEF Holds, Evaluations
<1>6. Computed(x, c) = [vals |-> Append(vals, v), mem |-> m]
  BY <1>2, <1>3, <1>5, Eval!FoldAppend DEF Computed, Evaluated
<1>7. /\ Append(vals, v) \in Seq(BOOLEAN) /\ Len(Append(vals, v)) = VarSpace(b) + 1
      /\ Append(vals, v)[VarSpace(b) + 1] = v
      /\ \A u \in 1 .. VarSpace(b) : Append(vals, v)[u] = vals[u]
  BY <1>5
<1>8. /\ Computed(x, c) \in Evaluations /\ Computed(x, c).mem = m
      /\ Len(Computed(x, c).vals) = VarSpace(c)
      /\ ValueOf(x, c, VarSpace(b) + 1) = v
      /\ \A u \in 1 .. VarSpace(b) : ValueOf(x, c, u) = ValueOf(x, b, u)
  BY <1>4, <1>5, <1>6, <1>7 DEF Evaluations, ValueOf
<1>9. \A w \in 1 .. n : c.wires[w] \in 1 .. VarSpace(c) /\ ValueOf(x, c, c.wires[w]) = wires[w]
  BY <1>2, <1>3, <1>4, <1>8 DEF Holds
<1> QED BY <1>1, <1>3, <1>4, <1>8, <1>9 DEF EmitKeeps, Holds, Newest

(* A wire that is set to a variable holds its value.                       *)
LEMMA SetHolds ==
  ASSUME NEW n \in Nat, NEW x, NEW b, NEW wires \in [1 .. n -> BOOLEAN], NEW mem, Holds(n, x, b, wires, mem),
         NEW w \in 1 .. n, NEW u \in 1 .. VarSpace(b)
  PROVE  Holds(n, x, SetWire(b, w, u), [wires EXCEPT ![w] = ValueOf(x, b, u)], mem)
<1>1. PICK c : c = SetWire(b, w, u)
  OBVIOUS
<1>2. b \in Builders(n) /\ VarSpace(b) \in Nat /\ b.wires \in [1 .. n -> Nat]
  BY BuilderSize DEF Holds, Builders
<1>3. c \in Builders(n) /\ c.stmts = b.stmts /\ c.params = b.params /\ c.wires = [b.wires EXCEPT ![w] = u]
  <2>1. PICK to : to = [b.wires EXCEPT ![w] = u]
    OBVIOUS
  <2>2. to \in [1 .. n -> Nat]
    BY <1>2, <2>1
  <2>3. c = [b EXCEPT !.wires = to]
    BY <1>1, <2>1 DEF SetWire
  <2> QED BY <1>2, <2>1, <2>2, <2>3 DEF Builders
<1>4. VarSpace(c) = VarSpace(b) /\ Computed(x, c) = Computed(x, b) /\ \A j : ValueOf(x, c, j) = ValueOf(x, b, j)
  BY <1>3 DEF VarSpace, Computed, ValueOf
<1>5. ASSUME NEW k \in 1 .. n PROVE c.wires[k] \in 1 .. VarSpace(c) /\ ValueOf(x, c, c.wires[k]) = [wires EXCEPT ![w] = ValueOf(x, b, u)][k]
  <2>1. CASE k = w
    BY <1>2, <1>3, <1>4, <2>1
  <2>2. CASE k # w
    BY <1>2, <1>3, <1>4, <2>2 DEF Holds
  <2> QED BY <2>1, <2>2
<1> QED BY <1>1, <1>3, <1>4, <1>5 DEF Holds

(* What the statements it emits compute: the constant 1.                   *)
LEMMA EvalOne ==
  ASSUME NEW s, NEW st, s.op = "One"
  PROVE  EvalStmt(s, st) = [vals |-> Append(st.vals, TRUE), mem |-> st.mem]
BY Zenon DEF EvalStmt

(* Not.                                                                    *)
LEMMA EvalNot ==
  ASSUME NEW s, NEW st, s.op = "Not"
  PROVE  EvalStmt(s, st) = [vals |-> Append(st.vals, ~Reads(s.args, st.vals)[1]), mem |-> st.mem]
BY Zenon DEF EvalStmt, Reads

(* Xor.                                                                    *)
LEMMA EvalXor ==
  ASSUME NEW s, NEW st, s.op = "Xor"
  PROVE  EvalStmt(s, st) = [vals |-> Append(st.vals, Reads(s.args, st.vals)[1] # Reads(s.args, st.vals)[2]), mem |-> st.mem]
BY Zenon DEF EvalStmt, Reads

(* And.                                                                    *)
LEMMA EvalAnd ==
  ASSUME NEW s, NEW st, s.op = "And"
  PROVE  EvalStmt(s, st) = [vals |-> Append(st.vals, Reads(s.args, st.vals)[1] /\ Reads(s.args, st.vals)[2]), mem |-> st.mem]
BY Zenon DEF EvalStmt, Reads

(* StorageRead.                                                            *)
LEMMA EvalRead ==
  ASSUME NEW s, NEW st, s.op = "StorageRead"
  PROVE  EvalStmt(s, st) = [vals |-> Append(st.vals, StmtCell(s, st.vals) \in st.mem), mem |-> st.mem]
BY Zenon DEF EvalStmt, Reads, StmtCell

(* StorageWrite, whose own value is 0.                                     *)
LEMMA EvalWrite ==
  ASSUME NEW s, NEW st, s.op = "StorageWrite"
  PROVE  EvalStmt(s, st) = [vals |-> Append(st.vals, FALSE),
                            mem |-> Stored(st.mem, StmtCell(s, st.vals), Reads(s.args, st.vals)[1])]
BY Zenon DEF EvalStmt, Reads, StmtCell

(* ActionBit.                                                              *)
LEMMA EvalAction ==
  ASSUME NEW s, NEW st, s.op = "ActionBit"
  PROVE  EvalStmt(s, st) = [vals |-> Append(st.vals, ActionValue(Reads(s.args, st.vals))), mem |-> st.mem]
BY Zenon DEF EvalStmt, Reads

(* OracleBit.                                                              *)
LEMMA EvalOracle ==
  ASSUME NEW s, NEW st, s.op = "OracleBit"
  PROVE  EvalStmt(s, st) = [vals |-> Append(st.vals, <<s.occurrence, Reads(s.args, st.vals)>> \in Oracle), mem |-> st.mem]
BY Zenon DEF EvalStmt, Reads

(* Statements without address and occurrence.                              *)
LEMMA StmtTyped ==
  ASSUME NEW op \in BackOps, NEW args \in Seq(Nat)
  PROVE  /\ Stmt(op, args) \in BackStatements
         /\ Stmt(op, args).op = op /\ Stmt(op, args).args = args
<1>1. << >> \in Seq(Nat)
  OBVIOUS
<1> QED BY <1>1 DEF Stmt, BackStatements

(* One operand.                                                            *)
LEMMA ReadsOne ==
  ASSUME NEW u, NEW vals
  PROVE  Reads(<<u>>, vals)[1] = vals[u]
BY DEF Reads, MapSeq

(* Two operands.                                                           *)
LEMMA ReadsTwo ==
  ASSUME NEW u, NEW v, NEW vals
  PROVE  Reads(<<u, v>>, vals)[1] = vals[u] /\ Reads(<<u, v>>, vals)[2] = vals[v]
BY DEF Reads, MapSeq

(* Statements with one and two operands.                                   *)
LEMMA UnaryHolds ==
  ASSUME NEW n \in Nat, NEW x, NEW b, NEW wires, NEW mem \in SUBSET Cells, Holds(n, x, b, wires, mem),
         NEW u \in 1 .. VarSpace(b)
  PROVE  /\ EmitKeeps(n, x, b, Emit(b, Stmt("One", << >>)), wires, TRUE, mem)
         /\ EmitKeeps(n, x, b, Emit(b, Stmt("Not", <<u>>)), wires, ~ValueOf(x, b, u), mem)
<1>1. VarSpace(b) \in Nat /\ Computed(x, b).mem = mem
  BY BuilderSize DEF Holds
<1>2. PICK vals \in Seq(BOOLEAN) : vals = Computed(x, b).vals /\ Len(vals) = VarSpace(b)
  BY DEF Holds, Evaluations
<1>3. EvalStmt(Stmt("One", << >>), Computed(x, b)) = [vals |-> Append(vals, TRUE), mem |-> mem]
  BY <1>1, <1>2, EvalOne DEF Stmt
<1>4. Stmt("One", << >>) \in BackStatements
  <2>1. << >> \in Seq(Nat)
    OBVIOUS
  <2> QED BY <2>1, StmtTyped DEF BackOps
<1>5. Stmt("Not", <<u>>) \in BackStatements /\ Stmt("Not", <<u>>).op = "Not" /\ Stmt("Not", <<u>>).args = <<u>>
  <2>1. <<u>> \in Seq(Nat)
    BY <1>1
  <2> QED BY ZenonT(30), <2>1, StmtTyped DEF BackOps
<1>6. PICK v \in BOOLEAN : v = ~vals[u]
  BY <1>2
<1>7. EvalStmt(Stmt("Not", <<u>>), Computed(x, b)) = [vals |-> Append(vals, v), mem |-> mem]
  <2>1. EvalStmt(Stmt("Not", <<u>>), Computed(x, b)) = [vals |-> Append(vals, ~Reads(<<u>>, vals)[1]), mem |-> mem]
    BY <1>1, <1>2, <1>5, EvalNot
  <2>2. (~Reads(<<u>>, vals)[1]) = v
    BY <1>6, ReadsOne
  <2> QED BY <2>1, <2>2
<1>8. EmitKeeps(n, x, b, Emit(b, Stmt("One", << >>)), wires, TRUE, mem)
  BY <1>2, <1>3, <1>4, EmitHolds
<1>9. EmitKeeps(n, x, b, Emit(b, Stmt("Not", <<u>>)), wires, v, mem)
  BY <1>2, <1>5, <1>6, <1>7, EmitHolds
<1> QED BY <1>2, <1>6, <1>8, <1>9 DEF ValueOf

(* Xor and And of two variables.                                           *)
LEMMA BinaryHolds ==
  ASSUME NEW n \in Nat, NEW x, NEW b, NEW wires, NEW mem \in SUBSET Cells, Holds(n, x, b, wires, mem),
         NEW u \in 1 .. VarSpace(b), NEW v \in 1 .. VarSpace(b)
  PROVE  /\ EmitKeeps(n, x, b, Emit(b, Stmt("Xor", <<u, v>>)), wires, ValueOf(x, b, u) # ValueOf(x, b, v), mem)
         /\ EmitKeeps(n, x, b, Emit(b, Stmt("And", <<u, v>>)), wires, ValueOf(x, b, u) /\ ValueOf(x, b, v), mem)
<1>1. VarSpace(b) \in Nat /\ Computed(x, b).mem = mem
  BY BuilderSize DEF Holds
<1>2. PICK vals \in Seq(BOOLEAN) : vals = Computed(x, b).vals /\ Len(vals) = VarSpace(b)
  BY DEF Holds, Evaluations
<1>3. /\ Stmt("Xor", <<u, v>>) \in BackStatements /\ Stmt("Xor", <<u, v>>).op = "Xor" /\ Stmt("Xor", <<u, v>>).args = <<u, v>>
      /\ Stmt("And", <<u, v>>) \in BackStatements /\ Stmt("And", <<u, v>>).op = "And" /\ Stmt("And", <<u, v>>).args = <<u, v>>
  <2>1. <<u, v>> \in Seq(Nat)
    BY <1>1
  <2> QED BY <2>1, StmtTyped DEF BackOps
<1>4. PICK xor \in BOOLEAN : xor = (vals[u] # vals[v])
  BY <1>2
<1>5. PICK and \in BOOLEAN : and = (vals[u] /\ vals[v])
  BY <1>2
<1>6. EvalStmt(Stmt("Xor", <<u, v>>), Computed(x, b)) = [vals |-> Append(vals, xor), mem |-> mem]
  <2>1. EvalStmt(Stmt("Xor", <<u, v>>), Computed(x, b))
          = [vals |-> Append(vals, Reads(<<u, v>>, vals)[1] # Reads(<<u, v>>, vals)[2]), mem |-> mem]
    BY ZenonT(30), <1>1, <1>2, <1>3, EvalXor
  <2>2. (Reads(<<u, v>>, vals)[1] # Reads(<<u, v>>, vals)[2]) = xor
    BY <1>4, ReadsTwo
  <2> QED BY <2>1, <2>2
<1>7. EvalStmt(Stmt("And", <<u, v>>), Computed(x, b)) = [vals |-> Append(vals, and), mem |-> mem]
  <2>1. EvalStmt(Stmt("And", <<u, v>>), Computed(x, b))
          = [vals |-> Append(vals, Reads(<<u, v>>, vals)[1] /\ Reads(<<u, v>>, vals)[2]), mem |-> mem]
    BY <1>1, <1>2, <1>3, EvalAnd
  <2>2. (Reads(<<u, v>>, vals)[1] /\ Reads(<<u, v>>, vals)[2]) = and
    BY <1>5, ReadsTwo
  <2> QED BY <2>1, <2>2
<1>8. EmitKeeps(n, x, b, Emit(b, Stmt("Xor", <<u, v>>)), wires, xor, mem)
  BY <1>2, <1>3, <1>4, <1>6, EmitHolds
<1>9. EmitKeeps(n, x, b, Emit(b, Stmt("And", <<u, v>>)), wires, and, mem)
  BY <1>2, <1>3, <1>5, <1>7, EmitHolds
<1> QED BY <1>2, <1>4, <1>5, <1>8, <1>9 DEF ValueOf

(* The value of a variable is a bit.                                       *)
LEMMA ValueTyped ==
  ASSUME NEW n \in Nat, NEW x, NEW b, NEW wires, NEW mem, Holds(n, x, b, wires, mem), NEW u \in 1 .. VarSpace(b)
  PROVE  ValueOf(x, b, u) \in BOOLEAN
BY DEF Holds, Evaluations, ValueOf

(* The variable of a wire holds what the wire does.                        *)
LEMMA WireHeld ==
  ASSUME NEW n \in Nat, NEW x, NEW b, NEW wires, NEW mem, Holds(n, x, b, wires, mem), NEW w \in 1 .. n
  PROVE  b.wires[w] \in 1 .. VarSpace(b) /\ ValueOf(x, b, b.wires[w]) = wires[w]
BY Zenon DEF Holds

(* A sum takes the place of what a wire held.                              *)
LEMMA XorIntoHolds ==
  ASSUME NEW n \in Nat, NEW x, NEW b, NEW wires \in [1 .. n -> BOOLEAN], NEW mem \in SUBSET Cells, Holds(n, x, b, wires, mem),
         NEW w \in 1 .. n, NEW u \in 1 .. VarSpace(b), NEW bit \in BOOLEAN, ValueOf(x, b, u) = bit
  PROVE  Holds(n, x, XorInto(b, w, u), FlipWire(wires, w, bit), mem)
<1>1. PICK c : c = Emit(b, Stmt("Xor", <<b.wires[w], u>>))
  OBVIOUS
<1>2. PICK v : v = b.wires[w]
  OBVIOUS
<1>3. v \in 1 .. VarSpace(b) /\ ValueOf(x, b, v) = wires[w]
  <2>1. b.wires[w] \in 1 .. VarSpace(b) /\ ValueOf(x, b, b.wires[w]) = wires[w]
    BY WireHeld
  <2> QED BY <1>2, <2>1
<1>4. PICK xor \in BOOLEAN : xor = (wires[w] # bit)
  OBVIOUS
<1>5. EmitKeeps(n, x, b, c, wires, ValueOf(x, b, v) # ValueOf(x, b, u), mem)
  BY <1>1, <1>2, <1>3, BinaryHolds
<1>6. (ValueOf(x, b, v) # ValueOf(x, b, u)) = xor
  BY <1>3, <1>4
<1>7. EmitKeeps(n, x, b, c, wires, xor, mem)
  BY <1>5, <1>6
<1>8. Holds(n, x, c, wires, mem) /\ Newest(c) \in 1 .. VarSpace(c) /\ ValueOf(x, c, Newest(c)) = xor
  <2>1. b \in Builders(n)
    BY DEF Holds
  <2>2. VarSpace(b) \in Nat
    BY <2>1, BuilderSize
  <2> QED BY <1>7, <2>2 DEF EmitKeeps
<1>9. Holds(n, x, SetWire(c, w, Newest(c)), [wires EXCEPT ![w] = xor], mem)
  BY <1>8, SetHolds
<1>10. [wires EXCEPT ![w] = xor] = FlipWire(wires, w, bit)
  BY <1>4 DEF FlipWire
<1>11. XorInto(b, w, u) = SetWire(c, w, Newest(c))
  BY <1>1 DEF XorInto
<1> QED BY <1>9, <1>10, <1>11

(* The variables that hold the wires a gate reads hold what they do.       *)
ArgsAre(n, x, b, wires, seq) ==
  /\ Reads(seq, b.wires) \in Seq(Nat)
  /\ Len(Reads(seq, b.wires)) = Len(seq)
  /\ \A k \in 1 .. Len(seq) : Reads(seq, b.wires)[k] = b.wires[seq[k]] /\ seq[k] \in 1 .. n
  /\ Reads(Reads(seq, b.wires), Computed(x, b).vals) = Reads(seq, wires)

(* So do the variables of the wires in a sequence.                         *)
LEMMA ArgsHeld ==
  ASSUME NEW n \in Nat, NEW x, NEW b, NEW wires \in [1 .. n -> BOOLEAN], NEW mem, Holds(n, x, b, wires, mem),
         NEW seq \in Seq(Nat), Range(seq) \subseteq 1 .. n
  PROVE  ArgsAre(n, x, b, wires, seq)
<1>1. Len(seq) \in Nat /\ \A k \in 1 .. Len(seq) : seq[k] \in 1 .. n
  BY DEF Range
<1>2. \A k \in 1 .. Len(seq) : b.wires[seq[k]] \in Nat /\ Computed(x, b).vals[b.wires[seq[k]]] = wires[seq[k]]
  BY <1>1 DEF Holds, Builders, ValueOf
<1>3. PICK args : args = Reads(seq, b.wires)
  OBVIOUS
<1>4. args = [k \in 1 .. Len(seq) |-> b.wires[seq[k]]]
  BY <1>3 DEF Reads, MapSeq
<1>5. args \in Seq(Nat) /\ Len(args) = Len(seq) /\ \A k \in 1 .. Len(seq) : args[k] = b.wires[seq[k]]
  BY <1>1, <1>2, <1>4
<1>6. Reads(args, Computed(x, b).vals) = Reads(seq, wires)
  BY <1>1, <1>2, <1>5 DEF Reads, MapSeq
<1> QED BY <1>1, <1>3, <1>5, <1>6 DEF ArgsAre

CellStmt(op, args, b, g) == AtCell(Stmt(op, args), b, g)

AtCellOf(op, args, x, b, s, g, wires) ==
  s \in BackStatements /\ s.op = op /\ s.args = args /\ StmtCell(s, Computed(x, b).vals) = CellOf(g, wires)

(* The statement made for a gate on storage is about the cell of the gate. *)
LEMMA CellHeld ==
  ASSUME NEW n \in Nat, NEW x, NEW b, NEW wires \in [1 .. n -> BOOLEAN], NEW mem, Holds(n, x, b, wires, mem),
         NEW g \in Gates, validate_gate_at(n, g), NEW op \in BackOps, NEW args \in Seq(Nat),
         NEW before, before.wires = b.wires
  PROVE  AtCellOf(op, args, x, b, CellStmt(op, args, before, g), g, wires)
<1>1. PICK addr : addr = Reads(g.addr, b.wires)
  OBVIOUS
<1>2. g.addr \in Seq(Nat) /\ Range(g.addr) \subseteq 1 .. n /\ g.lane \in Nat
  <2>1. g.lane \in Nat
    BY DEF Gates
  <2> QED BY <2>1, GateFacts
<1>3. addr \in Seq(Nat) /\ Reads(addr, Computed(x, b).vals) = Reads(g.addr, wires)
  <2>1. ArgsAre(n, x, b, wires, g.addr)
    BY <1>2, ArgsHeld
  <2> QED BY <1>1, <2>1 DEF ArgsAre
<1>4. CellStmt(op, args, before, g) = [op |-> op, args |-> args, addr |-> addr, lane |-> g.lane, occurrence |-> 0]
  <2>1. CellStmt(op, args, before, g) = [Stmt(op, args) EXCEPT !.addr = Reads(g.addr, before.wires), !.lane = g.lane]
    BY Zenon DEF CellStmt, AtCell, Reads
  <2> QED BY <1>1, <2>1 DEF Stmt
<1>5. CellStmt(op, args, before, g) \in BackStatements
  BY <1>2, <1>3, <1>4 DEF BackStatements
<1> QED BY <1>3, <1>4, <1>5 DEF Reads, StmtCell, CellOf, AtCellOf

(* Reading the cell of a gate.                                             *)
LEMMA ReadHolds ==
  ASSUME NEW n \in Nat, NEW x, NEW b, NEW wires \in [1 .. n -> BOOLEAN], NEW mem \in SUBSET Cells, Holds(n, x, b, wires, mem),
         NEW g \in Gates, validate_gate_at(n, g), NEW held \in BOOLEAN, held <=> CellOf(g, wires) \in mem
  PROVE  EmitKeeps(n, x, b, Emit(b, CellStmt("StorageRead", << >>, b, g)), wires, held, mem)
<1>1. PICK s : s = CellStmt("StorageRead", << >>, b, g)
  OBVIOUS
<1>2. s \in BackStatements /\ s.op = "StorageRead" /\ StmtCell(s, Computed(x, b).vals) = CellOf(g, wires)
  <2>1. << >> \in Seq(Nat) /\ "StorageRead" \in BackOps
    BY DEF BackOps
  <2>2. AtCellOf("StorageRead", << >>, x, b, s, g, wires)
    BY <1>1, <2>1, CellHeld
  <2> QED BY <2>2 DEF AtCellOf
<1>3. Computed(x, b).mem = mem
  BY DEF Holds
<1>4. EvalStmt(s, Computed(x, b)) = [vals |-> Append(Computed(x, b).vals, CellOf(g, wires) \in mem), mem |-> mem]
  BY <1>2, <1>3, EvalRead
<1>5. (CellOf(g, wires) \in mem) = held
  OBVIOUS
<1>6. EvalStmt(s, Computed(x, b)) = [vals |-> Append(Computed(x, b).vals, held), mem |-> mem]
  BY <1>4, <1>5
<1> QED BY <1>1, <1>2, <1>6, EmitHolds

(* Writing a variable to the cell of a gate.                               *)
LEMMA WriteHolds ==
  ASSUME NEW n \in Nat, NEW x, NEW b, NEW wires \in [1 .. n -> BOOLEAN], NEW mem \in SUBSET Cells, Holds(n, x, b, wires, mem),
         NEW g \in Gates, validate_gate_at(n, g), NEW before, before.wires = b.wires,
         NEW u \in 1 .. VarSpace(b), NEW bit \in BOOLEAN, ValueOf(x, b, u) = bit
  PROVE  EmitKeeps(n, x, b, Emit(b, CellStmt("StorageWrite", <<u>>, before, g)), wires, FALSE, Stored(mem, CellOf(g, wires), bit))
<1>1. PICK s : s = CellStmt("StorageWrite", <<u>>, before, g)
  OBVIOUS
<1>2. s \in BackStatements /\ s.op = "StorageWrite" /\ s.args = <<u>> /\ StmtCell(s, Computed(x, b).vals) = CellOf(g, wires)
  <2>1. b \in Builders(n)
    BY DEF Holds
  <2>2. VarSpace(b) \in Nat
    BY <2>1, BuilderSize
  <2>3. <<u>> \in Seq(Nat) /\ "StorageWrite" \in BackOps
    BY <2>2 DEF BackOps
  <2>4. AtCellOf("StorageWrite", <<u>>, x, b, s, g, wires)
    BY <1>1, <2>3, CellHeld
  <2> QED BY <2>4 DEF AtCellOf
<1>3. Computed(x, b).mem = mem
  BY DEF Holds
<1>4. Reads(<<u>>, Computed(x, b).vals)[1] = bit
  BY ReadsOne DEF ValueOf
<1>5. PICK m : m = Stored(mem, CellOf(g, wires), bit)
  OBVIOUS
<1>6. EvalStmt(s, Computed(x, b)) = [vals |-> Append(Computed(x, b).vals, FALSE), mem |-> m]
  BY ZenonT(30), <1>2, <1>3, <1>4, <1>5, EvalWrite
<1>7. m \in SUBSET Cells
  BY <1>5, GateFacts, StoredInCells
<1> QED BY <1>1, <1>2, <1>5, <1>6, <1>7, EmitHolds

OracleStmt(args, g) == [Stmt("OracleBit", args) EXCEPT !.occurrence = g.occurrence]

(* Asking the oracle of a gate.                                            *)
LEMMA OracleHolds ==
  ASSUME NEW n \in Nat, NEW x, NEW b, NEW wires \in [1 .. n -> BOOLEAN], NEW mem \in SUBSET Cells, Holds(n, x, b, wires, mem),
         NEW g \in Gates, validate_gate_at(n, g), NEW bit \in BOOLEAN,
         bit <=> <<g.occurrence, Reads(g.args, wires)>> \in Oracle
  PROVE  EmitKeeps(n, x, b, Emit(b, OracleStmt(Reads(g.args, b.wires), g)), wires, bit, mem)
<1>1. PICK args : args = Reads(g.args, b.wires)
  OBVIOUS
<1>2. g.args \in Seq(Nat) /\ Range(g.args) \subseteq 1 .. n /\ g.occurrence \in Nat
  <2>1. g.occurrence \in Nat
    BY DEF Gates
  <2> QED BY <2>1, GateFacts
<1>3. args \in Seq(Nat) /\ Reads(args, Computed(x, b).vals) = Reads(g.args, wires)
  <2>1. ArgsAre(n, x, b, wires, g.args)
    BY <1>2, ArgsHeld
  <2> QED BY <1>1, <2>1 DEF ArgsAre
<1>4. PICK s : s = OracleStmt(args, g)
  OBVIOUS
<1>5. s = [op |-> "OracleBit", args |-> args, addr |-> << >>, lane |-> 0, occurrence |-> g.occurrence]
  BY <1>4 DEF OracleStmt, Stmt
<1>6. s \in BackStatements
  <2>1. << >> \in Seq(Nat)
    OBVIOUS
  <2> QED BY <1>2, <1>3, <1>5, <2>1 DEF BackStatements, BackOps
<1>7. Computed(x, b).mem = mem
  BY DEF Holds
<1>8. s.op = "OracleBit" /\ s.args = args /\ s.occurrence = g.occurrence
  BY <1>5
<1>9. EvalStmt(s, Computed(x, b)) = [vals |-> Append(Computed(x, b).vals, <<g.occurrence, Reads(g.args, wires)>> \in Oracle), mem |-> mem]
  BY <1>3, <1>7, <1>8, EvalOracle
<1>10. (<<g.occurrence, Reads(g.args, wires)>> \in Oracle) = bit
  OBVIOUS
<1>11. EvalStmt(s, Computed(x, b)) = [vals |-> Append(Computed(x, b).vals, bit), mem |-> mem]
  BY <1>9, <1>10
<1> QED BY <1>1, <1>4, <1>6, <1>11, EmitHolds

(* Asking the action of a gate.                                            *)
LEMMA ActionHolds ==
  ASSUME NEW n \in Nat, NEW x, NEW b, NEW wires \in [1 .. n -> BOOLEAN], NEW mem \in SUBSET Cells, Holds(n, x, b, wires, mem),
         NEW g \in Gates, validate_gate_at(n, g), NEW bit \in BOOLEAN, bit = ActionValue(Reads(g.args, wires))
  PROVE  EmitKeeps(n, x, b, Emit(b, Stmt("ActionBit", Reads(g.args, b.wires))), wires, bit, mem)
<1>1. PICK args : args = Reads(g.args, b.wires)
  OBVIOUS
<1>2. args \in Seq(Nat) /\ Reads(args, Computed(x, b).vals) = Reads(g.args, wires)
  <2>1. g.args \in Seq(Nat) /\ Range(g.args) \subseteq 1 .. n
    BY GateFacts
  <2>2. ArgsAre(n, x, b, wires, g.args)
    BY <2>1, ArgsHeld
  <2> QED BY <1>1, <2>2 DEF ArgsAre
<1>3. PICK s : s = Stmt("ActionBit", args)
  OBVIOUS
<1>4. s \in BackStatements /\ s.op = "ActionBit" /\ s.args = args
  <2>1. "ActionBit" \in BackOps
    BY DEF BackOps
  <2> QED BY <1>2, <1>3, <2>1, StmtTyped
<1>5. Computed(x, b).mem = mem
  BY DEF Holds
<1>6. EvalStmt(s, Computed(x, b)) = [vals |-> Append(Computed(x, b).vals, bit), mem |-> mem]
  BY <1>2, <1>4, <1>5, EvalAction
<1> QED BY <1>1, <1>3, <1>4, <1>6, EmitHolds

(* A sum so far, with the value acc.                                       *)
SumIs(n, x, b, sum, wires, mem, acc) ==
  /\ Holds(n, x, sum.b, wires, mem)
  /\ sum.b.wires = b.wires
  /\ sum.value \in 0 .. VarSpace(sum.b)
  /\ IF sum.value = 0 THEN acc = FALSE ELSE ValueOf(x, sum.b, sum.value) = acc

(* append_xor_term adds the value of a variable to the sum.                *)
LEMMA TermAdded ==
  ASSUME NEW n \in Nat, NEW x, NEW b, NEW sum, NEW wires, NEW mem \in SUBSET Cells, NEW acc \in BOOLEAN,
         SumIs(n, x, b, sum, wires, mem, acc),
         NEW u \in 1 .. VarSpace(sum.b), NEW bit \in BOOLEAN, ValueOf(x, sum.b, u) = bit
  PROVE  SumIs(n, x, b, append_xor_term(sum, u), wires, mem, acc # bit)
<1>1. PICK d : d = sum.b
  OBVIOUS
<1>2. Holds(n, x, d, wires, mem) /\ d.wires = b.wires /\ sum.value \in 0 .. VarSpace(d) /\ ValueOf(x, d, u) = bit
      /\ u \in 1 .. VarSpace(d)
  BY <1>1 DEF SumIs
<1>3. VarSpace(d) \in Nat
  <2>1. d \in Builders(n)
    BY <1>2 DEF Holds
  <2> QED BY <2>1, BuilderSize
<1>4. CASE sum.value = 0
  <2>1. append_xor_term(sum, u) = [b |-> d, value |-> u]
    BY <1>1, <1>4 DEF append_xor_term
  <2>2. (acc # bit) = bit
    BY <1>4 DEF SumIs
  <2> QED BY <1>2, <1>3, <2>1, <2>2 DEF SumIs
<1>5. CASE sum.value # 0
  <2>1. PICK v \in 1 .. VarSpace(d) : v = sum.value /\ ValueOf(x, d, v) = acc
    BY <1>1, <1>2, <1>3, <1>5 DEF SumIs
  <2>2. PICK c : c = Emit(d, Stmt("Xor", <<v, u>>))
    OBVIOUS
  <2>3. EmitKeeps(n, x, d, c, wires, ValueOf(x, d, v) # ValueOf(x, d, u), mem)
    BY <1>2, <2>1, <2>2, BinaryHolds
  <2>4. (ValueOf(x, d, v) # ValueOf(x, d, u)) = (acc # bit)
    BY <1>2, <2>1
  <2>5. PICK xor \in BOOLEAN : xor = (acc # bit)
    OBVIOUS
  <2>6. EmitKeeps(n, x, d, c, wires, xor, mem)
    BY <2>3, <2>4, <2>5
  <2>7. append_xor_term(sum, u) = [b |-> c, value |-> Newest(c)]
    BY <1>1, <1>5, <2>1, <2>2 DEF append_xor_term
  <2>8. /\ Holds(n, x, c, wires, mem) /\ c.wires = b.wires
        /\ Newest(c) \in 0 .. VarSpace(c) /\ Newest(c) # 0 /\ ValueOf(x, c, Newest(c)) = xor
    BY <1>2, <1>3, <2>6 DEF EmitKeeps
  <2> QED BY <2>5, <2>7, <2>8 DEF SumIs
<1> QED BY <1>4, <1>5

(* AppendStmt adds the value of a statement to the sum.                    *)
LEMMA StmtAdded ==
  ASSUME NEW n \in Nat, NEW x, NEW b, NEW sum, NEW wires, NEW mem \in SUBSET Cells, NEW acc \in BOOLEAN,
         SumIs(n, x, b, sum, wires, mem, acc),
         NEW s, NEW bit \in BOOLEAN, EmitKeeps(n, x, sum.b, Emit(sum.b, s), wires, bit, mem)
  PROVE  SumIs(n, x, b, AppendStmt(sum, s), wires, mem, acc # bit)
<1>1. PICK c : c = Emit(sum.b, s)
  OBVIOUS
<1>2. PICK t : t = [b |-> c, value |-> sum.value]
  OBVIOUS
<1>3. PICK v : v = sum.value
  OBVIOUS
<1>4. VarSpace(sum.b) \in Nat /\ v \in 0 .. VarSpace(sum.b)
  <2>1. sum.b \in Builders(n)
    BY DEF SumIs, Holds
  <2> QED BY <1>3, <2>1, BuilderSize DEF SumIs
<1>5. /\ Holds(n, x, c, wires, mem) /\ c.wires = b.wires /\ VarSpace(c) = VarSpace(sum.b) + 1
      /\ Newest(c) = VarSpace(sum.b) + 1 /\ ValueOf(x, c, Newest(c)) = bit
      /\ \A u \in 1 .. VarSpace(sum.b) : ValueOf(x, c, u) = ValueOf(x, sum.b, u)
  BY <1>1 DEF EmitKeeps, SumIs
<1>6. SumIs(n, x, b, t, wires, mem, acc)
  <2>1. t.b = c /\ t.value = v
    BY <1>2, <1>3
  <2>2. v # 0 => ValueOf(x, c, v) = acc
    BY <1>3, <1>4, <1>5 DEF SumIs
  <2>3. v = 0 => acc = FALSE
    BY <1>3 DEF SumIs
  <2> QED BY <1>4, <1>5, <2>1, <2>2, <2>3 DEF SumIs
<1>7. AppendStmt(sum, s) = append_xor_term(t, Newest(c))
  BY <1>1, <1>2 DEF AppendStmt
<1>8. t.b = c /\ Newest(c) \in 1 .. VarSpace(t.b)
  BY <1>2, <1>4, <1>5
<1> QED BY <1>5, <1>6, <1>7, <1>8, TermAdded

(* lower_lut2_xor: the sum of products of any table is the table.          *)
LEMMA LookupHolds ==
  ASSUME NEW n \in Nat, NEW x, NEW b, NEW wires \in [1 .. n -> BOOLEAN], NEW mem \in SUBSET Cells, Holds(n, x, b, wires, mem),
         NEW g \in Gates, validate_gate_at(n, g), g.op = "XorLut2"
  PROVE  Holds(n, x, lower_lut2_xor(b, g), FlipWire(wires, g.target, BitOf(g, wires)), mem)
<1>1. Len(g.args) = 2 /\ g.args \in Seq(Nat) /\ Range(g.args) \subseteq 1 .. n /\ g.target \in 1 .. n
  <2>1. Len(g.args) = 2
    BY DEF Gates, GateShape
  <2> QED BY <2>1, GateFacts
<1>2. PICK w0 \in 1 .. n, w1 \in 1 .. n : w0 = g.args[1] /\ w1 = g.args[2]
  <2>1. DOMAIN g.args = 1 .. 2
    BY <1>1
  <2>2. g.args[1] \in Range(g.args) /\ g.args[2] \in Range(g.args)
    BY <2>1 DEF Range
  <2> QED BY <1>1, <2>2
<1>3. PICK p \in BOOLEAN, q \in BOOLEAN : p = wires[w0] /\ q = wires[w1]
  OBVIOUS
<1>4. Reads(g.args, wires) = <<p, q>>
  <2>1. Reads(g.args, wires) = [k \in 1 .. 2 |-> wires[g.args[k]]]
    BY <1>1 DEF Reads, MapSeq
  <2> QED BY <1>2, <1>3, <2>1
<1>5. PICK t00 \in BOOLEAN, t01 \in BOOLEAN, t10 \in BOOLEAN, t11 \in BOOLEAN :
        /\ t00 = (<<FALSE, FALSE>> \in g.table) /\ t01 = (<<FALSE, TRUE>> \in g.table)
        /\ t10 = (<<TRUE, FALSE>> \in g.table) /\ t11 = (<<TRUE, TRUE>> \in g.table)
  <2>1. \A pair : (pair \in g.table) \in BOOLEAN
    OBVIOUS
  <2>2. \A a \in BOOLEAN, b1 \in BOOLEAN, c \in BOOLEAN, d \in BOOLEAN :
          \E t00 \in BOOLEAN, t01 \in BOOLEAN, t10 \in BOOLEAN, t11 \in BOOLEAN :
            t00 = a /\ t01 = b1 /\ t10 = c /\ t11 = d
    OBVIOUS
  <2> QED BY <2>1, <2>2, Zenon
<1>6. PICK bit \in BOOLEAN : bit = BitOf(g, wires) /\ (bit <=> <<p, q>> \in g.table)
  <2>1. BitOf(g, wires) = (<<p, q>> \in g.table)
    BY <1>4 DEF BitOf
  <2>2. (<<p, q>> \in g.table) \in BOOLEAN
    OBVIOUS
  <2> QED BY <2>1, <2>2
<1>7. bit = IF p THEN IF q THEN t11 ELSE t10 ELSE IF q THEN t01 ELSE t00
  BY <1>5, <1>6
<1>8. PICK c0, c1 : c0 = b.wires[w0] /\ c1 = b.wires[w1]
  OBVIOUS
<1>9. ASSUME NEW sum, NEW acc \in BOOLEAN, SumIs(n, x, b, sum, wires, mem, acc)
      PROVE  /\ c0 \in 1 .. VarSpace(sum.b) /\ ValueOf(x, sum.b, c0) = p
             /\ c1 \in 1 .. VarSpace(sum.b) /\ ValueOf(x, sum.b, c1) = q
  <2>1. Holds(n, x, sum.b, wires, mem) /\ c0 = sum.b.wires[w0] /\ c1 = sum.b.wires[w1]
    BY <1>8, <1>9 DEF SumIs
  <2> QED BY <1>3, <2>1, WireHeld
<1>10. PICK s0 : s0 = [b |-> b, value |-> 0]
  OBVIOUS
<1>11. SumIs(n, x, b, s0, wires, mem, FALSE)
  <2>1. b \in Builders(n)
    BY DEF Holds
  <2>2. VarSpace(b) \in Nat
    BY <2>1, BuilderSize
  <2> QED BY <1>10, <2>2 DEF SumIs
<1>12. PICK s1 : s1 = IF t00 THEN AppendStmt(s0, Stmt("One", << >>)) ELSE s0
  OBVIOUS
<1>13. SumIs(n, x, b, s1, wires, mem, t00)
  <2>1. CASE t00
    <3>1. b \in Builders(n) /\ s0.b = b
      BY <1>10 DEF Holds
    <3>2. c0 \in 1 .. VarSpace(b)
      BY <1>8, WireHeld
    <3>3. EmitKeeps(n, x, s0.b, Emit(s0.b, Stmt("One", << >>)), wires, TRUE, mem)
      BY <3>1, <3>2, UnaryHolds
    <3>4. SumIs(n, x, b, AppendStmt(s0, Stmt("One", << >>)), wires, mem, FALSE # TRUE)
      BY <1>11, <3>3, StmtAdded
    <3>5. (FALSE # TRUE) = t00
      BY <2>1
    <3> QED BY <1>12, <2>1, <3>4, <3>5
  <2>2. CASE ~t00
    <3>1. t00 = FALSE
      BY <2>2
    <3> QED BY <1>11, <1>12, <2>2, <3>1
  <2> QED BY <2>1, <2>2
<1>14. PICK s2 : s2 = IF t00 # t10 THEN append_xor_term(s1, c0) ELSE s1
  OBVIOUS
<1>15. PICK a2 \in BOOLEAN : a2 = (IF t00 # t10 THEN t00 # p ELSE t00)
  OBVIOUS
<1>16. SumIs(n, x, b, s2, wires, mem, a2)
  <2>1. CASE t00 # t10
    <3>1. SumIs(n, x, b, append_xor_term(s1, c0), wires, mem, t00 # p)
      BY <1>9, <1>13, TermAdded
    <3>2. (t00 # p) = a2
      BY <1>15, <2>1
    <3> QED BY <1>14, <2>1, <3>1, <3>2
  <2>2. CASE t00 = t10
    BY <1>13, <1>14, <1>15, <2>2
  <2> QED BY <2>1, <2>2
<1>17. PICK s3 : s3 = IF t00 # t01 THEN append_xor_term(s2, c1) ELSE s2
  OBVIOUS
<1>18. PICK a3 \in BOOLEAN : a3 = (IF t00 # t01 THEN a2 # q ELSE a2)
  OBVIOUS
<1>19. SumIs(n, x, b, s3, wires, mem, a3)
  <2>1. CASE t00 # t01
    <3>1. SumIs(n, x, b, append_xor_term(s2, c1), wires, mem, a2 # q)
      BY <1>9, <1>16, TermAdded
    <3>2. (a2 # q) = a3
      BY <1>18, <2>1
    <3> QED BY <1>17, <2>1, <3>1, <3>2
  <2>2. CASE t00 = t01
    BY <1>16, <1>17, <1>18, <2>2
  <2> QED BY <2>1, <2>2
<1>20. PICK product \in BOOLEAN : product = ((t00 # t01) # (t10 # t11))
  OBVIOUS
<1>21. PICK s4 : s4 = IF product THEN AppendStmt(s3, Stmt("And", <<c0, c1>>)) ELSE s3
  OBVIOUS
<1>22. PICK a4 \in BOOLEAN : a4 = (IF product THEN a3 # (p /\ q) ELSE a3)
  OBVIOUS
<1>23. SumIs(n, x, b, s4, wires, mem, a4)
  <2>1. CASE product
    <3>1. PICK and \in BOOLEAN : and = (p /\ q)
      OBVIOUS
    <3>2. PICK d : d = s3.b
      OBVIOUS
    <3>3. Holds(n, x, d, wires, mem) /\ c0 \in 1 .. VarSpace(d) /\ c1 \in 1 .. VarSpace(d)
          /\ ValueOf(x, d, c0) = p /\ ValueOf(x, d, c1) = q
      BY <1>9, <1>19, <3>2 DEF SumIs
    <3>4. EmitKeeps(n, x, d, Emit(d, Stmt("And", <<c0, c1>>)), wires, ValueOf(x, d, c0) /\ ValueOf(x, d, c1), mem)
      BY <3>3, BinaryHolds
    <3>5. (ValueOf(x, d, c0) /\ ValueOf(x, d, c1)) = and
      BY <3>1, <3>3
    <3>6. EmitKeeps(n, x, s3.b, Emit(s3.b, Stmt("And", <<c0, c1>>)), wires, and, mem)
      BY <3>2, <3>4, <3>5
    <3>7. SumIs(n, x, b, AppendStmt(s3, Stmt("And", <<c0, c1>>)), wires, mem, a3 # and)
      BY <1>19, <3>6, StmtAdded
    <3>8. (a3 # and) = a4
      BY <1>22, <2>1, <3>1
    <3> QED BY <1>21, <2>1, <3>7, <3>8
  <2>2. CASE ~product
    BY <1>19, <1>21, <1>22, <2>2
  <2> QED BY <2>1, <2>2
<1>24. a4 = bit
  BY <1>7, <1>15, <1>18, <1>20, <1>22
<1>25. lower_lut2_xor(b, g) = IF s4.value = 0 THEN b ELSE XorInto(s4.b, g.target, s4.value)
  <2>1. (IF LinearTerms(g.table)[1] THEN AppendStmt(s0, Stmt("One", << >>)) ELSE s0) = s1
    BY <1>5, <1>12 DEF LinearTerms
  <2>2. (IF LinearTerms(g.table)[2] THEN append_xor_term(s1, c0) ELSE s1) = s2
    BY <1>5, <1>14 DEF LinearTerms
  <2>3. (IF LinearTerms(g.table)[3] THEN append_xor_term(s2, c1) ELSE s2) = s3
    BY <1>5, <1>17 DEF LinearTerms
  <2>4. (IF ProductTerm(g.table) THEN AppendStmt(s3, Stmt("And", <<c0, c1>>)) ELSE s3) = s4
    BY <1>5, <1>20, <1>21 DEF ProductTerm
  <2> QED BY <1>2, <1>8, <1>10, <2>1, <2>2, <2>3, <2>4, Zenon DEF lower_lut2_xor
<1>26. CASE s4.value = 0
  <2>1. bit = FALSE
    BY <1>23, <1>24, <1>26 DEF SumIs
  <2>2. FlipWire(wires, g.target, bit) = wires
    <3>1. PICK v \in [1 .. n -> BOOLEAN] : v = FlipWire(wires, g.target, bit)
      BY <1>1 DEF FlipWire
    <3>2. \A w \in 1 .. n : v[w] = wires[w]
      BY <2>1, <3>1 DEF FlipWire
    <3> QED BY <3>1, <3>2, SameBits
  <2> QED BY <1>6, <1>25, <1>26, <2>2
<1>27. CASE s4.value # 0
  <2>1. PICK d, u : d = s4.b /\ u = s4.value
    OBVIOUS
  <2>2. Holds(n, x, d, wires, mem) /\ u \in 1 .. VarSpace(d) /\ ValueOf(x, d, u) = bit
    <3>1. d \in Builders(n)
      BY <1>23, <2>1 DEF SumIs, Holds
    <3>2. VarSpace(d) \in Nat
      BY <3>1, BuilderSize
    <3> QED BY <1>23, <1>24, <1>27, <2>1, <3>2 DEF SumIs
  <2>3. Holds(n, x, XorInto(d, g.target, u), FlipWire(wires, g.target, bit), mem)
    BY <1>1, <2>2, XorIntoHolds
  <2> QED BY <1>6, <1>25, <1>27, <2>1, <2>3
<1> QED BY <1>26, <1>27


(* Every gate is lowered to statements that do what it does.               *)
LEMMA ToggleHolds ==
  ASSUME NEW n \in Nat, NEW x, NEW b, NEW wires \in [1 .. n -> BOOLEAN], NEW mem \in SUBSET Cells, Holds(n, x, b, wires, mem),
         NEW g \in Gates, validate_gate_at(n, g), g.op = "Toggle"
  PROVE  Holds(n, x, LowerGate(b, g), FlipWire(wires, g.target, BitOf(g, wires)), mem)
<1>1. /\ Len(g.args) \in 0 .. 2 /\ g.args \in Seq(Nat) /\ Range(g.args) \subseteq 1 .. n /\ g.target \in 1 .. n
      /\ \A k \in 1 .. Len(g.args) : g.args[k] \in 1 .. n
  <2>1. Len(g.args) <= 2
    BY DEF Gates, GateShape
  <2>2. g.args \in Seq(Nat) /\ Range(g.args) \subseteq 1 .. n /\ g.target \in 1 .. n
    BY GateFacts
  <2>3. \A k \in 1 .. Len(g.args) : g.args[k] \in 1 .. n
    BY <2>2 DEF Range
  <2>4. Len(g.args) \in Nat
    BY <2>2
  <2>5. Len(g.args) \in 0 .. 2
    <3>1. \A l \in Nat : l <= 2 => l \in 0 .. 2
      OBVIOUS
    <3> QED BY <2>1, <2>4, <3>1, Zenon
  <2> QED BY <2>2, <2>3, <2>5, Zenon
<1>2. PICK bit \in BOOLEAN : bit = BitOf(g, wires)
  BY Zenon DEF BitOf
<1>3. bit = (\A k \in 1 .. Len(g.args) : wires[g.args[k]])
  <2>1. Len(Reads(g.args, wires)) = Len(g.args) /\ \A k \in 1 .. Len(g.args) : Reads(g.args, wires)[k] = wires[g.args[k]]
    BY <1>1 DEF Reads, MapSeq
  <2>2. BitOf(g, wires) = (\A k \in 1 .. Len(Reads(g.args, wires)) : Reads(g.args, wires)[k])
    BY Zenon DEF BitOf
  <2> QED BY <1>2, <2>1, <2>2
<1>4. PICK args : args = Reads(g.args, b.wires)
  OBVIOUS
<1>5. args \in Seq(Nat) /\ Len(args) = Len(g.args) /\ \A k \in 1 .. Len(g.args) : args[k] = b.wires[g.args[k]]
  <2>1. ArgsAre(n, x, b, wires, g.args)
    BY <1>1, ArgsHeld
  <2> QED BY <1>4, <2>1 DEF ArgsAre
<1>6. CASE Len(g.args) = 0
  <2>1. PICK v, c : v = b.wires[g.target] /\ c = Emit(b, Stmt("Not", <<b.wires[g.target]>>))
    OBVIOUS
  <2>2. v \in 1 .. VarSpace(b) /\ ValueOf(x, b, v) = wires[g.target]
    BY <1>1, <2>1, WireHeld
  <2>3. PICK not \in BOOLEAN : not = (wires[g.target] # bit)
    OBVIOUS
  <2>4. (~ValueOf(x, b, v)) = not
    <3>1. bit = TRUE
      BY <1>3, <1>6
    <3>2. wires[g.target] \in BOOLEAN
      BY <1>1
    <3> QED BY <2>2, <2>3, <3>1, <3>2
  <2>5. EmitKeeps(n, x, b, c, wires, not, mem)
    BY <2>1, <2>2, <2>4, UnaryHolds
  <2>6. Holds(n, x, c, wires, mem) /\ Newest(c) \in 1 .. VarSpace(c) /\ ValueOf(x, c, Newest(c)) = not
    <3>1. b \in Builders(n)
      BY DEF Holds
    <3>2. VarSpace(b) \in Nat
      BY <3>1, BuilderSize
    <3> QED BY <2>5, <3>2 DEF EmitKeeps
  <2>7. Holds(n, x, SetWire(c, g.target, Newest(c)), [wires EXCEPT ![g.target] = not], mem)
    BY <1>1, <2>6, SetHolds
  <2>8. [wires EXCEPT ![g.target] = not] = FlipWire(wires, g.target, bit)
    BY <2>3 DEF FlipWire
  <2>9. LowerGate(b, g) = SetWire(c, g.target, Newest(c))
    <3>1. Len(Reads(g.args, b.wires)) = 0 /\ 0 # 1 /\ 0 # 2
      BY <1>4, <1>5, <1>6
    <3> QED BY <2>1, <3>1, Zenon DEF LowerGate, Reads
  <2> QED BY <1>2, <2>7, <2>8, <2>9
<1>7. CASE Len(g.args) = 1
  <2>1. PICK w \in 1 .. n : w = g.args[1] /\ args[1] = b.wires[w]
    BY <1>1, <1>5, <1>7
  <2>2. bit = wires[w]
    <3>1. wires[w] \in BOOLEAN /\ 1 .. Len(g.args) = {1}
      BY <1>7
    <3>2. bit = (\A k \in {1} : wires[g.args[k]])
      BY <1>3, <3>1
    <3>3. wires[g.args[1]] \in BOOLEAN /\ bit = wires[g.args[1]]
      BY <2>1, <3>1, <3>2
    <3> QED BY <2>1, <3>3
  <2>3. args[1] \in 1 .. VarSpace(b) /\ ValueOf(x, b, args[1]) = bit
    BY <2>1, <2>2, WireHeld
  <2>4. Holds(n, x, XorInto(b, g.target, args[1]), FlipWire(wires, g.target, bit), mem)
    BY <1>1, <2>3, XorIntoHolds
  <2>5. LowerGate(b, g) = XorInto(b, g.target, args[1])
    <3>1. Len(Reads(g.args, b.wires)) = 1 /\ 1 # 0 /\ 1 # 2
      BY <1>4, <1>5, <1>7
    <3> QED BY <1>4, <3>1, Zenon DEF LowerGate, Reads
  <2> QED BY <1>2, <2>4, <2>5
<1>8. CASE Len(g.args) = 2
  <2>1. PICK w0 \in 1 .. n, w1 \in 1 .. n : w0 = g.args[1] /\ args[1] = b.wires[w0] /\ w1 = g.args[2] /\ args[2] = b.wires[w1]
    BY <1>1, <1>5, <1>8
  <2>2. PICK c0, c1 : c0 = b.wires[w0] /\ c1 = b.wires[w1]
    OBVIOUS
  <2>3. args = <<c0, c1>>
    BY <1>5, <1>8, <2>1, <2>2
  <2>4. /\ c0 \in 1 .. VarSpace(b) /\ ValueOf(x, b, c0) = wires[w0]
        /\ c1 \in 1 .. VarSpace(b) /\ ValueOf(x, b, c1) = wires[w1]
    BY <2>2, WireHeld
  <2>5. (ValueOf(x, b, c0) /\ ValueOf(x, b, c1)) = bit
    <3>1. 1 .. Len(g.args) = {1, 2}
      BY <1>8
    <3>2. bit = (\A k \in {1, 2} : wires[g.args[k]])
      BY <1>3, <3>1
    <3>3. bit = (wires[g.args[1]] /\ wires[g.args[2]])
      BY <3>2
    <3> QED BY <2>1, <2>4, <3>3
  <2>6. PICK c : c = Emit(b, Stmt("And", args))
    OBVIOUS
  <2>7. EmitKeeps(n, x, b, c, wires, ValueOf(x, b, c0) /\ ValueOf(x, b, c1), mem)
    BY <2>3, <2>4, <2>6, BinaryHolds
  <2>8. EmitKeeps(n, x, b, c, wires, bit, mem)
    BY <2>5, <2>7
  <2>9. Holds(n, x, c, wires, mem) /\ Newest(c) \in 1 .. VarSpace(c) /\ ValueOf(x, c, Newest(c)) = bit
    <3>1. b \in Builders(n)
      BY DEF Holds
    <3>2. VarSpace(b) \in Nat
      BY <3>1, BuilderSize
    <3> QED BY <2>8, <3>2 DEF EmitKeeps
  <2>10. Holds(n, x, XorInto(c, g.target, Newest(c)), FlipWire(wires, g.target, bit), mem)
    BY <1>1, <2>9, XorIntoHolds
  <2>11. LowerGate(b, g) = XorInto(c, g.target, Newest(c))
    <3>1. Len(Reads(g.args, b.wires)) = 2 /\ 2 # 0 /\ 2 # 1
      BY <1>4, <1>5, <1>8
    <3> QED BY <1>4, <2>6, <3>1, Zenon DEF LowerGate, Reads
  <2> QED BY <1>2, <2>10, <2>11
<1> QED BY <1>1, <1>6, <1>7, <1>8

(* StorageSwap becomes a read and a write, in this order, at the cell      *)
(* named by the wires before.                                              *)
LEMMA SwapHolds ==
  ASSUME NEW n \in Nat, NEW x, NEW b, NEW wires \in [1 .. n -> BOOLEAN], NEW mem \in SUBSET Cells, Holds(n, x, b, wires, mem),
         NEW g \in Gates, validate_gate_at(n, g), g.op = "StorageSwap",
         NEW held \in BOOLEAN, held <=> CellOf(g, wires) \in mem
  PROVE  Holds(n, x, LowerGate(b, g), [wires EXCEPT ![g.target] = held], Stored(mem, CellOf(g, wires), wires[g.target]))
<1>1. PICK read, t : read = Emit(b, CellStmt("StorageRead", << >>, b, g)) /\ t = g.target
  OBVIOUS
<1>2. t \in 1 .. n
  BY <1>1, GateFacts
<1>3. VarSpace(b) \in Nat
  <2>1. b \in Builders(n)
    BY DEF Holds
  <2> QED BY <2>1, BuilderSize
<1>4. EmitKeeps(n, x, b, read, wires, held, mem)
  BY <1>1, ReadHolds
<1>5. PICK v : v = b.wires[t]
  OBVIOUS
<1>6. v \in 1 .. VarSpace(b) /\ ValueOf(x, b, v) = wires[t]
  BY <1>2, <1>5, WireHeld
<1>7. /\ Holds(n, x, read, wires, mem) /\ read.wires = b.wires /\ v \in 1 .. VarSpace(read)
      /\ ValueOf(x, read, v) = wires[t] /\ Newest(read) \in 1 .. VarSpace(read) /\ ValueOf(x, read, Newest(read)) = held
      /\ VarSpace(read) = VarSpace(b) + 1 /\ Newest(read) = VarSpace(b) + 1
  BY <1>3, <1>4, <1>6 DEF EmitKeeps
<1>8. PICK write : write = Emit(read, CellStmt("StorageWrite", <<v>>, b, g))
  OBVIOUS
<1>9. PICK m : m = Stored(mem, CellOf(g, wires), wires[t])
  OBVIOUS
<1>10. EmitKeeps(n, x, read, write, wires, FALSE, m)
  <2>1. wires[t] \in BOOLEAN
    BY <1>2
  <2> QED BY <1>7, <1>8, <1>9, <2>1, WriteHolds
<1>11. /\ Holds(n, x, write, wires, m) /\ Newest(read) \in 1 .. VarSpace(write)
       /\ ValueOf(x, write, Newest(read)) = held
  BY <1>3, <1>7, <1>10 DEF EmitKeeps
<1>12. Holds(n, x, SetWire(write, t, Newest(read)), [wires EXCEPT ![t] = held], m)
  BY <1>2, <1>11, SetHolds
<1>13. LowerGate(b, g) = SetWire(write, t, Newest(read))
  BY <1>1, <1>5, <1>8, Zenon DEF LowerGate, CellStmt
<1> QED BY <1>1, <1>9, <1>12, <1>13

(* ExternalXor becomes an oracle statement and an Xor.                     *)
LEMMA ExternalHolds ==
  ASSUME NEW n \in Nat, NEW x, NEW b, NEW wires \in [1 .. n -> BOOLEAN], NEW mem \in SUBSET Cells, Holds(n, x, b, wires, mem),
         NEW g \in Gates, validate_gate_at(n, g), g.op = "ExternalXor"
  PROVE  Holds(n, x, LowerGate(b, g), FlipWire(wires, g.target, BitOf(g, wires)), mem)
<1>1. PICK bit \in BOOLEAN : bit = BitOf(g, wires) /\ (bit <=> <<g.occurrence, Reads(g.args, wires)>> \in Oracle)
  <2>1. BitOf(g, wires) = (<<g.occurrence, Reads(g.args, wires)>> \in Oracle)
    BY DEF BitOf
  <2>2. (<<g.occurrence, Reads(g.args, wires)>> \in Oracle) \in BOOLEAN
    OBVIOUS
  <2> QED BY <2>1, <2>2
<1>2. PICK c, t : c = Emit(b, OracleStmt(Reads(g.args, b.wires), g)) /\ t = g.target
  OBVIOUS
<1>3. EmitKeeps(n, x, b, c, wires, bit, mem)
  BY <1>1, <1>2, OracleHolds
<1>4. Holds(n, x, c, wires, mem) /\ Newest(c) \in 1 .. VarSpace(c) /\ ValueOf(x, c, Newest(c)) = bit
  <2>1. b \in Builders(n)
    BY DEF Holds
  <2>2. VarSpace(b) \in Nat
    BY <2>1, BuilderSize
  <2> QED BY <1>3, <2>2 DEF EmitKeeps
<1>5. t \in 1 .. n
  BY <1>2, GateFacts
<1>6. Holds(n, x, XorInto(c, t, Newest(c)), FlipWire(wires, t, bit), mem)
  BY <1>4, <1>5, XorIntoHolds
<1>7. LowerGate(b, g) = XorInto(c, t, Newest(c))
  BY <1>2, Zenon DEF LowerGate, OracleStmt, Reads
<1> QED BY <1>1, <1>2, <1>6, <1>7

(* ExternalStorageXor becomes a read, an action, an Xor and a write.       *)
LEMMA StoreHolds ==
  ASSUME NEW n \in Nat, NEW x, NEW b, NEW wires \in [1 .. n -> BOOLEAN], NEW mem \in SUBSET Cells, Holds(n, x, b, wires, mem),
         NEW g \in Gates, validate_gate_at(n, g), g.op = "ExternalStorageXor",
         NEW bit \in BOOLEAN, bit = ActionValue(Reads(g.args, wires))
  PROVE  Holds(n, x, LowerGate(b, g), wires, Flipped(mem, CellOf(g, wires), bit))
<1>1. PICK held \in BOOLEAN : held <=> CellOf(g, wires) \in mem
  OBVIOUS
<1>2. PICK read : read = Emit(b, CellStmt("StorageRead", << >>, b, g))
  OBVIOUS
<1>3. VarSpace(b) \in Nat
  <2>1. b \in Builders(n)
    BY DEF Holds
  <2> QED BY <2>1, BuilderSize
<1>4. EmitKeeps(n, x, b, read, wires, held, mem)
  BY <1>1, <1>2, ReadHolds
<1>5. PICK r : r = Newest(read)
  OBVIOUS
<1>6. /\ Holds(n, x, read, wires, mem) /\ read.wires = b.wires /\ VarSpace(read) = VarSpace(b) + 1
      /\ r \in 1 .. VarSpace(read) /\ ValueOf(x, read, r) = held
  BY <1>3, <1>4, <1>5 DEF EmitKeeps
<1>7. PICK act : act = Emit(read, Stmt("ActionBit", Reads(g.args, b.wires)))
  OBVIOUS
<1>8. EmitKeeps(n, x, read, act, wires, bit, mem)
  BY <1>6, <1>7, ActionHolds
<1>9. PICK a : a = Newest(act)
  OBVIOUS
<1>10. /\ Holds(n, x, act, wires, mem) /\ act.wires = b.wires /\ VarSpace(act) = VarSpace(b) + 2
       /\ r \in 1 .. VarSpace(act) /\ ValueOf(x, act, r) = held
       /\ a \in 1 .. VarSpace(act) /\ ValueOf(x, act, a) = bit
  BY <1>3, <1>6, <1>8, <1>9 DEF EmitKeeps
<1>11. PICK both : both = Emit(act, Stmt("Xor", <<r, a>>))
  OBVIOUS
<1>12. PICK xor \in BOOLEAN : xor = (held # bit)
  OBVIOUS
<1>13. (ValueOf(x, act, r) # ValueOf(x, act, a)) = xor
  BY <1>10, <1>12
<1>14. EmitKeeps(n, x, act, both, wires, ValueOf(x, act, r) # ValueOf(x, act, a), mem)
  BY <1>10, <1>11, BinaryHolds
<1>15. EmitKeeps(n, x, act, both, wires, xor, mem)
  BY <1>13, <1>14
<1>16. PICK v : v = Newest(both)
  OBVIOUS
<1>17. /\ Holds(n, x, both, wires, mem) /\ both.wires = b.wires
       /\ v \in 1 .. VarSpace(both) /\ ValueOf(x, both, v) = xor
  BY <1>3, <1>10, <1>15, <1>16 DEF EmitKeeps
<1>18. PICK write : write = Emit(both, CellStmt("StorageWrite", <<v>>, b, g))
  OBVIOUS
<1>19. PICK m : m = Stored(mem, CellOf(g, wires), xor)
  OBVIOUS
<1>20. EmitKeeps(n, x, both, write, wires, FALSE, m)
  BY <1>17, <1>18, <1>19, WriteHolds
<1>21. LowerGate(b, g) = write
  BY <1>2, <1>5, <1>7, <1>9, <1>11, <1>16, <1>18, Zenon DEF LowerGate, CellStmt, Reads
<1>22. Flipped(mem, CellOf(g, wires), bit) = m
  <2>1. ((CellOf(g, wires) \in mem) # bit) = xor
    BY <1>1, <1>12
  <2> QED BY <1>19, <2>1 DEF Flipped
<1> QED BY <1>20, <1>21, <1>22 DEF EmitKeeps


(* Every gate: the builder keeps pace with the wires and storage.          *)
LEMMA GateHolds ==
  ASSUME NEW n \in Nat, NEW x, NEW b, NEW st \in States(n), Holds(n, x, b, st.wires, st.mem),
         NEW g \in Gates, validate_gate_at(n, g)
  PROVE  Holds(n, x, LowerGate(b, g), ApplyGate(g, st).wires, ApplyGate(g, st).mem)
<1>1. PICK wires \in [1 .. n -> BOOLEAN], mem \in SUBSET Cells : wires = st.wires /\ mem = st.mem
  BY DEF States
<1>2. Holds(n, x, b, wires, mem)
  BY <1>1
<1>3. CASE g.op \in {"Toggle", "XorLut2", "ExternalXor"}
  <2>1. Holds(n, x, LowerGate(b, g), FlipWire(wires, g.target, BitOf(g, wires)), mem)
    <3>1. CASE g.op = "Toggle"
      BY <1>2, <3>1, ToggleHolds
    <3>2. CASE g.op = "XorLut2"
      <4>1. LowerGate(b, g) = lower_lut2_xor(b, g)
        BY <3>2, Zenon DEF LowerGate
      <4> QED BY <1>2, <3>2, <4>1, LookupHolds
    <3>3. CASE g.op = "ExternalXor"
      BY <1>2, <3>3, ExternalHolds
    <3> QED BY <1>3, <3>1, <3>2, <3>3
  <2>2. ApplyGate(g, st) = [wires |-> FlipWire(wires, g.target, BitOf(g, wires)), mem |-> mem]
    BY <1>1, <1>3, FlipApplied
  <2> QED BY <2>1, <2>2
<1>4. CASE g.op = "StorageSwap"
  <2>1. PICK held \in BOOLEAN :
          /\ held <=> CellOf(g, wires) \in mem
          /\ ApplyGate(g, st) = [wires |-> [wires EXCEPT ![g.target] = held], mem |-> Stored(mem, CellOf(g, wires), wires[g.target])]
    BY <1>1, <1>4, SwapApplied
  <2>2. Holds(n, x, LowerGate(b, g), [wires EXCEPT ![g.target] = held], Stored(mem, CellOf(g, wires), wires[g.target]))
    BY <1>2, <1>4, <2>1, SwapHolds
  <2> QED BY <2>1, <2>2
<1>5. CASE g.op = "ExternalStorageXor"
  <2>1. PICK bit \in BOOLEAN : bit = ActionValue(Reads(g.args, wires))
    BY DEF ActionValue
  <2>2. ApplyGate(g, st) = [wires |-> wires, mem |-> Flipped(mem, CellOf(g, wires), bit)]
    BY <1>1, <1>5, <2>1, StoreApplied
  <2>3. Holds(n, x, LowerGate(b, g), wires, Flipped(mem, CellOf(g, wires), bit))
    BY <1>2, <1>5, <2>1, StoreHolds
  <2> QED BY <2>2, <2>3
<1> QED BY <1>3, <1>4, <1>5, GateFacts DEF GateOps

(* Before the first gate, the variables are the wires.                     *)
LEMMA BuilderHolds ==
  ASSUME NEW n \in Nat, NEW st \in States(n)
  PROVE  Holds(n, [vals |-> st.wires, mem |-> st.mem], Builder(n), st.wires, st.mem)
<1>1. PICK wires \in [1 .. n -> BOOLEAN], mem \in SUBSET Cells : wires = st.wires /\ mem = st.mem
  BY DEF States
<1>2. PICK x : x = [vals |-> wires, mem |-> mem]
  OBVIOUS
<1>3. PICK ws : ws = SubSeq(Numbers(n), 1, n)
  OBVIOUS
<1>4. ws \in [1 .. n -> Nat] /\ \A w \in 1 .. n : ws[w] = w
  <2>1. Numbers(n) \in Seq(Nat) /\ Len(Numbers(n)) = n
    BY DEF Numbers
  <2>2. ws = [k \in 1 .. n |-> Numbers(n)[k]]
    BY <1>3, <2>1
  <2> QED BY <2>2 DEF Numbers
<1>5. PICK b : b = Builder(n)
  OBVIOUS
<1>6. b = [params |-> n, stmts |-> << >>, wires |-> ws]
  BY <1>3, <1>5 DEF Builder
<1>7. b \in Builders(n) /\ VarSpace(b) = n /\ b.wires = ws
  <2>1. << >> \in Seq(BackStatements) /\ Len(<< >>) = 0
    OBVIOUS
  <2> QED BY <1>4, <1>6, <2>1 DEF Builders, VarSpace
<1>8. Computed(x, b) = x
  BY <1>6, Eval!FoldEmpty DEF Computed
<1>9. wires \in Seq(BOOLEAN) /\ Len(wires) = n
  OBVIOUS
<1>10. x \in Evaluations /\ x.vals = wires /\ x.mem = mem
  BY <1>2, <1>9 DEF Evaluations
<1>11. Holds(n, x, b, wires, mem)
  BY <1>4, <1>7, <1>8, <1>9, <1>10 DEF Holds, ValueOf
<1> QED BY <1>1, <1>2, <1>5, <1>11

(* All gates, one after the other.                                         *)
LEMMA BuildHolds ==
  ASSUME NEW n \in Nat, NEW gates \in Seq(Gates), validate(n, gates), NEW st \in States(n)
  PROVE  Holds(n, [vals |-> st.wires, mem |-> st.mem], Build!Fold(Builder(n), gates),
               Run!Fold(st, gates).wires, Run!Fold(st, gates).mem)
<1>1. PICK x, N : x = [vals |-> st.wires, mem |-> st.mem] /\ N = Len(gates)
  OBVIOUS
<1>2. N \in Nat
  BY <1>1
<1>3. PICK bs : bs = Build!Walk(Builder(n), gates)
  OBVIOUS
<1>4. PICK rs : rs = Run!Walk(st, gates)
  OBVIOUS
<1>5. bs[0] = Builder(n) /\ \A k \in 1 .. N : bs[k] = LowerGate(bs[k - 1], gates[k])
  BY <1>1, <1>2, <1>3, Build!WalkSteps
<1>6. rs[0] = st /\ \A k \in 1 .. N : rs[k] = ApplyGate(gates[k], rs[k - 1])
  BY <1>1, <1>2, <1>4, Run!WalkSteps DEF Applied
<1>7. PICK T : T = {k \in 0 .. N : rs[k] \in States(n) /\ Holds(n, x, bs[k], rs[k].wires, rs[k].mem)}
  OBVIOUS
<1>8. 0 \in T
  BY <1>1, <1>2, <1>5, <1>6, <1>7, BuilderHolds
<1>9. ASSUME NEW k \in 0 .. N - 1, k \in T PROVE k + 1 \in T
  <2>1. k + 1 \in 1 .. N /\ k + 1 \in 0 .. N /\ (k + 1) - 1 = k
    BY <1>2
  <2>2. PICK r, b, g : r = rs[k] /\ b = bs[k] /\ g = gates[k + 1]
    OBVIOUS
  <2>3. g \in Gates /\ validate_gate_at(n, g)
    BY <1>1, <2>1, <2>2, ValidGates
  <2>4. r \in States(n) /\ Holds(n, x, b, r.wires, r.mem)
    BY <1>7, <1>9, <2>2
  <2>5. Holds(n, x, LowerGate(b, g), ApplyGate(g, r).wires, ApplyGate(g, r).mem)
    BY <2>3, <2>4, GateHolds
  <2>6. ApplyGate(g, r) \in States(n)
    BY <2>3, <2>4, GateTyped
  <2>7. rs[k + 1] = ApplyGate(g, r) /\ bs[k + 1] = LowerGate(b, g)
    BY <1>5, <1>6, <2>1, <2>2
  <2> QED BY <1>7, <2>1, <2>5, <2>6, <2>7
<1>10. N \in T
  <2>1. \A k \in 0 .. N - 1 : k \in T => k + 1 \in T
    BY <1>9
  <2>2. \A k \in 0 .. N : k \in T
    BY <1>2, <1>8, <2>1, Run!UpTo, Zenon
  <2> QED BY <1>2, <2>2
<1> QED BY <1>1, <1>3, <1>4, <1>7, <1>10 DEF Build!Fold, Run!Fold


(* to_boolar_circuit carries the builder through the gates.                *)
LEMMA LedBackFold ==
  ASSUME NEW r
  PROVE  ToBoolar(r) = [params |-> r.n, stmts |-> Build!Fold(Builder(r.n), r.gates).stmts,
                        outputs |-> Build!Fold(Builder(r.n), r.gates).wires]
BY DEF ToBoolar, Through, Build!Fold, Build!Walk, Build!Steps

(* Evaluation carries values and storage through the statements.           *)
LEMMA ValuesFold ==
  ASSUME NEW c, NEW x, NEW mem
  PROVE  Values(c, x, mem) = Eval!Fold([vals |-> x, mem |-> mem], c.stmts)
BY DEF Values, Through, Evaluated, Eval!Fold, Eval!Walk, Eval!Steps

(* The circuit led back to and the reversible one agree on every state.    *)
LEMMA SameResult ==
  ASSUME NEW r, r.n \in Nat, r.gates \in Seq(Gates), validate(r.n, r.gates), NEW st \in States(r.n)
  PROVE  Result(ToBoolar(r), st.wires, st.mem) = [out |-> apply(r.gates, st).wires, mem |-> apply(r.gates, st).mem]
<1>1. PICK n \in Nat, gates \in Seq(Gates) : n = r.n /\ gates = r.gates
  OBVIOUS
<1>2. PICK done : done = Build!Fold(Builder(n), gates)
  OBVIOUS
<1>3. PICK to : to = Run!Fold(st, gates)
  OBVIOUS
<1>4. apply(r.gates, st) = to
  BY <1>1, <1>3, ApplyIsFold
<1>5. to \in States(n)
  <2>1. Len(gates) \in 0 .. Len(gates)
    OBVIOUS
  <2> QED BY <1>1, <1>3, <2>1, RunTyped DEF Run!Fold
<1>6. PICK x : x = [vals |-> st.wires, mem |-> st.mem]
  OBVIOUS
<1>7. Holds(n, x, done, to.wires, to.mem)
  BY <1>1, <1>2, <1>3, <1>6, BuildHolds
<1>8. PICK c : c = ToBoolar(r)
  OBVIOUS
<1>9. c.stmts = done.stmts /\ c.outputs = done.wires
  BY <1>1, <1>2, <1>8, LedBackFold
<1>10. Values(c, st.wires, st.mem) = Computed(x, done)
  BY <1>6, <1>9, ValuesFold DEF Computed
<1>11. Result(c, st.wires, st.mem) = [out |-> Reads(done.wires, Computed(x, done).vals), mem |-> Computed(x, done).mem]
  BY <1>9, <1>10 DEF Result, Returned, Reads
<1>12. Computed(x, done).mem = to.mem
  BY <1>7 DEF Holds
<1>13. Reads(done.wires, Computed(x, done).vals) = to.wires
  <2>1. done.wires \in [1 .. n -> Nat]
    BY <1>7 DEF Holds, Builders
  <2>2. Len(done.wires) = n
    BY <2>1
  <2>3. PICK out : out = Reads(done.wires, Computed(x, done).vals)
    OBVIOUS
  <2>4. out = [k \in 1 .. n |-> Computed(x, done).vals[done.wires[k]]]
    BY <2>2, <2>3 DEF Reads, MapSeq
  <2>5. \A k \in 1 .. n : Computed(x, done).vals[done.wires[k]] = to.wires[k]
    BY <1>7 DEF Holds, ValueOf
  <2>6. to.wires \in [1 .. n -> BOOLEAN]
    BY <1>5 DEF States
  <2> QED BY <2>3, <2>4, <2>5, <2>6
<1> QED BY <1>4, <1>8, <1>11, <1>12, <1>13

BackMade == phase \in {"lowered", "applied"} => back = ToBoolar(rc)

(* What to_boolar_circuit makes of a reversible circuit, embedded or given,*)
(* computes from any contents of wires and storage what the circuit does,  *)
(* every wire and every cell.                                              *)
THEOREM LedBackComputes == Spec => []LedBack
<1>1. Init => BackMade
  BY DEF Init, BackMade
<1>2. ASSUME BackMade, [Next]_vars PROVE BackMade'
  <2>1. CASE SynthesizeStmt \/ Refuse \/ Panic
    <3>1. phase' \in {"synth", "refused", "panic"}
      BY <2>1 DEF SynthesizeStmt, Refuse, Panic, InStmt, Synthesizing
    <3> QED BY <3>1 DEF BackMade
  <2>2. CASE CompactAndCopy \/ harden
    <3>1. phase' \in {"panic", "harden", "ready"}
      BY <2>2 DEF CompactAndCopy, harden
    <3> QED BY <3>1 DEF BackMade
  <2>3. CASE to_boolar_circuit
    <3>1. back' = ToBoolar(rc) /\ rc' = rc
      BY <2>3 DEF to_boolar_circuit
    <3> QED BY <3>1 DEF BackMade
  <2>4. CASE ApplyCircuit
    <3>1. back' = back /\ rc' = rc /\ phase = "lowered"
      BY <2>4 DEF ApplyCircuit
    <3> QED BY <1>2, <3>1 DEF BackMade
  <2>5. CASE UNCHANGED vars
    <3>1. back' = back /\ rc' = rc /\ phase' = phase
      BY <2>5 DEF vars
    <3> QED BY <1>2, <3>1 DEF BackMade
  <2> QED BY <1>2, <2>1, <2>2, <2>3, <2>4, <2>5 DEF Next
<1>3. RInv /\ BackMade => LedBack
  <2> SUFFICES ASSUME RInv, BackMade, phase = "applied"
               PROVE  Result(back, start.wires, start.mem) = [out |-> end.wires, mem |-> end.mem]
    BY DEF LedBack
  <2>1. rc.n \in Nat /\ rc.gates \in Seq(Gates) /\ validate(rc.n, rc.gates) /\ start \in States(rc.n)
        /\ end = apply(rc.gates, start)
    BY DEF RInv, WiresTyped, Valid, RunDone
  <2>2. back = ToBoolar(rc)
    BY DEF BackMade
  <2> QED BY <2>1, <2>2, SameResult
<1> QED BY <1>1, <1>2, <1>3, Invariance, PTL DEF Spec

-----------------------------------------------------------------------------
(* What sequences of gates do.                                             *)

(* The members of a sequence.                                              *)
LEMMA RangeMember ==
  ASSUME NEW S, NEW seq \in Seq(S), NEW v
  PROVE  v \in Range(seq) <=> \E k \in 1 .. Len(seq) : seq[k] = v
BY DEF Range

(* One gate.                                                               *)
LEMMA RunOne ==
  ASSUME NEW st, NEW x
  PROVE  Run!Fold(st, <<x>>) = Applied(st, x)
<1>1. PICK seq : seq = <<x>>
  OBVIOUS
<1>2. Len(seq) = 1 /\ seq[1] = x
  BY <1>1
<1>3. Run!Walk(st, seq)[0] = st /\ Run!Walk(st, seq)[1] = Applied(Run!Walk(st, seq)[1 - 1], seq[1])
  <2>1. Len(seq) \in Nat /\ 1 \in 1 .. Len(seq)
    BY <1>2
  <2> QED BY <2>1, Run!WalkSteps
<1> QED BY <1>1, <1>2, <1>3 DEF Run!Fold

(* Gates after other gates.                                                *)
LEMMA RunConcat ==
  ASSUME NEW st, NEW s \in Seq(Gates), NEW t \in Seq(Gates)
  PROVE  Run!Fold(st, s \o t) = Run!Fold(Run!Fold(st, s), t)
<1>1. PICK m \in Nat, n \in Nat : m = Len(s) /\ n = Len(t)
  OBVIOUS
<1>2. PICK long : long = s \o t
  OBVIOUS
<1>3. /\ Len(long) = m + n
      /\ \A k \in 1 .. m : long[k] = s[k]
      /\ \A k \in 1 .. n : long[m + k] = t[k]
  BY <1>1, <1>2
<1>4. PICK u : u = Run!Walk(st, long)
  OBVIOUS
<1>5. PICK v : v = Run!Walk(st, s)
  OBVIOUS
<1>6. PICK w : w = Run!Walk(v[m], t)
  OBVIOUS
<1>7. u[0] = st /\ \A k \in 1 .. m + n : u[k] = Applied(u[k - 1], long[k])
  BY Run!WalkSteps, <1>1, <1>3, <1>4
<1>8. v[0] = st /\ \A k \in 1 .. m : v[k] = Applied(v[k - 1], s[k])
  BY Run!WalkSteps, <1>1, <1>5
<1>9. w[0] = v[m] /\ \A k \in 1 .. n : w[k] = Applied(w[k - 1], t[k])
  BY Run!WalkSteps, <1>1, <1>6
<1>10. \A k \in 0 .. m : u[k] = v[k]
  <2> DEFINE T == {k \in 0 .. m : u[k] = v[k]}
  <2>1. 0 \in T
    BY <1>7, <1>8
  <2>2. ASSUME NEW k \in 0 .. m - 1, k \in T PROVE k + 1 \in T
    <3>1. k + 1 \in 1 .. m /\ k + 1 \in 1 .. m + n /\ (k + 1) - 1 = k
      BY <1>1
    <3>2. u[k + 1] = Applied(u[k], long[k + 1]) /\ v[k + 1] = Applied(v[k], s[k + 1])
      BY <1>7, <1>8, <3>1
    <3> QED BY <1>3, <2>2, <3>1, <3>2
  <2>3. \A k \in 0 .. m : k \in T
    <3> HIDE DEF T
    <3>1. \A k \in 0 .. m - 1 : k \in T => k + 1 \in T
      BY <2>2
    <3> QED BY <2>1, <3>1, Run!UpTo, Zenon
  <2> QED BY <2>3
<1>11. \A k \in 0 .. n : u[m + k] = w[k]
  <2> DEFINE T == {k \in 0 .. n : u[m + k] = w[k]}
  <2>1. 0 \in T
    BY <1>9, <1>10
  <2>2. ASSUME NEW k \in 0 .. n - 1, k \in T PROVE k + 1 \in T
    <3>1. k + 1 \in 1 .. n /\ m + (k + 1) \in 1 .. m + n /\ (k + 1) - 1 = k /\ (m + (k + 1)) - 1 = m + k
      BY <1>1
    <3>2. u[m + (k + 1)] = Applied(u[m + k], long[m + (k + 1)]) /\ w[k + 1] = Applied(w[k], t[k + 1])
      BY <1>7, <1>9, <3>1
    <3> QED BY <1>3, <2>2, <3>1, <3>2
  <2>3. \A k \in 0 .. n : k \in T
    <3> HIDE DEF T
    <3>1. \A k \in 0 .. n - 1 : k \in T => k + 1 \in T
      BY <2>2
    <3> QED BY <2>1, <3>1, Run!UpTo, Zenon
  <2> QED BY <2>3
<1>12. Run!Fold(st, long) = u[m + n] /\ Run!Fold(st, s) = v[m] /\ Run!Fold(v[m], t) = w[n]
  BY <1>1, <1>3, <1>4, <1>5, <1>6 DEF Run!Fold
<1>13. u[m + n] = w[n]
  BY <1>11
<1> QED BY <1>2, <1>12, <1>13

(* Two gates.                                                              *)
LEMMA RunTwo ==
  ASSUME NEW st, NEW a, NEW b
  PROVE  Run!Fold(st, <<a, b>>) = Applied(Applied(st, a), b)
<1> DEFINE S == {a, b}
<1>1. PICK one, two : one = <<a>> /\ two = <<a, b>>
  OBVIOUS
<1>2. one \in Seq(S) /\ b \in S /\ two = Append(one, b)
  BY <1>1
<1> HIDE DEF S
<1>3. Run!Fold(st, two) = Applied(Run!Fold(st, one), b)
  BY <1>2, Run!FoldAppend
<1> QED BY <1>1, <1>3, RunOne

(* Three gates.                                                            *)
LEMMA RunThree ==
  ASSUME NEW st, NEW a, NEW b, NEW c
  PROVE  Run!Fold(st, <<a, b, c>>) = Applied(Applied(Applied(st, a), b), c)
<1> DEFINE S == {a, b, c}
<1>1. PICK two, three : two = <<a, b>> /\ three = <<a, b, c>>
  OBVIOUS
<1>2. two \in Seq(S) /\ c \in S /\ three = Append(two, c)
  BY <1>1
<1> HIDE DEF S
<1>3. Run!Fold(st, three) = Applied(Run!Fold(st, two), c)
  BY <1>2, Run!FoldAppend
<1> QED BY <1>1, <1>3, RunTwo

(* Four gates.                                                             *)
LEMMA RunFour ==
  ASSUME NEW st, NEW a, NEW b, NEW c, NEW d
  PROVE  Run!Fold(st, <<a, b, c, d>>) = Applied(Applied(Applied(Applied(st, a), b), c), d)
<1> DEFINE S == {a, b, c, d}
<1>1. PICK three, four : three = <<a, b, c>> /\ four = <<a, b, c, d>>
  OBVIOUS
<1>2. three \in Seq(S) /\ d \in S /\ four = Append(three, d)
  BY <1>1
<1> HIDE DEF S
<1>3. Run!Fold(st, four) = Applied(Run!Fold(st, three), d)
  BY <1>2, Run!FoldAppend
<1> QED BY <1>1, <1>3, RunThree

-----------------------------------------------------------------------------
(* What gates do to a state.                                               *)

(* Wire t is toggled if bit is set, and nothing else changes.              *)
Toggles(n, st, t, bit, now) ==
  /\ now \in States(n) /\ now.mem = st.mem
  /\ bit \in BOOLEAN /\ now.wires[t] = (st.wires[t] # bit)
  /\ \A w \in 1 .. n : w # t => now.wires[w] = st.wires[w]

(* The parts of a state.                                                   *)
LEMMA StateParts ==
  ASSUME NEW n, NEW st \in States(n)
  PROVE  /\ st.wires \in [1 .. n -> BOOLEAN] /\ st.mem \in SUBSET Cells
         /\ \A w \in 1 .. n : st.wires[w] \in BOOLEAN
         /\ st = [wires |-> st.wires, mem |-> st.mem]
BY DEF States

(* The gates that toggle their target.                                     *)
LEMMA BitToggles ==
  ASSUME NEW n \in Nat, NEW st \in States(n), NEW g, g.op \in {"Toggle", "XorLut2", "ExternalXor"}, g.target \in 1 .. n
  PROVE  Toggles(n, st, g.target, BitOf(g, st.wires), Applied(st, g))
<1>1. PICK bit \in BOOLEAN : bit = BitOf(g, st.wires)
  BY FlipApplied
<1>2. PICK now : now = Applied(st, g)
  OBVIOUS
<1>3. now = [wires |-> FlipWire(st.wires, g.target, bit), mem |-> st.mem]
  BY <1>1, <1>2, FlipApplied DEF Applied
<1>4. PICK u \in [1 .. n -> BOOLEAN] : /\ u = FlipWire(st.wires, g.target, bit)
                                       /\ u[g.target] = (st.wires[g.target] # bit)
                                       /\ \A w \in 1 .. n : w # g.target => u[w] = st.wires[w]
  <2>1. st.wires \in [1 .. n -> BOOLEAN]
    BY StateParts
  <2>2. PICK u : u = FlipWire(st.wires, g.target, bit)
    OBVIOUS
  <2>3. u \in [1 .. n -> BOOLEAN] /\ \A w \in 1 .. n : w # g.target => u[w] = st.wires[w]
    BY <2>1, <2>2 DEF FlipWire
  <2>4. u[g.target] = (st.wires[g.target] # bit)
    BY <2>1, <2>2 DEF FlipWire
  <2> QED BY <2>2, <2>3, <2>4
<1>5. now \in States(n) /\ now.wires = u /\ now.mem = st.mem
  BY <1>3, <1>4, StateParts DEF States
<1> QED BY <1>1, <1>2, <1>4, <1>5 DEF Toggles

(* X, CNOT and Toffoli gates.                                              *)
LEMMA GateToggles ==
  ASSUME NEW n \in Nat, NEW st \in States(n), NEW t \in 1 .. n, NEW c \in 1 .. n, NEW d \in 1 .. n
  PROVE  /\ Toggles(n, st, t, TRUE, Applied(st, X(t)))
         /\ Toggles(n, st, t, st.wires[c], Applied(st, Cnot(c, t)))
         /\ Toggles(n, st, t, st.wires[c] /\ st.wires[d], Applied(st, Ccnot(c, d, t)))
<1>1. PICK u \in [1 .. n -> BOOLEAN] : u = st.wires
  BY StateParts
<1>2. /\ X(t).op = "Toggle" /\ X(t).target = t /\ X(t).args = << >>
      /\ Cnot(c, t).op = "Toggle" /\ Cnot(c, t).target = t /\ Cnot(c, t).args = <<c>>
      /\ Ccnot(c, d, t).op = "Toggle" /\ Ccnot(c, d, t).target = t /\ Ccnot(c, d, t).args = <<c, d>>
  BY DEF X, Cnot, Ccnot, Toggle, Gate
<1>3. BitOf(X(t), u) = TRUE
  <2>1. Reads(<< >>, u) = << >>
    BY DEF Reads, MapSeq
  <2>2. \A k \in 1 .. Len(<< >>) : << >>[k]
    OBVIOUS
  <2> QED BY <1>2, <2>1, <2>2 DEF BitOf
<1>4. BitOf(Cnot(c, t), u) = u[c]
  <2>1. PICK s : s = Reads(<<c>>, u)
    OBVIOUS
  <2>2. Len(s) = 1 /\ s[1] = u[c]
    BY <2>1, ReadsOne DEF Reads, MapSeq
  <2>3. BitOf(Cnot(c, t), u) = \A k \in 1 .. Len(s) : s[k]
    BY <1>2, <2>1 DEF BitOf
  <2>4. CASE u[c] = TRUE
    <3>1. \A k \in 1 .. Len(s) : s[k] = TRUE
      <4>1. 1 .. Len(s) = {1}
        BY <2>2
      <4> QED BY <2>2, <2>4, <4>1, Zenon
    <3> QED BY <2>3, <2>4, <3>1
  <2>5. CASE u[c] = FALSE
    <3>1. 1 \in 1 .. Len(s) /\ s[1] = FALSE
      BY <2>2, <2>5
    <3> QED BY <2>3, <2>5, <3>1
  <2> QED BY <2>4, <2>5
<1>5. BitOf(Ccnot(c, d, t), u) = (u[c] /\ u[d])
  <2>1. PICK s : s = Reads(<<c, d>>, u)
    OBVIOUS
  <2>2. Len(s) = 2 /\ s[1] = u[c] /\ s[2] = u[d]
    BY <2>1, ReadsTwo DEF Reads, MapSeq
  <2>3. BitOf(Ccnot(c, d, t), u) = \A k \in 1 .. Len(s) : s[k]
    BY <1>2, <2>1 DEF BitOf
  <2>4. CASE u[c] = TRUE /\ u[d] = TRUE
    <3>1. \A k \in 1 .. Len(s) : s[k] = TRUE
      <4>1. 1 .. Len(s) = {1, 2}
        BY <2>2
      <4> QED BY <2>2, <2>4, <4>1, Zenon
    <3> QED BY <2>3, <2>4, <3>1
  <2>5. CASE u[c] = FALSE \/ u[d] = FALSE
    <3>1. \E k \in 1 .. Len(s) : s[k] = FALSE
      BY <2>2, <2>5
    <3> QED BY <2>3, <2>5, <3>1
  <2> QED BY <2>4, <2>5
<1>6. Toggles(n, st, t, BitOf(X(t), u), Applied(st, X(t)))
  BY <1>1, <1>2, BitToggles
<1>7. Toggles(n, st, t, BitOf(Cnot(c, t), u), Applied(st, Cnot(c, t)))
  BY <1>1, <1>2, BitToggles
<1>8. Toggles(n, st, t, BitOf(Ccnot(c, d, t), u), Applied(st, Ccnot(c, d, t)))
  BY <1>1, <1>2, BitToggles
<1> QED BY <1>1, <1>3, <1>4, <1>5, <1>6, <1>7, <1>8

-----------------------------------------------------------------------------
(* Gates on some of the wires.                                             *)

(* Gate g is one of those that synthesis makes, on wires in W.             *)
GateOn(W, g) ==
  /\ g \in Gates /\ g.op # "XorLut2"
  /\ \A k \in 1 .. Len(g.args) : g.args[k] \in W /\ (g.op # "ExternalStorageXor" => g.args[k] # g.target)
  /\ \A k \in 1 .. Len(g.addr) : g.addr[k] \in W /\ (g.op # "ExternalStorageXor" => g.addr[k] # g.target)
  /\ g.op # "ExternalStorageXor" => g.target \in W

GatesOn(W, gates) == gates \in Seq(Gates) /\ \A k \in 1 .. Len(gates) : GateOn(W, gates[k])

(* The parts of a gate.                                                    *)
LEMMA GateParts ==
  ASSUME NEW g \in Gates
  PROVE  /\ g.op \in GateOps /\ g.args \in Seq(Nat) /\ g.addr \in Seq(Nat) /\ GateShape(g)
         /\ g.target \in Nat /\ g.lane \in Nat /\ g.occurrence \in Nat
         /\ Len(g.args) \in Nat /\ Len(g.addr) \in Nat
BY DEF Gates

(* Such gates are valid.                                                   *)
LEMMA OnValid ==
  ASSUME NEW n \in Nat, NEW W \in SUBSET (1 .. n), NEW g, GateOn(W, g)
  PROVE  validate_gate_at(n, g)
<1>1. g.args \in Seq(Nat) /\ g.addr \in Seq(Nat)
  BY GateParts DEF GateOn
<1>2. \A w \in Range(g.args) : w \in W /\ (g.op # "ExternalStorageXor" => w # g.target)
  BY <1>1, RangeMember DEF GateOn
<1>3. \A w \in Range(g.addr) : w \in W /\ (g.op # "ExternalStorageXor" => w # g.target)
  BY <1>1, RangeMember DEF GateOn
<1> QED BY <1>2, <1>3 DEF validate_gate_at, GateOn

(* Sequences of them, too.                                                 *)
LEMMA AllValid ==
  ASSUME NEW n \in Nat, NEW W \in SUBSET (1 .. n), NEW gates, GatesOn(W, gates)
  PROVE  gates \in Seq(Gates) /\ validate(n, gates)
BY OnValid DEF GatesOn, validate

(* More wires.                                                             *)
LEMMA OnMore ==
  ASSUME NEW W, NEW V, W \subseteq V, NEW gates, GatesOn(W, gates)
  PROVE  GatesOn(V, gates)
BY DEF GatesOn, GateOn

(* Sequences put together and turned round.                                *)
LEMMA OnConcat ==
  ASSUME NEW W, NEW s, NEW t, GatesOn(W, s), GatesOn(W, t)
  PROVE  GatesOn(W, s \o t)
<1>1. PICK a \in Seq(Gates), b \in Seq(Gates) : a = s /\ b = t
  BY DEF GatesOn
<1>2. PICK long : long = a \o b
  OBVIOUS
<1>3. PICK m \in Nat, n \in Nat : m = Len(a) /\ n = Len(b)
  OBVIOUS
<1>4. /\ long \in Seq(Gates) /\ Len(long) = m + n
      /\ \A k \in 1 .. m : long[k] = a[k]
      /\ \A k \in m + 1 .. m + n : long[k] = b[k - m]
  BY <1>2, <1>3
<1>5. ASSUME NEW k \in 1 .. m + n PROVE GateOn(W, long[k])
  <2>1. CASE k <= m
    <3>1. k \in 1 .. m
      BY <1>3, <2>1
    <3> QED BY <1>1, <1>3, <1>4, <3>1 DEF GatesOn
  <2>2. CASE k > m
    <3>1. k \in m + 1 .. m + n /\ k - m \in 1 .. n
      BY <1>3, <2>2
    <3> QED BY <1>1, <1>3, <1>4, <3>1 DEF GatesOn
  <2> QED BY <1>3, <2>1, <2>2
<1> QED BY <1>1, <1>2, <1>4, <1>5 DEF GatesOn

(* Gates on some wires, in reverse order.                                  *)
LEMMA OnReverse ==
  ASSUME NEW W, NEW s, GatesOn(W, s)
  PROVE  GatesOn(W, Reverse(s))
<1>1. PICK a \in Seq(Gates) : a = s
  BY DEF GatesOn
<1>2. PICK m \in Nat : m = Len(a)
  OBVIOUS
<1>3. PICK r : r = Reverse(a)
  OBVIOUS
<1>4. r \in Seq(Gates) /\ Len(r) = m
  BY <1>1, <1>2, <1>3, ReverseTyped
<1>5. \A k \in 1 .. m : r[k] = a[m - k + 1] /\ m - k + 1 \in 1 .. m
  <2>1. \A k \in 1 .. m : r[k] = a[(m - k) + 1]
    BY <1>2, <1>3 DEF Reverse
  <2> QED BY <2>1
<1> QED BY <1>1, <1>2, <1>3, <1>4, <1>5 DEF GatesOn

-----------------------------------------------------------------------------
(* Gates with their wires renamed.                                         *)

(* Gate h is gate g, with r of each wire.                                  *)
Like(r, g, h) ==
  /\ h.op = g.op /\ h.lane = g.lane /\ h.occurrence = g.occurrence
  /\ Len(h.args) = Len(g.args) /\ \A k \in 1 .. Len(g.args) : h.args[k] = r[g.args[k]]
  /\ Len(h.addr) = Len(g.addr) /\ \A k \in 1 .. Len(g.addr) : h.addr[k] = r[g.addr[k]]
  /\ g.op # "ExternalStorageXor" => h.target = r[g.target]

Injective(r, W, V) == r \in [W -> V] /\ \A u, v \in W : r[u] = r[v] => u = v

(* State b has on the new wires what a has on the old ones.                *)
SameOn(r, W, a, b) == b.mem = a.mem /\ \A w \in W : b.wires[r[w]] = a.wires[w]

Related(n, m, W, r, a, b) ==
  W \in SUBSET (1 .. n) /\ Injective(r, W, 1 .. m) /\ a \in States(n) /\ b \in States(m) /\ SameOn(r, W, a, b)

(* Wires that are not among the new ones keep what they hold.              *)
RestKept(r, W, m, b, c) == \A w \in 1 .. m : (\A u \in W : r[u] # w) => c.wires[w] = b.wires[w]

(* The renamed gate is one on the new wires.                               *)
LEMMA LikeOn ==
  ASSUME NEW W, NEW V, NEW r, Injective(r, W, V), NEW g, GateOn(W, g), NEW h \in Gates, Like(r, g, h)
  PROVE  GateOn(V, h)
<1>1. \A k \in 1 .. Len(g.args) : h.args[k] \in V /\ (g.op # "ExternalStorageXor" => h.args[k] # h.target)
  BY DEF GateOn, Like, Injective
<1>2. \A k \in 1 .. Len(g.addr) : h.addr[k] \in V /\ (g.op # "ExternalStorageXor" => h.addr[k] # h.target)
  BY DEF GateOn, Like, Injective
<1>3. h.op # "XorLut2" /\ (h.op # "ExternalStorageXor" => h.target \in V)
  BY DEF GateOn, Like, Injective
<1> QED BY <1>1, <1>2, <1>3 DEF GateOn, Like

(* One gate.                                                               *)
LEMMA GateLike ==
  ASSUME NEW n \in Nat, NEW m \in Nat, NEW W, NEW r, NEW a, NEW b, Related(n, m, W, r, a, b),
         NEW g, GateOn(W, g), NEW h \in Gates, Like(r, g, h)
  PROVE  Related(n, m, W, r, Applied(a, g), Applied(b, h)) /\ RestKept(r, W, m, b, Applied(b, h))
<1>10. W \in SUBSET (1 .. n) /\ Injective(r, W, 1 .. m) /\ a \in States(n) /\ b \in States(m) /\ SameOn(r, W, a, b)
  BY DEF Related
<1>11. SUFFICES /\ Applied(a, g) \in States(n) /\ Applied(b, h) \in States(m)
                /\ SameOn(r, W, Applied(a, g), Applied(b, h))
                /\ RestKept(r, W, m, b, Applied(b, h))
  BY <1>10 DEF Related
<1>1. PICK to, now : to = Applied(a, g) /\ now = Applied(b, h)
  OBVIOUS
<1>2. g \in Gates /\ g.op \in GateOps \ {"XorLut2"} /\ GateOn(1 .. m, h)
  <2>1. g \in Gates /\ g.op # "XorLut2"
    BY DEF GateOn
  <2>2. g.op \in GateOps
    BY <2>1, GateParts
  <2>3. GateOn(1 .. m, h)
    BY <1>10, LikeOn
  <2> QED BY <2>1, <2>2, <2>3
<1>3. to \in States(n) /\ now \in States(m)
  <2>1. validate_gate_at(n, g) /\ validate_gate_at(m, h)
    BY <1>2, <1>10, OnValid
  <2> QED BY <1>1, <1>2, <1>10, <2>1, GateTyped DEF Applied
<1>4. Reads(h.args, b.wires) = Reads(g.args, a.wires) /\ Reads(h.addr, b.wires) = Reads(g.addr, a.wires)
  <2>1. PICK u, v : u = a.wires /\ v = b.wires /\ \A w \in W : v[r[w]] = u[w]
    BY <1>10 DEF SameOn
  <2>2. Len(h.args) = Len(g.args) /\ \A k \in 1 .. Len(g.args) : g.args[k] \in W /\ h.args[k] = r[g.args[k]]
    BY DEF GateOn, Like
  <2>3. Len(h.addr) = Len(g.addr) /\ \A k \in 1 .. Len(g.addr) : g.addr[k] \in W /\ h.addr[k] = r[g.addr[k]]
    BY DEF GateOn, Like
  <2>4. \A k \in 1 .. Len(g.args) : v[h.args[k]] = u[g.args[k]]
    BY <2>1, <2>2
  <2>5. \A k \in 1 .. Len(g.addr) : v[h.addr[k]] = u[g.addr[k]]
    BY <2>1, <2>3
  <2>6. Reads(h.args, v) = Reads(g.args, u)
    BY <2>2, <2>4 DEF Reads, MapSeq
  <2>7. Reads(h.addr, v) = Reads(g.addr, u)
    BY <2>3, <2>5 DEF Reads, MapSeq
  <2> QED BY <2>1, <2>6, <2>7
<1>5. CellOf(h, b.wires) = CellOf(g, a.wires)
  BY <1>4 DEF CellOf, Like
<1>6. /\ a.mem = b.mem
      /\ \A w \in W : w \in 1 .. n /\ r[w] \in 1 .. m /\ b.wires[r[w]] = a.wires[w]
      /\ \A u, v \in W : r[u] = r[v] => u = v
  BY <1>10 DEF SameOn, Injective
<1>7. CASE g.op \in {"Toggle", "ExternalXor"}
  <2>1. PICK t, x : t = g.target /\ x = h.target /\ t \in W /\ x = r[t]
    BY <1>7 DEF GateOn, Like
  <2>2. BitOf(h, b.wires) = BitOf(g, a.wires)
    BY <1>4, <1>7 DEF BitOf, Like
  <2>3. Toggles(n, a, t, BitOf(g, a.wires), to) /\ Toggles(m, b, x, BitOf(g, a.wires), now)
    <3>1. g.target \in 1 .. n /\ h.target \in 1 .. m /\ h.op \in {"Toggle", "XorLut2", "ExternalXor"} /\ g.op \in {"Toggle", "XorLut2", "ExternalXor"}
      BY <1>6, <1>7, <2>1 DEF Like
    <3>2. Toggles(n, a, g.target, BitOf(g, a.wires), Applied(a, g))
      BY <1>10, <3>1, BitToggles
    <3>3. Toggles(m, b, h.target, BitOf(h, b.wires), Applied(b, h))
      BY <1>10, <3>1, BitToggles
    <3> QED BY <1>1, <2>1, <2>2, <3>2, <3>3
  <2>4. now.mem = to.mem
    BY <1>6, <2>3 DEF Toggles
  <2>5. ASSUME NEW w \in W PROVE now.wires[r[w]] = to.wires[w]
    <3>1. PICK bit : bit = BitOf(g, a.wires)
      OBVIOUS
    <3>2. /\ to.wires[t] = (a.wires[t] # bit) /\ now.wires[x] = (b.wires[x] # bit)
          /\ \A k \in 1 .. n : k # t => to.wires[k] = a.wires[k]
          /\ \A k \in 1 .. m : k # x => now.wires[k] = b.wires[k]
      BY <2>3, <3>1 DEF Toggles
    <3>3. CASE w = t
      <4>1. b.wires[x] = a.wires[t]
        BY <1>6, <2>1
      <4> QED BY <2>1, <3>2, <3>3, <4>1
    <3>4. CASE w # t
      <4>1. r[w] # x /\ r[w] \in 1 .. m /\ w \in 1 .. n /\ b.wires[r[w]] = a.wires[w]
        BY <1>6, <2>1, <3>4
      <4> QED BY <3>2, <3>4, <4>1
    <3> QED BY <3>3, <3>4
  <2>6. RestKept(r, W, m, b, now)
    BY <2>1, <2>3 DEF RestKept, Toggles
  <2> QED BY <1>1, <1>3, <2>4, <2>5, <2>6 DEF SameOn
<1>8. CASE g.op = "StorageSwap"
  <2>1. PICK t, x : t = g.target /\ x = h.target /\ t \in W /\ x = r[t] /\ t \in 1 .. n /\ x \in 1 .. m
    BY <1>6, <1>8 DEF GateOn, Like
  <2>2. PICK cell : cell = CellOf(g, a.wires) /\ cell = CellOf(h, b.wires)
    BY <1>5
  <2>3. PICK held \in BOOLEAN : /\ held <=> cell \in a.mem
                                /\ to = [wires |-> [a.wires EXCEPT ![t] = held], mem |-> Stored(a.mem, cell, a.wires[t])]
    BY <1>1, <1>8, <2>1, <2>2, SwapApplied DEF Applied
  <2>4. PICK seen \in BOOLEAN : /\ seen <=> cell \in b.mem
                                /\ now = [wires |-> [b.wires EXCEPT ![x] = seen], mem |-> Stored(b.mem, cell, b.wires[x])]
    <3>1. h.op = "StorageSwap"
      BY <1>8 DEF Like
    <3> QED BY <1>1, <2>1, <2>2, <3>1, SwapApplied DEF Applied
  <2>5. seen = held
    BY <1>6, <2>3, <2>4
  <2>6. now.mem = to.mem
    BY <1>6, <2>1, <2>3, <2>4
  <2>7. /\ to.wires[t] = held /\ \A w \in 1 .. n : w # t => to.wires[w] = a.wires[w]
        /\ now.wires[x] = held /\ \A w \in 1 .. m : w # x => now.wires[w] = b.wires[w]
    BY <2>1, <2>3, <2>4, <2>5, <1>10, StateParts
  <2>8. ASSUME NEW w \in W PROVE now.wires[r[w]] = to.wires[w]
    <3>1. CASE w = t
      <4>1. r[w] = x
        BY <2>1, <3>1
      <4> QED BY <2>7, <3>1, <4>1
    <3>2. CASE w # t
      <4>1. r[w] # x /\ r[w] \in 1 .. m /\ w \in 1 .. n /\ b.wires[r[w]] = a.wires[w]
        BY <1>6, <2>1, <3>2
      <4>2. now.wires[r[w]] = b.wires[r[w]] /\ to.wires[w] = a.wires[w]
        BY <2>7, <3>2, <4>1
      <4> QED BY <4>1, <4>2
    <3> QED BY <3>1, <3>2
  <2>9. RestKept(r, W, m, b, now)
    BY <2>1, <2>7 DEF RestKept
  <2> QED BY <1>1, <1>3, <2>6, <2>8, <2>9 DEF SameOn
<1>9. CASE g.op = "ExternalStorageXor"
  <2>1. h.op = "ExternalStorageXor"
    BY <1>9 DEF Like
  <2>2. PICK cell, bit : cell = CellOf(g, a.wires) /\ bit = ActionValue(Reads(g.args, a.wires))
    OBVIOUS
  <2>3. to = [wires |-> a.wires, mem |-> Flipped(a.mem, cell, bit)]
    BY <1>1, <1>9, <2>2, StoreApplied DEF Applied
  <2>4. now = [wires |-> b.wires, mem |-> Flipped(b.mem, cell, bit)]
    BY <1>1, <1>4, <1>5, <2>1, <2>2, StoreApplied DEF Applied
  <2> QED BY <1>1, <1>3, <1>6, <2>3, <2>4 DEF SameOn, RestKept
<1> QED BY <1>2, <1>7, <1>8, <1>9 DEF GateOps

LikeAll(r, s, t) == Len(t) = Len(s) /\ \A k \in 1 .. Len(s) : Like(r, s[k], t[k])

(* One gate after the other.                                               *)
LEMMA RunLike ==
  ASSUME NEW n \in Nat, NEW m \in Nat, NEW W, NEW r, NEW a, NEW b, Related(n, m, W, r, a, b),
         NEW s, GatesOn(W, s), NEW t \in Seq(Gates), LikeAll(r, s, t)
  PROVE  Related(n, m, W, r, Run!Fold(a, s), Run!Fold(b, t)) /\ RestKept(r, W, m, b, Run!Fold(b, t))
<1>1. PICK N \in Nat : N = Len(s) /\ N = Len(t)
  BY DEF LikeAll, GatesOn
<1>2. PICK u, v : u = Run!Walk(a, s) /\ v = Run!Walk(b, t)
  OBVIOUS
<1>3. u[0] = a /\ \A k \in 1 .. N : u[k] = Applied(u[k - 1], s[k])
  <2>1. PICK seq \in Seq(Gates) : seq = s
    BY DEF GatesOn
  <2>2. Len(seq) = N /\ u = Run!Walk(a, seq)
    BY <1>1, <1>2, <2>1
  <2>3. u[0] = a /\ \A k \in 1 .. N : u[k] = Applied(u[k - 1], seq[k])
    BY <2>2, Run!WalkSteps
  <2> QED BY <2>1, <2>3
<1>4. v[0] = b /\ \A k \in 1 .. N : v[k] = Applied(v[k - 1], t[k])
  BY <1>1, <1>2, Run!WalkSteps
<1> DEFINE Fine(k) == Related(n, m, W, r, u[k], v[k]) /\ RestKept(r, W, m, b, v[k])
           T == {k \in 0 .. N : Fine(k)}
<1>5. 0 \in T
  BY <1>3, <1>4 DEF RestKept
<1>6. ASSUME NEW k \in 0 .. N - 1, k \in T PROVE k + 1 \in T
  <2>1. k + 1 \in 1 .. N /\ (k + 1) - 1 = k
    BY <1>1
  <2>2. PICK c, d : c = u[k] /\ d = v[k] /\ Related(n, m, W, r, c, d) /\ RestKept(r, W, m, b, d)
    BY <1>6
  <2>3. u[k + 1] = Applied(c, s[k + 1]) /\ v[k + 1] = Applied(d, t[k + 1])
    BY <1>3, <1>4, <2>1, <2>2
  <2>4. PICK g, h : g = s[k + 1] /\ h = t[k + 1]
    OBVIOUS
  <2>5. GateOn(W, g) /\ h \in Gates /\ Like(r, g, h)
    BY <1>1, <2>1, <2>4 DEF GatesOn, LikeAll
  <2>6. Related(n, m, W, r, Applied(c, g), Applied(d, h)) /\ RestKept(r, W, m, d, Applied(d, h))
    BY <2>2, <2>5, GateLike
  <2>7. RestKept(r, W, m, b, v[k + 1])
    BY <2>2, <2>3, <2>4, <2>6 DEF RestKept
  <2> QED BY <2>1, <2>3, <2>4, <2>6, <2>7
<1>7. N \in T
  <2> HIDE DEF T
  <2>1. \A k \in 0 .. N - 1 : k \in T => k + 1 \in T
    BY <1>6
  <2>2. \A k \in 0 .. N : k \in T
    BY <1>5, <2>1, Run!UpTo, Zenon
  <2> QED BY <1>1, <2>2
<1> QED BY <1>1, <1>2, <1>7 DEF Run!Fold

(* States a and b have the same on wires in W, and the same storage.       *)
Agree(W, a, b) == b.mem = a.mem /\ \A w \in W : b.wires[w] = a.wires[w]
Still(n, W, a, b) == \A w \in (1 .. n) \ W : b.wires[w] = a.wires[w]

(* Gates on wires in W do not notice what is on the others, and leave it.  *)
LEMMA RunApart ==
  ASSUME NEW n \in Nat, NEW W \in SUBSET (1 .. n), NEW s, GatesOn(W, s),
         NEW a \in States(n), NEW b \in States(n), Agree(W, a, b)
  PROVE  /\ Run!Fold(a, s) \in States(n) /\ Run!Fold(b, s) \in States(n)
         /\ Agree(W, Run!Fold(a, s), Run!Fold(b, s)) /\ Still(n, W, b, Run!Fold(b, s))
<1>1. PICK r : r = [w \in W |-> w]
  OBVIOUS
<1>2. Injective(r, W, 1 .. n) /\ \A w \in W : r[w] = w
  BY <1>1 DEF Injective
<1>3. LikeAll(r, s, s)
  BY <1>2 DEF LikeAll, Like, GatesOn, GateOn
<1>4. Related(n, n, W, r, a, b)
  BY <1>2 DEF SameOn, Related, Agree
<1>5. s \in Seq(Gates)
  BY DEF GatesOn
<1>6. Related(n, n, W, r, Run!Fold(a, s), Run!Fold(b, s)) /\ RestKept(r, W, n, b, Run!Fold(b, s))
  BY <1>3, <1>4, <1>5, RunLike
<1>7. Agree(W, Run!Fold(a, s), Run!Fold(b, s)) /\ Still(n, W, b, Run!Fold(b, s))
  BY <1>2, <1>6 DEF SameOn, RestKept, Related, Agree, Still
<1> QED BY <1>6, <1>7 DEF Related

(* A run of gates on wires in W.                                           *)
LEMMA RunOn ==
  ASSUME NEW n \in Nat, NEW W \in SUBSET (1 .. n), NEW s, GatesOn(W, s), NEW a \in States(n)
  PROVE  Run!Fold(a, s) \in States(n) /\ Still(n, W, a, Run!Fold(a, s))
<1>1. Agree(W, a, a)
  BY DEF Agree
<1> QED BY <1>1, RunApart

(* Gates, others on the remaining wires, and the first ones taken back.    *)
LEMMA Conjugated ==
  ASSUME NEW n \in Nat, NEW W \in SUBSET (1 .. n), NEW s, GatesOn(W, s), NEW inner \in Seq(Gates),
         NEW st \in States(n), NEW mid, mid = Run!Fold(st, s),
         NEW now \in States(n), now = Run!Fold(mid, inner), Agree(W, mid, now)
  PROVE  LET to == Run!Fold(st, s \o inner \o Reverse(s))
         IN  to \in States(n) /\ Agree(W, st, to) /\ Still(n, W, now, to)
<1>1. PICK rev \in Seq(Gates) : rev = Reverse(s) /\ GatesOn(W, rev)
  BY OnReverse DEF GatesOn
<1>2. PICK first \in Seq(Gates) : first = s
  BY DEF GatesOn
<1>3. Run!Fold(st, first \o inner \o rev) = Run!Fold(now, rev)
  <2>1. first \o inner \in Seq(Gates)
    OBVIOUS
  <2>2. Run!Fold(st, (first \o inner) \o rev) = Run!Fold(Run!Fold(st, first \o inner), rev)
    BY <2>1, RunConcat
  <2>3. Run!Fold(st, first \o inner) = Run!Fold(Run!Fold(st, first), inner)
    BY RunConcat
  <2> QED BY <1>2, <2>2, <2>3
<1>4. Run!Fold(mid, rev) = st
  <2>1. s \in Seq(Gates) /\ validate(n, s)
    BY AllValid
  <2>2. apply(inverse(s), apply(s, st)) = st
    BY <2>1, BackToStart
  <2> QED BY <1>1, <2>2, ApplyIsFold DEF inverse
<1>5. mid \in States(n)
  BY RunOn
<1>6. /\ Run!Fold(now, rev) \in States(n)
      /\ Agree(W, Run!Fold(mid, rev), Run!Fold(now, rev)) /\ Still(n, W, now, Run!Fold(now, rev))
  BY <1>1, <1>5, RunApart
<1> QED BY <1>1, <1>2, <1>3, <1>4, <1>6

-----------------------------------------------------------------------------
(* What is added to the outputs.                                           *)

(* One gate for each wire after base, with controls elsewhere.             *)
Adders(n, base, M) ==
  /\ M \in Seq(Gates) /\ base + Len(M) <= n
  /\ \A k \in 1 .. Len(M) :
       /\ M[k].op = "Toggle" /\ M[k].target = base + k
       /\ \A j \in 1 .. Len(M[k].args) : M[k].args[j] \in 1 .. n /\ M[k].args[j] \notin base + 1 .. base + Len(M)

(* Each of the first j gates has added its bit; nothing else changes.      *)
Added(n, base, M, st, to, j) ==
  /\ to \in States(n) /\ to.mem = st.mem
  /\ \A w \in 1 .. n : (w <= base \/ w > base + j) => to.wires[w] = st.wires[w]
  /\ \A k \in 1 .. j : to.wires[base + k] = (st.wires[base + k] # BitOf(M[k], st.wires))

(* Each output has its bit added, read before any was.                     *)
LEMMA AddersRun ==
  ASSUME NEW n \in Nat, NEW base \in Nat, NEW M, Adders(n, base, M), NEW st \in States(n)
  PROVE  Added(n, base, M, st, Run!Fold(st, M), Len(M))
<1>1. PICK N \in Nat : N = Len(M) /\ base + N <= n
  BY DEF Adders
<1>2. PICK t : t = Run!Walk(st, M)
  OBVIOUS
<1>3. t[0] = st /\ \A k \in 1 .. N : t[k] = Applied(t[k - 1], M[k])
  <2>1. PICK seq \in Seq(Gates) : seq = M
    BY DEF Adders
  <2>2. Len(seq) = N /\ t = Run!Walk(st, seq)
    BY <1>1, <1>2, <2>1
  <2>3. t[0] = st /\ \A k \in 1 .. N : t[k] = Applied(t[k - 1], seq[k])
    BY <2>2, Run!WalkSteps
  <2> QED BY <2>1, <2>3
<1> DEFINE T == {j \in 0 .. N : Added(n, base, M, st, t[j], j)}
<1>4. 0 \in T
  BY <1>1, <1>3 DEF Added
<1>5. ASSUME NEW j \in 0 .. N - 1, j \in T PROVE j + 1 \in T
  <2>1. j + 1 \in 1 .. N /\ (j + 1) - 1 = j /\ j \in 0 .. N
    BY <1>1
  <2>2. PICK a : a = t[j] /\ Added(n, base, M, st, a, j)
    BY <1>5
  <2>3. PICK g, b : g = M[j + 1] /\ b = Applied(a, g) /\ b = t[j + 1]
    BY <1>3, <2>1, <2>2
  <2>4. /\ g.op = "Toggle" /\ g.target = base + (j + 1)
        /\ \A k \in 1 .. Len(g.args) : g.args[k] \in 1 .. n /\ g.args[k] \notin base + 1 .. base + N
    BY <1>1, <2>1, <2>3 DEF Adders
  <2>5. a \in States(n) /\ g.target \in 1 .. n /\ g.op \in {"Toggle", "XorLut2", "ExternalXor"}
    BY <1>1, <2>1, <2>2, <2>4 DEF Added
  <2>6. BitOf(g, a.wires) = BitOf(g, st.wires)
    <3>1. \A k \in 1 .. Len(g.args) : a.wires[g.args[k]] = st.wires[g.args[k]]
      <4>1. \A w \in 1 .. n : w \notin base + 1 .. base + N => w <= base \/ w > base + j
        BY <1>1, <2>1
      <4> QED BY <2>2, <2>4, <4>1 DEF Added
    <3>2. Reads(g.args, a.wires) = Reads(g.args, st.wires)
      BY <3>1 DEF Reads, MapSeq
    <3> QED BY <3>2 DEF BitOf
  <2>7. PICK bit : bit = BitOf(g, st.wires)
    OBVIOUS
  <2>8. Toggles(n, a, base + (j + 1), bit, b)
    <3>1. Toggles(n, a, g.target, BitOf(g, a.wires), Applied(a, g))
      BY <2>5, BitToggles
    <3> QED BY <2>3, <2>4, <2>6, <2>7, <3>1
  <2>9. ASSUME NEW w \in 1 .. n, w <= base \/ w > base + (j + 1) PROVE b.wires[w] = st.wires[w]
    <3>1. w # base + (j + 1) /\ (w <= base \/ w > base + j)
      BY <2>9, <2>1
    <3>2. b.wires[w] = a.wires[w]
      BY <2>8, <3>1 DEF Toggles
    <3>3. a.wires[w] = st.wires[w]
      BY <2>2, <3>1 DEF Added
    <3> QED BY <3>2, <3>3
  <2>10. ASSUME NEW k \in 1 .. j + 1 PROVE b.wires[base + k] = (st.wires[base + k] # BitOf(M[k], st.wires))
    <3>1. base + k \in 1 .. n
      BY <1>1, <2>1
    <3>2. CASE k = j + 1
      <4>1. b.wires[base + k] = (a.wires[base + k] # bit)
        BY <2>8, <3>2 DEF Toggles
      <4>2. a.wires[base + k] = st.wires[base + k]
        BY <2>2, <3>1, <3>2 DEF Added
      <4> QED BY <2>3, <2>7, <3>2, <4>1, <4>2
    <3>3. CASE k # j + 1
      <4>1. k \in 1 .. j /\ base + k # base + (j + 1)
        BY <2>1, <3>3
      <4>2. b.wires[base + k] = a.wires[base + k]
        BY <2>8, <3>1, <4>1 DEF Toggles
      <4>3. a.wires[base + k] = (st.wires[base + k] # BitOf(M[k], st.wires))
        BY <2>2, <4>1 DEF Added
      <4> QED BY <4>2, <4>3
    <3> QED BY <3>2, <3>3
  <2>11. b \in States(n) /\ b.mem = st.mem
    BY <2>2, <2>8 DEF Added, Toggles
  <2>12. Added(n, base, M, st, b, j + 1)
    BY <2>9, <2>10, <2>11 DEF Added
  <2> QED BY <2>1, <2>3, <2>12
<1>6. N \in T
  <2> HIDE DEF T
  <2>1. \A k \in 0 .. N - 1 : k \in T => k + 1 \in T
    BY <1>5
  <2>2. \A k \in 0 .. N : k \in T
    BY <1>4, <2>1, Run!UpTo, Zenon
  <2> QED BY <1>1, <2>2
<1> QED BY <1>1, <1>2, <1>6 DEF Run!Fold

-----------------------------------------------------------------------------
(* The zero test.                                                          *)

(* Controls, a target and borrowed wires that are all different.           *)
Rungs(n, controls, target, dirty) ==
  /\ controls \in Seq(Nat) /\ dirty \in Seq(Nat) /\ target \in 1 .. n
  /\ \A k \in 1 .. Len(controls) : controls[k] \in 1 .. n /\ controls[k] # target
  /\ \A k \in 1 .. Len(dirty) : dirty[k] \in 1 .. n /\ dirty[k] # target
  /\ \A j, k \in 1 .. Len(dirty) : j # k => dirty[j] # dirty[k]
  /\ \A j \in 1 .. Len(dirty), k \in 1 .. Len(controls) : dirty[j] # controls[k]

Enough(controls, dirty) == Len(controls) >= 3 /\ Len(dirty) = Len(controls) - 2
Ups(controls, dirty, first) == [k \in 1 .. Len(dirty) - first + 1 |-> Rung(controls, dirty, first + k - 1)]

(* The rungs up to m, from st: each borrowed wire has had added the        *)
(* conjunction of the one before and the next control.                     *)
Climbed(n, controls, dirty, first, m, st, to) ==
  /\ to \in States(n) /\ to.mem = st.mem
  /\ \A w \in 1 .. n : (\A i \in first .. m : dirty[i] # w) => to.wires[w] = st.wires[w]
  /\ first = 1 /\ m >= 1 =>
       to.wires[dirty[1]] = (st.wires[dirty[1]] # (st.wires[controls[1]] /\ st.wires[controls[2]]))
  /\ \A i \in first .. m : i >= 2 =>
       to.wires[dirty[i]] = (st.wires[dirty[i]] # (to.wires[dirty[i - 1]] /\ st.wires[controls[i + 1]]))

(* The rungs are gates on all wires but the target.                        *)
LEMMA UpsOn ==
  ASSUME NEW n \in Nat, NEW controls, NEW target, NEW dirty, Rungs(n, controls, target, dirty),
         Enough(controls, dirty), NEW first \in {1, 2}
  PROVE  /\ GatesOn((1 .. n) \ {target}, Ups(controls, dirty, first))
         /\ Len(Ups(controls, dirty, first)) = Len(dirty) - first + 1 /\ Len(dirty) \in Nat \ {0}
<1>1. PICK m \in Nat : m = Len(dirty) /\ Len(controls) = m + 2 /\ m >= 1
  BY DEF Rungs, Enough
<1>2. PICK W : W = (1 .. n) \ {target}
  OBVIOUS
<1>3. ASSUME NEW c \in W, NEW d \in W, NEW t \in W, c # t, d # t PROVE GateOn(W, Ccnot(c, d, t))
  <2>1. Ccnot(c, d, t) \in Gates
    BY <1>2, SimpleTyped
  <2>2. PICK g : g = Ccnot(c, d, t)
    OBVIOUS
  <2>3. g.op = "Toggle" /\ g.args = <<c, d>> /\ g.addr = << >> /\ g.target = t
    BY <2>2 DEF Ccnot, Toggle, Gate
  <2>4. \A k \in 1 .. Len(g.args) : g.args[k] \in W /\ g.args[k] # t
    <3>1. \A k \in 1 .. 2 : k = 1 \/ k = 2
      OBVIOUS
    <3> QED BY <1>3, <2>3, <3>1
  <2> QED BY <2>1, <2>2, <2>3, <2>4 DEF GateOn
<1>4. ASSUME NEW i \in 1 .. m PROVE GateOn(W, Rung(controls, dirty, i))
  <2>1. dirty[i] \in W /\ i + 1 \in 1 .. Len(controls) /\ controls[i + 1] \in W /\ controls[i + 1] # dirty[i]
    BY <1>1, <1>2 DEF Rungs
  <2>2. CASE i = 1
    <3>1. 1 \in 1 .. Len(controls) /\ 2 \in 1 .. Len(controls)
      BY <1>1
    <3>2. controls[1] \in W /\ controls[2] \in W /\ controls[1] # dirty[1] /\ controls[2] # dirty[1]
      BY <1>1, <1>2, <3>1 DEF Rungs
    <3> QED BY <1>3, <2>1, <2>2, <3>2 DEF Rung
  <2>3. CASE i # 1
    <3>1. i - 1 \in 1 .. m /\ i - 1 # i
      BY <1>1, <2>3
    <3>2. dirty[i - 1] \in W /\ dirty[i - 1] # dirty[i]
      BY <1>1, <1>2, <3>1 DEF Rungs
    <3> QED BY <1>3, <2>1, <2>3, <3>2 DEF Rung
  <2> QED BY <2>2, <2>3
<1>5. PICK up : up = Ups(controls, dirty, first)
  OBVIOUS
<1>6. m - first + 1 \in Nat /\ \A k \in 1 .. m - first + 1 : first + k - 1 \in 1 .. m
  BY <1>1
<1>7. up = [k \in 1 .. m - first + 1 |-> Rung(controls, dirty, first + k - 1)]
  BY <1>1, <1>5 DEF Ups
<1>8. Len(up) = m - first + 1 /\ \A k \in 1 .. m - first + 1 : up[k] = Rung(controls, dirty, first + k - 1) /\ GateOn(W, up[k])
  BY <1>4, <1>6, <1>7
<1>9. up \in Seq(Gates)
  <2>1. \A k \in 1 .. m - first + 1 : Rung(controls, dirty, first + k - 1) \in Gates
    BY <1>8 DEF GateOn
  <2> QED BY <1>6, <1>7, <2>1
<1>10. GatesOn(W, up)
  BY <1>8, <1>9 DEF GatesOn
<1> QED BY <1>1, <1>2, <1>5, <1>8, <1>10

(* Going up.                                                               *)
LEMMA ClimbRun ==
  ASSUME NEW n \in Nat, NEW controls, NEW target, NEW dirty, Rungs(n, controls, target, dirty),
         Enough(controls, dirty), NEW first \in {1, 2}, NEW st \in States(n)
  PROVE  Climbed(n, controls, dirty, first, Len(dirty), st, Run!Fold(st, Ups(controls, dirty, first)))
<1>1. PICK m \in Nat : m = Len(dirty) /\ Len(controls) = m + 2 /\ m >= 1
  BY DEF Rungs, Enough
<1>2. PICK up \in Seq(Gates) : up = Ups(controls, dirty, first) /\ Len(up) = Len(dirty) - first + 1
  <2>1. GatesOn((1 .. n) \ {target}, Ups(controls, dirty, first))
    BY UpsOn
  <2>2. Len(Ups(controls, dirty, first)) = Len(dirty) - first + 1
    <3>1. PICK L \in Nat : L = Len(dirty) - first + 1
      <4>1. first = 1 \/ first = 2
        OBVIOUS
      <4>2. m \in Nat /\ m >= 1 /\ Len(dirty) = m
        BY <1>1
      <4>3. Len(dirty) - first + 1 \in Nat
        BY ONLY <4>1, <4>2, SMTT(30)
      <4> QED BY <4>3, Zenon
    <3>2. Ups(controls, dirty, first) = [k \in 1 .. L |-> Rung(controls, dirty, first + k - 1)]
      BY <3>1, Zenon DEF Ups
    <3>3. Len([k \in 1 .. L |-> Rung(controls, dirty, first + k - 1)]) = L
      OBVIOUS
    <3> QED BY <3>1, <3>2, <3>3, Zenon
  <2> QED BY <2>1, <2>2 DEF GatesOn
<1>3. PICK N \in Nat : N = Len(up) /\ N = m - first + 1
  <2>1. m - first + 1 \in Nat
    BY <1>1
  <2> QED BY <1>1, <1>2, <2>1
<1>4. \A k \in 1 .. N : up[k] = Rung(controls, dirty, first + k - 1)
  BY <1>1, <1>2, <1>3 DEF Ups
<1>5. PICK t : t = Run!Walk(st, up)
  OBVIOUS
<1>6. t[0] = st /\ \A k \in 1 .. N : t[k] = Applied(t[k - 1], up[k])
  <2>1. Run!Walk(st, up)[0] = st /\ \A k \in 1 .. Len(up) : Run!Walk(st, up)[k] = Applied(Run!Walk(st, up)[k - 1], up[k])
    <3>1. Len(up) \in Nat
      BY <1>3
    <3> QED BY ONLY <3>1, Run!WalkSteps
  <2> QED BY <1>3, <1>5, <2>1
<1>7. /\ \A i \in 1 .. m : dirty[i] \in 1 .. n
      /\ \A i \in 1 .. m + 2 : controls[i] \in 1 .. n /\ \A j \in 1 .. m : dirty[j] # controls[i]
      /\ \A i, j \in 1 .. m : i # j => dirty[i] # dirty[j]
  BY <1>1 DEF Rungs
<1> DEFINE T == {k \in 0 .. N : Climbed(n, controls, dirty, first, first + k - 1, st, t[k])}
<1>8. 0 \in T
  <2>1. first .. first + 0 - 1 = {} /\ ~(first + 0 - 1 >= 1 /\ first = 1)
    OBVIOUS
  <2> QED BY <1>3, <1>6, <2>1 DEF Climbed
<1>9. ASSUME NEW k \in 0 .. N - 1, k \in T PROVE k + 1 \in T
  <2>1. k + 1 \in 1 .. N /\ (k + 1) - 1 = k /\ k \in 0 .. N
    BY <1>3
  <2>2. PICK i \in 1 .. m : i = first + k /\ i >= first /\ first + (k + 1) - 1 = i /\ first + k - 1 = i - 1
    BY <1>1, <1>3, <2>1
  <2>3. PICK a : a = t[k] /\ Climbed(n, controls, dirty, first, i - 1, st, a)
    BY <1>9, <2>2
  <2>4. PICK b : b = Applied(a, Rung(controls, dirty, i)) /\ b = t[k + 1]
    BY <1>4, <1>6, <2>1, <2>2, <2>3
  <2>5. PICK x \in 1 .. n : x = dirty[i]
    BY <1>7
  <2>6. a \in States(n) /\ a.mem = st.mem
    BY <2>3 DEF Climbed
  <2>7. \A j \in first .. i - 1 : j \in 1 .. m /\ dirty[j] # x
    BY <1>7, <2>2, <2>5
  <2>8. a.wires[x] = st.wires[x] /\ \A j \in 1 .. m + 2 : a.wires[controls[j]] = st.wires[controls[j]]
    BY <1>7, <2>3, <2>5, <2>7 DEF Climbed
  <2>9. i + 1 \in 1 .. m + 2 /\ 1 \in 1 .. m + 2 /\ 2 \in 1 .. m + 2
    BY <1>1
  <2>10. \E bit : /\ Toggles(n, a, x, bit, b)
                  /\ i = 1 => bit = (st.wires[controls[1]] /\ st.wires[controls[2]])
                  /\ i >= 2 => bit = (a.wires[dirty[i - 1]] /\ st.wires[controls[i + 1]])
    <3>1. CASE i = 1
      <4>1. b = Applied(a, Ccnot(controls[1], controls[2], x))
        BY <2>4, <2>5, <3>1 DEF Rung
      <4>2. Toggles(n, a, x, a.wires[controls[1]] /\ a.wires[controls[2]], b)
        BY <1>7, <2>6, <2>9, <4>1, GateToggles
      <4> QED BY <2>8, <2>9, <3>1, <4>2
    <3>2. CASE i # 1
      <4>1. b = Applied(a, Ccnot(dirty[i - 1], controls[i + 1], x))
        BY <2>4, <2>5, <3>2 DEF Rung
      <4>2. i - 1 \in 1 .. m
        BY <1>1, <3>2
      <4>3. Toggles(n, a, x, a.wires[dirty[i - 1]] /\ a.wires[controls[i + 1]], b)
        BY <1>7, <2>6, <2>9, <4>1, <4>2, GateToggles
      <4> QED BY <2>8, <2>9, <3>2, <4>3
    <3> QED BY <3>1, <3>2
  <2>11. PICK bit : /\ Toggles(n, a, x, bit, b)
                    /\ i = 1 => bit = (st.wires[controls[1]] /\ st.wires[controls[2]])
                    /\ i >= 2 => bit = (a.wires[dirty[i - 1]] /\ st.wires[controls[i + 1]])
    BY <2>10
  <2>12. /\ b \in States(n) /\ b.mem = st.mem /\ b.wires[x] = (st.wires[x] # bit)
         /\ \A w \in 1 .. n : w # x => b.wires[w] = a.wires[w]
    BY <2>6, <2>8, <2>11 DEF Toggles
  <2>13. ASSUME NEW w \in 1 .. n, \A j \in first .. i : dirty[j] # w PROVE b.wires[w] = st.wires[w]
    <3>1. i \in first .. i /\ \A j \in first .. i - 1 : j \in first .. i
      BY <2>2
    <3>2. w # x /\ \A j \in first .. i - 1 : dirty[j] # w
      BY <2>5, <2>13, <3>1
    <3>3. a.wires[w] = st.wires[w]
      BY <2>3, <3>2 DEF Climbed
    <3> QED BY <2>12, <3>2, <3>3
  <2>14. ASSUME first = 1, i >= 1
         PROVE  b.wires[dirty[1]] = (st.wires[dirty[1]] # (st.wires[controls[1]] /\ st.wires[controls[2]]))
    <3>1. CASE i = 1
      BY <2>5, <2>11, <2>12, <3>1
    <3>2. CASE i # 1
      <4>1. i - 1 >= 1 /\ 1 \in 1 .. m /\ 1 # i
        BY <1>1, <3>2
      <4>2. dirty[1] # x /\ dirty[1] \in 1 .. n
        BY <1>7, <2>5, <4>1
      <4>3. a.wires[dirty[1]] = (st.wires[dirty[1]] # (st.wires[controls[1]] /\ st.wires[controls[2]]))
        BY <2>3, <2>14, <4>1 DEF Climbed
      <4> QED BY <2>12, <4>2, <4>3
    <3> QED BY <3>1, <3>2
  <2>15. ASSUME NEW j \in first .. i, j >= 2
         PROVE  b.wires[dirty[j]] = (st.wires[dirty[j]] # (b.wires[dirty[j - 1]] /\ st.wires[controls[j + 1]]))
    <3>1. j \in 1 .. m /\ j - 1 \in 1 .. m /\ j - 1 # i
      BY <1>1, <2>2, <2>15
    <3>2. b.wires[dirty[j - 1]] = a.wires[dirty[j - 1]]
      <4>1. dirty[j - 1] # x /\ dirty[j - 1] \in 1 .. n
        BY <1>7, <2>5, <3>1
      <4> QED BY <2>12, <4>1
    <3>3. CASE j = i
      BY <2>5, <2>11, <2>12, <2>15, <3>2, <3>3
    <3>4. CASE j # i
      <4>1. j \in first .. i - 1 /\ dirty[j] # x /\ dirty[j] \in 1 .. n
        BY <1>7, <2>2, <2>5, <3>1, <3>4
      <4>2. a.wires[dirty[j]] = (st.wires[dirty[j]] # (a.wires[dirty[j - 1]] /\ st.wires[controls[j + 1]]))
        BY <2>3, <2>15, <4>1 DEF Climbed
      <4> QED BY <2>12, <3>2, <4>1, <4>2
    <3> QED BY <3>3, <3>4
  <2>16. Climbed(n, controls, dirty, first, i, st, b)
    BY <2>12, <2>13, <2>14, <2>15 DEF Climbed
  <2> QED BY <2>1, <2>2, <2>4, <2>16
<1>10. N \in T
  <2> HIDE DEF T
  <2>1. \A k \in 0 .. N - 1 : k \in T => k + 1 \in T
    BY <1>9
  <2>2. \A k \in 0 .. N : k \in T
    BY <1>8, <2>1, Run!UpTo, Zenon
  <2> QED BY <1>3, <2>2
<1>11. first + N - 1 = Len(dirty)
  BY <1>1, <1>3
<1> QED BY <1>2, <1>3, <1>5, <1>10, <1>11 DEF Run!Fold

(* The first k controls are all set.                                       *)
On(wires, controls, k) == \A j \in 1 .. k : wires[controls[j]]

(* A ladder toggles the target by the last borrowed wire, as it is at the  *)
(* top, and the last control.                                              *)
LEMMA LadderRun ==
  ASSUME NEW n \in Nat, NEW controls, NEW target, NEW dirty, Rungs(n, controls, target, dirty),
         Enough(controls, dirty), NEW first \in {1, 2}, NEW st \in States(n)
  PROVE  LET ladder == append_dirty_ladder(controls, target, dirty, first)
         IN  /\ GatesOn(1 .. n, ladder)
             /\ \E mid : /\ Climbed(n, controls, dirty, first, Len(dirty), st, mid)
                         /\ Toggles(n, st, target, mid.wires[Last(dirty)] /\ st.wires[Last(controls)], Run!Fold(st, ladder))
<1>1. PICK m \in Nat : m = Len(dirty) /\ Len(controls) = m + 2 /\ m >= 1
  BY DEF Rungs, Enough
<1>2. PICK W \in SUBSET (1 .. n) : W = (1 .. n) \ {target}
  OBVIOUS
<1>3. PICK up : up = Ups(controls, dirty, first) /\ GatesOn(W, up)
  BY <1>2, UpsOn
<1>4. PICK d, c : d = Last(dirty) /\ c = Last(controls)
  OBVIOUS
<1>5. d = dirty[m] /\ c = controls[m + 2] /\ d \in W /\ c \in W /\ d \in 1 .. n /\ c \in 1 .. n /\ target \in 1 .. n
  <2>1. m \in 1 .. Len(dirty) /\ m + 2 \in 1 .. Len(controls)
    BY <1>1
  <2>2. d = dirty[m] /\ c = controls[m + 2]
    BY <1>1, <1>4 DEF Last
  <2> QED BY <1>2, <2>1, <2>2 DEF Rungs
<1>6. PICK inner : inner = <<Ccnot(d, c, target)>>
  OBVIOUS
<1>7. inner \in Seq(Gates) /\ GatesOn(1 .. n, inner)
  <2>1. PICK g : g = Ccnot(d, c, target)
    OBVIOUS
  <2>2. g \in Gates
    BY <1>5, <2>1, SimpleTyped
  <2>3. g.op = "Toggle" /\ g.args = <<d, c>> /\ g.addr = << >> /\ g.target = target
    BY <2>1 DEF Ccnot, Toggle, Gate
  <2>4. \A k \in 1 .. Len(g.args) : g.args[k] \in 1 .. n /\ g.args[k] # target
    <3>1. \A k \in 1 .. 2 : k = 1 \/ k = 2
      OBVIOUS
    <3> QED BY <1>2, <1>5, <2>3, <3>1
  <2>5. GateOn(1 .. n, g)
    BY <1>5, <2>2, <2>3, <2>4 DEF GateOn
  <2>6. inner = <<g>> /\ inner \in Seq(Gates) /\ Len(inner) = 1 /\ inner[1] = g
    BY <1>6, <2>1, <2>2
  <2> QED BY <2>5, <2>6 DEF GatesOn
<1>8. PICK ladder : ladder = append_dirty_ladder(controls, target, dirty, first)
  OBVIOUS
<1>9. ladder = up \o inner \o Reverse(up)
  BY <1>3, <1>4, <1>6, <1>8 DEF append_dirty_ladder, Ups
<1>10. PICK mid : mid = Run!Fold(st, up)
  OBVIOUS
<1>11. Climbed(n, controls, dirty, first, Len(dirty), st, mid)
  BY <1>3, <1>10, ClimbRun
<1>12. /\ mid \in States(n) /\ mid.mem = st.mem
       /\ mid.wires[target] = st.wires[target] /\ mid.wires[c] = st.wires[c]
  <2>1. mid \in States(n) /\ mid.mem = st.mem
    BY <1>11 DEF Climbed
  <2>2. \A i \in first .. m : i \in 1 .. m
    BY <1>1
  <2>3. \A i \in first .. m : dirty[i] # target /\ dirty[i] # c
    <3>1. m + 2 \in 1 .. Len(controls)
      BY <1>1
    <3> QED BY <1>1, <1>5, <2>2, <3>1 DEF Rungs
  <2> QED BY <1>1, <1>5, <1>11, <2>1, <2>3 DEF Climbed
<1>13. PICK now : now = Run!Fold(mid, inner)
  OBVIOUS
<1>14. Toggles(n, mid, target, mid.wires[d] /\ mid.wires[c], now)
  <2>1. now = Applied(mid, Ccnot(d, c, target))
    BY <1>6, <1>13, RunOne
  <2> QED BY <1>5, <1>12, <2>1, GateToggles
<1>15. PICK bit \in BOOLEAN : bit = (mid.wires[d] /\ mid.wires[c])
  OBVIOUS
<1>16. /\ now \in States(n) /\ now.mem = mid.mem /\ now.wires[target] = (mid.wires[target] # bit)
       /\ \A w \in 1 .. n : w # target => now.wires[w] = mid.wires[w]
  BY <1>14, <1>15 DEF Toggles
<1>17. Agree(W, mid, now)
  BY <1>2, <1>16 DEF Agree
<1>18. PICK to : to = Run!Fold(st, ladder)
  OBVIOUS
<1>19. to \in States(n) /\ Agree(W, st, to) /\ Still(n, W, now, to)
  BY <1>3, <1>7, <1>9, <1>10, <1>13, <1>16, <1>17, <1>18, Conjugated
<1>20. Toggles(n, st, target, bit, to)
  <2>1. to.wires[target] = now.wires[target]
    BY <1>2, <1>5, <1>19 DEF Still
  <2>2. to.wires[target] = (st.wires[target] # bit)
    BY <1>12, <1>16, <2>1
  <2> QED BY <1>2, <1>19, <2>2 DEF Toggles, Agree
<1>21. bit = (mid.wires[Last(dirty)] /\ st.wires[Last(controls)])
  BY <1>4, <1>12, <1>15
<1>22. GatesOn(1 .. n, ladder)
  <2>1. GatesOn(1 .. n, up)
    BY <1>2, <1>3, OnMore
  <2> QED BY <1>7, <1>9, <2>1, OnConcat, OnReverse
<1> QED BY <1>8, <1>11, <1>18, <1>20, <1>21, <1>22

(* What the borrowed wires add to the second ladder differs from what they *)
(* add to the first by the conjunction of the controls.                    *)
LEMMA RungsDiffer ==
  ASSUME NEW n \in Nat, NEW controls, NEW target, NEW dirty, Rungs(n, controls, target, dirty),
         Enough(controls, dirty), NEW st \in States(n), NEW a \in States(n), NEW mid, NEW low,
         \A w \in 1 .. n : w # target => a.wires[w] = st.wires[w],
         Climbed(n, controls, dirty, 1, Len(dirty), st, mid), Climbed(n, controls, dirty, 2, Len(dirty), a, low)
  PROVE  (mid.wires[Last(dirty)] # low.wires[Last(dirty)]) = On(st.wires, controls, Len(controls) - 1)
<1>1. PICK m \in Nat : m = Len(dirty) /\ Len(controls) = m + 2 /\ m >= 1
  BY DEF Rungs, Enough
<1>2. /\ \A i \in 1 .. m : dirty[i] \in 1 .. n /\ dirty[i] # target
      /\ \A i \in 1 .. m + 2 : controls[i] \in 1 .. n /\ controls[i] # target
      /\ \A i, j \in 1 .. m : i # j => dirty[i] # dirty[j]
  BY <1>1 DEF Rungs
<1>3. PICK u, v, w0 : u = mid.wires /\ v = low.wires /\ w0 = st.wires
  OBVIOUS
<1>4. /\ u \in [1 .. n -> BOOLEAN] /\ v \in [1 .. n -> BOOLEAN] /\ w0 \in [1 .. n -> BOOLEAN]
      /\ \A w \in 1 .. n : w # target => a.wires[w] = w0[w]
  BY <1>3 DEF Climbed, States
<1>5. u[dirty[1]] = (w0[dirty[1]] # (w0[controls[1]] /\ w0[controls[2]]))
  BY <1>1, <1>3 DEF Climbed
<1>6. v[dirty[1]] = w0[dirty[1]]
  <2>1. \A i \in 2 .. m : i \in 1 .. m /\ i # 1 /\ 1 \in 1 .. m
    OBVIOUS
  <2>2. \A i \in 2 .. m : dirty[i] # dirty[1]
    BY <1>2, <2>1
  <2>3. dirty[1] \in 1 .. n /\ dirty[1] # target
    BY <1>1, <1>2
  <2> QED BY <1>1, <1>3, <1>4, <2>2, <2>3 DEF Climbed
<1>7. ASSUME NEW i \in 2 .. m
      PROVE  /\ u[dirty[i]] = (w0[dirty[i]] # (u[dirty[i - 1]] /\ w0[controls[i + 1]]))
             /\ v[dirty[i]] = (w0[dirty[i]] # (v[dirty[i - 1]] /\ w0[controls[i + 1]]))
  <2>1. i \in 1 .. m /\ i \in 1 .. Len(dirty) /\ i \in 2 .. Len(dirty) /\ i >= 2 /\ i + 1 \in 1 .. m + 2
    BY <1>1
  <2>2. a.wires[dirty[i]] = w0[dirty[i]] /\ a.wires[controls[i + 1]] = w0[controls[i + 1]]
    BY <1>2, <1>4, <2>1
  <2>3. u[dirty[i]] = (w0[dirty[i]] # (u[dirty[i - 1]] /\ w0[controls[i + 1]]))
    BY <1>3, <2>1 DEF Climbed
  <2>4. v[dirty[i]] = (a.wires[dirty[i]] # (v[dirty[i - 1]] /\ a.wires[controls[i + 1]]))
    BY <1>3, <2>1 DEF Climbed
  <2> QED BY <2>2, <2>3, <2>4
<1> DEFINE Differ(i) == (u[dirty[i]] # v[dirty[i]]) = On(w0, controls, i + 1)
           T == {i \in 0 .. m : i >= 1 => Differ(i)}
<1>8. 0 \in T
  BY <1>1
<1>9. ASSUME NEW i \in 0 .. m - 1, i \in T PROVE i + 1 \in T
  <2>1. CASE i = 0
    <3>1. On(w0, controls, 2) = (w0[controls[1]] /\ w0[controls[2]])
      <4>1. \A j \in 1 .. 2 : j = 1 \/ j = 2
        OBVIOUS
      <4>2. 1 \in 1 .. 2 /\ 2 \in 1 .. 2
        OBVIOUS
      <4> QED BY <4>1, <4>2 DEF On
    <3>2. dirty[1] \in 1 .. n /\ controls[1] \in 1 .. n /\ controls[2] \in 1 .. n
      BY <1>1, <1>2
    <3>3. PICK x \in BOOLEAN, y \in BOOLEAN : x = w0[dirty[1]] /\ y = (w0[controls[1]] /\ w0[controls[2]])
      BY <1>4, <3>2
    <3>4. (u[dirty[1]] # v[dirty[1]]) = y
      BY <1>5, <1>6, <3>3
    <3>5. Differ(1)
      BY <3>1, <3>3, <3>4
    <3> QED BY <1>1, <2>1, <3>5
  <2>2. CASE i >= 1
    <3>1. i + 1 \in 2 .. m /\ (i + 1) - 1 = i /\ i \in 1 .. m /\ i + 2 \in 1 .. m + 2 /\ i + 1 \in 1 .. m + 2 /\ (i + 1) + 1 = i + 2
      BY <2>2
    <3>2. Differ(i)
      BY <1>9, <2>2
    <3>3. PICK p \in BOOLEAN, q \in BOOLEAN, x \in BOOLEAN, c \in BOOLEAN :
            p = u[dirty[i]] /\ q = v[dirty[i]] /\ x = w0[dirty[i + 1]] /\ c = w0[controls[i + 2]]
      <4>1. dirty[i] \in 1 .. n /\ dirty[i + 1] \in 1 .. n /\ controls[i + 2] \in 1 .. n
        BY <1>2, <3>1
      <4> QED BY SMTT(30), <1>4, <4>1
    <3>4. u[dirty[i + 1]] = (x # (p /\ c)) /\ v[dirty[i + 1]] = (x # (q /\ c))
      BY <1>7, <3>1, <3>3
    <3>5. (u[dirty[i + 1]] # v[dirty[i + 1]]) = ((p # q) /\ c)
      BY <3>4
    <3>6. On(w0, controls, i + 2) = (On(w0, controls, i + 1) /\ c)
      <4>1. \A j \in 1 .. i + 2 : j \in 1 .. i + 1 \/ j = i + 2
        BY <3>1
      <4>2. i + 2 \in 1 .. i + 2 /\ \A j \in 1 .. i + 1 : j \in 1 .. i + 2
        BY <3>1
      <4> QED BY <3>3, <4>1, <4>2 DEF On
    <3>7. (p # q) = On(w0, controls, i + 1)
      BY <3>2, <3>3
    <3>8. Differ(i + 1)
      <4>1. (u[dirty[i + 1]] # v[dirty[i + 1]]) = On(w0, controls, i + 2)
        BY <3>5, <3>6, <3>7
      <4> QED BY <3>1, <4>1
    <3> QED BY <3>1, <3>8
  <2> QED BY <2>1, <2>2
<1>10. m \in T
  <2> HIDE DEF T
  <2>1. \A i \in 0 .. m - 1 : i \in T => i + 1 \in T
    BY <1>9
  <2>2. \A i \in 0 .. m : i \in T
    BY <1>8, <2>1, Run!UpTo, Zenon
  <2> QED BY <1>1, <2>2
<1>11. Differ(m)
  BY <1>1, <1>10
<1>12. Last(dirty) = dirty[m] /\ Len(controls) - 1 = m + 1
  BY <1>1 DEF Last
<1> QED BY <1>3, <1>11, <1>12

(* What an X with any number of controls needs: borrowed wires only when   *)
(* there are more than two.                                                *)
Controlled(n, controls, target, dirty) ==
  /\ Rungs(n, controls, target, dirty)
  /\ Len(controls) >= 3 => Len(dirty) = Len(controls) - 2

(* append_mcx_with_dirty toggles the target by all controls, and leaves    *)
(* the borrowed wires as they were, whatever they hold.                    *)
LEMMA McxRun ==
  ASSUME NEW n \in Nat, NEW controls, NEW target, NEW dirty, Controlled(n, controls, target, dirty), NEW st \in States(n)
  PROVE  LET mcx == append_mcx_with_dirty(controls, target, dirty)
         IN  /\ GatesOn(1 .. n, mcx)
             /\ Toggles(n, st, target, On(st.wires, controls, Len(controls)), Run!Fold(st, mcx))
<1>1. Rungs(n, controls, target, dirty) /\ controls \in Seq(Nat) /\ target \in 1 .. n /\ Len(controls) \in Nat
  BY DEF Controlled, Rungs
<1>2. PICK mcx : mcx = append_mcx_with_dirty(controls, target, dirty)
  OBVIOUS
<1>3. CASE Len(controls) <= 2
  <2>1. PICK g : g = Toggle(controls, target)
    OBVIOUS
  <2>2. mcx = <<g>>
    BY <1>2, <1>3, <2>1 DEF append_mcx_with_dirty
  <2>3. g.op = "Toggle" /\ g.args = controls /\ g.addr = << >> /\ g.target = target
    BY <2>1 DEF Toggle, Gate
  <2>4. GatesOn(1 .. n, mcx)
    <3>1. g \in Gates
      BY <1>1, <1>3, <2>1, ToggleTyped
    <3>2. GateOn(1 .. n, g)
      BY <1>1, <2>3, <3>1 DEF GateOn, Rungs
    <3>3. mcx \in Seq(Gates) /\ Len(mcx) = 1 /\ mcx[1] = g
      BY <2>2, <3>1
    <3> QED BY <3>2, <3>3 DEF GatesOn
  <2>5. BitOf(g, st.wires) = On(st.wires, controls, Len(controls))
    <3>1. PICK r : r = Reads(controls, st.wires)
      OBVIOUS
    <3>2. Len(r) = Len(controls) /\ \A k \in 1 .. Len(controls) : r[k] = st.wires[controls[k]]
      BY <1>1, <3>1 DEF Reads, MapSeq
    <3>3. BitOf(g, st.wires) = \A k \in 1 .. Len(r) : r[k]
      BY <2>3, <3>1 DEF BitOf
    <3> QED BY <3>2, <3>3 DEF On
  <2>6. Run!Fold(st, mcx) = Applied(st, g)
    BY <2>2, RunOne
  <2>7. Toggles(n, st, g.target, BitOf(g, st.wires), Applied(st, g))
    BY <1>1, <2>3, BitToggles
  <2> QED BY <1>2, <2>3, <2>4, <2>5, <2>6, <2>7
<1>4. CASE ~(Len(controls) <= 2)
  <2>1. Enough(controls, dirty)
    BY <1>1, <1>4 DEF Controlled, Enough
  <2>2. PICK m \in Nat : m = Len(dirty) /\ Len(controls) = m + 2 /\ m >= 1
    BY <1>1, <2>1 DEF Rungs, Enough
  <2>3. PICK d, c : d = Last(dirty) /\ c = Last(controls) /\ c = controls[m + 2] /\ d = dirty[m]
    BY <2>2 DEF Last
  <2>4. d \in 1 .. n /\ c \in 1 .. n /\ c # target
    BY <1>1, <2>2, <2>3 DEF Rungs
  <2>5. PICK one, two : /\ one = append_dirty_ladder(controls, target, dirty, 1)
                        /\ two = append_dirty_ladder(controls, target, dirty, 2)
    OBVIOUS
  <2>6. mcx = one \o two
    BY <1>2, <1>4, <2>5 DEF append_mcx_with_dirty
  <2>7. PICK a : a = Run!Fold(st, one)
    OBVIOUS
  <2>8. /\ GatesOn(1 .. n, one)
        /\ \E mid : /\ Climbed(n, controls, dirty, 1, Len(dirty), st, mid)
                    /\ Toggles(n, st, target, mid.wires[d] /\ st.wires[c], a)
    <3>1. GatesOn(1 .. n, append_dirty_ladder(controls, target, dirty, 1))
      BY <1>1, <2>1, LadderRun
    <3>2. \E z : /\ Climbed(n, controls, dirty, 1, Len(dirty), st, z)
                /\ Toggles(n, st, target, z.wires[Last(dirty)] /\ st.wires[Last(controls)],
                           Run!Fold(st, append_dirty_ladder(controls, target, dirty, 1)))
      BY <1>1, <2>1, LadderRun
    <3> QED BY <2>3, <2>5, <2>7, <3>1, <3>2
  <2>9. PICK mid : /\ Climbed(n, controls, dirty, 1, Len(dirty), st, mid)
                   /\ Toggles(n, st, target, mid.wires[d] /\ st.wires[c], a)
    BY <2>8
  <2>10. a \in States(n) /\ a.mem = st.mem /\ \A w \in 1 .. n : w # target => a.wires[w] = st.wires[w]
    BY <2>9 DEF Toggles
  <2>11. PICK b : b = Run!Fold(a, two)
    OBVIOUS
  <2>12. /\ GatesOn(1 .. n, two)
         /\ \E low : /\ Climbed(n, controls, dirty, 2, Len(dirty), a, low)
                     /\ Toggles(n, a, target, low.wires[d] /\ a.wires[c], b)
    <3>1. GatesOn(1 .. n, append_dirty_ladder(controls, target, dirty, 2))
      BY <1>1, <2>1, <2>10, LadderRun
    <3>2. \E z : /\ Climbed(n, controls, dirty, 2, Len(dirty), a, z)
                /\ Toggles(n, a, target, z.wires[Last(dirty)] /\ a.wires[Last(controls)],
                           Run!Fold(a, append_dirty_ladder(controls, target, dirty, 2)))
      BY <1>1, <2>1, <2>10, LadderRun
    <3> QED BY <2>3, <2>5, <2>11, <3>1, <3>2
  <2>13. PICK low : /\ Climbed(n, controls, dirty, 2, Len(dirty), a, low)
                    /\ Toggles(n, a, target, low.wires[d] /\ a.wires[c], b)
    BY <2>12
  <2>14. PICK all \in BOOLEAN : all = On(st.wires, controls, m + 1)
    BY DEF On
  <2>15. PICK x \in BOOLEAN, y \in BOOLEAN, z \in BOOLEAN : x = mid.wires[d] /\ y = low.wires[d] /\ z = st.wires[c] /\ z = a.wires[c]
    <3>1. mid \in States(n) /\ low \in States(n)
      BY <2>9, <2>13 DEF Climbed
    <3> QED BY <2>4, <2>10, <3>1, StateParts
  <2>16. (x # y) = all
    <3>1. (mid.wires[Last(dirty)] # low.wires[Last(dirty)]) = On(st.wires, controls, Len(controls) - 1)
      BY <1>1, <2>1, <2>9, <2>10, <2>13, RungsDiffer
    <3>2. Len(controls) - 1 = m + 1
      BY <2>2
    <3> QED BY <2>3, <2>14, <2>15, <3>1, <3>2
  <2>17. On(st.wires, controls, Len(controls)) = (all /\ z)
    <3>1. \A j \in 1 .. m + 2 : j \in 1 .. m + 1 \/ j = m + 2
      OBVIOUS
    <3>2. m + 2 \in 1 .. m + 2 /\ \A j \in 1 .. m + 1 : j \in 1 .. m + 2
      OBVIOUS
    <3> QED BY <2>2, <2>3, <2>14, <2>15, <3>1, <3>2 DEF On
  <2>18. b = Run!Fold(st, mcx)
    BY <2>6, <2>7, <2>8, <2>11, <2>12, RunConcat DEF GatesOn
  <2>19. /\ b \in States(n) /\ b.mem = st.mem /\ \A w \in 1 .. n : w # target => b.wires[w] = st.wires[w]
    BY <2>10, <2>13 DEF Toggles
  <2>20. b.wires[target] = (st.wires[target] # (all /\ z))
    <3>1. PICK t \in BOOLEAN : t = st.wires[target]
      BY <1>1, StateParts
    <3>2. a.wires[target] = (t # (x /\ z)) /\ b.wires[target] = (a.wires[target] # (y /\ z))
      BY <2>9, <2>13, <2>15, <3>1 DEF Toggles
    <3>3. b.wires[target] = ((t # (x /\ z)) # (y /\ z))
      BY <3>2
    <3>4. ((t # (x /\ z)) # (y /\ z)) = (t # (all /\ z))
      BY <2>16
    <3> QED BY <3>1, <3>3, <3>4
  <2>21. Toggles(n, st, target, all /\ z, b)
    BY <2>19, <2>20 DEF Toggles
  <2>22. GatesOn(1 .. n, mcx)
    BY <2>6, <2>8, <2>12, OnConcat
  <2> QED BY <1>2, <2>17, <2>18, <2>21, <2>22
<1> QED BY <1>3, <1>4

(* Each of the first j wires is negated; nothing else changes.             *)
Inverted(n, seq, st, to, j) ==
  /\ to \in States(n) /\ to.mem = st.mem
  /\ \A w \in 1 .. n : (\A k \in 1 .. j : seq[k] # w) => to.wires[w] = st.wires[w]
  /\ \A k \in 1 .. j : to.wires[seq[k]] = ~st.wires[seq[k]]

(* Wires of a circuit, every one different.                                *)
Separate(n, seq) ==
  /\ seq \in Seq(Nat) /\ \A k \in 1 .. Len(seq) : seq[k] \in 1 .. n
  /\ \A j, k \in 1 .. Len(seq) : j # k => seq[j] # seq[k]

(* X on each of the wires inverts exactly these.                           *)
LEMMA NegateRun ==
  ASSUME NEW n \in Nat, NEW seq, Separate(n, seq), NEW st \in States(n)
  PROVE  /\ GatesOn(1 .. n, MapSeq(seq, X))
         /\ Inverted(n, seq, st, Run!Fold(st, MapSeq(seq, X)), Len(seq))
<1>1. PICK N \in Nat : N = Len(seq) /\ seq \in Seq(Nat) /\ \A k \in 1 .. N : seq[k] \in 1 .. n
  BY DEF Separate
<1>2. PICK gates : gates = MapSeq(seq, X)
  OBVIOUS
<1>3. gates = [k \in 1 .. N |-> X(seq[k])]
  BY <1>1, <1>2 DEF MapSeq
<1>4. ASSUME NEW k \in 1 .. N PROVE X(seq[k]) \in Gates /\ GateOn(1 .. n, X(seq[k]))
  <2>1. PICK g : g = X(seq[k])
    OBVIOUS
  <2>2. g \in Gates
    BY <1>1, <2>1, SimpleTyped
  <2>3. g.op = "Toggle" /\ g.args = << >> /\ g.addr = << >> /\ g.target = seq[k]
    BY <2>1 DEF X, Toggle, Gate
  <2>4. Len(g.args) = 0 /\ Len(g.addr) = 0
    BY <2>3
  <2> QED BY <1>1, <2>1, <2>2, <2>3, <2>4 DEF GateOn
<1>5. gates \in Seq(Gates) /\ Len(gates) = N /\ \A k \in 1 .. N : gates[k] = X(seq[k])
  BY <1>3, <1>4
<1>6. GatesOn(1 .. n, gates)
  BY <1>4, <1>5 DEF GatesOn
<1>7. PICK t : t = Run!Walk(st, gates)
  OBVIOUS
<1>8. t[0] = st /\ \A k \in 1 .. N : t[k] = Applied(t[k - 1], X(seq[k]))
  <2>1. Len(gates) \in Nat
    BY <1>5
  <2>2. Run!Walk(st, gates)[0] = st /\ \A k \in 1 .. Len(gates) : Run!Walk(st, gates)[k] = Applied(Run!Walk(st, gates)[k - 1], gates[k])
    BY ONLY <2>1, Run!WalkSteps
  <2> QED BY <1>5, <1>7, <2>2
<1> DEFINE T == {j \in 0 .. N : Inverted(n, seq, st, t[j], j)}
<1>9. 0 \in T
  BY <1>1, <1>8 DEF Inverted
<1>10. ASSUME NEW j \in 0 .. N - 1, j \in T PROVE j + 1 \in T
  <2>1. j + 1 \in 1 .. N /\ (j + 1) - 1 = j /\ j \in 0 .. N
    BY <1>1
  <2>2. PICK a : a = t[j] /\ Inverted(n, seq, st, a, j)
    BY <1>10
  <2>3. PICK x \in 1 .. n : x = seq[j + 1]
    BY <1>1, <2>1
  <2>4. PICK b : b = Applied(a, X(x)) /\ b = t[j + 1]
    BY <1>8, <2>1, <2>2, <2>3
  <2>5. a \in States(n) /\ a.mem = st.mem
    BY <2>2 DEF Inverted
  <2>6. Toggles(n, a, x, TRUE, b)
    BY <2>4, <2>5, GateToggles
  <2>7. \A k \in 1 .. j : seq[k] # x
    <3>1. \A k \in 1 .. j : k \in 1 .. N /\ k # j + 1
      BY <2>1
    <3> QED BY <1>1, <2>1, <2>3, <3>1 DEF Separate
  <2>8. b \in States(n) /\ b.mem = st.mem
    BY <2>5, <2>6 DEF Toggles
  <2>9. ASSUME NEW w \in 1 .. n, \A k \in 1 .. j + 1 : seq[k] # w PROVE b.wires[w] = st.wires[w]
    <3>1. j + 1 \in 1 .. j + 1 /\ \A k \in 1 .. j : k \in 1 .. j + 1
      BY <2>1
    <3>2. w # x /\ \A k \in 1 .. j : seq[k] # w
      BY <2>3, <2>9, <3>1
    <3>3. a.wires[w] = st.wires[w]
      BY <2>2, <3>2 DEF Inverted
    <3> QED BY <2>6, <3>2, <3>3 DEF Toggles
  <2>10. ASSUME NEW k \in 1 .. j + 1 PROVE b.wires[seq[k]] = ~st.wires[seq[k]]
    <3>1. CASE k = j + 1
      <4>1. a.wires[x] = st.wires[x]
        BY <2>2, <2>7 DEF Inverted
      <4>2. b.wires[x] = (a.wires[x] # TRUE)
        BY <2>6 DEF Toggles
      <4>3. st.wires[x] \in BOOLEAN
        BY StateParts
      <4> QED BY <2>3, <3>1, <4>1, <4>2, <4>3
    <3>2. CASE k # j + 1
      <4>1. k \in 1 .. j /\ k \in 1 .. N
        BY <2>1, <3>2
      <4>2. seq[k] \in 1 .. n /\ seq[k] # x
        BY <1>1, <2>7, <4>1
      <4>3. b.wires[seq[k]] = a.wires[seq[k]]
        BY <2>6, <4>2 DEF Toggles
      <4>4. a.wires[seq[k]] = ~st.wires[seq[k]]
        BY <2>2, <4>1 DEF Inverted
      <4> QED BY <4>3, <4>4
    <3> QED BY <3>1, <3>2
  <2>11. Inverted(n, seq, st, b, j + 1)
    BY <2>8, <2>9, <2>10 DEF Inverted
  <2> QED BY <2>1, <2>4, <2>11
<1>11. N \in T
  <2> HIDE DEF T
  <2>1. \A k \in 0 .. N - 1 : k \in T => k + 1 \in T
    BY <1>10
  <2>2. \A k \in 0 .. N : k \in T
    BY <1>9, <2>1, Run!UpTo, Zenon
  <2> QED BY <1>1, <2>2
<1> QED BY <1>1, <1>2, <1>5, <1>6, <1>7, <1>11 DEF Run!Fold

(* None of the wires is set.                                               *)
Clear(wires, seq) == \A k \in 1 .. Len(seq) : ~wires[seq[k]]

(* append_zero_test toggles the target if the wires are all 0.             *)
LEMMA ZeroTestRun ==
  ASSUME NEW n \in Nat, NEW controls, NEW target, NEW dirty, Controlled(n, controls, target, dirty),
         Separate(n, controls), NEW st \in States(n)
  PROVE  LET test == append_zero_test(controls, target, dirty)
         IN  /\ GatesOn(1 .. n, test)
             /\ Toggles(n, st, target, Clear(st.wires, controls), Run!Fold(st, test))
<1>1. PICK N \in Nat : N = Len(controls) /\ \A k \in 1 .. N : controls[k] \in 1 .. n /\ controls[k] # target
  BY DEF Controlled, Rungs
<1>2. target \in 1 .. n
  BY DEF Controlled, Rungs
<1>3. PICK negate, mcx : negate = MapSeq(controls, X) /\ mcx = append_mcx_with_dirty(controls, target, dirty)
  OBVIOUS
<1>4. PICK test : test = append_zero_test(controls, target, dirty)
  OBVIOUS
<1>5. test = (negate \o mcx) \o negate
  BY <1>3, <1>4 DEF append_zero_test
<1>6. PICK a : a = Run!Fold(st, negate)
  OBVIOUS
<1>7. GatesOn(1 .. n, negate) /\ Inverted(n, controls, st, a, N)
  BY <1>1, <1>3, <1>6, NegateRun
<1>8. a \in States(n)
  BY <1>7 DEF Inverted
<1>9. PICK b : b = Run!Fold(a, mcx)
  OBVIOUS
<1>10. GatesOn(1 .. n, mcx) /\ Toggles(n, a, target, On(a.wires, controls, N), b)
  BY <1>1, <1>3, <1>8, <1>9, McxRun
<1>11. On(a.wires, controls, N) = Clear(st.wires, controls)
  <2>1. \A k \in 1 .. N : a.wires[controls[k]] = ~st.wires[controls[k]]
    BY <1>7 DEF Inverted
  <2> QED BY <1>1, <2>1 DEF On, Clear
<1>12. b \in States(n)
  BY <1>10 DEF Toggles
<1>13. PICK to : to = Run!Fold(b, negate)
  OBVIOUS
<1>14. Inverted(n, controls, b, to, N)
  BY <1>1, <1>3, <1>12, <1>13, NegateRun
<1>15. to = Run!Fold(st, test)
  <2>1. negate \in Seq(Gates) /\ mcx \in Seq(Gates) /\ negate \o mcx \in Seq(Gates)
    BY <1>7, <1>10 DEF GatesOn
  <2>2. Run!Fold(st, negate \o mcx) = b
    BY <1>6, <1>9, <2>1, RunConcat
  <2> QED BY <1>5, <1>13, <2>1, <2>2, RunConcat
<1>16. PICK bit \in BOOLEAN : bit = Clear(st.wires, controls)
  BY DEF Clear
<1>17. ASSUME NEW w \in 1 .. n, w # target PROVE to.wires[w] = st.wires[w]
  <2>1. b.wires[w] = a.wires[w]
    BY <1>10, <1>17 DEF Toggles
  <2>2. CASE \E k \in 1 .. N : controls[k] = w
    <3>1. a.wires[w] = ~st.wires[w] /\ to.wires[w] = ~b.wires[w]
      BY <1>7, <1>14, <2>2 DEF Inverted
    <3>2. st.wires[w] \in BOOLEAN
      BY StateParts
    <3> QED BY <2>1, <3>1, <3>2
  <2>3. CASE ~\E k \in 1 .. N : controls[k] = w
    <3>1. a.wires[w] = st.wires[w] /\ to.wires[w] = b.wires[w]
      BY <1>7, <1>14, <2>3 DEF Inverted
    <3> QED BY <2>1, <3>1
  <2> QED BY <2>2, <2>3
<1>18. to.wires[target] = (st.wires[target] # bit)
  <2>1. \A k \in 1 .. N : controls[k] # target
    BY <1>1
  <2>2. a.wires[target] = st.wires[target] /\ to.wires[target] = b.wires[target]
    BY <1>2, <1>7, <1>14, <2>1 DEF Inverted
  <2>3. b.wires[target] = (a.wires[target] # bit)
    BY <1>10, <1>11, <1>16 DEF Toggles
  <2> QED BY <2>2, <2>3
<1>19. to \in States(n) /\ to.mem = st.mem
  BY <1>7, <1>10, <1>14 DEF Inverted, Toggles
<1>20. Toggles(n, st, target, bit, to)
  BY <1>17, <1>18, <1>19 DEF Toggles
<1>21. GatesOn(1 .. n, test)
  BY <1>5, <1>7, <1>10, OnConcat
<1> QED BY <1>4, <1>15, <1>16, <1>20, <1>21
=============================================================================
