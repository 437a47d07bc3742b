---------------------------- MODULE CircuitProofs ----------------------------
(***************************************************************************)
(* Proofs that the circuit made of a supported loop implements the loop    *)
(* and delivers its result (Circuit).                                      *)
(*                                                                         *)
(* A copy is an iteration as long as the loop has not ended, because every *)
(* statement of it has the value it has in the block.  That needs three    *)
(* facts about the copies made so far: what the cache of gates answers is  *)
(* the value of the gate asked for (CacheTrue), the variables of a Poly    *)
(* are kept apart, so that no two of its monomials are merged (Apart), and *)
(* the values are of their types, so that a condition is a bit             *)
(* (WellTyped).  After the loop's end the copies go on with values that    *)
(* mean nothing, and the invariant says what is left of the end: the first *)
(* copy of this call that is done, with what the loop returned on its      *)
(* result wires (FirstEnds).  The cascade picks exactly that copy; this is *)
(* an induction over the copies, made once for all folds in FoldTheorems.  *)
(***************************************************************************)
EXTENDS Circuit, FiniteSetTheorems, TLAPS

Casc == INSTANCE FoldTheorems WITH op <- Select
Ors == INSTANCE FoldTheorems WITH op <- emit_or

-----------------------------------------------------------------------------
(* Multiplexers and the cascade.                                           *)

(* emit_mux takes its first input when the bit is set, its second when it  *)
(* is clear.                                                               *)
LEMMA Mux ==
  ASSUME NEW a \in Val, NEW b \in Val
  PROVE  emit_mux(1, a, b) = a /\ emit_mux(0, a, b) = b
BY CircuitAssumption DEF emit_mux, emit_gate

(* The cascade and the flag are folds, so that FoldTheorems speaks of      *)
(* them.                                                                   *)
LEMMA CascadeIsFold ==
  ASSUME NEW copies, NEW fallback
  PROVE  Cascade(copies, fallback) = Casc!Fold(fallback, Reverse(copies))
BY DEF Cascade, Through, Casc!Fold, Casc!Walk, Casc!Steps

(* See CascadeIsFold.                                                      *)
LEMMA OverallIsFold ==
  ASSUME NEW dones
  PROVE  overall_done(dones) = Ors!Fold(0, dones)
BY DEF overall_done, Through, Ors!Fold, Ors!Walk, Ors!Steps

(* What the copies of a circuit tell.                                      *)
Told(copies, w) ==
  /\ Len(copies) \in Nat
  /\ \A k \in 1 .. Len(copies) : copies[k].done \in {0, 1} /\ copies[k].result \in [1 .. w -> Val]

FirstDone(copies, lo, k) ==
  /\ copies[k].done = 1
  /\ \A i \in lo .. k - 1 : copies[i].done = 0

(* A layer of the cascade takes a copy's result when the copy is done and  *)
(* leaves what is below it otherwise.                                      *)
LEMMA SelectOne ==
  ASSUME NEW w \in Nat, NEW gated \in [1 .. w -> Val], NEW copy, copy.result \in [1 .. w -> Val]
  PROVE  /\ copy.done = 1 => Select(gated, copy) = copy.result
         /\ copy.done = 0 => Select(gated, copy) = gated
<1>1. \A b \in 1 .. w : copy.result[b] \in Val /\ gated[b] \in Val
  OBVIOUS
<1>2. CASE copy.done = 1
  <2>1. \A b \in 1 .. w : emit_mux(copy.done, copy.result[b], gated[b]) = copy.result[b]
    BY <1>1, <1>2, Mux
  <2>2. Select(gated, copy) = [b \in 1 .. w |-> copy.result[b]]
    BY <2>1 DEF Select
  <2> QED BY <2>2, <1>2
<1>3. CASE copy.done = 0
  <2>1. \A b \in 1 .. w : emit_mux(copy.done, copy.result[b], gated[b]) = gated[b]
    BY <1>1, <1>3, Mux
  <2>2. Select(gated, copy) = [b \in 1 .. w |-> gated[b]]
    BY <2>1 DEF Select
  <2> QED BY <2>2, <1>3
<1> QED BY <1>2, <1>3

(* The cascade picks the result of the first copy that is done, and its    *)
(* fallback when none is.                                                  *)
LEMMA CascadePicksFirst ==
  ASSUME NEW w \in Nat, NEW copies, Told(copies, w), NEW fallback,
         Len(copies) > 0 => fallback \in [1 .. w -> Val]
  PROVE  /\ \A k \in 1 .. Len(copies) : FirstDone(copies, 1, k) => Cascade(copies, fallback) = copies[k].result
         /\ (\A k \in 1 .. Len(copies) : copies[k].done = 0) => Cascade(copies, fallback) = fallback
<1>1. PICK n \in Nat : n = Len(copies)
  BY DEF Told
<1>2. PICK seq : seq = Reverse(copies)
  OBVIOUS
<1>3. Len(seq) = n /\ \A j \in 1 .. n : seq[j] = copies[n - j + 1]
  BY <1>1, <1>2 DEF Reverse
<1>4. PICK t : t = Casc!Walk(fallback, seq)
  OBVIOUS
<1>5. t[0] = fallback /\ \A j \in 1 .. n : t[j] = Select(t[j - 1], seq[j])
  <2>1. Len(seq) \in Nat
    BY <1>3
  <2>2. /\ Casc!Walk(fallback, seq)[0] = fallback
        /\ \A j \in 1 .. Len(seq) : Casc!Walk(fallback, seq)[j] = Select(Casc!Walk(fallback, seq)[j - 1], seq[j])
    BY <2>1, Casc!WalkSteps
  <2> QED BY <1>3, <1>4, <2>2
<1>6. Cascade(copies, fallback) = t[n]
  BY <1>2, <1>3, <1>4, CascadeIsFold DEF Casc!Fold
<1>7. CASE n = 0
  BY <1>1, <1>5, <1>6, <1>7
<1>8. CASE n > 0
  <2> DEFINE Good(j) == /\ t[j] \in [1 .. w -> Val]
                        /\ \A k \in n - j + 1 .. n : FirstDone(copies, n - j + 1, k) => t[j] = copies[k].result
                        /\ (\A k \in n - j + 1 .. n : copies[k].done = 0) => t[j] = fallback
             T == {j \in 0 .. n : Good(j)}
  <2>1. 0 \in T
    BY <1>1, <1>5, <1>8
  <2>2. ASSUME NEW j \in 0 .. n - 1, j \in T PROVE j + 1 \in T
    <3>1. PICK i \in 1 .. n : i = n - j
      OBVIOUS
    <3>2. j + 1 \in 1 .. n /\ (j + 1) - 1 = j /\ n - (j + 1) + 1 = i /\ n - j + 1 = i + 1
      BY <3>1
    <3>3. t[j + 1] = Select(t[j], copies[i])
      BY <1>3, <1>5, <3>2
    <3>4. Good(j)
      BY <2>2
    <3>5. copies[i].done \in {0, 1} /\ copies[i].result \in [1 .. w -> Val]
      BY <1>1 DEF Told
    <3>6. CASE copies[i].done = 1
      <4>1. t[j + 1] = copies[i].result
        BY SMTT(30), <3>3, <3>4, <3>5, <3>6, SelectOne
      <4>2. ASSUME NEW k \in i .. n, FirstDone(copies, i, k) PROVE k = i
        <5>1. CASE k > i
          <6>1. i \in i .. k - 1
            BY <5>1
          <6> QED BY <6>1, <4>2, <3>6 DEF FirstDone
        <5> QED BY <5>1
      <4>3. ~ \A k \in i .. n : copies[k].done = 0
        BY <3>6
      <4> QED BY <4>1, <4>2, <4>3, <3>2, <3>5
    <3>7. CASE copies[i].done = 0
      <4>1. t[j + 1] = t[j]
        BY <3>3, <3>4, <3>5, <3>7, SelectOne
      <4>2. ASSUME NEW k \in i .. n, FirstDone(copies, i, k) PROVE k \in i + 1 .. n /\ FirstDone(copies, i + 1, k)
        BY <3>7, <4>2 DEF FirstDone
      <4>3. (\A k \in i .. n : copies[k].done = 0) => \A k \in i + 1 .. n : copies[k].done = 0
        OBVIOUS
      <4> QED BY <4>1, <4>2, <4>3, <3>2, <3>4
    <3> QED BY <3>5, <3>6, <3>7
  <2>3. n \in T
    <3> HIDE DEF T
    <3>1. \A j \in 0 .. n - 1 : j \in T => j + 1 \in T
      BY <2>2
    <3>2. \A j \in 0 .. n : j \in T
      BY <2>1, <3>1, Casc!UpTo, Zenon
    <3> QED BY <3>2
  <2>4. Good(n) /\ n - n + 1 = 1
    BY <2>3
  <2> QED BY <2>4, <1>1, <1>6
<1> QED BY <1>7, <1>8

(* The flag is set when a copy is done.                                    *)
LEMMA OverallDone ==
  ASSUME NEW dones, Len(dones) \in Nat, \A k \in 1 .. Len(dones) : dones[k] \in {0, 1}
  PROVE  /\ (\A k \in 1 .. Len(dones) : dones[k] = 0) => overall_done(dones) = 0
         /\ (\E k \in 1 .. Len(dones) : dones[k] = 1) => overall_done(dones) = 1
<1>1. PICK n \in Nat : n = Len(dones)
  OBVIOUS
<1>2. PICK t : t = Ors!Walk(0, dones)
  OBVIOUS
<1>3. t[0] = 0 /\ \A j \in 1 .. n : t[j] = emit_or(t[j - 1], dones[j])
  BY <1>1, <1>2, Ors!WalkSteps
<1>4. overall_done(dones) = t[n]
  BY <1>1, <1>2, OverallIsFold DEF Ors!Fold
<1> DEFINE Good(j) == /\ (\A k \in 1 .. j : dones[k] = 0) => t[j] = 0
                      /\ (\E k \in 1 .. j : dones[k] = 1) => t[j] = 1
           T == {j \in 0 .. n : Good(j)}
<1>5. 0 \in T
  BY <1>3
<1>6. ASSUME NEW j \in 0 .. n - 1, j \in T PROVE j + 1 \in T
  <2>1. t[j + 1] = emit_or(t[j], dones[j + 1])
    <3>1. j + 1 \in 1 .. n /\ (j + 1) - 1 = j
      OBVIOUS
    <3> QED BY <1>3, <3>1
  <2>2. Good(j) /\ dones[j + 1] \in {0, 1}
    BY <1>1, <1>6
  <2>3. ASSUME \A k \in 1 .. j + 1 : dones[k] = 0 PROVE t[j + 1] = 0
    BY <2>1, <2>2, <2>3 DEF emit_or
  <2>4. ASSUME NEW k \in 1 .. j + 1, dones[k] = 1 PROVE t[j + 1] = 1
    <3>1. CASE k = j + 1
      BY <2>1, <2>4, <3>1 DEF emit_or
    <3>2. CASE k # j + 1
      <4>1. t[j] = 1
        BY <2>2, <2>4, <3>2
      <4> QED BY <2>1, <4>1 DEF emit_or
    <3> QED BY <3>1, <3>2
  <2> QED BY <2>3, <2>4
<1>7. n \in T
  <2> HIDE DEF T
  <2>1. \A j \in 0 .. n - 1 : j \in T => j + 1 \in T
    BY <1>6
  <2>2. \A j \in 0 .. n : j \in T
    BY <1>5, <2>1, Ors!UpTo, Zenon
  <2> QED BY <2>2
<1> QED BY <1>1, <1>4, <1>7
-----------------------------------------------------------------------------
(* Gates of equal keys.                                                    *)

At(w, ids) == [k \in 1 .. Len(ids) |-> w[ids[k]]]

GateIds(s, ids, n) ==
  IF s.op = "Const" THEN ids = << >> ELSE ids \in Seq(1 .. n) /\ Len(ids) = Len(s.args)

GateValue(s, ids, w) == IF s.op = "Const" THEN s.value ELSE s.f[At(w, ids)]

Shared(block, s) ==
  /\ \E j \in 1 .. Len(block.stmts) : s = block.stmts[j]
  /\ s.op = "Const" \/ (s.op = "Pure" /\ GateSupported(block, s))

(* The keys of from_stmt, one by one.                                      *)
LEMMA KeyOfConst ==
  ASSUME NEW s, NEW ids, s.op = "Const"
  PROVE  GateKey(s, ids) = <<"Const", s.value, 0>>
BY DEF GateKey

(* The key of a gate with one operand.                                     *)
LEMMA KeyOfUnary ==
  ASSUME NEW s, NEW ids, s.op = "Pure", Len(ids) = 1
  PROVE  GateKey(s, ids) = <<s.gate, ids[1], 0>>
BY DEF GateKey

(* The key of a gate with two: its operands in ascending order.            *)
LEMMA KeyOfBinary ==
  ASSUME NEW s, NEW ids, s.op = "Pure", Len(ids) = 2
  PROVE  GateKey(s, ids) = IF ids[1] <= ids[2] THEN <<s.gate, ids[1], ids[2]>> ELSE <<s.gate, ids[2], ids[1]>>
BY DEF GateKey

(* The operands of a gate with one.                                        *)
LEMMA AtUnary ==
  ASSUME NEW w, NEW ids, Len(ids) = 1
  PROVE  At(w, ids) = <<w[ids[1]]>>
BY DEF At

(* The operands of a gate with two.                                        *)
LEMMA AtBinary ==
  ASSUME NEW w, NEW ids, Len(ids) = 2
  PROVE  At(w, ids) = <<w[ids[1]], w[ids[2]]>>
BY DEF At

(* Gates of equal keys have equal values.                                  *)
LEMMA SameKey ==
  ASSUME NEW block, NEW s, Shared(block, s), NEW t, Shared(block, t),
         NEW w \in Seq(Val), NEW ids, GateIds(s, ids, Len(w)), NEW jds, GateIds(t, jds, Len(w)),
         GateKey(s, ids) = GateKey(t, jds)
  PROVE  GateValue(s, ids, w) = GateValue(t, jds, w)
<1>1. CASE s.op = "Const" /\ t.op = "Const"
  BY <1>1, KeyOfConst DEF GateValue
<1>2. ASSUME s.op = "Pure" PROVE /\ ids \in Seq(1 .. Len(w)) /\ Len(ids) = Len(s.args) /\ Len(ids) \in {1, 2}
                                 /\ s.gate # "Const" /\ GateSupported(block, s)
                                 /\ GateKey(s, ids)[1] = s.gate
                                 /\ GateValue(s, ids, w) = s.f[At(w, ids)]
  <2>1. ~ (s.op = "Const") /\ GateSupported(block, s)
    BY <1>2 DEF Shared
  <2>2. ids \in Seq(1 .. Len(w)) /\ Len(ids) = Len(s.args)
    BY <2>1 DEF GateIds
  <2>3. Len(ids) \in {1, 2} /\ s.gate # "Const"
    BY <2>1, <2>2 DEF GateSupported
  <2>4. GateKey(s, ids)[1] = s.gate
    BY <1>2, <2>3, KeyOfUnary, KeyOfBinary
  <2>5. GateValue(s, ids, w) = s.f[At(w, ids)]
    BY <2>1 DEF GateValue
  <2> QED BY <2>1, <2>2, <2>3, <2>4, <2>5
<1>3. ASSUME t.op = "Pure" PROVE /\ jds \in Seq(1 .. Len(w)) /\ Len(jds) = Len(t.args) /\ Len(jds) \in {1, 2}
                                 /\ t.gate # "Const" /\ GateSupported(block, t)
                                 /\ GateKey(t, jds)[1] = t.gate
                                 /\ GateValue(t, jds, w) = t.f[At(w, jds)]
  <2>1. ~ (t.op = "Const") /\ GateSupported(block, t)
    BY <1>3 DEF Shared
  <2>2. jds \in Seq(1 .. Len(w)) /\ Len(jds) = Len(t.args)
    BY <2>1 DEF GateIds
  <2>3. Len(jds) \in {1, 2} /\ t.gate # "Const"
    BY <2>1, <2>2 DEF GateSupported
  <2>4. GateKey(t, jds)[1] = t.gate
    BY <1>3, <2>3, KeyOfUnary, KeyOfBinary
  <2>5. GateValue(t, jds, w) = t.f[At(w, jds)]
    BY <2>1 DEF GateValue
  <2> QED BY <2>1, <2>2, <2>3, <2>4, <2>5
<1>4. CASE s.op = "Const" /\ t.op = "Pure"
  BY <1>4, <1>3, KeyOfConst
<1>5. CASE s.op = "Pure" /\ t.op = "Const"
  BY <1>5, <1>2, KeyOfConst
<1>6. CASE s.op = "Pure" /\ t.op = "Pure"
  <2>1. s.gate = t.gate
    BY <1>2, <1>3, <1>6
  <2>2. \A k \in 1 .. Len(ids) : ids[k] \in Nat /\ ids[k] # 0
    BY <1>2, <1>6
  <2>3. \A k \in 1 .. Len(jds) : jds[k] \in Nat /\ jds[k] # 0
    BY <1>3, <1>6
  <2>4. ASSUME Len(ids) = Len(jds) PROVE s.f = t.f
    BY <2>4, <2>1, <1>2, <1>3, <1>6 DEF GateSupported, Shared
  <2>5. CASE Len(ids) = 1 /\ Len(jds) = 1
    <3>1. ids[1] = jds[1]
      BY <2>5, <1>6, KeyOfUnary
    <3>2. At(w, ids) = At(w, jds)
      BY <3>1, <2>5, AtUnary
    <3> QED BY <3>2, <2>4, <2>5, <1>2, <1>3, <1>6
  <2>6. CASE Len(ids) = 1 /\ Len(jds) = 2
    <3>1. GateKey(s, ids) = <<s.gate, ids[1], 0>>
      BY <2>6, <1>6, KeyOfUnary
    <3>2. GateKey(t, jds)[3] \in {jds[1], jds[2]}
      BY <2>6, <1>6, KeyOfBinary
    <3> QED BY <3>1, <3>2, <2>3, <2>6
  <2>7. CASE Len(ids) = 2 /\ Len(jds) = 1
    <3>1. GateKey(t, jds) = <<t.gate, jds[1], 0>>
      BY <2>7, <1>6, KeyOfUnary
    <3>2. GateKey(s, ids)[3] \in {ids[1], ids[2]}
      BY <2>7, <1>6, KeyOfBinary
    <3> QED BY <3>1, <3>2, <2>2, <2>7
  <2>8. CASE Len(ids) = 2 /\ Len(jds) = 2
    <3>1. \/ ids[1] = jds[1] /\ ids[2] = jds[2]
          \/ ids[1] = jds[2] /\ ids[2] = jds[1]
      BY <2>8, <1>6, KeyOfBinary
    <3>2. At(w, ids) = <<w[ids[1]], w[ids[2]]>> /\ At(w, jds) = <<w[jds[1]], w[jds[2]]>>
      BY <2>8, AtBinary
    <3>3. w[ids[1]] \in Val /\ w[ids[2]] \in Val
      <4>1. ids \in Seq(1 .. Len(w))
        BY <1>2, <1>6
      <4>2. ids[1] \in 1 .. Len(w) /\ ids[2] \in 1 .. Len(w)
        <5>1. 1 \in 1 .. Len(ids) /\ 2 \in 1 .. Len(ids)
          BY <2>8
        <5>2. \A k \in 1 .. Len(ids) : ids[k] \in 1 .. Len(w)
          BY <4>1
        <5> QED BY <5>1, <5>2
      <4> QED BY <4>2
    <3>4. s.f[<<w[ids[1]], w[ids[2]]>>] = s.f[<<w[ids[2]], w[ids[1]]>>]
      BY <3>3, <1>2, <1>6, <2>8 DEF GateSupported
    <3>5. s.f[At(w, ids)] = s.f[At(w, jds)]
      BY <3>1, <3>2, <3>4
    <3>6. s.f = t.f
      BY <2>4, <2>8
    <3> QED BY <3>5, <3>6, <1>2, <1>3, <1>6
  <2> QED BY <2>5, <2>6, <2>7, <2>8, <1>2, <1>3, <1>6
<1> QED BY <1>1, <1>4, <1>5, <1>6 DEF Shared

-----------------------------------------------------------------------------
(* The monomials of a Poly whose variables stay apart stay apart.          *)

(* Substituting variables that are all different merges no two monomials   *)
(* of a Poly.                                                              *)
LEMMA CollectedAll ==
  ASSUME NEW monos, NEW n \in Nat, NEW ids, DOMAIN ids = 1 .. n, IsInjective(ids),
         \A mono \in monos : mono \subseteq 1 .. n
  PROVE  Collected(monos, ids) = monos
<1>1. ASSUME NEW mono \in monos, NEW p \in 1 .. n PROVE p \in mono <=> Key(mono, ids)[ids[p]] # 0
  <2>1. Key(mono, ids)[ids[p]] = Cardinality({q \in mono : ids[q] = ids[p]})
    BY DEF Key, Range
  <2>2. CASE p \in mono
    <3>1. {q \in mono : ids[q] = ids[p]} = {p}
      BY <2>2 DEF IsInjective
    <3>2. Cardinality({p}) = 1
      BY FS_Singleton
    <3>3. Key(mono, ids)[ids[p]] = 1
      BY <2>1, <3>1, <3>2
    <3> QED BY <2>2, <3>3
  <2>3. CASE p \notin mono
    <3>1. {q \in mono : ids[q] = ids[p]} = {}
      BY <2>3 DEF IsInjective
    <3>2. Cardinality({}) = 0
      BY FS_EmptySet
    <3>3. Key(mono, ids)[ids[p]] = 0
      BY <2>1, <3>1, <3>2
    <3> QED BY <2>3, <3>3
  <2> QED BY <2>2, <2>3
<1>2. ASSUME NEW a \in monos, NEW b \in monos, Key(a, ids) = Key(b, ids) PROVE a = b
  BY <1>1, <1>2
<1>3. ASSUME NEW mono \in monos PROVE (CHOOSE a \in monos : Key(a, ids) = Key(mono, ids)) = mono
  <2>1. PICK x : x = CHOOSE a \in monos : Key(a, ids) = Key(mono, ids)
    OBVIOUS
  <2>2. x \in monos /\ Key(x, ids) = Key(mono, ids)
    BY <2>1
  <2> QED BY <2>1, <2>2, <1>2
<1> DEFINE Kept(key) == CHOOSE a \in monos : Key(a, ids) = key
<1>4. Collected(monos, ids) = {Kept(key) : key \in {Key(mono, ids) : mono \in monos}}
  BY DEF Collected
<1>5. \A mono \in monos : Kept(Key(mono, ids)) = mono
  BY <1>3
<1> HIDE DEF Kept
<1> QED BY <1>4, <1>5
-----------------------------------------------------------------------------
(* The loop.                                                               *)

VarTypes(P) == CHOOSE T \in [1 .. NumVars(P.blocks[0]) -> Types] : BlockTyped(T, P.blocks[0])

LoopOK(P, f, n) ==
  /\ P \in SelfLoops /\ f \in {"ir", "boolar"} /\ n \in Nat
  /\ P.n = 1 /\ P.pre_init \in [Cells -> Val]
  /\ BlockWellFormed(P, P.blocks[0])
  /\ Supported(P, f, n)
  /\ BlockTyped(VarTypes(P), P.blocks[0])

(* The programs the circuit is made of are well formed, supported and      *)
(* typed.                                                                  *)
LEMMA LoopsOK ==
  ASSUME ProgramsSupported, NEW P \in SelfLoops, NEW f \in Forms(P), NEW n \in Limits(P)
  PROVE  LoopOK(P, f, n)
<1>1. P \in Programs /\ P.n = 1
  BY DEF SelfLoops
<1>2. f \in {"ir", "boolar"} /\ n \in Nat
  BY <1>1, CircuitAssumption
<1>3. WellFormed(P)
  BY <1>1, ProgramAssumption
<1>4. P.pre_init \in [Cells -> Val] /\ BlockWellFormed(P, P.blocks[0])
  BY <1>1, <1>3 DEF WellFormed
<1>5. Supported(P, f, n)
  BY DEF ProgramsSupported
<1>6. \E T \in [1 .. NumVars(P.blocks[0]) -> Types] : BlockTyped(T, P.blocks[0])
  BY <1>5 DEF Supported
<1>7. BlockTyped(VarTypes(P), P.blocks[0])
  BY <1>6, Zenon DEF VarTypes
<1> QED BY <1>1, <1>2, <1>4, <1>5, <1>7 DEF LoopOK

(* The sizes of the block.                                                 *)
LEMMA Sizes ==
  ASSUME NEW P, NEW f, NEW n, LoopOK(P, f, n)
  PROVE  /\ P.blocks[0].params \in Seq(Types) /\ Len(P.blocks[0].params) \in Nat
         /\ Len(P.blocks[0].stmts) \in Nat
         /\ NumVars(P.blocks[0]) = Len(P.blocks[0].params) + Len(P.blocks[0].stmts)
         /\ NumVars(P.blocks[0]) \in Nat /\ Len(P.blocks[0].params) <= NumVars(P.blocks[0])
<1>1. BlockWellFormed(P, P.blocks[0])
  BY DEF LoopOK
<1>2. P.blocks[0].params \in Seq(Types) /\ Len(P.blocks[0].stmts) \in Nat
  BY <1>1 DEF BlockWellFormed
<1>3. Len(P.blocks[0].params) \in Nat
  BY <1>2
<1>4. NumVars(P.blocks[0]) = Len(P.blocks[0].params) + Len(P.blocks[0].stmts)
  BY DEF NumVars
<1>5. PICK np \in Nat : np = Len(P.blocks[0].params)
  BY <1>3
<1>6. PICK ns \in Nat : ns = Len(P.blocks[0].stmts)
  BY <1>2
<1>7. NumVars(P.blocks[0]) = np + ns
  BY <1>4, <1>5, <1>6
<1>8. np + ns \in Nat /\ np <= np + ns
  OBVIOUS
<1>9. NumVars(P.blocks[0]) \in Nat /\ Len(P.blocks[0].params) <= NumVars(P.blocks[0])
  BY <1>5, <1>7, <1>8, Zenon
<1> QED BY <1>2, <1>3, <1>4, <1>9, Zenon

ArgsOK(args, P) == args \in Seq(1 .. NumVars(P.blocks[0]))
BackOK(target, P) == /\ target.dest = "Block" /\ target.block = 0 /\ ArgsOK(target.args, P)
                     /\ Len(target.args) = Len(P.blocks[0].params)
ReturnOK(target, P) == target.dest = "Return" /\ ArgsOK(target.args, P)

(* The ways a block ends.                                                  *)
Endless(P) == P.blocks[0].term.kind = "Jmp" /\ BackOK(P.blocks[0].term.target, P)
Conditional(P) == P.blocks[0].term.kind = "JumpCond" /\ P.blocks[0].term.condition \in 1 .. NumVars(P.blocks[0])
OnSet(P) == /\ Conditional(P)
            /\ ReturnOK(P.blocks[0].term.then, P) /\ BackOK(P.blocks[0].term.else, P)
OnClear(P) == /\ Conditional(P)
              /\ BackOK(P.blocks[0].term.then, P) /\ ReturnOK(P.blocks[0].term.else, P)
Always(P) == /\ Conditional(P)
             /\ ReturnOK(P.blocks[0].term.then, P) /\ ReturnOK(P.blocks[0].term.else, P)
             /\ Len(P.blocks[0].term.then.args) = Len(P.blocks[0].term.else.args)

(* A supported terminator is one of the four that process_terminator does  *)
(* not panic on.                                                           *)
LEMMA Endings ==
  ASSUME NEW P, NEW f, NEW n, LoopOK(P, f, n)
  PROVE  Endless(P) \/ OnSet(P) \/ OnClear(P) \/ Always(P)
<1>1. PICK term : term = P.blocks[0].term
  OBVIOUS
<1>2. TermWellFormed(P, term, NumVars(P.blocks[0])) /\ TermSupported(term)
  BY <1>1 DEF LoopOK, BlockWellFormed, Supported
<1>3. ASSUME NEW target, TargetWellFormed(P, target, NumVars(P.blocks[0]))
      PROVE  /\ target.dest = "Return" => ReturnOK(target, P)
             /\ LoopsBack(target) => BackOK(target, P)
  BY <1>3 DEF TargetWellFormed, ReturnOK, BackOK, ArgsOK, LoopsBack
<1>4. CASE term.kind = "Jmp"
  <2>1. TargetWellFormed(P, term.target, NumVars(P.blocks[0])) /\ LoopsBack(term.target)
    BY <1>2, <1>4 DEF TermWellFormed, TermSupported
  <2> QED BY <1>1, <1>3, <1>4, <2>1 DEF Endless
<1>5. CASE term.kind = "JumpCond"
  <2>1. /\ term.condition \in 1 .. NumVars(P.blocks[0])
        /\ TargetWellFormed(P, term.then, NumVars(P.blocks[0]))
        /\ TargetWellFormed(P, term.else, NumVars(P.blocks[0]))
    BY <1>2, <1>5 DEF TermWellFormed
  <2>2. \/ term.then.dest = "Return" /\ LoopsBack(term.else)
        \/ LoopsBack(term.then) /\ term.else.dest = "Return"
        \/ BothReturn(term) /\ Len(term.then.args) = Len(term.else.args)
    BY <1>2, <1>5 DEF TermSupported
  <2> QED BY <1>1, <1>3, <1>5, <2>1, <2>2 DEF Conditional, OnSet, OnClear, Always, BothReturn
<1> QED BY <1>2, <1>4, <1>5 DEF TermSupported

(* What a copy is handed.                                                  *)
LEMMA NextOK ==
  ASSUME NEW P, NEW f, NEW n, LoopOK(P, f, n)
  PROVE  ArgsOK(NextArgs(P.blocks[0]), P) /\ Len(NextArgs(P.blocks[0])) = Len(P.blocks[0].params)
<1> USE DEF BackOK, ReturnOK
<1>1. CASE Endless(P)
  BY <1>1 DEF Endless, NextArgs
<1>2. CASE OnSet(P)
  BY <1>2 DEF OnSet, Conditional, NextArgs, BothReturn
<1>3. CASE OnClear(P)
  BY <1>3 DEF OnClear, Conditional, NextArgs, BothReturn
<1>4. CASE Always(P)
  <2>1. NextArgs(P.blocks[0]) = Ids(Len(P.blocks[0].params))
    BY <1>4 DEF Always, Conditional, NextArgs, BothReturn
  <2>2. PICK np \in Nat : np = Len(P.blocks[0].params)
    BY Sizes
  <2>3. PICK nv \in Nat : nv = NumVars(P.blocks[0])
    BY Sizes
  <2>4. np <= nv
    BY <2>2, <2>3, Sizes, Zenon
  <2>5. Ids(np) \in Seq(1 .. nv) /\ Len(Ids(np)) = np
    BY <2>4 DEF Ids
  <2> QED BY <2>1, <2>2, <2>3, <2>5 DEF ArgsOK
<1> QED BY <1>1, <1>2, <1>3, <1>4, Endings

-----------------------------------------------------------------------------
(* The end of a copy.                                                      *)

Leaves(tbl) == LeavesOn(Block.term, IF Block.term.kind = "Jmp" THEN 0 ELSE tbl[Block.term.condition])

ResultWidth ==
  IF Block.term.kind = "Jmp" THEN (IF form = "ir" THEN 0 ELSE Len(Block.params))
  ELSE Len(ReturnArgs(Block.term))

(* The values of a block that has been executed.                           *)
Executed(tbl) ==
  /\ tbl \in Seq(Val) /\ Len(tbl) = NumVars(Block)
  /\ Block.term.kind = "JumpCond" => tbl[Block.term.condition] \in {0, 1}

EndOK(tbl) ==
  LET target == Branch(Block.term, tbl)
  IN  /\ Defined(prog, Block.term, tbl)
      /\ Leaves(tbl) <=> target.dest = "Return"
      /\ ~Leaves(tbl) => /\ target.dest # "Return" /\ TargetBlock(target, tbl) = 0
                         /\ target.args = NextArgs(Block)
      /\ Leaves(tbl) => ResultValues(Block.term, tbl) = Args(target.args, tbl)
      /\ ResultValues(Block.term, tbl) \in Seq(Val)
      /\ Len(ResultValues(Block.term, tbl)) = ResultWidth

(* Arguments picked from a full table are values.                          *)
LEMMA ArgsValues ==
  ASSUME NEW args, ArgsOK(args, prog), NEW tbl, Executed(tbl)
  PROVE  Args(args, tbl) \in Seq(Val) /\ Len(Args(args, tbl)) = Len(args)
<1>1. \A k \in 1 .. Len(args) : args[k] \in 1 .. Len(tbl)
  BY DEF ArgsOK, Executed, Block
<1>2. \A k \in 1 .. Len(args) : tbl[args[k]] \in Val
  BY <1>1 DEF Executed
<1>3. Len(args) \in Nat
  BY DEF ArgsOK
<1> QED BY <1>2, <1>3 DEF Args

(* The done bit is set where the block returns, the result wires then hold *)
(* what it returns, and otherwise the next state is what it jumps back     *)
(* with.                                                                   *)
LEMMA EndsRight ==
  ASSUME LoopOK(prog, form, limit), NEW tbl, Executed(tbl)
  PROVE  EndOK(tbl)
<1> USE DEF Block
<1>1. CASE Endless(prog)
  <2>1. Branch(Block.term, tbl) = Block.term.target /\ ~Leaves(tbl)
    BY <1>1 DEF Endless, Branch, Leaves, LeavesOn
  <2>2. /\ Block.term.target.dest = "Block" /\ Block.term.target.block = 0
        /\ Block.term.target.args = NextArgs(Block) /\ Block.term.kind = "Jmp"
    BY <1>1 DEF Endless, BackOK, NextArgs
  <2>3. Defined(prog, Block.term, tbl) /\ TargetBlock(Block.term.target, tbl) = 0
    BY <2>1, <2>2 DEF Defined, HasBranch, TargetBlock
  <2>4. /\ ResultValues(Block.term, tbl) \in Seq(Val)
        /\ Len(ResultValues(Block.term, tbl)) = ResultWidth
    <3>1. CASE form = "ir"
      BY <2>2, <3>1 DEF ResultValues, ResultWidth
    <3>2. CASE form # "ir"
      <4>1. ResultValues(Block.term, tbl) = SubSeq(tbl, 1, Len(Block.params)) /\ ResultWidth = Len(Block.params)
        BY <2>2, <3>2 DEF ResultValues, ResultWidth
      <4>2. Len(Block.params) \in Nat /\ Len(Block.params) <= Len(tbl) /\ tbl \in Seq(Val)
        <5>1. Len(Block.params) \in Nat /\ Len(Block.params) <= NumVars(Block)
          BY Sizes, Zenon
        <5>2. tbl \in Seq(Val) /\ Len(tbl) = NumVars(Block)
          BY DEF Executed
        <5> QED BY <5>1, <5>2, Zenon
      <4> HIDE DEF Block
      <4> QED BY <4>1, <4>2
    <3> QED BY <3>1, <3>2
  <2> QED BY <2>1, <2>2, <2>3, <2>4 DEF EndOK
<1>2. CASE OnSet(prog)
  <2>1. /\ Block.term.kind = "JumpCond" /\ Block.term.then.dest = "Return" /\ Block.term.else.dest = "Block"
        /\ Block.term.else.block = 0 /\ tbl[Block.term.condition] \in {0, 1}
        /\ ArgsOK(Block.term.then.args, prog)
    BY <1>2 DEF OnSet, Conditional, ReturnOK, BackOK, Executed
  <2>2. /\ Branch(Block.term, tbl) = IF tbl[Block.term.condition] = 1 THEN Block.term.then ELSE Block.term.else
        /\ Leaves(tbl) <=> tbl[Block.term.condition] = 1
        /\ NextArgs(Block) = Block.term.else.args
    BY <2>1 DEF Branch, Leaves, LeavesOn, NextArgs, BothReturn
  <2>3. /\ Defined(prog, Block.term, tbl)
        /\ tbl[Block.term.condition] # 1 => TargetBlock(Block.term.else, tbl) = 0
    BY <2>1, <2>2 DEF Defined, HasBranch, TargetBlock
  <2>4. /\ ResultValues(Block.term, tbl) = Args(Block.term.then.args, tbl)
        /\ ResultWidth = Len(Block.term.then.args)
    BY <2>1 DEF ResultValues, BothReturn, ReturnArgs, ResultWidth
  <2>5. Args(Block.term.then.args, tbl) \in Seq(Val) /\ Len(Args(Block.term.then.args, tbl)) = Len(Block.term.then.args)
    BY <2>1, ArgsValues
  <2>6. CASE tbl[Block.term.condition] = 1
    <3>1. Branch(Block.term, tbl) = Block.term.then /\ Leaves(tbl)
      BY <2>2, <2>6
    <3> QED BY <2>1, <2>3, <2>4, <2>5, <3>1 DEF EndOK
  <2>7. CASE tbl[Block.term.condition] # 1
    <3>1. Branch(Block.term, tbl) = Block.term.else /\ ~Leaves(tbl)
      BY <2>1, <2>2, <2>7
    <3>2. TargetBlock(Block.term.else, tbl) = 0 /\ Block.term.else.dest # "Return"
      BY <2>1, <2>3, <2>7
    <3> QED BY <2>2, <2>3, <2>4, <2>5, <3>1, <3>2 DEF EndOK
  <2> QED BY <2>6, <2>7
<1>3. CASE OnClear(prog)
  <2>1. /\ Block.term.kind = "JumpCond" /\ Block.term.else.dest = "Return" /\ Block.term.then.dest = "Block"
        /\ Block.term.then.block = 0 /\ tbl[Block.term.condition] \in {0, 1}
        /\ ArgsOK(Block.term.else.args, prog)
    BY <1>3 DEF OnClear, Conditional, ReturnOK, BackOK, Executed
  <2>2. /\ Branch(Block.term, tbl) = IF tbl[Block.term.condition] = 1 THEN Block.term.then ELSE Block.term.else
        /\ Leaves(tbl) <=> tbl[Block.term.condition] = 0
        /\ NextArgs(Block) = Block.term.then.args
    BY <2>1 DEF Branch, Leaves, LeavesOn, NextArgs, BothReturn
  <2>3. /\ Defined(prog, Block.term, tbl)
        /\ tbl[Block.term.condition] = 1 => TargetBlock(Block.term.then, tbl) = 0
    BY <2>1, <2>2 DEF Defined, HasBranch, TargetBlock
  <2>4. /\ ResultValues(Block.term, tbl) = Args(Block.term.else.args, tbl)
        /\ ResultWidth = Len(Block.term.else.args)
    BY <2>1 DEF ResultValues, BothReturn, ReturnArgs, ResultWidth
  <2>5. Args(Block.term.else.args, tbl) \in Seq(Val) /\ Len(Args(Block.term.else.args, tbl)) = Len(Block.term.else.args)
    BY <2>1, ArgsValues
  <2>6. CASE tbl[Block.term.condition] = 0
    <3>1. Branch(Block.term, tbl) = Block.term.else /\ Leaves(tbl)
      BY <2>2, <2>6
    <3> QED BY <2>1, <2>3, <2>4, <2>5, <3>1 DEF EndOK
  <2>7. CASE tbl[Block.term.condition] # 0
    <3>1. Branch(Block.term, tbl) = Block.term.then /\ ~Leaves(tbl)
      BY <2>1, <2>2, <2>7
    <3>2. TargetBlock(Block.term.then, tbl) = 0 /\ Block.term.then.dest # "Return"
      BY <2>1, <2>3, <2>7
    <3> QED BY <2>2, <2>3, <2>4, <2>5, <3>1, <3>2 DEF EndOK
  <2> QED BY <2>6, <2>7
<1>4. CASE Always(prog)
  <2>1. /\ Block.term.kind = "JumpCond" /\ Block.term.then.dest = "Return" /\ Block.term.else.dest = "Return"
        /\ tbl[Block.term.condition] \in {0, 1}
        /\ ArgsOK(Block.term.then.args, prog) /\ ArgsOK(Block.term.else.args, prog)
        /\ Len(Block.term.then.args) = Len(Block.term.else.args)
    BY <1>4 DEF Always, Conditional, ReturnOK, Executed
  <2>2. /\ Branch(Block.term, tbl) = IF tbl[Block.term.condition] = 1 THEN Block.term.then ELSE Block.term.else
        /\ Leaves(tbl)
    BY <2>1 DEF Branch, Leaves, LeavesOn
  <2>3. Defined(prog, Block.term, tbl)
    BY <2>1, <2>2 DEF Defined, HasBranch
  <2>4. PICK a : a = Block.term.then.args
    OBVIOUS
  <2>5. PICK b : b = Block.term.else.args
    OBVIOUS
  <2>6. PICK c : c = tbl[Block.term.condition]
    OBVIOUS
  <2>7. PICK v \in Nat : v = NumVars(Block)
    BY Sizes
  <2>8. a \in Seq(1 .. v) /\ b \in Seq(1 .. v) /\ Len(a) = Len(b) /\ tbl \in Seq(Val) /\ Len(tbl) = v
    BY <2>1, <2>4, <2>5, <2>7 DEF ArgsOK, Executed
  <2>9. \A k \in 1 .. Len(a) : tbl[a[k]] \in Val /\ tbl[b[k]] \in Val
    <3>1. \A k \in 1 .. Len(a) : a[k] \in 1 .. v /\ b[k] \in 1 .. v
      BY <2>8
    <3> QED BY <2>8, <3>1
  <2>10. /\ ResultValues(Block.term, tbl) = [k \in 1 .. Len(a) |-> emit_mux(c, tbl[a[k]], tbl[b[k]])]
         /\ ResultWidth = Len(a)
    BY <2>1, <2>4, <2>5, <2>6 DEF ResultValues, BothReturn, ReturnArgs, ResultWidth
  <2>11. CASE c = 1
    <3>1. ResultValues(Block.term, tbl) = Args(a, tbl)
      BY <2>9, <2>10, <2>11, Mux DEF Args
    <3>2. Branch(Block.term, tbl).args = a /\ Branch(Block.term, tbl).dest = "Return"
      BY <2>1, <2>2, <2>4, <2>6, <2>11
    <3>3. Args(a, tbl) \in Seq(Val) /\ Len(Args(a, tbl)) = Len(a)
      BY <2>1, <2>4, ArgsValues
    <3> QED BY <3>1, <3>2, <3>3, <2>2, <2>3, <2>10 DEF EndOK
  <2>12. CASE c = 0
    <3>1. ResultValues(Block.term, tbl) = Args(b, tbl)
      BY <2>8, <2>9, <2>10, <2>12, Mux DEF Args
    <3>2. Branch(Block.term, tbl).args = b /\ Branch(Block.term, tbl).dest = "Return"
      BY <2>1, <2>2, <2>5, <2>6, <2>12
    <3>3. Args(b, tbl) \in Seq(Val) /\ Len(Args(b, tbl)) = Len(b)
      BY <2>1, <2>5, ArgsValues
    <3> QED BY <3>1, <3>2, <3>3, <2>2, <2>3, <2>8, <2>10 DEF EndOK
  <2> QED BY <2>1, <2>6, <2>11, <2>12
<1> QED BY <1>1, <1>2, <1>3, <1>4, Endings
-----------------------------------------------------------------------------
(* The invariant.                                                          *)

Names == {Block.stmts[j].name : j \in 1 .. Len(Block.stmts)}

(* Everything has its type and its length.                                 *)
Shape ==
  /\ LoopOK(prog, form, limit)
  /\ wires \in Seq(Val)
  /\ current_state \in Seq(1 .. Len(wires)) /\ Len(current_state) = Len(Block.params)
  /\ var_map \in Seq(1 .. Len(wires))
  /\ Len(Block.params) <= Len(var_map) /\ Len(var_map) <= NumVars(Block)
  /\ done_vars \in Seq(1 .. Len(wires)) /\ Len(done_vars) <= limit
  /\ result_wires \in Seq(Seq(1 .. Len(wires))) /\ Len(result_wires) = Len(done_vars)
  /\ \A k \in 1 .. Len(result_wires) : Len(result_wires[k]) = ResultWidth
  /\ stor \in [Cells -> Val]
  /\ log \in Seq(Names)

(* The values of the block are of their types.                             *)
WellTyped ==
  /\ \A k \in 1 .. Len(var_map) : wires[var_map[k]] \in ValuesOf(VarTypes(prog)[k])
  /\ \A c \in Cells : stor[c] \in ValuesOf(c[2])

(* Between two copies there is only the state.                             *)
Between == Len(done_vars) = limit => var_map = current_state

(* The variables of a Poly are kept apart.                                 *)
HasPoly == form = "ir" /\ \E j \in 1 .. Len(Block.stmts) : IsPoly(Block.stmts[j])
Apart == HasPoly /\ Len(done_vars) < limit => IsInjective(var_map)

(* Every entry of the cache is a gate of the block with its value.         *)
EntryTrue(entry) ==
  \E j \in 1 .. Len(Block.stmts) : \E ids :
    /\ from_stmt(Block.stmts[j])
    /\ GateIds(Block.stmts[j], ids, Len(wires))
    /\ entry[1] = GateKey(Block.stmts[j], ids)
    /\ entry[2] \in 1 .. Len(wires)
    /\ wires[entry[2]] = GateValue(Block.stmts[j], ids, wires)
CacheTrue == \A slot \in DOMAIN cache : EntryTrue(cache[slot])

(* The loop has ended if a copy of this call is done, and the first that   *)
(* is has the result.                                                      *)
Returned == Args(Branch(Block.term, halted[1]).args, halted[1])
DoneBits == \A k \in 1 .. Len(done_vars) : wires[done_vars[k]] \in {0, 1}
Ended(k) == /\ wires[done_vars[k]] = 1
            /\ \A i \in 1 .. k - 1 : wires[done_vars[i]] = 0
            /\ ValuesAt(result_wires[k]) = Returned
FirstEnds ==
  /\ halted = << >> => \A k \in 1 .. Len(done_vars) : wires[done_vars[k]] = 0
  /\ halted # << >> => \E k \in 1 .. Len(done_vars) : Ended(k)

CInv == Shape /\ WellTyped /\ Between /\ Apart /\ CacheTrue /\ DoneBits /\ FirstEnds /\ Delivers

-----------------------------------------------------------------------------
(* What a statement is worth.                                              *)

TypedTable(T, tbl) == tbl \in Seq(Val) /\ \A k \in 1 .. Len(tbl) : tbl[k] \in ValuesOf(T[k])
TypedCells(cells) == cells \in [Cells -> Val] /\ \A c \in Cells : cells[c] \in ValuesOf(c[2])

(* Operands of a typed table are inputs of their types.                    *)
LEMMA InputsTyped ==
  ASSUME NEW T, NEW tbl, TypedTable(T, tbl), NEW args \in Seq(1 .. Len(tbl))
  PROVE  Args(args, tbl) \in InputsOf(T, args) /\ Args(args, tbl) \in [1 .. Len(args) -> Val]
<1>1. \A k \in 1 .. Len(args) : args[k] \in 1 .. Len(tbl)
  OBVIOUS
<1>2. \A k \in 1 .. Len(args) : tbl[args[k]] \in Val /\ tbl[args[k]] \in ValuesOf(T[args[k]])
  BY <1>1 DEF TypedTable
<1> QED BY <1>2 DEF Args, InputsOf

(* A typed statement has a value of its type.                              *)
LEMMA ValueTyped ==
  ASSUME NEW T, NEW tbl, TypedTable(T, tbl), NEW cells, TypedCells(cells),
         NEW s, StmtWellFormed(s, Len(tbl)), StmtTyped(T, s, Len(tbl) + 1)
  PROVE  StmtValue(s, tbl, cells) \in Val /\ StmtValue(s, tbl, cells) \in ValuesOf(T[Len(tbl) + 1])
<1>1. CASE s.op = "Const"
  BY <1>1 DEF StmtValue, StmtWellFormed, StmtTyped
<1>2. CASE s.op = "Pure"
  <2>1. s.args \in Seq(1 .. Len(tbl)) /\ s.f \in [[1 .. Len(s.args) -> Val] -> Val]
    BY <1>2 DEF StmtWellFormed, FunctionOf
  <2>2. \A x \in InputsOf(T, s.args) : s.f[x] \in ValuesOf(T[Len(tbl) + 1])
    BY <1>2 DEF StmtTyped
  <2>3. StmtValue(s, tbl, cells) = s.f[Args(s.args, tbl)]
    BY <1>2 DEF StmtValue
  <2> QED BY <2>1, <2>2, <2>3, InputsTyped
<1>3. CASE s.op = "StorageRead"
  <2>1. s.storage \in Storages /\ s.ty \in Types /\ s.addr \in 1 .. Len(tbl) /\ T[Len(tbl) + 1] = s.ty
    BY <1>3 DEF StmtWellFormed, StmtTyped
  <2>2. Cell(s, tbl) \in Cells /\ Cell(s, tbl)[2] = s.ty
    BY <2>1 DEF Cell, Cells, TypedTable
  <2>3. StmtValue(s, tbl, cells) = cells[Cell(s, tbl)]
    BY <1>3 DEF StmtValue
  <2> QED BY <2>1, <2>2, <2>3 DEF TypedCells
<1>4. CASE s.op = "StorageWrite"
  BY <1>4, ProgramAssumption DEF StmtValue, StmtTyped
<1>5. CASE s.op = "ActionCall"
  <2>1. /\ s.args \in Seq(1 .. Len(tbl)) /\ s.f \in [[1 .. Len(s.args) -> Val] -> Val]
        /\ s.guard \in 1 .. Len(tbl) /\ s.fallback \in 1 .. Len(tbl)
    BY <1>5 DEF StmtWellFormed, FunctionOf
  <2>2. /\ T[s.fallback] = T[Len(tbl) + 1]
        /\ \A x \in InputsOf(T, s.args) : s.f[x] \in ValuesOf(T[Len(tbl) + 1])
    BY <1>5 DEF StmtTyped
  <2>3. StmtValue(s, tbl, cells) \in {s.f[Args(s.args, tbl)], tbl[s.fallback]}
    BY <1>5 DEF StmtValue
  <2>4. tbl[s.fallback] \in Val /\ tbl[s.fallback] \in ValuesOf(T[Len(tbl) + 1])
    BY <2>1, <2>2 DEF TypedTable
  <2>5. s.f[Args(s.args, tbl)] \in Val /\ s.f[Args(s.args, tbl)] \in ValuesOf(T[Len(tbl) + 1])
    BY <2>1, <2>2, InputsTyped
  <2> QED BY <2>3, <2>4, <2>5
<1> QED BY <1>1, <1>2, <1>3, <1>4, <1>5 DEF StmtWellFormed

(* A typed write keeps the storage typed.                                  *)
LEMMA StoreTyped ==
  ASSUME NEW T, NEW tbl, TypedTable(T, tbl), NEW cells, TypedCells(cells),
         NEW s, s.op = "StorageWrite", StmtWellFormed(s, Len(tbl)), StmtTyped(T, s, Len(tbl) + 1)
  PROVE  TypedCells([cells EXCEPT ![Cell(s, tbl)] = tbl[s.src]])
<1>1. /\ s.storage \in Storages /\ s.ty \in Types /\ s.addr \in 1 .. Len(tbl) /\ s.src \in 1 .. Len(tbl)
      /\ T[s.src] = s.ty
  BY DEF StmtWellFormed, StmtTyped
<1>2. Cell(s, tbl) \in Cells /\ Cell(s, tbl)[2] = s.ty
  BY <1>1 DEF Cell, Cells, TypedTable
<1>3. tbl[s.src] \in Val /\ tbl[s.src] \in ValuesOf(s.ty)
  BY <1>1 DEF TypedTable
<1> QED BY <1>2, <1>3 DEF TypedCells

-----------------------------------------------------------------------------
(* The statement that is next.                                             *)

(* What is known of it.                                                    *)
NextStmt(s, tbl) ==
  /\ TypedTable(VarTypes(prog), tbl) /\ Len(tbl) = Len(var_map) /\ TypedCells(stor)
  /\ \E j \in 1 .. Len(Block.stmts) : s = Block.stmts[j]
  /\ StmtWellFormed(s, Len(tbl)) /\ StmtTyped(VarTypes(prog), s, Len(tbl) + 1)
  /\ s.op \in {"StorageWrite", "ActionCall"} => limit <= 1
  /\ form = "ir" /\ IsPoly(s) => PolySupported(Block, s, limit) /\ HasPoly
  /\ form = "boolar" /\ s.op = "Pure" => GateSupported(Block, s)

(* The wires of the variables form a typed table.                          *)
LEMMA TableTyped ==
  ASSUME Shape, WellTyped
  PROVE  TypedTable(VarTypes(prog), ValuesAt(var_map)) /\ Len(ValuesAt(var_map)) = Len(var_map)
<1>1. wires \in Seq(Val) /\ var_map \in Seq(1 .. Len(wires)) /\ Len(var_map) \in Nat
  BY DEF Shape
<1>2. \A k \in 1 .. Len(var_map) : wires[var_map[k]] \in Val
  BY <1>1
<1> QED BY <1>1, <1>2 DEF WellTyped, TypedTable, ValuesAt

(* The statement to be copied next is well formed, typed and supported.    *)
LEMMA NextStmtOK ==
  ASSUME Shape, WellTyped, Len(var_map) < NumVars(Block)
  PROVE  NextStmt(StmtAt(Block, var_map), ValuesAt(var_map))
<1>1. PICK np \in Nat : np = Len(Block.params)
  BY Sizes DEF Shape, Block
<1>2. PICK ns \in Nat : ns = Len(Block.stmts)
  BY Sizes DEF Shape, Block
<1>3. PICK v \in Nat : v = Len(var_map)
  BY DEF Shape
<1>4. NumVars(Block) = np + ns
  BY <1>1, <1>2 DEF NumVars
<1>5. np <= v /\ v < np + ns
  BY <1>1, <1>3, <1>4 DEF Shape
<1>6. PICK j \in 1 .. ns : j = v - np + 1
  BY <1>5
<1>7. StmtAt(Block, var_map) = Block.stmts[j] /\ np + j - 1 = v /\ np + j = v + 1
  BY <1>1, <1>3, <1>6 DEF StmtAt
<1>8. PICK s : s = StmtAt(Block, var_map)
  OBVIOUS
<1>9. PICK tbl : tbl = ValuesAt(var_map)
  OBVIOUS
<1>10. TypedTable(VarTypes(prog), tbl) /\ Len(tbl) = v
  BY <1>3, <1>9, TableTyped
<1>11. StmtWellFormed(s, v)
  BY <1>1, <1>2, <1>6, <1>7, <1>8 DEF Shape, LoopOK, BlockWellFormed, Block
<1>12. StmtTyped(VarTypes(prog), s, v + 1)
  BY <1>1, <1>2, <1>6, <1>7, <1>8 DEF Shape, LoopOK, BlockTyped, Block
<1>13. Supported(prog, form, limit)
  BY DEF Shape, LoopOK
<1>14. /\ s.op \in {"StorageWrite", "ActionCall"} => limit <= 1
       /\ form = "ir" /\ IsPoly(s) => PolySupported(Block, s, limit)
       /\ form = "boolar" /\ s.op = "Pure" => GateSupported(Block, s)
  BY <1>2, <1>6, <1>7, <1>8, <1>13 DEF Supported, Block
<1>15. TypedCells(stor)
  BY DEF Shape, WellTyped, TypedCells
<1>16. \E i \in 1 .. Len(Block.stmts) : s = Block.stmts[i]
  BY <1>2, <1>6, <1>7, <1>8
<1>17. form = "ir" /\ IsPoly(s) => HasPoly
  BY <1>16 DEF HasPoly
<1>18. NextStmt(s, tbl)
  BY <1>3, <1>10, <1>11, <1>12, <1>14, <1>15, <1>16, <1>17 DEF NextStmt
<1> QED BY <1>8, <1>9, <1>18

(* A copy of a statement is worth what the statement is.                   *)
LEMMA CopyWorth ==
  ASSUME Shape, WellTyped, Apart, Copying, Len(var_map) < NumVars(Block),
         NEW s, NEW tbl, tbl = ValuesAt(var_map), NextStmt(s, tbl)
  PROVE  subst_ir(s, tbl, stor) = StmtValue(s, tbl, stor)
<1>1. CASE form = "ir" /\ IsPoly(s)
  <2>1. PolySupported(Block, s, limit) /\ IsInjective(var_map)
    <3>1. Len(done_vars) < limit
      BY DEF Copying
    <3> QED BY <1>1, <3>1 DEF NextStmt, Apart
  <2>2. PICK n \in Nat : n = Len(s.args)
    BY <1>1 DEF NextStmt, StmtWellFormed, IsPoly
  <2>3. PICK args : args = s.args
    OBVIOUS
  <2>4. args \in Seq(1 .. Len(var_map)) /\ Len(args) = n /\ s.op = "Pure"
    BY <1>1, <2>2, <2>3 DEF NextStmt, StmtWellFormed, IsPoly
  <2>5. PICK ids : ids = Args(args, var_map)
    OBVIOUS
  <2>6. DOMAIN ids = 1 .. n /\ \A k \in 1 .. n : ids[k] = var_map[args[k]]
    BY <2>4, <2>5 DEF Args
  <2>7. IsInjective(ids)
    <3>1. ASSUME NEW a \in 1 .. n, NEW b \in 1 .. n, ids[a] = ids[b] PROVE a = b
      <4>1. args[a] \in 1 .. Len(var_map) /\ args[b] \in 1 .. Len(var_map)
        BY <2>4
      <4>2. args[a] = args[b]
        <5>1. var_map \in Seq(1 .. Len(wires))
          BY DEF Shape
        <5>2. DOMAIN var_map = 1 .. Len(var_map)
          BY <5>1
        <5>3. var_map[args[a]] = var_map[args[b]]
          BY <3>1, <2>6
        <5> QED BY <5>2, <5>3, <4>1, <2>1 DEF IsInjective
      <4>3. a \in DOMAIN args /\ b \in DOMAIN args
        BY <2>4
      <4> QED BY <4>2, <4>3, <2>1, <2>3 DEF PolySupported, IsInjective
    <3> QED BY <3>1, <2>6 DEF IsInjective
  <2>8. \A mono \in s.monos : mono \subseteq 1 .. n
    BY <2>1, <2>2 DEF PolySupported
  <2>9. Collected(s.monos, ids) = s.monos
    BY <2>6, <2>7, <2>8, CollectedAll
  <2>10. Args(args, tbl) \in [1 .. n -> Val]
    BY <2>4, InputsTyped DEF NextStmt
  <2>11. PolyValue(s, s.monos, Args(args, tbl)) = s.f[Args(args, tbl)]
    BY <2>1, <2>2, <2>10 DEF PolySupported
  <2>12. subst_ir(s, tbl, stor) = PolyValue(s, Collected(s.monos, ids), Args(args, tbl))
    BY <1>1, <2>3, <2>5 DEF subst_ir
  <2>13. StmtValue(s, tbl, stor) = s.f[Args(args, tbl)]
    BY <2>3, <2>4 DEF StmtValue
  <2> QED BY <2>9, <2>11, <2>12, <2>13
<1>2. CASE ~ (form = "ir" /\ IsPoly(s))
  BY <1>2 DEF subst_ir
<1> QED BY <1>1, <1>2
-----------------------------------------------------------------------------
(* The circuit grows.                                                      *)

Grown == /\ wires' \in Seq(Val) /\ Len(wires) <= Len(wires')
         /\ \A i \in 1 .. Len(wires) : wires'[i] = wires[i]

(* Variables keep their values.                                            *)
LEMMA Kept ==
  ASSUME wires \in Seq(Val), Grown, NEW ids \in Seq(1 .. Len(wires))
  PROVE  /\ ids \in Seq(1 .. Len(wires'))
         /\ \A k \in 1 .. Len(ids) : ids[k] \in 1 .. Len(wires) /\ wires'[ids[k]] = wires[ids[k]]
         /\ At(wires', ids) = At(wires, ids)
<1>1. Len(wires) \in Nat /\ Len(wires') \in Nat /\ Len(wires) <= Len(wires')
  BY DEF Grown
<1>2. \A k \in 1 .. Len(ids) : ids[k] \in 1 .. Len(wires)
  OBVIOUS
<1>3. \A k \in 1 .. Len(ids) : wires'[ids[k]] = wires[ids[k]]
  BY <1>2 DEF Grown
<1>4. ids \in Seq(1 .. Len(wires'))
  BY <1>1, <1>2
<1>5. At(wires', ids) = At(wires, ids)
  BY <1>3 DEF At
<1> QED BY <1>2, <1>3, <1>4, <1>5

(* An entry of the cache stays true when wires are added: none is ever     *)
(* given another value.                                                    *)
LEMMA EntryKept ==
  ASSUME wires \in Seq(Val), Grown, UNCHANGED <<prog, form>>, NEW entry, EntryTrue(entry)
  PROVE  EntryTrue(entry)'
<1>0. PICK j \in 1 .. Len(Block.stmts) : \E ids :
        /\ from_stmt(Block.stmts[j])
        /\ GateIds(Block.stmts[j], ids, Len(wires))
        /\ entry[1] = GateKey(Block.stmts[j], ids)
        /\ entry[2] \in 1 .. Len(wires)
        /\ wires[entry[2]] = GateValue(Block.stmts[j], ids, wires)
  BY DEF EntryTrue
<1>1. PICK ids :
        /\ from_stmt(Block.stmts[j])
        /\ GateIds(Block.stmts[j], ids, Len(wires))
        /\ entry[1] = GateKey(Block.stmts[j], ids)
        /\ entry[2] \in 1 .. Len(wires)
        /\ wires[entry[2]] = GateValue(Block.stmts[j], ids, wires)
  BY <1>0
<1>2. Block' = Block
  BY DEF Block
<1>3. PICK s : s = Block.stmts[j]
  OBVIOUS
<1>4. from_stmt(s)' <=> from_stmt(s)
  BY DEF from_stmt
<1>5. Len(wires) \in Nat /\ Len(wires') \in Nat /\ Len(wires) <= Len(wires')
  BY DEF Grown
<1>6. entry[2] \in 1 .. Len(wires') /\ wires'[entry[2]] = wires[entry[2]]
  BY <1>1, <1>5 DEF Grown
<1>7. GateIds(s, ids, Len(wires')) /\ GateValue(s, ids, wires') = GateValue(s, ids, wires)
  <2>1. CASE s.op = "Const"
    BY <1>1, <1>3, <2>1 DEF GateIds, GateValue
  <2>2. CASE s.op # "Const"
    <3>1. ids \in Seq(1 .. Len(wires)) /\ Len(ids) = Len(s.args)
      BY <1>1, <1>3, <2>2 DEF GateIds
    <3>2. ids \in Seq(1 .. Len(wires')) /\ At(wires', ids) = At(wires, ids)
      BY <3>1, Kept
    <3> QED BY <2>2, <3>1, <3>2 DEF GateIds, GateValue
  <2> QED BY <2>1, <2>2
<1>8. /\ from_stmt(Block.stmts[j])'
      /\ GateIds(Block'.stmts[j], ids, Len(wires'))
      /\ entry[1] = GateKey(Block'.stmts[j], ids)
      /\ entry[2] \in 1 .. Len(wires')
      /\ wires'[entry[2]] = GateValue(Block'.stmts[j], ids, wires')
  BY <1>1, <1>2, <1>3, <1>4, <1>6, <1>7 DEF from_stmt
<1>9. j \in 1 .. Len(Block'.stmts)
  BY <1>2
<1> QED BY <1>8, <1>9 DEF EntryTrue

(* Nothing is forgotten of the copies made.                                *)
LEMMA EndedKept ==
  ASSUME Shape, Grown, DoneBits, FirstEnds, UNCHANGED <<prog, done_vars, result_wires, halted>>
  PROVE  DoneBits' /\ FirstEnds'
<1>1. wires \in Seq(Val) /\ done_vars \in Seq(1 .. Len(wires)) /\ result_wires \in Seq(Seq(1 .. Len(wires)))
      /\ Len(result_wires) = Len(done_vars) /\ Len(done_vars) \in Nat
  BY DEF Shape
<1>2. \A k \in 1 .. Len(done_vars) : wires'[done_vars[k]] = wires[done_vars[k]]
  BY <1>1, Kept
<1>3. \A k \in 1 .. Len(done_vars) : At(wires', result_wires[k]) = At(wires, result_wires[k])
  <2>1. \A k \in 1 .. Len(done_vars) : result_wires[k] \in Seq(1 .. Len(wires))
    BY <1>1
  <2> QED BY <1>1, <2>1, Kept
<1>4. Returned' = Returned
  BY DEF Returned, Block
<1>5. \A k \in 1 .. Len(done_vars) : Ended(k) => Ended(k)'
  <2>1. ASSUME NEW k \in 1 .. Len(done_vars), Ended(k) PROVE Ended(k)'
    <3>1. \A i \in 1 .. k - 1 : wires'[done_vars[i]] = 0
      BY <1>1, <1>2, <2>1 DEF Ended
    <3>2. wires'[done_vars[k]] = 1
      BY <1>2, <2>1 DEF Ended
    <3>3. At(wires, result_wires[k]) = Returned
      BY <2>1 DEF Ended, At, ValuesAt
    <3>4. At(wires', result_wires[k]) = Returned'
      BY <1>3, <1>4, <3>3
    <3> QED BY <3>1, <3>2, <3>4 DEF Ended, At, ValuesAt
  <2> QED BY <2>1
<1>6. DoneBits'
  BY <1>2 DEF DoneBits
<1>7. (halted = << >>)' => \A k \in 1 .. Len(done_vars)' : (wires[done_vars[k]])' = 0
  BY <1>2 DEF FirstEnds
<1>8. (halted # << >>)' => \E k \in 1 .. Len(done_vars)' : Ended(k)'
  <2>1. (halted # << >>) => \E k \in 1 .. Len(done_vars) : Ended(k)
    BY DEF FirstEnds
  <2> QED BY <1>5, <2>1
<1> QED BY <1>6, <1>7, <1>8 DEF FirstEnds

(* Before the first copy of a call the loop has not ended.                 *)
LEMMA NoneBefore ==
  ASSUME FirstEnds, done_vars = << >>
  PROVE  halted = << >>
BY DEF FirstEnds

(* One more value in the table.                                            *)
LEMMA TableGrows ==
  ASSUME Shape, Grown, NEW id \in 1 .. Len(wires'), var_map' = Append(var_map, id)
  PROVE  /\ var_map' \in Seq(1 .. Len(wires')) /\ Len(var_map') = Len(var_map) + 1
         /\ ValuesAt(var_map)' = Append(ValuesAt(var_map), wires'[id])
<1>1. wires \in Seq(Val) /\ var_map \in Seq(1 .. Len(wires)) /\ Len(var_map) \in Nat
  BY DEF Shape
<1>2. PICK n \in Nat : n = Len(var_map)
  BY <1>1
<1>3. var_map \in Seq(1 .. Len(wires'))
  BY <1>1, Kept
<1>4. var_map' \in Seq(1 .. Len(wires')) /\ Len(var_map') = n + 1
  BY <1>2, <1>3
<1>5. var_map'[n + 1] = id /\ \A k \in 1 .. n : var_map'[k] = var_map[k]
  BY <1>2, <1>3
<1>6. \A k \in 1 .. n : wires'[var_map[k]] = wires[var_map[k]]
  BY <1>1, <1>2, Kept
<1>7. ValuesAt(var_map)' = [k \in 1 .. n + 1 |-> wires'[var_map'[k]]]
  BY <1>4 DEF ValuesAt
<1>8. ValuesAt(var_map) = [k \in 1 .. n |-> wires[var_map[k]]]
  BY <1>2 DEF ValuesAt
<1>9. Append(ValuesAt(var_map), wires'[id]) =
        [k \in 1 .. n + 1 |-> IF k = n + 1 THEN wires'[id] ELSE wires[var_map[k]]]
  BY <1>8
<1>10. ASSUME NEW k \in 1 .. n + 1
       PROVE wires'[var_map'[k]] = IF k = n + 1 THEN wires'[id] ELSE wires[var_map[k]]
  <2>1. CASE k = n + 1
    BY <1>5, <2>1
  <2>2. CASE k # n + 1
    <3>1. k \in 1 .. n
      BY <2>2
    <3> QED BY <1>5, <1>6, <2>2, <3>1
  <2> QED BY <2>1, <2>2
<1> QED BY <1>2, <1>4, <1>7, <1>9, <1>10
-----------------------------------------------------------------------------
(* A statement, shared or emitted.                                         *)

(* What both ways of adding a statement have in common.                    *)
Adds(s, tbl, id) ==
  /\ Copying /\ Len(var_map) < NumVars(Block)
  /\ s = StmtAt(Block, var_map) /\ tbl = ValuesAt(var_map)
  /\ Grown /\ id \in 1 .. Len(wires')
  /\ var_map' = Append(var_map, id)
  /\ wires'[id] = StmtValue(s, tbl, stor)
  /\ stor' = IF s.op = "StorageWrite" THEN [stor EXCEPT ![Cell(s, tbl)] = tbl[s.src]] ELSE stor
  /\ log' = log \o Performed(s, tbl)
  /\ UNCHANGED <<prog, form, limit, current_state, done_vars, result_wires, status, out, halted>>

(* A value added keeps the shapes and the types.                           *)
LEMMA AddsShape ==
  ASSUME Shape, WellTyped, NEW s, NEW tbl, NEW id, Adds(s, tbl, id)
  PROVE  Shape' /\ WellTyped'
<1>1. NextStmt(s, tbl)
  BY NextStmtOK DEF Adds
<1>2. Block' = Block /\ ResultWidth' = ResultWidth /\ Names' = Names
  BY DEF Adds, Block, ResultWidth, Names
<1>3. wires \in Seq(Val) /\ wires' \in Seq(Val) /\ Grown /\ Len(wires) \in Nat /\ Len(wires') \in Nat
      /\ Len(wires) <= Len(wires')
  <2>1. wires \in Seq(Val)
    BY DEF Shape
  <2>2. Grown
    BY DEF Adds
  <2>3. wires' \in Seq(Val) /\ Len(wires) <= Len(wires')
    BY <2>2 DEF Grown
  <2> QED BY <2>1, <2>2, <2>3
<1>4. /\ var_map' \in Seq(1 .. Len(wires')) /\ Len(var_map') = Len(var_map) + 1
      /\ ValuesAt(var_map)' = Append(tbl, wires'[id])
  BY TableGrows DEF Adds
<1>5. current_state \in Seq(1 .. Len(wires')) /\ done_vars \in Seq(1 .. Len(wires'))
  BY <1>3, Kept DEF Shape
<1>6. result_wires \in Seq(Seq(1 .. Len(wires')))
  <2>1. \A k \in 1 .. Len(result_wires) : result_wires[k] \in Seq(1 .. Len(wires))
    BY DEF Shape
  <2>2. \A k \in 1 .. Len(result_wires) : result_wires[k] \in Seq(1 .. Len(wires'))
    BY <1>3, <2>1, Kept
  <2>3. PICK S : S = Seq(1 .. Len(wires'))
    OBVIOUS
  <2>4. PICK R : R = Seq(1 .. Len(wires))
    OBVIOUS
  <2>5. result_wires \in Seq(R) /\ \A k \in 1 .. Len(result_wires) : result_wires[k] \in S
    BY <2>2, <2>3, <2>4 DEF Shape
  <2>6. result_wires \in Seq(S)
    BY <2>5
  <2> QED BY <2>3, <2>6
<1>7. TypedCells(stor')
  <2>1. CASE s.op = "StorageWrite"
    <3>1. TypedCells([stor EXCEPT ![Cell(s, tbl)] = tbl[s.src]])
      BY <1>1, <2>1, StoreTyped DEF NextStmt
    <3> QED BY <2>1, <3>1 DEF Adds
  <2>2. CASE s.op # "StorageWrite"
    BY <1>1, <2>2 DEF Adds, NextStmt
  <2> QED BY <2>1, <2>2
<1>8. log' \in Seq(Names)
  <2>1. Performed(s, tbl) \in Seq(Names)
    <3>1. s.name \in Names
      BY <1>1 DEF NextStmt, Names
    <3> QED BY <3>1 DEF Performed
  <2>2. log \in Seq(Names) /\ log' = log \o Performed(s, tbl)
    BY DEF Shape, Adds
  <2> QED BY <2>1, <2>2
<1>9. Len(Block.params) <= Len(var_map') /\ Len(var_map') <= NumVars(Block)
  <2>1. PICK np \in Nat : np = Len(Block.params)
    BY Sizes DEF Shape, Block
  <2>2. PICK nv \in Nat : nv = NumVars(Block)
    BY Sizes DEF Shape, Block
  <2>3. PICK v \in Nat : v = Len(var_map)
    BY DEF Shape
  <2>4. np <= v /\ v < nv
    BY <2>1, <2>2, <2>3 DEF Shape, Adds
  <2>5. np <= v + 1 /\ v + 1 <= nv
    BY <2>4
  <2> QED BY <1>4, <2>1, <2>2, <2>3, <2>5, Zenon
<1>10. Shape'
  <2>1. LoopOK(prog, form, limit)' /\ Len(current_state') = Len(Block'.params)
    BY <1>2 DEF Shape, Adds
  <2>2. Len(done_vars') <= limit' /\ Len(result_wires') = Len(done_vars')
    BY DEF Shape, Adds
  <2>3. \A k \in 1 .. Len(result_wires') : Len(result_wires'[k]) = ResultWidth'
    BY <1>2 DEF Shape, Adds
  <2>4. current_state' = current_state /\ done_vars' = done_vars /\ result_wires' = result_wires
    BY DEF Adds
  <2>5. stor' \in [Cells -> Val]
    BY <1>7 DEF TypedCells
  <2> QED BY <1>2, <1>3, <1>4, <1>5, <1>6, <1>8, <1>9, <2>1, <2>2, <2>3, <2>4, <2>5 DEF Shape
<1>11. WellTyped'
  <2>1. PICK n \in Nat : n = Len(tbl)
    BY <1>1 DEF NextStmt, TypedTable
  <2>2. PICK T : T = VarTypes(prog)
    OBVIOUS
  <2>3. wires'[id] \in ValuesOf(T[n + 1])
    BY <1>1, <2>1, <2>2, ValueTyped DEF Adds, NextStmt
  <2>4. tbl \in Seq(Val) /\ \A k \in 1 .. n : tbl[k] \in ValuesOf(T[k])
    BY <1>1, <2>1, <2>2 DEF NextStmt, TypedTable
  <2>5. \A k \in 1 .. n + 1 : Append(tbl, wires'[id])[k] \in ValuesOf(T[k])
    <3>1. ASSUME NEW k \in 1 .. n + 1 PROVE Append(tbl, wires'[id])[k] \in ValuesOf(T[k])
      <4>1. CASE k = n + 1
        <5>1. Append(tbl, wires'[id])[k] = wires'[id]
          BY <2>1, <2>4, <4>1
        <5> QED BY <2>3, <4>1, <5>1
      <4>2. CASE k # n + 1
        <5>1. Append(tbl, wires'[id])[k] = tbl[k] /\ k \in 1 .. n
          BY <2>1, <2>4, <4>2
        <5> QED BY <2>4, <5>1
      <4> QED BY <4>1, <4>2
    <3> QED BY <3>1
  <2>6. Len(var_map') = n + 1
    BY <1>1, <1>4, <2>1 DEF NextStmt
  <2>7. \A k \in 1 .. n + 1 : wires'[var_map'[k]] = Append(tbl, wires'[id])[k]
    BY <1>4, <2>6 DEF ValuesAt
  <2>8. \A k \in 1 .. Len(var_map') : wires'[var_map'[k]] \in ValuesOf(VarTypes(prog')[k])
    BY <2>2, <2>5, <2>6, <2>7 DEF Adds
  <2>9. \A c \in Cells : stor'[c] \in ValuesOf(c[2])
    BY <1>7 DEF TypedCells
  <2> QED BY <2>8, <2>9 DEF WellTyped
<1> QED BY <1>10, <1>11

(* A value added keeps the invariant, provided that it has a wire of its   *)
(* own where Polys need that.                                              *)
LEMMA AddsKeeps ==
  ASSUME CInv, NEW s, NEW tbl, NEW id, Adds(s, tbl, id), HasPoly => id \notin 1 .. Len(wires), CacheTrue'
  PROVE  CInv'
<1>1. Shape' /\ WellTyped'
  BY AddsShape DEF CInv
<1>2. Between'
  BY DEF Adds, Copying, Between, CInv, Shape, LoopOK
<1>3. Apart'
  <2>1. HasPoly' <=> HasPoly
    BY DEF HasPoly, Adds, Block
  <2> SUFFICES ASSUME HasPoly PROVE IsInjective(var_map')
    BY <2>1 DEF Apart
  <2>2. PICK n \in Nat : n = Len(var_map)
    BY DEF CInv, Shape
  <2>3. IsInjective(var_map) /\ var_map \in Seq(1 .. Len(wires))
    BY DEF CInv, Apart, Adds, Copying, Shape
  <2>4. DOMAIN var_map = 1 .. n /\ \A k \in 1 .. n : var_map[k] \in 1 .. Len(wires)
    BY <2>2, <2>3
  <2>5. /\ DOMAIN var_map' = 1 .. n + 1 /\ var_map'[n + 1] = id
        /\ \A k \in 1 .. n : var_map'[k] = var_map[k]
    BY <2>2, <2>3 DEF Adds
  <2>6. id \notin 1 .. Len(wires)
    OBVIOUS
  <2>7. ASSUME NEW a \in 1 .. n + 1, NEW b \in 1 .. n + 1, var_map'[a] = var_map'[b] PROVE a = b
    <3>1. CASE a \in 1 .. n /\ b \in 1 .. n
      BY <2>3, <2>4, <2>5, <2>7, <3>1 DEF IsInjective
    <3>2. CASE a = n + 1 /\ b \in 1 .. n
      BY <2>4, <2>5, <2>6, <2>7, <3>2
    <3>3. CASE a \in 1 .. n /\ b = n + 1
      BY <2>4, <2>5, <2>6, <2>7, <3>3
    <3> QED BY <3>1, <3>2, <3>3
  <2> QED BY <2>5, <2>7 DEF IsInjective
<1>4. DoneBits' /\ FirstEnds'
  BY EndedKept DEF CInv, Adds
<1>5. Delivers'
  <2>1. status' = "run"
    BY DEF Adds, Copying
  <2>2. CallStarts' => halted' = << >>
    BY <1>4, NoneBefore DEF CallStarts, FirstEnds
  <2> QED BY <2>1, <2>2 DEF Delivers
<1> QED BY <1>1, <1>2, <1>3, <1>4, <1>5 DEF CInv

(* It is a step of the source program, or one that comes after its end.    *)
LEMMA AddsImplements ==
  ASSUME CInv, NEW s, NEW tbl, NEW id, Adds(s, tbl, id)
  PROVE  Source!eval_ir_stmt \/ UNCHANGED Source!vars
<1>1. NextStmt(s, tbl)
  BY NextStmtOK DEF CInv, Adds
<1>2. CASE halted = << >>
  <2>1. SourceStatus = "run" /\ SourceStatus' = "run" /\ SourceRet = << >> /\ SourceRet' = << >>
    BY <1>2 DEF SourceStatus, SourceRet, Adds
  <2>2. SourceVals = tbl /\ SourceVals' = Append(tbl, wires'[id])
    BY <1>2, TableGrows DEF SourceVals, CInv, Adds
  <2>3. Source!Block = Block
    BY DEF Source!Block, Block
  <2>4. Len(tbl) = Len(var_map)
    BY <1>1 DEF NextStmt
  <2>5. Source!StmtAt(Block, tbl) = s /\ Source!NumVars(Block) = NumVars(Block) /\ Len(tbl) < NumVars(Block)
    BY <2>4 DEF Source!StmtAt, StmtAt, Source!NumVars, NumVars, Adds
  <2>6. /\ Source!StmtValue(s, tbl, stor) = StmtValue(s, tbl, stor)
        /\ Source!Cell(s, tbl) = Cell(s, tbl)
        /\ Source!Performed(s, tbl) = Performed(s, tbl)
    BY DEF Source!StmtValue, StmtValue, Source!Cell, Cell, Source!Performed, Performed, Source!Args, Args
  <2>7. /\ wires'[id] = StmtValue(s, tbl, stor)
        /\ stor' = IF s.op = "StorageWrite" THEN [stor EXCEPT ![Cell(s, tbl)] = tbl[s.src]] ELSE stor
        /\ log' = log \o Performed(s, tbl)
        /\ prog' = prog
    BY DEF Adds
  <2>8. Source!eval_ir_stmt
    BY <2>1, <2>2, <2>3, <2>5, <2>6, <2>7, Zenon DEF Source!eval_ir_stmt
  <2> QED BY <2>8
<1>3. CASE halted # << >>
  <2>1. limit > 1
    <3>1. PICK k \in 1 .. Len(done_vars) : TRUE
      BY <1>3 DEF CInv, FirstEnds
    <3>2. Len(done_vars) \in Nat /\ limit \in Nat /\ Len(done_vars) < limit
      BY DEF Adds, Copying, CInv, Shape, LoopOK
    <3> QED BY <3>1, <3>2
  <2>2. limit \in Nat
    BY DEF CInv, Shape, LoopOK
  <2>3. s.op # "StorageWrite" /\ s.op # "ActionCall"
    BY <1>1, <2>1, <2>2 DEF NextStmt
  <2>4. stor' = stor
    BY <2>3 DEF Adds
  <2>5. log' = log
    <3>1. Performed(s, tbl) = << >>
      BY <2>3 DEF Performed
    <3>2. log \in Seq(Names) /\ log' = log \o << >>
      BY <3>1 DEF Adds, CInv, Shape
    <3> QED BY <3>2
  <2>6. UNCHANGED <<prog, SourceStatus, SourceVals, SourceRet>>
    BY <1>3 DEF SourceStatus, SourceVals, SourceRet, Adds, Block
  <2>7. UNCHANGED Source!vars
    BY <2>4, <2>5, <2>6 DEF Source!vars
  <2> QED BY <2>7
<1> QED BY <1>2, <1>3
(* The cache answers with the value of the statement.                      *)
LEMMA SharesRight ==
  ASSUME CInv, ShareGate
  PROVE  /\ \E id : Adds(StmtAt(Block, var_map), ValuesAt(var_map), id)
         /\ ~HasPoly /\ CacheTrue' /\ UNCHANGED <<prog, form>>
<1>1. PICK s : s = StmtAt(Block, var_map)
  OBVIOUS
<1>2. PICK tbl : tbl = ValuesAt(var_map)
  OBVIOUS
<1>3. PICK ids : ids = IF s.op = "Pure" THEN Args(s.args, var_map) ELSE << >>
  OBVIOUS
<1>4. PICK key : key = GateKey(s, ids)
  OBVIOUS
<1>5. PICK id : id = cache[Slot(key)][2]
  OBVIOUS
<1>6. /\ Copying /\ Len(var_map) < NumVars(Block) /\ from_stmt(s) /\ CacheGet(key)
      /\ var_map' = Append(var_map, id)
      /\ UNCHANGED <<prog, form, limit, wires, current_state, done_vars, result_wires, cache, stor, log,
                     status, out, halted>>
  BY <1>1, <1>3, <1>4, <1>5 DEF ShareGate
<1>7. NextStmt(s, tbl)
  BY <1>1, <1>2, <1>6, NextStmtOK DEF CInv
<1>8. s.op \in {"Const", "Pure"} /\ form = "boolar"
  BY <1>6 DEF from_stmt
<1>9. wires \in Seq(Val) /\ var_map \in Seq(1 .. Len(wires))
  BY DEF CInv, Shape
<1>10. /\ GateIds(s, ids, Len(wires)) /\ GateValue(s, ids, wires) = StmtValue(s, tbl, stor)
  <2>1. CASE s.op = "Const"
    BY <1>3, <2>1 DEF GateIds, GateValue, StmtValue
  <2>2. CASE s.op = "Pure"
    <3>1. s.args \in Seq(1 .. Len(var_map)) /\ ids = Args(s.args, var_map)
      BY <1>3, <1>7, <2>2 DEF NextStmt, StmtWellFormed
    <3>2. PICK args : args = s.args
      OBVIOUS
    <3>3. PICK n \in Nat : n = Len(args)
      BY <3>1, <3>2
    <3>4. \A k \in 1 .. n : args[k] \in 1 .. Len(var_map) /\ var_map[args[k]] \in 1 .. Len(wires)
      <4>1. \A k \in 1 .. n : args[k] \in 1 .. Len(var_map)
        BY <3>1, <3>2, <3>3
      <4> QED BY <4>1, <1>9
    <3>5. ids = [k \in 1 .. n |-> var_map[args[k]]]
      BY <3>1, <3>2, <3>3 DEF Args
    <3>6. ids \in Seq(1 .. Len(wires)) /\ Len(ids) = n
      BY <3>4, <3>5
    <3>7. At(wires, ids) = [k \in 1 .. n |-> wires[var_map[args[k]]]]
      BY <3>5, <3>6 DEF At
    <3>8. Args(args, tbl) = [k \in 1 .. n |-> wires[var_map[args[k]]]]
      <4>1. \A k \in 1 .. n : tbl[args[k]] = wires[var_map[args[k]]]
        BY <3>4, <1>2 DEF ValuesAt
      <4> QED BY <3>3, <4>1 DEF Args
    <3> QED BY <2>2, <3>2, <3>3, <3>6, <3>7, <3>8 DEF GateIds, GateValue, StmtValue
  <2> QED BY <1>8, <2>1, <2>2
<1>11. Slot(key) \in DOMAIN cache /\ cache[Slot(key)][1] = key /\ EntryTrue(cache[Slot(key)])
  BY <1>6 DEF CacheGet, CInv, CacheTrue
<1>12. PICK j \in 1 .. Len(Block.stmts) : \E jds :
         /\ from_stmt(Block.stmts[j])
         /\ GateIds(Block.stmts[j], jds, Len(wires))
         /\ key = GateKey(Block.stmts[j], jds)
         /\ id \in 1 .. Len(wires)
         /\ wires[id] = GateValue(Block.stmts[j], jds, wires)
  BY <1>5, <1>11 DEF EntryTrue
<1>13. PICK jds :
         /\ from_stmt(Block.stmts[j])
         /\ GateIds(Block.stmts[j], jds, Len(wires))
         /\ key = GateKey(Block.stmts[j], jds)
         /\ id \in 1 .. Len(wires)
         /\ wires[id] = GateValue(Block.stmts[j], jds, wires)
  BY <1>12
<1>14. PICK i \in 1 .. Len(Block.stmts) : s = Block.stmts[i]
  BY <1>7 DEF NextStmt
<1>15. PICK t : t = Block.stmts[j]
  OBVIOUS
<1>16. Shared(Block, s) /\ Shared(Block, t)
  <2>1. Supported(prog, form, limit)
    BY DEF CInv, Shape, LoopOK
  <2>2. t.op = "Pure" => GateSupported(Block, t)
    BY <1>8, <1>15, <2>1 DEF Supported, Block
  <2>3. t.op \in {"Const", "Pure"}
    BY <1>13, <1>15 DEF from_stmt
  <2>4. s.op = "Pure" => GateSupported(Block, s)
    BY <1>7, <1>8 DEF NextStmt
  <2> QED BY <1>8, <1>14, <1>15, <2>2, <2>3, <2>4 DEF Shared
<1>17. GateValue(s, ids, wires) = GateValue(t, jds, wires)
  <2>1. GateKey(s, ids) = GateKey(t, jds) /\ GateIds(t, jds, Len(wires))
    BY <1>4, <1>13, <1>15
  <2> QED BY <1>9, <1>10, <1>16, <2>1, SameKey
<1>18. wires[id] = StmtValue(s, tbl, stor)
  BY <1>10, <1>13, <1>15, <1>17
<1>19. Grown /\ id \in 1 .. Len(wires')
  BY <1>6, <1>9, <1>13 DEF Grown
<1>20. stor' = IF s.op = "StorageWrite" THEN [stor EXCEPT ![Cell(s, tbl)] = tbl[s.src]] ELSE stor
  BY <1>6, <1>8
<1>21. log' = log \o Performed(s, tbl)
  <2>1. Performed(s, tbl) = << >> /\ log \in Seq(Names)
    BY <1>8 DEF Performed, CInv, Shape
  <2> QED BY <1>6, <2>1
<1>22. Adds(s, tbl, id)
  BY <1>1, <1>2, <1>6, <1>18, <1>19, <1>20, <1>21 DEF Adds
<1>23. ~HasPoly
  BY <1>8 DEF HasPoly
<1>24. CacheTrue'
  <2>1. \A entry : EntryTrue(entry) => EntryTrue(entry)'
    BY <1>6, <1>9, <1>19, EntryKept
  <2>2. cache' = cache
    BY <1>6
  <2> QED BY <2>1, <2>2 DEF CInv, CacheTrue
<1> QED BY <1>1, <1>2, <1>6, <1>22, <1>23, <1>24

(* An emitted statement has its own wire, its value, and a true entry in   *)
(* the cache.                                                              *)
LEMMA EmitsRight ==
  ASSUME CInv, EmitStmt
  PROVE  /\ \E id : Adds(StmtAt(Block, var_map), ValuesAt(var_map), id) /\ id \notin 1 .. Len(wires)
         /\ CacheTrue'
<1>1. PICK s : s = StmtAt(Block, var_map)
  OBVIOUS
<1>2. PICK tbl : tbl = ValuesAt(var_map)
  OBVIOUS
<1>3. PICK ids : ids = IF s.op = "Pure" THEN Args(s.args, var_map) ELSE << >>
  OBVIOUS
<1>4. PICK key : key = GateKey(s, ids)
  OBVIOUS
<1>5. PICK id : id = Len(wires')
  OBVIOUS
<1>6. /\ Copying /\ Len(var_map) < NumVars(Block)
      /\ wires' = Append(wires, subst_ir(s, tbl, stor))
      /\ var_map' = Append(var_map, id)
      /\ cache' = IF from_stmt(s) THEN CacheInsert(key, id) ELSE cache
      /\ stor' = IF s.op = "StorageWrite" THEN [stor EXCEPT ![Cell(s, tbl)] = tbl[s.src]] ELSE stor
      /\ log' = log \o Performed(s, tbl)
      /\ UNCHANGED <<prog, form, limit, current_state, done_vars, result_wires, status, out, halted>>
  BY <1>1, <1>2, <1>3, <1>4, <1>5 DEF EmitStmt
<1>7. NextStmt(s, tbl)
  BY <1>1, <1>2, <1>6, NextStmtOK DEF CInv
<1>8. PICK val : val = StmtValue(s, tbl, stor)
  OBVIOUS
<1>9. wires' = Append(wires, val)
  BY <1>2, <1>6, <1>7, <1>8, CopyWorth DEF CInv
<1>10. wires \in Seq(Val) /\ Len(wires) \in Nat /\ val \in Val
  BY SMTT(30), <1>7, <1>8, ValueTyped DEF CInv, Shape, NextStmt
<1>11. /\ wires' \in Seq(Val) /\ Len(wires') = Len(wires) + 1 /\ wires'[id] = val
       /\ \A k \in 1 .. Len(wires) : wires'[k] = wires[k]
  BY <1>5, <1>9, <1>10
<1>12. Grown /\ id \in 1 .. Len(wires') /\ id \notin 1 .. Len(wires)
  BY <1>5, <1>10, <1>11 DEF Grown
<1>13. Adds(s, tbl, id)
  BY <1>1, <1>2, <1>6, <1>8, <1>11, <1>12 DEF Adds
<1>14. \A entry : EntryTrue(entry) => EntryTrue(entry)'
  BY <1>6, <1>10, <1>12, EntryKept
<1>15. ASSUME from_stmt(s) PROVE EntryTrue(<<key, id>>)'
  <2>1. s.op \in {"Const", "Pure"}
    BY <1>15 DEF from_stmt
  <2>2. PICK i \in 1 .. Len(Block.stmts) : s = Block.stmts[i]
    BY <1>7 DEF NextStmt
  <2>3. GateIds(s, ids, Len(wires')) /\ GateValue(s, ids, wires') = val
    <3>1. CASE s.op = "Const"
      BY <1>3, <1>8, <3>1 DEF GateIds, GateValue, StmtValue
    <3>2. CASE s.op = "Pure"
      <4>1. s.args \in Seq(1 .. Len(var_map)) /\ ids = Args(s.args, var_map)
        BY <1>3, <1>7, <3>2 DEF NextStmt, StmtWellFormed
      <4>2. PICK args : args = s.args
        OBVIOUS
      <4>3. PICK n \in Nat : n = Len(args)
        BY <4>1, <4>2
      <4>4. \A k \in 1 .. n : args[k] \in 1 .. Len(var_map) /\ var_map[args[k]] \in 1 .. Len(wires)
        <5>1. \A k \in 1 .. n : args[k] \in 1 .. Len(var_map)
          BY <4>1, <4>2, <4>3
        <5>2. var_map \in Seq(1 .. Len(wires))
          BY DEF CInv, Shape
        <5> QED BY <5>1, <5>2
      <4>5. ids = [k \in 1 .. n |-> var_map[args[k]]]
        BY <4>1, <4>2, <4>3 DEF Args
      <4>6. ids \in Seq(1 .. Len(wires)) /\ Len(ids) = n
        BY <4>4, <4>5
      <4>7. ids \in Seq(1 .. Len(wires')) /\ At(wires', ids) = At(wires, ids)
        BY <1>10, <1>12, <4>6, Kept
      <4>8. At(wires, ids) = [k \in 1 .. n |-> wires[var_map[args[k]]]]
        BY <4>5, <4>6 DEF At
      <4>9. Args(args, tbl) = [k \in 1 .. n |-> wires[var_map[args[k]]]]
        <5>1. \A k \in 1 .. n : tbl[args[k]] = wires[var_map[args[k]]]
          BY <4>4, <1>2 DEF ValuesAt
        <5> QED BY <4>3, <5>1 DEF Args
      <4> QED BY <1>8, <3>2, <4>2, <4>3, <4>6, <4>7, <4>8, <4>9 DEF GateIds, GateValue, StmtValue
    <3> QED BY <2>1, <3>1, <3>2
  <2>4. Block' = Block /\ from_stmt(Block.stmts[i])'
    BY <1>6, <1>15, <2>2 DEF Block, from_stmt
  <2>5. /\ i \in 1 .. Len(Block'.stmts)
        /\ from_stmt(Block.stmts[i])'
        /\ GateIds(Block'.stmts[i], ids, Len(wires'))
        /\ <<key, id>>[1] = GateKey(Block'.stmts[i], ids)
        /\ <<key, id>>[2] \in 1 .. Len(wires')
        /\ wires'[<<key, id>>[2]] = GateValue(Block'.stmts[i], ids, wires')
    BY <1>4, <1>11, <1>12, <2>2, <2>3, <2>4
  <2> QED BY <2>5 DEF EntryTrue
<1>16. CacheTrue'
  <2>1. CASE from_stmt(s)
    <3>1. ASSUME NEW slot \in DOMAIN cache' PROVE cache'[slot] = <<key, id>> \/ (slot \in DOMAIN cache /\ cache'[slot] = cache[slot])
      BY <1>6, <2>1 DEF CacheInsert
    <3>2. \A slot \in DOMAIN cache : EntryTrue(cache[slot])
      BY DEF CInv, CacheTrue
    <3>3. ASSUME NEW slot \in DOMAIN cache' PROVE EntryTrue(cache[slot])'
      <4>1. PICK entry : entry = cache'[slot]
        OBVIOUS
      <4>2. EntryTrue(entry)'
        <5>1. CASE entry = <<key, id>>
          BY <1>15, <2>1, <5>1
        <5>2. CASE slot \in DOMAIN cache /\ entry = cache[slot]
          BY <1>14, <3>2, <5>2
        <5> QED BY <3>1, <4>1, <5>1, <5>2
      <4> QED BY <4>1, <4>2 DEF EntryTrue
    <3> QED BY <3>3 DEF CacheTrue
  <2>2. CASE ~from_stmt(s)
    <3>1. cache' = cache
      BY <1>6, <2>2
    <3> QED BY <1>14, <3>1 DEF CInv, CacheTrue
  <2> QED BY <2>1, <2>2
<1> QED BY <1>1, <1>2, <1>12, <1>13, <1>16
-----------------------------------------------------------------------------
(* The end of a copy.                                                      *)

(* At the terminator the table is full and the condition is a bit.         *)
LEMMA TableExecuted ==
  ASSUME Shape, WellTyped, Len(var_map) = NumVars(Block)
  PROVE  Executed(ValuesAt(var_map))
<1>1. PICK tbl : tbl = ValuesAt(var_map)
  OBVIOUS
<1>2. TypedTable(VarTypes(prog), tbl) /\ Len(tbl) = NumVars(Block)
  BY <1>1, TableTyped
<1>3. ASSUME Block.term.kind = "JumpCond" PROVE tbl[Block.term.condition] \in {0, 1}
  <2>1. Block.term.condition \in 1 .. NumVars(Block)
    BY <1>3 DEF Shape, LoopOK, BlockWellFormed, TermWellFormed, Block
  <2>2. ValuesOf(VarTypes(prog)[Block.term.condition]) \subseteq {0, 1}
    BY <1>3 DEF Shape, LoopOK, BlockTyped, Block
  <2> QED BY <1>2, <2>1, <2>2 DEF TypedTable
<1> QED BY <1>1, <1>2, <1>3 DEF Executed, TypedTable

(* What process_terminator does, in the words of the lemmas.               *)
Hands(tbl, done, result, next) ==
  /\ tbl = ValuesAt(var_map)
  /\ done = IF Leaves(tbl) THEN 1 ELSE 0
  /\ result = ResultValues(Block.term, tbl)
  /\ next = Args(NextArgs(Block), var_map)
  /\ wires' = wires \o <<done>> \o result
  /\ done_vars' = Append(done_vars, Len(wires) + 1)
  /\ result_wires' = Append(result_wires, [k \in 1 .. Len(result) |-> Len(wires) + 1 + k])
  /\ current_state' = next /\ var_map' = next
  /\ halted' = IF done = 1 /\ halted = << >> THEN <<tbl>> ELSE halted
  /\ Copying /\ Len(var_map) = NumVars(Block)
  /\ UNCHANGED <<prog, form, limit, cache, stor, log, status, out>>
  /\ EndOK(tbl) /\ TypedTable(VarTypes(prog), tbl) /\ Len(tbl) = NumVars(Block)

(* process_terminator does what Hands says.                                *)
LEMMA TerminatorHands ==
  ASSUME CInv, process_terminator
  PROVE  \E tbl, done, result, next : Hands(tbl, done, result, next)
<1>1. PICK tbl : tbl = ValuesAt(var_map)
  OBVIOUS
<1>2. PICK done : done = IF Leaves(tbl) THEN 1 ELSE 0
  OBVIOUS
<1>3. PICK result : result = ResultValues(Block.term, tbl)
  OBVIOUS
<1>4. PICK next : next = Args(NextArgs(Block), var_map)
  OBVIOUS
<1>5. /\ Copying /\ Len(var_map) = NumVars(Block)
      /\ UNCHANGED <<prog, form, limit, cache, stor, log, status, out>>
  BY DEF process_terminator
<1>6. /\ wires' = wires \o <<done>> \o result
      /\ done_vars' = Append(done_vars, Len(wires) + 1)
      /\ result_wires' = Append(result_wires, [k \in 1 .. Len(result) |-> Len(wires) + 1 + k])
      /\ current_state' = next /\ var_map' = next
      /\ halted' = IF done = 1 /\ halted = << >> THEN <<tbl>> ELSE halted
  BY <1>1, <1>2, <1>3, <1>4 DEF process_terminator, Leaves
<1>7. EndOK(tbl)
  <2>1. Executed(tbl)
    BY <1>1, <1>5, TableExecuted DEF CInv
  <2> QED BY <2>1, EndsRight DEF CInv, Shape
<1>8. TypedTable(VarTypes(prog), tbl) /\ Len(tbl) = NumVars(Block)
  BY <1>1, <1>5, TableTyped DEF CInv
<1>9. Hands(tbl, done, result, next)
  BY <1>1, <1>2, <1>3, <1>4, <1>5, <1>6, <1>7, <1>8 DEF Hands
<1> QED BY <1>9

(* The wires of the end of a copy.                                         *)
LEMMA HandsWires ==
  ASSUME CInv, NEW tbl, NEW done, NEW result, NEW next, Hands(tbl, done, result, next)
  PROVE  /\ Grown /\ done \in {0, 1} /\ result \in Seq(Val) /\ Len(result) = ResultWidth
         /\ Len(wires') = Len(wires) + 1 + Len(result)
         /\ wires'[Len(wires) + 1] = done
         /\ \A k \in 1 .. Len(result) : wires'[Len(wires) + 1 + k] = result[k]
<1>1. done \in {0, 1}
  BY DEF Hands
<1>2. result \in Seq(Val) /\ Len(result) = ResultWidth
  BY DEF Hands, EndOK
<1>3. wires \in Seq(Val)
  BY DEF CInv, Shape
<1>4. done \in Val
  BY <1>1, ProgramAssumption
<1>5. PICK w : w = wires
  OBVIOUS
<1>6. PICK v : v = w \o <<done>> \o result
  OBVIOUS
<1>7. w \in Seq(Val) /\ v \in Seq(Val) /\ Len(v) = Len(w) + 1 + Len(result)
  BY <1>2, <1>3, <1>4, <1>5, <1>6
<1>8. \A i \in 1 .. Len(w) : v[i] = w[i]
  BY <1>2, <1>4, <1>6, <1>7
<1>9. v[Len(w) + 1] = done
  BY <1>2, <1>4, <1>6, <1>7
<1>10. \A k \in 1 .. Len(result) : v[Len(w) + 1 + k] = result[k]
  BY <1>2, <1>4, <1>6, <1>7
<1>11. wires' = v
  BY <1>5, <1>6 DEF Hands
<1>12. Grown
  BY <1>2, <1>5, <1>7, <1>8, <1>11 DEF Grown
<1> QED BY <1>1, <1>2, <1>5, <1>7, <1>9, <1>10, <1>11, <1>12

(* What is handed on.                                                      *)
LEMMA HandsNext ==
  ASSUME CInv, NEW tbl, NEW done, NEW result, NEW next, Hands(tbl, done, result, next)
  PROVE  /\ next \in Seq(1 .. Len(wires)) /\ Len(next) = Len(Block.params)
         /\ ValuesAt(var_map)' = Args(NextArgs(Block), tbl)
         /\ \A k \in 1 .. Len(next) : wires'[next[k]] \in ValuesOf(VarTypes(prog)[k])
<1>1. PICK np \in Nat : np = Len(Block.params)
  BY Sizes DEF CInv, Shape, Block
<1>2. PICK args : args = NextArgs(Block)
  OBVIOUS
<1>3. args \in Seq(1 .. Len(var_map)) /\ Len(args) = np
  BY <1>1, <1>2, NextOK DEF CInv, Shape, Hands, ArgsOK, Block
<1>4. wires \in Seq(Val) /\ var_map \in Seq(1 .. Len(wires)) /\ next = Args(args, var_map)
  BY <1>2 DEF CInv, Shape, Hands
<1>5. \A k \in 1 .. np : args[k] \in 1 .. Len(var_map)
  BY <1>3
<1>6. \A k \in 1 .. np : var_map[args[k]] \in 1 .. Len(wires)
  BY <1>4, <1>5
<1>7. next = [k \in 1 .. np |-> var_map[args[k]]]
  BY <1>3, <1>4 DEF Args
<1>8. next \in Seq(1 .. Len(wires)) /\ Len(next) = np
  BY <1>6, <1>7
<1>9. \A k \in 1 .. np : wires'[next[k]] = wires[next[k]]
  BY <1>4, <1>8, Kept, HandsWires
<1>10. \A k \in 1 .. np : tbl[args[k]] = wires[var_map[args[k]]]
  BY <1>5 DEF Hands, ValuesAt
<1>11. \A k \in 1 .. np : wires'[next[k]] = tbl[args[k]]
  BY <1>7, <1>9, <1>10
<1>12. ValuesAt(var_map)' = Args(args, tbl)
  <2>1. var_map' = next
    BY DEF Hands
  <2>2. ValuesAt(var_map)' = [k \in 1 .. np |-> wires'[next[k]]]
    BY <1>8, <2>1 DEF ValuesAt
  <2>3. Args(args, tbl) = [k \in 1 .. np |-> tbl[args[k]]]
    BY <1>3 DEF Args
  <2> QED BY <1>11, <2>2, <2>3
<1>13. \A k \in 1 .. np : wires'[next[k]] \in ValuesOf(VarTypes(prog)[k])
  <2>1. PICK T : T = VarTypes(prog)
    OBVIOUS
  <2>2. \A k \in 1 .. np : T[k] = T[args[k]]
    BY <1>1, <1>2, <2>1 DEF CInv, Shape, LoopOK, BlockTyped, Block
  <2>3. \A k \in 1 .. np : tbl[args[k]] \in ValuesOf(T[args[k]])
    <3>1. Len(tbl) = Len(var_map) /\ TypedTable(T, tbl)
      BY <2>1 DEF Hands
    <3> QED BY <1>5, <3>1 DEF TypedTable
  <2> QED BY <1>11, <2>1, <2>2, <2>3
<1> QED BY <1>1, <1>2, <1>8, <1>12, <1>13
(* The copies made so far, and the new one.                                *)
LEMMA HandsCopies ==
  ASSUME CInv, NEW tbl, NEW done, NEW result, NEW next, Hands(tbl, done, result, next)
  PROVE  /\ done_vars' \in Seq(1 .. Len(wires')) /\ Len(done_vars') = Len(done_vars) + 1
         /\ result_wires' \in Seq(Seq(1 .. Len(wires'))) /\ Len(result_wires') = Len(done_vars')
         /\ \A k \in 1 .. Len(done_vars) : /\ wires'[done_vars'[k]] = wires[done_vars[k]]
                                           /\ At(wires', result_wires'[k]) = At(wires, result_wires[k])
                                           /\ Len(result_wires'[k]) = ResultWidth
         /\ wires'[done_vars'[Len(done_vars) + 1]] = done
         /\ At(wires', result_wires'[Len(done_vars) + 1]) = result
         /\ Len(result_wires'[Len(done_vars) + 1]) = ResultWidth
<1>1. PICK n \in Nat : n = Len(wires)
  BY DEF CInv, Shape
<1>2. PICK d \in Nat : d = Len(done_vars)
  BY DEF CInv, Shape
<1>3. PICK r \in Nat : r = Len(result)
  BY HandsWires
<1>4. Len(wires') = n + 1 + r /\ wires'[n + 1] = done /\ \A k \in 1 .. r : wires'[n + 1 + k] = result[k]
  BY <1>1, <1>3, HandsWires
<1>5. wires \in Seq(Val) /\ Grown
  BY HandsWires DEF CInv, Shape
<1>6. done_vars \in Seq(1 .. Len(wires)) /\ \A k \in 1 .. d : wires'[done_vars[k]] = wires[done_vars[k]]
  BY <1>2, <1>5, Kept DEF CInv, Shape
<1>7. done_vars \in Seq(1 .. Len(wires')) /\ n + 1 \in 1 .. Len(wires')
  BY <1>4, <1>5, <1>6, Kept
<1>8. done_vars' = Append(done_vars, n + 1)
  BY <1>1 DEF Hands
<1>9. /\ done_vars' \in Seq(1 .. Len(wires')) /\ Len(done_vars') = d + 1
      /\ done_vars'[d + 1] = n + 1 /\ \A k \in 1 .. d : done_vars'[k] = done_vars[k]
  BY <1>2, <1>7, <1>8
<1>10. PICK new : new = [k \in 1 .. r |-> n + 1 + k]
  OBVIOUS
<1>11. new \in Seq(1 .. Len(wires')) /\ Len(new) = r /\ \A k \in 1 .. r : new[k] = n + 1 + k
  BY <1>4, <1>10
<1>12. At(wires', new) = result
  <2>1. At(wires', new) = [k \in 1 .. r |-> wires'[n + 1 + k]]
    BY <1>11 DEF At
  <2>2. result \in Seq(Val)
    BY HandsWires
  <2>3. result = [k \in 1 .. r |-> result[k]]
    BY <1>3, <2>2
  <2> QED BY <1>4, <2>1, <2>3
<1>13. result_wires' = Append(result_wires, new)
  BY <1>1, <1>3, <1>10 DEF Hands
<1>14. PICK R : R = Seq(1 .. Len(wires))
  OBVIOUS
<1>15. PICK S : S = Seq(1 .. Len(wires'))
  OBVIOUS
<1>16. result_wires \in Seq(R) /\ Len(result_wires) = d /\ \A k \in 1 .. d : Len(result_wires[k]) = ResultWidth
  BY <1>2, <1>14 DEF CInv, Shape
<1>17. \A k \in 1 .. d : result_wires[k] \in R
  BY <1>16
<1>18. \A k \in 1 .. d : result_wires[k] \in S /\ At(wires', result_wires[k]) = At(wires, result_wires[k])
  BY <1>5, <1>14, <1>15, <1>17, Kept
<1>19. result_wires \in Seq(S) /\ new \in S
  BY <1>11, <1>15, <1>16, <1>18
<1>20. /\ result_wires' \in Seq(S) /\ Len(result_wires') = d + 1
       /\ result_wires'[d + 1] = new /\ \A k \in 1 .. d : result_wires'[k] = result_wires[k]
  BY <1>13, <1>16, <1>19
<1>21. /\ done_vars' \in Seq(1 .. Len(wires')) /\ Len(done_vars') = d + 1
       /\ result_wires' \in Seq(Seq(1 .. Len(wires'))) /\ Len(result_wires') = d + 1
  BY <1>9, <1>15, <1>20
<1>22. \A k \in 1 .. d : /\ wires'[done_vars'[k]] = wires[done_vars[k]]
                         /\ At(wires', result_wires'[k]) = At(wires, result_wires[k])
                         /\ Len(result_wires'[k]) = ResultWidth
  BY <1>6, <1>9, <1>16, <1>18, <1>20
<1>23. /\ wires'[done_vars'[d + 1]] = done /\ At(wires', result_wires'[d + 1]) = result
       /\ Len(result_wires'[d + 1]) = ResultWidth
  BY <1>3, <1>4, <1>9, <1>11, <1>12, <1>20, HandsWires
<1> QED BY <1>2, <1>21, <1>22, <1>23

(* The end of a copy keeps the shapes, the types and the cache.            *)
LEMMA HandsShape ==
  ASSUME CInv, NEW tbl, NEW done, NEW result, NEW next, Hands(tbl, done, result, next)
  PROVE  Shape' /\ WellTyped' /\ Between' /\ CacheTrue'
<1>1. Block' = Block /\ ResultWidth' = ResultWidth /\ Names' = Names
  BY DEF Hands, Block, ResultWidth, Names
<1>2. wires \in Seq(Val) /\ wires' \in Seq(Val) /\ Grown
  BY HandsWires DEF CInv, Shape, Grown
<1>3. next \in Seq(1 .. Len(wires')) /\ Len(next) = Len(Block.params)
  BY <1>2, HandsNext, Kept
<1>4. current_state' = next /\ var_map' = next
  BY DEF Hands
<1>5. Len(Block.params) <= Len(next) /\ Len(next) <= NumVars(Block)
  <2>1. Len(Block.params) \in Nat /\ Len(Block.params) <= NumVars(Block)
    BY Sizes, Zenon DEF CInv, Shape, Block
  <2>2. PICK np \in Nat : np = Len(Block.params)
    BY <2>1
  <2>3. np <= np
    OBVIOUS
  <2> QED BY <1>3, <2>1, <2>2, <2>3, Zenon
<1>6. /\ done_vars' \in Seq(1 .. Len(wires')) /\ Len(done_vars') <= limit
      /\ result_wires' \in Seq(Seq(1 .. Len(wires'))) /\ Len(result_wires') = Len(done_vars')
  <2>1. PICK d \in Nat : d = Len(done_vars)
    BY DEF CInv, Shape
  <2>2. limit \in Nat /\ d < limit
    BY <2>1 DEF Hands, Copying, CInv, Shape, LoopOK
  <2>3. Len(done_vars') = d + 1
    BY <2>1, HandsCopies
  <2>4. Len(done_vars') <= limit
    BY <2>2, <2>3
  <2> QED BY <2>4, HandsCopies
<1>7. \A k \in 1 .. Len(result_wires') : Len(result_wires'[k]) = ResultWidth
  <2>1. PICK d \in Nat : d = Len(done_vars)
    BY DEF CInv, Shape
  <2>2. Len(result_wires') = d + 1
    BY <2>1, HandsCopies
  <2>3. Len(result_wires'[d + 1]) = ResultWidth /\ \A k \in 1 .. d : Len(result_wires'[k]) = ResultWidth
    BY <2>1, HandsCopies
  <2>4. \A k \in 1 .. d + 1 : k \in 1 .. d \/ k = d + 1
    OBVIOUS
  <2> QED BY <2>2, <2>3, <2>4
<1>8. /\ LoopOK(prog, form, limit)' /\ stor' \in [Cells -> Val] /\ log' \in Seq(Names)
  BY DEF Hands, CInv, Shape
<1>9. Shape'
  <2>1. limit' = limit
    BY DEF Hands
  <2> QED BY <1>1, <1>2, <1>3, <1>4, <1>5, <1>6, <1>7, <1>8, <2>1 DEF Shape
<1>10. WellTyped'
  <2>1. \A k \in 1 .. Len(var_map') : wires'[var_map'[k]] \in ValuesOf(VarTypes(prog')[k])
    <3>1. prog' = prog
      BY DEF Hands
    <3> QED BY <1>4, <3>1, HandsNext
  <2>2. \A c \in Cells : stor'[c] \in ValuesOf(c[2])
    BY DEF Hands, CInv, WellTyped
  <2> QED BY <2>1, <2>2 DEF WellTyped
<1>11. Between'
  BY <1>4 DEF Between
<1>12. CacheTrue'
  <2>1. prog' = prog /\ form' = form /\ cache' = cache
    BY DEF Hands
  <2>2. \A entry : EntryTrue(entry) => EntryTrue(entry)'
    BY <1>2, <2>1, EntryKept
  <2> QED BY <2>1, <2>2 DEF CInv, CacheTrue
<1> QED BY <1>9, <1>10, <1>11, <1>12

(* Polys keep their variables apart in the next copy.                      *)
LEMMA HandsApart ==
  ASSUME CInv, NEW tbl, NEW done, NEW result, NEW next, Hands(tbl, done, result, next)
  PROVE  Apart'
<1>1. HasPoly' <=> HasPoly
  BY DEF HasPoly, Hands, Block
<1> SUFFICES ASSUME HasPoly, Len(done_vars') < limit' PROVE IsInjective(var_map')
  BY <1>1 DEF Apart
<1>2. limit > 1
  <2>1. PICK d \in Nat : d = Len(done_vars)
    BY DEF CInv, Shape
  <2>2. d + 1 < limit /\ limit \in Nat
    BY <2>1, HandsCopies DEF Hands, CInv, Shape, LoopOK
  <2> QED BY <2>2
<1>3. IsInjective(NextArgs(Block))
  <2>1. PICK j \in 1 .. Len(Block.stmts) : IsPoly(Block.stmts[j])
    BY DEF HasPoly
  <2>2. PolySupported(Block, Block.stmts[j], limit)
    BY <2>1 DEF HasPoly, CInv, Shape, LoopOK, Supported, Block
  <2>3. limit \in Nat
    BY DEF CInv, Shape, LoopOK
  <2> QED BY <1>2, <2>2, <2>3 DEF PolySupported
<1>4. IsInjective(var_map)
  BY DEF CInv, Apart, Hands, Copying
<1>5. PICK args : args = NextArgs(Block)
  OBVIOUS
<1>6. PICK np \in Nat : np = Len(Block.params)
  BY Sizes DEF CInv, Shape, Block
<1>7. args \in Seq(1 .. Len(var_map)) /\ Len(args) = np
  BY <1>5, <1>6, NextOK DEF CInv, Shape, Hands, ArgsOK, Block
<1>8. DOMAIN var_map = 1 .. Len(var_map)
  <2>1. var_map \in Seq(1 .. Len(wires))
    BY DEF CInv, Shape
  <2> QED BY <2>1
<1>9. var_map' = [k \in 1 .. np |-> var_map[args[k]]]
  BY <1>5, <1>7 DEF Hands, Args
<1>10. ASSUME NEW a \in 1 .. np, NEW b \in 1 .. np, var_map'[a] = var_map'[b] PROVE a = b
  <2>1. args[a] \in 1 .. Len(var_map) /\ args[b] \in 1 .. Len(var_map)
    BY <1>7
  <2>2. var_map[args[a]] = var_map[args[b]]
    BY <1>9, <1>10
  <2>3. args[a] = args[b]
    BY <1>4, <1>8, <2>1, <2>2 DEF IsInjective
  <2>4. a \in DOMAIN args /\ b \in DOMAIN args
    BY <1>7
  <2> QED BY <1>3, <1>5, <2>3, <2>4 DEF IsInjective
<1> QED BY <1>9, <1>10 DEF IsInjective

(* The first copy that is done has the result.                             *)
LEMMA HandsEnds ==
  ASSUME CInv, NEW tbl, NEW done, NEW result, NEW next, Hands(tbl, done, result, next)
  PROVE  DoneBits' /\ FirstEnds'
<1>1. PICK d \in Nat : d = Len(done_vars)
  BY DEF CInv, Shape
<1>2. Len(done_vars') = d + 1 /\ done \in {0, 1}
  BY <1>1, HandsCopies, HandsWires
<1>3. \A k \in 1 .. d : /\ wires'[done_vars'[k]] = wires[done_vars[k]]
                        /\ At(wires', result_wires'[k]) = At(wires, result_wires[k])
  BY <1>1, HandsCopies
<1>4. wires'[done_vars'[d + 1]] = done /\ At(wires', result_wires'[d + 1]) = result
  BY <1>1, HandsCopies
<1>5. \A k \in 1 .. d + 1 : k \in 1 .. d \/ k = d + 1
  OBVIOUS
<1>6. DoneBits'
  <2>1. \A k \in 1 .. d : wires[done_vars[k]] \in {0, 1}
    BY <1>1 DEF CInv, DoneBits
  <2>2. \A k \in 1 .. d + 1 : wires'[done_vars'[k]] \in {0, 1}
    BY <1>2, <1>3, <1>4, <1>5, <2>1
  <2> QED BY <1>2, <2>2 DEF DoneBits
<1>7. CASE halted # << >>
  <2>1. PICK k \in 1 .. d : Ended(k)
    BY <1>1, <1>7 DEF CInv, FirstEnds
  <2>2. halted' = halted /\ Returned' = Returned
    BY <1>7 DEF Hands, Returned, Block
  <2>3. wires'[done_vars'[k]] = 1 /\ At(wires', result_wires'[k]) = Returned'
    BY <1>3, <2>1, <2>2 DEF Ended, At, ValuesAt
  <2>4. \A i \in 1 .. k - 1 : wires'[done_vars'[i]] = 0
    BY <1>3, <2>1 DEF Ended
  <2>5. Ended(k)'
    BY <2>3, <2>4 DEF Ended, At, ValuesAt
  <2>6. k \in 1 .. d + 1
    OBVIOUS
  <2> QED BY <1>2, <1>6, <1>7, <2>2, <2>5, <2>6 DEF FirstEnds
<1>8. CASE halted = << >> /\ done = 0
  <2>1. \A k \in 1 .. d : wires[done_vars[k]] = 0
    BY <1>1, <1>8 DEF CInv, FirstEnds
  <2>2. halted' = << >>
    BY <1>8 DEF Hands
  <2>3. \A k \in 1 .. d + 1 : wires'[done_vars'[k]] = 0
    BY <1>3, <1>4, <1>5, <1>8, <2>1
  <2> QED BY <1>2, <1>6, <2>2, <2>3 DEF FirstEnds
<1>9. CASE halted = << >> /\ done = 1
  <2>1. \A k \in 1 .. d : wires[done_vars[k]] = 0
    BY <1>1, <1>9 DEF CInv, FirstEnds
  <2>2. halted' = <<tbl>> /\ prog' = prog
    BY <1>9 DEF Hands
  <2>3. halted' # << >> /\ halted'[1] = tbl
    BY <2>2
  <2>4. Leaves(tbl)
    BY <1>9 DEF Hands
  <2>5. result = Args(Branch(Block.term, tbl).args, tbl)
    BY <2>4 DEF Hands, EndOK
  <2>6. Returned' = result
    BY <2>2, <2>3, <2>5 DEF Returned, Block
  <2>7. wires'[done_vars'[d + 1]] = 1 /\ At(wires', result_wires'[d + 1]) = Returned'
    BY <1>4, <1>9, <2>6
  <2>8. \A i \in 1 .. (d + 1) - 1 : wires'[done_vars'[i]] = 0
    BY <1>3, <2>1
  <2>9. PICK k \in 1 .. d + 1 : k = d + 1
    OBVIOUS
  <2>10. Ended(k)'
    BY <2>7, <2>8, <2>9 DEF Ended, At, ValuesAt
  <2> QED BY <1>2, <1>6, <2>3, <2>10 DEF FirstEnds
<1> QED BY <1>2, <1>7, <1>8, <1>9

(* The end of a copy keeps the invariant.                                  *)
LEMMA HandsKeeps ==
  ASSUME CInv, NEW tbl, NEW done, NEW result, NEW next, Hands(tbl, done, result, next)
  PROVE  CInv'
<1>1. status' = "run"
  BY DEF Hands, Copying
<1>2. done_vars' # << >>
  <2>1. PICK d \in Nat : d = Len(done_vars)
    BY DEF CInv, Shape
  <2>2. Len(done_vars') = d + 1
    BY <2>1, HandsCopies
  <2> QED BY <2>2
<1>3. Delivers'
  BY <1>1, <1>2 DEF Delivers, CallStarts
<1> QED BY <1>3, HandsShape, HandsApart, HandsEnds DEF CInv

(* The end of a copy is the end of an iteration, of the loop, or comes     *)
(* after it.                                                               *)
LEMMA HandsImplements ==
  ASSUME CInv, NEW tbl, NEW done, NEW result, NEW next, Hands(tbl, done, result, next)
  PROVE  Source!Return \/ Source!Jump \/ UNCHANGED Source!vars
<1>1. CASE halted # << >>
  <2>1. UNCHANGED <<prog, stor, log, halted>>
    BY <1>1 DEF Hands
  <2> QED BY <1>1, <2>1 DEF Source!vars, SourceStatus, SourceVals, SourceRet, Block
<1>2. CASE halted = << >>
  <2>1. PICK term : term = Block.term
    OBVIOUS
  <2>2. PICK target : target = Branch(term, tbl)
    OBVIOUS
  <2>3. SourceStatus = "run" /\ SourceVals = tbl /\ SourceRet = << >>
    BY <1>2 DEF SourceStatus, SourceVals, SourceRet, Hands
  <2>4. Source!Block = Block /\ Source!NumVars(Block) = NumVars(Block)
    BY DEF Source!Block, Block, Source!NumVars, NumVars
  <2>5. Source!AtTerminator
    BY <2>3, <2>4 DEF Source!AtTerminator, Hands
  <2>6. Source!Branch(term, tbl) = target
    BY <2>2 DEF Source!Branch, Branch
  <2>7. Source!Target = target
    BY <2>1, <2>3, <2>4, <2>6 DEF Source!Target
  <2>8. Source!Defined(prog, term, tbl)
    <3>1. Defined(prog, term, tbl)
      BY <2>1 DEF Hands, EndOK
    <3> QED BY <2>2, <2>6, <3>1 DEF Source!Defined, Defined, Source!HasBranch, HasBranch
  <2>9. UNCHANGED <<prog, stor, log>>
    BY DEF Hands
  <2>10. Source!Args(target.args, tbl) = Args(target.args, tbl)
    BY DEF Source!Args, Args
  <2>11. CASE Leaves(tbl)
    <3>1. target.dest = "Return"
      BY <2>1, <2>2, <2>11 DEF Hands, EndOK
    <3>2. halted' = <<tbl>>
      BY <1>2, <2>11 DEF Hands
    <3>3. halted' # << >> /\ halted'[1] = tbl
      BY <3>2
    <3>4. SourceStatus' = "return" /\ SourceVals' = tbl /\ SourceRet' = Args(target.args, tbl)
      BY <2>1, <2>2, <2>9, <3>3 DEF SourceStatus, SourceVals, SourceRet, Block
    <3>5. Source!Return
      BY <2>1, <2>3, <2>4, <2>5, <2>7, <2>8, <2>9, <2>10, <3>1, <3>4 DEF Source!Return
    <3> QED BY <3>5
  <2>12. CASE ~Leaves(tbl)
    <3>1. target.dest # "Return" /\ TargetBlock(target, tbl) = 0 /\ target.args = NextArgs(Block)
      BY <2>1, <2>2, <2>12 DEF Hands, EndOK
    <3>2. halted' = << >>
      BY <1>2, <2>12 DEF Hands
    <3>3. SourceStatus' = "run" /\ SourceVals' = Args(target.args, tbl) /\ SourceRet' = << >>
      BY <3>1, <3>2, HandsNext DEF SourceStatus, SourceVals, SourceRet
    <3>4. Source!TargetBlock(target, tbl) = 0
      BY <3>1 DEF Source!TargetBlock, TargetBlock
    <3>5. Source!Jump
      BY <2>1, <2>3, <2>4, <2>5, <2>7, <2>8, <2>9, <2>10, <3>1, <3>3, <3>4 DEF Source!Jump
    <3> QED BY <3>5
  <2> QED BY <2>11, <2>12
<1> QED BY <1>1, <1>2
-----------------------------------------------------------------------------
(* The outputs.                                                            *)

State == ValuesAt(current_state)

(* The state has the width of the block's parameters.                      *)
LEMMA StateOK ==
  ASSUME Shape
  PROVE  State \in Seq(Val) /\ Len(State) = Len(Block.params)
<1>1. wires \in Seq(Val) /\ current_state \in Seq(1 .. Len(wires)) /\ Len(current_state) \in Nat
      /\ Len(current_state) = Len(Block.params)
  BY DEF Shape
<1>2. \A k \in 1 .. Len(current_state) : wires[current_state[k]] \in Val
  BY <1>1
<1>3. ValuesAt(current_state) \in Seq(Val) /\ Len(ValuesAt(current_state)) = Len(current_state)
  BY <1>1, <1>2 DEF ValuesAt
<1> QED BY <1>1, <1>3 DEF State

(* A result is as wide as the outputs are.                                 *)
LEMMA Widths ==
  ASSUME Shape
  PROVE  ResultWidth \in Nat /\ (form = "ir" => Len(ReturnArgs(Block.term)) = ResultWidth)
<1> USE DEF Block
<1>1. CASE Endless(prog)
  BY <1>1, Sizes DEF Shape, Endless, ResultWidth, ReturnArgs
<1>2. CASE OnSet(prog) \/ OnClear(prog) \/ Always(prog)
  <2>1. Block.term.kind = "JumpCond" /\ ArgsOK(ReturnArgs(Block.term), prog)
    BY <1>2 DEF OnSet, OnClear, Always, Conditional, ReturnOK, BackOK, ReturnArgs
  <2>2. Len(ReturnArgs(Block.term)) \in Nat
    BY <2>1 DEF ArgsOK
  <2> QED BY <2>1, <2>2 DEF ResultWidth
<1> QED BY <1>1, <1>2, Endings DEF Shape

(* What the copies tell is read off their wires.                           *)
LEMMA CopiesTold ==
  ASSUME Shape, DoneBits
  PROVE  /\ Len(Copies) = Len(done_vars) /\ Told(Copies, ResultWidth)
         /\ \A k \in 1 .. Len(done_vars) : /\ Copies[k].done = wires[done_vars[k]]
                                           /\ Copies[k].result = ValuesAt(result_wires[k])
                                           /\ Len(Copies[k].result) = ResultWidth
<1>1. PICK d \in Nat : d = Len(done_vars)
  BY DEF Shape
<1>2. PICK w \in Nat : w = ResultWidth
  BY Widths
<1>3. wires \in Seq(Val) /\ \A k \in 1 .. d : result_wires[k] \in Seq(1 .. Len(wires)) /\ Len(result_wires[k]) = w
  BY <1>1, <1>2 DEF Shape
<1>4. PICK copies : copies = Copies
  OBVIOUS
<1>5. copies = [k \in 1 .. d |-> [done |-> wires[done_vars[k]], result |-> ValuesAt(result_wires[k])]]
  BY <1>1, <1>4 DEF Copies
<1>6. Len(copies) = d
  BY <1>5
<1>7. \A k \in 1 .. d : copies[k].done = wires[done_vars[k]] /\ copies[k].result = ValuesAt(result_wires[k])
  BY <1>5
<1>8. ASSUME NEW k \in 1 .. d
      PROVE  ValuesAt(result_wires[k]) \in [1 .. w -> Val] /\ Len(ValuesAt(result_wires[k])) = w
  <2>1. PICK ids : ids = result_wires[k]
    OBVIOUS
  <2>2. ids \in Seq(1 .. Len(wires)) /\ Len(ids) = w
    BY <1>3, <2>1
  <2>3. \A b \in 1 .. w : wires[ids[b]] \in Val
    BY <1>3, <2>2
  <2>4. ValuesAt(ids) = [b \in 1 .. w |-> wires[ids[b]]]
    BY <2>2 DEF ValuesAt
  <2> QED BY <2>1, <2>3, <2>4
<1>9. Told(copies, w)
  <2>1. \A k \in 1 .. d : copies[k].done \in {0, 1}
    BY <1>1, <1>7 DEF DoneBits
  <2> QED BY <1>6, <1>7, <1>8, <2>1 DEF Told
<1> QED BY <1>1, <1>2, <1>4, <1>6, <1>7, <1>8, <1>9

(* The width of the result is that of every copy's, if there is a copy.    *)
LEMMA WidthOfCopies ==
  ASSUME Shape, DoneBits
  PROVE  Width(Copies) \in Nat /\ (Len(done_vars) > 0 => Width(Copies) = ResultWidth)
<1>1. CASE form = "ir"
  BY <1>1, Widths DEF Width
<1>2. CASE form # "ir"
  <2>1. PICK d \in Nat : d = Len(done_vars)
    BY DEF Shape
  <2>2. CASE d = 0
    <3>1. Copies = << >>
      BY <2>1, <2>2 DEF Copies
    <3>2. Width(Copies) = Len(Block.params)
      BY <1>2, <3>1 DEF Width
    <3>3. Len(Block.params) \in Nat
      BY Sizes DEF Shape, Block
    <3> QED BY <2>1, <2>2, <3>2, <3>3
  <2>3. CASE d > 0
    <3>1. 1 \in 1 .. d
      BY <2>3
    <3>2. Len(Copies[1].result) = ResultWidth /\ Len(Copies) = d
      BY <2>1, <3>1, CopiesTold
    <3>3. Copies # << >>
      BY <2>3, <3>2
    <3>4. Width(Copies) = ResultWidth
      BY <1>2, <3>2, <3>3 DEF Width
    <3> QED BY <3>4, Widths
  <2> QED BY <2>2, <2>3
<1> QED BY <1>1, <1>2

(* The fallback of the cascade has the width of the results.               *)
LEMMA FallbackOK ==
  ASSUME Shape, DoneBits, Len(done_vars) > 0
  PROVE  Fallback(Copies, State) \in [1 .. ResultWidth -> Val]
<1>1. PICK w \in Nat : w = ResultWidth
  BY Widths
<1>2. Width(Copies) = w
  BY <1>1, WidthOfCopies
<1>3. wires \in Seq(Val) /\ done_vars \in Seq(1 .. Len(wires)) /\ Len(done_vars) \in Nat
  BY DEF Shape
<1>4. 1 \in 1 .. Len(done_vars)
  BY <1>3
<1>5. done_vars[1] \in 1 .. Len(wires)
  BY <1>3, <1>4
<1>6. wires[1] \in Val
  BY <1>3, <1>5
<1>7. PICK state \in Seq(Val) : state = State
  BY StateOK
<1>8. state # << >> => Last(state) \in Val
  BY DEF Last
<1>9. \A b \in 1 .. w : (IF form = "ir" \/ state = << >> THEN wires[1]
                         ELSE IF b <= Len(state) THEN state[b] ELSE Last(state)) \in Val
  BY <1>6, <1>7, <1>8
<1>10. Fallback(Copies, state) \in [1 .. w -> Val]
  BY <1>2, <1>9 DEF Fallback
<1> QED BY <1>1, <1>7, <1>10

(* The flag and the result are those of the loop.                          *)
LEMMA OutputsRight ==
  ASSUME Shape, DoneBits, FirstEnds
  PROVE  /\ halted = << >> => Outputs.done = 0 /\ Outputs.ret = Fallback(Copies, State)
         /\ halted # << >> => Outputs.done = 1 /\ Outputs.ret = Returned
         /\ Outputs.state = State
<1>1. PICK d \in Nat : d = Len(done_vars)
  BY DEF Shape
<1>2. PICK w \in Nat : w = ResultWidth
  BY Widths
<1>3. PICK copies : copies = Copies
  OBVIOUS
<1>4. PICK fallback : fallback = Fallback(Copies, State)
  OBVIOUS
<1>5. PICK dones : dones = ValuesAt(done_vars)
  OBVIOUS
<1>6. Outputs.done = overall_done(dones) /\ Outputs.ret = Cascade(copies, fallback) /\ Outputs.state = State
  BY <1>3, <1>4, <1>5 DEF Outputs, State
<1>7. Len(dones) = d /\ \A k \in 1 .. d : dones[k] = wires[done_vars[k]] /\ dones[k] \in {0, 1}
  BY <1>1, <1>5 DEF ValuesAt, DoneBits
<1>8. Told(copies, w) /\ Len(copies) = d /\ \A k \in 1 .. d : copies[k].done = wires[done_vars[k]]
  BY <1>1, <1>2, <1>3, CopiesTold
<1>9. Len(copies) > 0 => fallback \in [1 .. w -> Val]
  BY <1>1, <1>2, <1>4, <1>8, FallbackOK
<1>10. /\ \A k \in 1 .. d : FirstDone(copies, 1, k) => Cascade(copies, fallback) = copies[k].result
       /\ (\A k \in 1 .. d : copies[k].done = 0) => Cascade(copies, fallback) = fallback
  BY <1>8, <1>9, CascadePicksFirst
<1>11. /\ (\A k \in 1 .. d : dones[k] = 0) => overall_done(dones) = 0
       /\ (\E k \in 1 .. d : dones[k] = 1) => overall_done(dones) = 1
  BY <1>7, OverallDone
<1>12. CASE halted = << >>
  <2>1. \A k \in 1 .. d : wires[done_vars[k]] = 0
    BY <1>1, <1>12 DEF FirstEnds
  <2>2. overall_done(dones) = 0
    BY <1>7, <1>11, <2>1
  <2>3. Cascade(copies, fallback) = fallback
    BY <1>8, <1>10, <2>1
  <2> QED BY <1>4, <1>6, <1>12, <2>2, <2>3
<1>13. CASE halted # << >>
  <2>1. PICK k \in 1 .. d : Ended(k)
    BY <1>1, <1>13 DEF FirstEnds
  <2>2. overall_done(dones) = 1
    BY <1>7, <1>11, <2>1 DEF Ended
  <2>3. FirstDone(copies, 1, k)
    <3>1. copies[k].done = 1
      BY <1>8, <2>1 DEF Ended
    <3>2. \A i \in 1 .. k - 1 : copies[i].done = 0
      BY <1>8, <2>1 DEF Ended
    <3> QED BY <3>1, <3>2 DEF FirstDone
  <2>4. Cascade(copies, fallback) = copies[k].result
    BY <1>10, <2>3
  <2>5. copies[k].result = ValuesAt(result_wires[k])
    BY <1>1, <1>3, CopiesTold
  <2>6. ValuesAt(result_wires[k]) = Returned
    BY <2>1 DEF Ended
  <2> QED BY <1>6, <1>13, <2>2, <2>4, <2>5, <2>6
<1> QED BY <1>6, <1>12, <1>13

-----------------------------------------------------------------------------
(* The end of a call.                                                      *)

(* A call begins with the state that the one before left.                  *)
LEMMA CallShape ==
  ASSUME CInv, Between, Len(done_vars) = limit, halted = << >>, StartCall(State), status = "run",
         UNCHANGED <<prog, form, limit, stor, log, halted, status>>
  PROVE  CInv' /\ SourceVals' = SourceVals
<1>1. PICK np \in Nat : np = Len(Block.params)
  BY Sizes DEF CInv, Shape, Block
<1>2. PICK state \in Seq(Val) : state = State
  BY StateOK DEF CInv
<1>3. Len(state) = np
  BY <1>1, <1>2, StateOK DEF CInv
<1>4. /\ wires' = state /\ current_state' = Ids(np) /\ var_map' = Ids(np)
      /\ done_vars' = << >> /\ result_wires' = << >> /\ cache' = [slot \in {} |-> << >>]
  BY <1>2, <1>3 DEF StartCall
<1>5. Ids(np) \in Seq(1 .. np) /\ Len(Ids(np)) = np /\ \A k \in 1 .. np : Ids(np)[k] = k
  BY DEF Ids
<1>6. Block' = Block /\ ResultWidth' = ResultWidth /\ Names' = Names
  BY DEF Block, ResultWidth, Names
<1>7. var_map = current_state
  BY DEF Between
<1>8. Shape'
  <2>1. LoopOK(prog, form, limit)' /\ stor' \in [Cells -> Val] /\ log' \in Seq(Names)
    BY DEF CInv, Shape
  <2>2. /\ wires' \in Seq(Val) /\ Len(wires') = np
        /\ current_state' \in Seq(1 .. np) /\ Len(current_state') = np
        /\ var_map' \in Seq(1 .. np) /\ Len(var_map') = np
    BY <1>3, <1>4, <1>5
  <2>3. np <= Len(var_map') /\ Len(var_map') <= NumVars(Block)
    <3>1. Len(Block.params) <= NumVars(Block)
      BY Sizes, Zenon DEF CInv, Shape, Block
    <3>2. np <= NumVars(Block)
      BY <1>1, <3>1, Zenon
    <3>3. np <= np
      OBVIOUS
    <3> QED BY <2>2, <3>2, <3>3
  <2>4. done_vars' \in Seq(1 .. np) /\ Len(done_vars') = 0
    BY <1>4
  <2>5. result_wires' \in Seq(Seq(1 .. np)) /\ Len(result_wires') = 0
    BY <1>4
  <2>6. Len(done_vars') <= limit'
    BY <2>4 DEF CInv, Shape, LoopOK
  <2>7. \A k \in 1 .. Len(result_wires') : Len(result_wires'[k]) = ResultWidth'
    BY <2>5
  <2> QED BY <1>1, <1>6, <2>1, <2>2, <2>3, <2>4, <2>5, <2>6, <2>7 DEF Shape
<1>9. ValuesAt(var_map)' = state
  <2>1. ValuesAt(var_map)' = [k \in 1 .. np |-> state[k]]
    BY <1>4, <1>5 DEF ValuesAt
  <2> QED BY <1>3, <2>1
<1>10. WellTyped'
  <2>1. \A k \in 1 .. np : state[k] \in ValuesOf(VarTypes(prog)[k])
    <3>1. TypedTable(VarTypes(prog), ValuesAt(var_map))
      BY TableTyped DEF CInv
    <3>2. ValuesAt(var_map) = state
      BY <1>2, <1>7 DEF State
    <3> QED BY <1>3, <3>1, <3>2 DEF TypedTable
  <2>2. \A k \in 1 .. Len(var_map') : wires'[var_map'[k]] \in ValuesOf(VarTypes(prog')[k])
    BY <1>4, <1>5, <2>1
  <2> QED BY <2>2 DEF CInv, WellTyped
<1>11. Between'
  BY <1>4 DEF Between
<1>12. Apart'
  <2>1. IsInjective(Ids(np))
    BY DEF IsInjective, Ids
  <2> QED BY <1>4, <2>1 DEF Apart
<1>13. CacheTrue'
  BY <1>4 DEF CacheTrue
<1>14. DoneBits' /\ FirstEnds'
  BY <1>4 DEF DoneBits, FirstEnds
<1>15. Delivers'
  BY DEF Delivers
<1>16. SourceVals' = SourceVals
  BY <1>2, <1>7, <1>9 DEF SourceVals, State
<1> QED BY <1>8, <1>10, <1>11, <1>12, <1>13, <1>14, <1>15, <1>16 DEF CInv

(* The end of a call delivers, or begins the next call; the loop does not  *)
(* see it.                                                                 *)
LEMMA FinishStep ==
  ASSUME CInv, Finish
  PROVE  CInv' /\ UNCHANGED Source!vars
<1>1. /\ status = "run" /\ Len(done_vars) = limit /\ out' = Outputs
      /\ UNCHANGED <<prog, form, limit, stor, log, halted>>
  BY DEF Finish
<1>2. CASE Outputs.done = 1 \/ form = "boolar"
  <2>1. /\ status' = IF Outputs.done = 1 THEN "return" ELSE "exhausted"
        /\ UNCHANGED <<wires, current_state, var_map, done_vars, result_wires, cache>>
    BY <1>2 DEF Finish
  <2>2. CInv => Shape /\ DoneBits /\ FirstEnds
    BY DEF CInv
  <2>3. Delivers'
    <3>1. CASE halted = << >>
      <4>1. Outputs.done = 0 /\ Outputs.ret = Fallback(Copies, State) /\ Outputs.state = State
        BY <2>2, <3>1, OutputsRight
      <4>2. status' = "exhausted" /\ form = "boolar"
        BY <1>2, <2>1, <4>1
      <4>3. PICK w \in Nat : w = Width(Copies)
        BY <2>2, WidthOfCopies
      <4>4. PICK state \in Seq(Val) : state = State
        BY <2>2, StateOK
      <4>5. PICK ret : ret = Outputs.ret
        OBVIOUS
      <4>6. ret = [b \in 1 .. w |-> IF form = "ir" \/ state = << >> THEN wires[1]
                                    ELSE IF b <= Len(state) THEN state[b] ELSE Last(state)]
        BY <4>1, <4>3, <4>4, <4>5 DEF Fallback
      <4>7. Len(ret) = w
        BY <4>6
      <4>8. ASSUME NEW b \in 1 .. w, b <= Len(state) PROVE ret[b] = state[b]
        <5>1. state # << >> /\ form # "ir"
          BY <4>2, <4>8
        <5> QED BY <4>6, <4>8, <5>1
      <4>9. out'.ret = ret /\ out'.state = state
        BY <1>1, <4>1, <4>4, <4>5
      <4>10. halted' = << >>
        BY <1>1, <3>1
      <4> QED BY <4>2, <4>7, <4>8, <4>9, <4>10 DEF Delivers
    <3>2. CASE halted # << >>
      <4>1. Outputs.done = 1 /\ Outputs.ret = Returned
        BY <2>2, <3>2, OutputsRight
      <4>2. status' = "return" /\ halted' # << >> /\ prog' = prog /\ halted' = halted
        BY <1>1, <2>1, <3>2, <4>1
      <4>3. out'.ret = Args(Branch(Block'.term, halted'[1]).args, halted'[1])
        BY <1>1, <4>1, <4>2 DEF Returned, Block
      <4>4. ~CallStarts'
        <5>1. done_vars # << >>
          BY <2>2, <3>2, NoneBefore
        <5> QED BY <2>1, <5>1 DEF CallStarts
      <4> QED BY <4>2, <4>3, <4>4 DEF Delivers
    <3> QED BY <3>1, <3>2
  <2>4. Shape' /\ WellTyped' /\ Between' /\ Apart' /\ CacheTrue' /\ DoneBits' /\ FirstEnds'
    <3>1. UNCHANGED <<prog, form, limit, wires, current_state, var_map, done_vars, result_wires, cache, stor, log, halted>>
      BY <1>1, <2>1
    <3>2. Block' = Block /\ ResultWidth' = ResultWidth /\ Names' = Names
      BY <3>1 DEF Block, ResultWidth, Names
    <3>3. Shape'
      BY <3>1, <3>2 DEF CInv, Shape
    <3>4. WellTyped' /\ Between' /\ Apart' /\ DoneBits'
      BY <3>1, <3>2 DEF CInv, WellTyped, Between, Apart, HasPoly, DoneBits
    <3>5. CacheTrue'
      BY <3>1, <3>2 DEF CInv, CacheTrue, EntryTrue, from_stmt
    <3>6. FirstEnds'
      BY <3>1, <3>2 DEF CInv, FirstEnds, Ended, Returned, ValuesAt
    <3> QED BY <3>3, <3>4, <3>5, <3>6
  <2>5. CInv'
    BY <2>3, <2>4 DEF CInv
  <2>6. UNCHANGED Source!vars
    BY <1>1, <2>1 DEF Source!vars, SourceStatus, SourceVals, SourceRet, ValuesAt, Block
  <2> QED BY <2>5, <2>6
<1>3. CASE ~ (Outputs.done = 1 \/ form = "boolar")
  <2>1. status' = status /\ StartCall(Outputs.state)
    BY <1>3 DEF Finish
  <2>2. halted = << >> /\ Outputs.state = State
    BY <1>3, OutputsRight DEF CInv
  <2>3. StartCall(State)
    BY <2>1, <2>2
  <2>4. CInv' /\ SourceVals' = SourceVals
    BY <1>1, <2>1, <2>2, <2>3, CallShape DEF CInv
  <2>5. UNCHANGED Source!vars
    BY <1>1, <2>2, <2>4 DEF Source!vars, SourceStatus, SourceRet, Block
  <2> QED BY <2>4, <2>5
<1> QED BY <1>2, <1>3
-----------------------------------------------------------------------------
(* The circuit implements the loop.                                        *)

(* The first call begins where the loop does.                              *)
LEMMA InitRight ==
  ASSUME ProgramsSupported, Init
  PROVE  CInv /\ Source!Init
<1>1. /\ prog \in SelfLoops /\ form \in Forms(prog) /\ limit \in Limits(prog)
      /\ wires \in InputsFor(Block.params)
      /\ current_state = Ids(Len(wires)) /\ var_map = Ids(Len(wires))
      /\ done_vars = << >> /\ result_wires = << >> /\ cache = [slot \in {} |-> << >>]
      /\ stor = prog.pre_init /\ log = << >> /\ status = "run" /\ halted = << >>
  BY DEF Init
<1>2. LoopOK(prog, form, limit)
  BY <1>1, LoopsOK
<1>3. PICK np \in Nat : np = Len(Block.params)
  BY <1>2, Sizes DEF Block
<1>4. /\ wires \in [1 .. np -> Val]
      /\ \A k \in 1 .. np : wires[k] \in ValuesOf(Block.params[k])
  BY <1>1, <1>3 DEF InputsFor
<1>5. wires \in Seq(Val) /\ Len(wires) = np
  BY <1>4
<1>6. Ids(np) \in Seq(1 .. np) /\ Len(Ids(np)) = np /\ \A k \in 1 .. np : Ids(np)[k] = k
  BY DEF Ids
<1>7. current_state = Ids(np) /\ var_map = Ids(np)
  BY <1>1, <1>5
<1>8. Shape
  <2>1. np <= NumVars(Block)
    <3>1. Len(Block.params) <= NumVars(Block)
      BY <1>2, Sizes, Zenon DEF Block
    <3> QED BY <1>3, <3>1, Zenon
  <2>2. np <= np
    OBVIOUS
  <2>3. /\ current_state \in Seq(1 .. Len(wires)) /\ Len(current_state) = Len(Block.params)
        /\ var_map \in Seq(1 .. Len(wires))
        /\ Len(Block.params) <= Len(var_map) /\ Len(var_map) <= NumVars(Block)
    BY <1>3, <1>5, <1>6, <1>7, <2>1, <2>2
  <2>4. done_vars \in Seq(1 .. Len(wires)) /\ Len(done_vars) = 0
    BY <1>1
  <2>5. result_wires \in Seq(Seq(1 .. Len(wires))) /\ Len(result_wires) = 0
    BY <1>1
  <2>6. Len(done_vars) <= limit
    BY <1>2, <2>4 DEF LoopOK
  <2>7. \A k \in 1 .. Len(result_wires) : Len(result_wires[k]) = ResultWidth
    BY <2>5
  <2>8. stor \in [Cells -> Val]
    BY <1>1, <1>2 DEF LoopOK
  <2>9. log \in Seq(Names)
    BY <1>1
  <2> QED BY <1>2, <1>5, <2>3, <2>4, <2>5, <2>6, <2>7, <2>8, <2>9 DEF Shape
<1>9. WellTyped
  <2>1. \A k \in 1 .. np : VarTypes(prog)[k] = Block.params[k]
    BY <1>2, <1>3 DEF LoopOK, BlockTyped, Block
  <2>2. \A k \in 1 .. Len(var_map) : wires[var_map[k]] \in ValuesOf(VarTypes(prog)[k])
    BY <1>4, <1>6, <1>7, <2>1
  <2>3. \A c \in Cells : stor[c] \in ValuesOf(c[2])
    BY <1>1, <1>2 DEF LoopOK, Supported
  <2> QED BY <2>2, <2>3 DEF WellTyped
<1>10. Between
  BY <1>7 DEF Between
<1>11. Apart
  <2>1. IsInjective(Ids(np))
    BY DEF IsInjective, Ids
  <2> QED BY <1>7, <2>1 DEF Apart
<1>12. CacheTrue
  BY <1>1 DEF CacheTrue
<1>13. DoneBits /\ FirstEnds
  BY <1>1 DEF DoneBits, FirstEnds
<1>14. Delivers
  BY <1>1 DEF Delivers
<1>15. CInv
  BY <1>8, <1>9, <1>10, <1>11, <1>12, <1>13, <1>14 DEF CInv
<1>16. Source!Init
  <2>1. SourceStatus = "run" /\ SourceRet = << >> /\ SourceVals = ValuesAt(var_map)
    BY <1>1 DEF SourceStatus, SourceRet, SourceVals
  <2>2. ValuesAt(var_map) = wires
    <3>1. ValuesAt(var_map) = [k \in 1 .. np |-> wires[k]]
      BY <1>6, <1>7 DEF ValuesAt
    <3> QED BY <1>4, <3>1
  <2>3. wires \in Source!InputsFor(prog.blocks[0].params)
    BY <1>1 DEF InputsFor, Source!InputsFor, Block
  <2>4. prog \in Programs
    BY <1>1 DEF SelfLoops
  <2> QED BY <1>1, <2>1, <2>2, <2>3, <2>4, Zenon DEF Source!Init
<1> QED BY <1>15, <1>16

(* Where nothing happens the invariant stays.                              *)
LEMMA StutterRight ==
  ASSUME CInv, UNCHANGED vars
  PROVE  CInv' /\ UNCHANGED Source!vars
<1>1. UNCHANGED <<prog, form, limit, wires, current_state, var_map, done_vars, result_wires, cache, stor, log,
                  status, out, halted>>
  BY DEF vars
<1>2. Block' = Block /\ ResultWidth' = ResultWidth /\ Names' = Names
  BY <1>1 DEF Block, ResultWidth, Names
<1>3. Shape'
  BY <1>1, <1>2 DEF CInv, Shape
<1>4. WellTyped' /\ Between' /\ Apart' /\ DoneBits'
  BY <1>1, <1>2 DEF CInv, WellTyped, Between, Apart, HasPoly, DoneBits
<1>5. CacheTrue'
  BY <1>1, <1>2 DEF CInv, CacheTrue, EntryTrue, from_stmt
<1>6. FirstEnds'
  BY <1>1, <1>2 DEF CInv, FirstEnds, Ended, Returned, ValuesAt
<1>7. Delivers'
  BY <1>1, <1>2 DEF CInv, Delivers, CallStarts
<1>8. UNCHANGED Source!vars
  BY <1>1 DEF Source!vars, SourceStatus, SourceVals, SourceRet, ValuesAt, Block
<1> QED BY <1>3, <1>4, <1>5, <1>6, <1>7, <1>8 DEF CInv

(* Every step of the circuit is one of the loop, or none of it.            *)
LEMMA StepRight ==
  ASSUME CInv, [Next]_vars
  PROVE  CInv' /\ [Source!Next]_(Source!vars)
<1>1. CASE ShareGate
  <2>1. PICK id : Adds(StmtAt(Block, var_map), ValuesAt(var_map), id)
    BY <1>1, SharesRight
  <2>2. CInv'
    BY <1>1, <2>1, SharesRight, AddsKeeps
  <2>3. Source!eval_ir_stmt \/ UNCHANGED Source!vars
    BY <2>1, AddsImplements
  <2> QED BY <2>2, <2>3 DEF Source!Next
<1>2. CASE EmitStmt
  <2>1. PICK id : Adds(StmtAt(Block, var_map), ValuesAt(var_map), id) /\ id \notin 1 .. Len(wires)
    BY <1>2, EmitsRight
  <2>2. CInv'
    BY <1>2, <2>1, EmitsRight, AddsKeeps
  <2>3. Source!eval_ir_stmt \/ UNCHANGED Source!vars
    BY <2>1, AddsImplements
  <2> QED BY <2>2, <2>3 DEF Source!Next
<1>3. CASE process_terminator
  <2>1. PICK tbl, done, result, next : Hands(tbl, done, result, next)
    BY <1>3, TerminatorHands
  <2>2. CInv'
    BY <2>1, HandsKeeps
  <2>3. Source!Return \/ Source!Jump \/ UNCHANGED Source!vars
    BY <2>1, HandsImplements
  <2> QED BY <2>2, <2>3 DEF Source!Next
<1>4. CASE Finish
  BY <1>4, FinishStep
<1>5. CASE UNCHANGED vars
  BY <1>5, StutterRight
<1> QED BY <1>1, <1>2, <1>3, <1>4, <1>5 DEF Next

(* The circuits lower_to_circuit and lower_to_circuit_ir make of a         *)
(* supported loop do what the loop does: a copy is an iteration, and the   *)
(* copies after the loop's end change nothing that can be seen.            *)
THEOREM CircuitRefines ==
  ASSUME ProgramsSupported
  PROVE  Spec => Refines
<1>1. Init => CInv /\ Source!Init
  BY InitRight
<1>2. CInv /\ [Next]_vars => CInv' /\ [Source!Next]_(Source!vars)
  BY StepRight
<1> QED BY <1>1, <1>2, PTL DEF Spec, Refines, Source!Spec

(* The termination flag is set exactly when the loop ended within the      *)
(* copies made; then the cascade of multiplexers delivers what the loop    *)
(* returned, and otherwise the boolar form returns the state.              *)
THEOREM CircuitDelivers ==
  ASSUME ProgramsSupported
  PROVE  Spec => []Delivers
<1>1. Init => CInv
  BY InitRight
<1>2. CInv /\ [Next]_vars => CInv'
  BY StepRight
<1>3. CInv => Delivers
  BY DEF CInv
<1> QED BY <1>1, <1>2, <1>3, PTL DEF Spec
=============================================================================
