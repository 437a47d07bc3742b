---------------------------- MODULE FoldTheorems ----------------------------
(***************************************************************************)
(* Induction over the natural numbers, and what it says of an operation    *)
(* carried through a sequence from the left, as the evaluators and the     *)
(* builders of the passes do (Through in Reversible).                      *)
(***************************************************************************)
EXTENDS Integers, Sequences, TLAPS, FiniteSetTheorems

CONSTANT op(_, _)   \* the state so far and the next member

(* The states from the first to the last.                                  *)
Steps(t, from, seq) == t = [k \in 0 .. Len(seq) |-> IF k = 0 THEN from ELSE op(t[k - 1], seq[k])]
Walk(from, seq) == CHOOSE t : Steps(t, from, seq)
Fold(from, seq) == Walk(from, seq)[Len(seq)]

-----------------------------------------------------------------------------
(* Every set of natural numbers that is not empty has a least member.      *)
LEMMA LeastNumber ==
  ASSUME NEW T \in SUBSET Nat, T # {}
  PROVE  \E n \in T : \A m \in T : n <= m
<1> DEFINE F == {0 .. n : n \in T}
<1>1. F \subseteq FiniteSubsetsOf(Nat)
  <2>1. \A n \in T : IsFiniteSet(0 .. n)
    BY FS_Interval
  <2> QED BY <2>1 DEF FiniteSubsetsOf
<1>2. F # {}
  OBVIOUS
<1>3. PICK x \in F : \A y \in F : ~ (<<y, x>> \in StrictSubsetOrdering(Nat))
  <2> HIDE DEF F
  <2> QED BY <1>1, <1>2, FS_StrictSubsetOrderingWellFounded, WFMin, Zenon
<1>4. PICK n \in T : x = 0 .. n
  OBVIOUS
<1>5. ASSUME NEW m \in T, m < n PROVE FALSE
  <2>1. 0 .. m \in F
    OBVIOUS
  <2>2. <<0 .. m, 0 .. n>> \in StrictSubsetOrdering(Nat)
    <3>1. 0 .. m \subseteq 0 .. n /\ 0 .. m \subseteq Nat /\ 0 .. n \subseteq Nat
      BY <1>5
    <3>2. n \in 0 .. n /\ n \notin 0 .. m
      BY <1>5
    <3> QED BY <3>1, <3>2 DEF StrictSubsetOrdering
  <2> QED BY <2>1, <2>2, <1>3, <1>4
<1> QED BY <1>5

(* Induction up to N, on the set of the numbers that have the property.    *)
LEMMA UpTo ==
  ASSUME NEW N \in Nat, NEW T, 0 \in T,
         \A k \in 0 .. N - 1 : k \in T => k + 1 \in T
  PROVE  \A k \in 0 .. N : k \in T
<1> DEFINE U == {k \in 0 .. N : k \notin T}
<1> SUFFICES ASSUME U # {} PROVE FALSE
  OBVIOUS
<1>1. PICK n \in U : \A m \in U : n <= m
  <2>1. U \in SUBSET Nat
    OBVIOUS
  <2> HIDE DEF U
  <2> QED BY <2>1, LeastNumber
<1>2. n - 1 \in 0 .. N - 1 /\ n - 1 \notin U
  BY <1>1
<1> QED BY <1>1, <1>2

-----------------------------------------------------------------------------
(* The states exist.                                                       *)
LEMMA WalkExists ==
  ASSUME NEW from, NEW seq, Len(seq) \in Nat
  PROVE  Steps(Walk(from, seq), from, seq)
<1> DEFINE R(t, n) == t = [k \in 0 .. n |-> IF k = 0 THEN from ELSE op(t[k - 1], seq[k])]
           T == {n \in Nat : \E t : R(t, n)}
<1>1. 0 \in T
  <2>1. R([k \in 0 .. 0 |-> from], 0)
    OBVIOUS
  <2> QED BY <2>1
<1>2. ASSUME NEW n \in Nat, n \in T PROVE n + 1 \in T
  <2>1. PICK t : R(t, n)
    BY <1>2
  <2> DEFINE u == [k \in 0 .. n + 1 |-> IF k = n + 1 THEN op(t[n], seq[n + 1]) ELSE t[k]]
  <2>2. ASSUME NEW k \in 0 .. n + 1 PROVE u[k] = IF k = 0 THEN from ELSE op(u[k - 1], seq[k])
    <3>1. CASE k = n + 1
      <4>1. n \in 0 .. n + 1 /\ n # n + 1 /\ (n + 1) - 1 = n /\ n + 1 # 0
        OBVIOUS
      <4> QED BY <3>1, <4>1
    <3>2. CASE k # n + 1
      BY <2>1, <3>2
    <3> QED BY <3>1, <3>2
  <2>3. R(u, n + 1)
    BY <2>2
  <2> HIDE DEF u
  <2> QED BY <2>3
<1>3. Len(seq) \in T
  <2> HIDE DEF T
  <2>1. \A k \in 0 .. Len(seq) - 1 : k \in T => k + 1 \in T
    BY <1>2
  <2>2. \A k \in 0 .. Len(seq) : k \in T
    BY <1>1, <2>1, UpTo, Zenon
  <2> QED BY <2>2
<1>4. PICK t : R(t, Len(seq))
  BY <1>3
<1>5. Steps(t, from, seq)
  BY <1>4 DEF Steps
<1> QED BY <1>5, Zenon DEF Walk

(* What the states are.                                                    *)
LEMMA WalkSteps ==
  ASSUME NEW from, NEW seq, Len(seq) \in Nat
  PROVE  /\ Walk(from, seq)[0] = from
         /\ \A k \in 1 .. Len(seq) : Walk(from, seq)[k] = op(Walk(from, seq)[k - 1], seq[k])
<1>1. PICK t : t = Walk(from, seq)
  OBVIOUS
<1>2. t = [k \in 0 .. Len(seq) |-> IF k = 0 THEN from ELSE op(t[k - 1], seq[k])]
  BY WalkExists, <1>1 DEF Steps
<1>3. t[0] = from /\ \A k \in 1 .. Len(seq) : t[k] = op(t[k - 1], seq[k])
  BY <1>2
<1> QED BY <1>1, <1>3

(* Nothing is folded.                                                      *)
LEMMA FoldEmpty ==
  ASSUME NEW from
  PROVE  Fold(from, << >>) = from
<1>1. Len(<< >>) = 0
  OBVIOUS
<1> QED BY <1>1, WalkSteps DEF Fold

(* One more member is one more step.                                       *)
LEMMA FoldAppend ==
  ASSUME NEW S, NEW from, NEW seq \in Seq(S), NEW x \in S
  PROVE  Fold(from, Append(seq, x)) = op(Fold(from, seq), x)
<1>1. PICK n \in Nat : n = Len(seq)
  OBVIOUS
<1>2. PICK long : long = Append(seq, x)
  OBVIOUS
<1>3. Len(long) = n + 1 /\ long[n + 1] = x /\ \A k \in 1 .. n : long[k] = seq[k]
  BY <1>1, <1>2
<1>4. PICK t : t = Walk(from, seq)
  OBVIOUS
<1>5. PICK u : u = Walk(from, long)
  OBVIOUS
<1>6. t[0] = from /\ \A k \in 1 .. n : t[k] = op(t[k - 1], seq[k])
  BY WalkSteps, <1>1, <1>4
<1>7. u[0] = from /\ \A k \in 1 .. n + 1 : u[k] = op(u[k - 1], long[k])
  BY WalkSteps, <1>1, <1>3, <1>5
<1> DEFINE T == {k \in 0 .. n : u[k] = t[k]}
<1>8. 0 \in T
  BY <1>6, <1>7
<1>9. ASSUME NEW k \in 0 .. n - 1, k \in T PROVE k + 1 \in T
  <2>1. k + 1 \in 1 .. n /\ k + 1 \in 1 .. n + 1 /\ (k + 1) - 1 = k
    OBVIOUS
  <2>2. u[k + 1] = op(u[k], long[k + 1]) /\ t[k + 1] = op(t[k], seq[k + 1])
    BY <1>6, <1>7, <2>1
  <2> QED BY <2>1, <2>2, <1>3, <1>9
<1>10. n \in T
  <2> HIDE DEF T
  <2>1. \A k \in 0 .. n - 1 : k \in T => k + 1 \in T
    BY <1>9
  <2>2. \A k \in 0 .. n : k \in T
    BY <1>8, <2>1, UpTo, Zenon
  <2> QED BY <2>2
<1>11. u[n + 1] = op(t[n], x)
  <2>1. n + 1 \in 1 .. n + 1 /\ (n + 1) - 1 = n
    OBVIOUS
  <2> QED BY <1>3, <1>7, <1>10, <2>1
<1> QED BY <1>1, <1>2, <1>3, <1>4, <1>5, <1>11 DEF Fold
=============================================================================
