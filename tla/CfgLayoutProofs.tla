--------------------------- MODULE CfgLayoutProofs ---------------------------
(***************************************************************************)
(* Proofs about CfgLayout, for every program LayoutAssumption admits:      *)
(* the walk places exactly the blocks control may come to, in depth-first  *)
(* order, and the program laid out implements the one before.              *)
(*                                                                         *)
(* The walk: what is met with (placed or yet to be followed) always covers *)
(* the branches of the blocks placed (FollowsAll) and lies within every    *)
(* closed set (FollowsOnly), so that when nothing is left to follow the    *)
(* blocks placed are the least closed set.  The layout: the program it     *)
(* makes is the source with its blocks moved (Moved), and running the one  *)
(* simulates running the other, statement by statement (StmtStep) and      *)
(* branch by branch (BranchStep).                                          *)
(***************************************************************************)
EXTENDS CfgLayout, FiniteSetTheorems, SequenceTheorems, TLAPS

-----------------------------------------------------------------------------
(* The order of the cases of a JumpTable.                                  *)

(* Ascending lists every member of a finite set: the branches successors   *)
(* finds in a JumpTable are all its cases.                                 *)

(* The ascending list of a finite set has its members and no others.       *)
LEMMA AscendingFacts ==
  ASSUME NEW S \in SUBSET Nat, IsFiniteSet(S)
  PROVE  /\ Cardinality(S) \in Nat
         /\ Ascending(S) \in [1 .. Cardinality(S) -> S]
         /\ \A c \in S : \E k \in 1 .. Cardinality(S) : Ascending(S)[k] = c
<1> DEFINE n == Cardinality(S)
           Below(c) == {d \in S : d <= c}
           rank == [c \in S |-> Cardinality(Below(c))]
<1>0. \A c \in S : c \in Nat
  OBVIOUS
<1>1. n \in Nat
  BY FS_CardinalityType
<1>2. \A c \in S : IsFiniteSet(Below(c)) /\ Cardinality(Below(c)) \in 1 .. n
  <2> SUFFICES ASSUME NEW c \in S PROVE IsFiniteSet(Below(c)) /\ Cardinality(Below(c)) \in 1 .. n
    OBVIOUS
  <2>1. Below(c) \in SUBSET S /\ c \in Below(c)
    OBVIOUS
  <2>2. IsFiniteSet(Below(c)) /\ Cardinality(Below(c)) <= n
    BY <2>1, FS_Subset
  <2>3. Cardinality(Below(c)) \in Nat /\ Cardinality(Below(c)) # 0
    BY <2>1, <2>2, FS_CardinalityType, FS_EmptySet
  <2> QED BY <1>1, <2>2, <2>3
<1>3. \A c, d \in S : c < d => rank[c] < rank[d]
  <2> SUFFICES ASSUME NEW c \in S, NEW d \in S, c < d PROVE rank[c] < rank[d]
    OBVIOUS
  <2>0. c \in Nat /\ d \in Nat
    BY <1>0
  <2>1. ASSUME NEW e \in Below(c) PROVE e \in Below(d)
    <3>1. e \in S /\ e <= c /\ e \in Nat
      BY <2>1, <1>0
    <3> QED BY <3>1, <2>0
  <2>2. d \in Below(d) /\ d \notin Below(c)
    BY <2>0
  <2>3. Below(c) \subseteq Below(d)
    BY <2>1
  <2>4. Cardinality(Below(c)) <= Cardinality(Below(d)) /\ Cardinality(Below(c)) # Cardinality(Below(d))
    BY <1>2, <2>2, <2>3, FS_Subset
  <2> QED BY <1>2, <2>4
<1>4. rank \in [S -> 1 .. n]
  BY <1>2
<1>5. rank \in Surjection(S, 1 .. n)
  <2> HIDE DEF rank, n
  <2>1. ASSUME NEW c \in S, NEW d \in S, rank[c] = rank[d] PROVE c = d
    <3>1. c \in Nat /\ d \in Nat /\ rank[c] \in Int /\ rank[d] \in Int
      BY <1>0, <1>1, <1>4
    <3> QED BY <2>1, <3>1, <1>3
  <2>2. rank \in Injection(S, 1 .. n)
    BY <2>1, <1>4 DEF Injection, IsInjective
  <2>3. IsFiniteSet(1 .. n) /\ Cardinality(1 .. n) = n
    BY <1>1, FS_Interval
  <2> QED BY <2>2, <2>3, FS_Injection DEF n
<1> DEFINE keys == [k \in 1 .. n |-> CHOOSE c \in S : rank[c] = k]
<1>6. \A k \in 1 .. n : \E c \in S : rank[c] = k
  <2> HIDE DEF rank, n
  <2> QED BY <1>5 DEF Surjection
<1>7. \A k \in 1 .. n : keys[k] \in S /\ rank[keys[k]] = k
  <2> HIDE DEF rank, n
  <2> QED BY <1>6
<1>8. \A i, j \in 1 .. n : i < j => keys[i] < keys[j]
  <2> SUFFICES ASSUME NEW i \in 1 .. n, NEW j \in 1 .. n, i < j PROVE keys[i] < keys[j]
    OBVIOUS
  <2> HIDE DEF keys, rank, n
  <2>1. keys[i] \in S /\ keys[j] \in S /\ rank[keys[i]] = i /\ rank[keys[j]] = j
    BY <1>7
  <2>2. keys[i] \in Nat /\ keys[j] \in Nat
    BY <2>1, <1>0
  <2>4. i \in Int /\ j \in Int
    OBVIOUS
  <2>3. ~(keys[j] < keys[i]) /\ keys[i] # keys[j]
    BY <2>1, <2>2, <2>4, <1>3
  <2> QED BY <2>2, <2>3
<1>9. /\ Ascending(S) \in [1 .. n -> S]
      /\ \A i, j \in 1 .. n : i < j => Ascending(S)[i] < Ascending(S)[j]
  <2>1. keys \in [1 .. n -> S]
    BY <1>7
  <2> HIDE DEF keys
  <2> QED BY <2>1, <1>8 DEF Ascending
<1>10. Ascending(S) \in Injection(1 .. n, S)
  <2> HIDE DEF n
  <2>1. ASSUME NEW i \in 1 .. n, NEW j \in 1 .. n, Ascending(S)[i] = Ascending(S)[j] PROVE i = j
    <3>1. i \in Int /\ j \in Int
      OBVIOUS
    <3>2. Ascending(S)[i] \in Nat
      BY <1>0, <1>9
    <3> QED BY <2>1, <3>1, <3>2, <1>9
  <2> QED BY <2>1, <1>9 DEF Injection, IsInjective
<1>11. Ascending(S) \in Surjection(1 .. n, S)
  <2>1. IsFiniteSet(1 .. n) /\ Cardinality(1 .. n) = n
    BY <1>1, FS_Interval
  <2> QED BY <2>1, <1>10, FS_Injection
<1> QED BY <1>1, <1>9, <1>11 DEF Surjection

-----------------------------------------------------------------------------
(* Branches of a program.                                                  *)

BlocksOf(P) == 0 .. P.n - 1

(* What the walk may have to follow.                                       *)
Branches(P) ==
  {Direct(c) : c \in BlocksOf(P)} \cup UNION {Range(SuccessorsOf(P, b)) : b \in BlocksOf(P)}

Leads(t, c) == t.dest = "Block" /\ t.block = c

(* The branches of a block: each well-formed, and every one the            *)
(* interpreter may take is among them.                                     *)
LEMMA SuccessorFacts ==
  ASSUME NEW P \in Programs, NEW b \in BlocksOf(P)
  PROVE  /\ SuccessorsOf(P, b) \in Seq(Branches(P))
         /\ \A k \in 1 .. Len(SuccessorsOf(P, b)) :
              /\ TargetWellFormed(P, SuccessorsOf(P, b)[k], NumVars(P.blocks[b]))
              /\ TargetKeepsRefs(P, P.blocks[b], SuccessorsOf(P, b)[k])
         /\ \A tbl : HasBranch(P.blocks[b].term, tbl) =>
              \E k \in 1 .. Len(SuccessorsOf(P, b)) : SuccessorsOf(P, b)[k] = Branch(P.blocks[b].term, tbl)
<1> DEFINE term == P.blocks[b].term
           v == NumVars(P.blocks[b])
           next == successors(term)
<1>1. TermWellFormed(P, term, v) /\ TermKeepsRefs(P, P.blocks[b], term)
  BY ProgramAssumption, LayoutAssumption DEF WellFormed, BlockWellFormed, Supported, BlocksOf
<1>2. term.kind \in {"Jmp", "JumpCond", "JumpTable"}
  BY <1>1 DEF TermWellFormed
<1> HIDE DEF term, v
<1>3. /\ Len(next) \in Nat /\ next = [k \in 1 .. Len(next) |-> next[k]]
      /\ \A k \in 1 .. Len(next) : TargetWellFormed(P, next[k], v)
      /\ \A tbl : HasBranch(term, tbl) => \E k \in 1 .. Len(next) : next[k] = Branch(term, tbl)
  <2>1. CASE term.kind = "Jmp"
    BY <1>1, <2>1 DEF TermWellFormed, successors, Branch
  <2>2. CASE term.kind = "JumpCond"
    <3>1. next = <<term.then, term.else>> /\ Len(next) = 2
      BY <2>2 DEF successors
    <3>2. \A tbl : Branch(term, tbl) \in {term.then, term.else}
      BY <2>2 DEF Branch
    <3>3. TargetWellFormed(P, term.then, v) /\ TargetWellFormed(P, term.else, v)
      BY <1>1, <2>2 DEF TermWellFormed
    <3> HIDE DEF next
    <3> QED BY <3>1, <3>2, <3>3
  <2>3. CASE term.kind = "JumpTable"
    <3> DEFINE n == Cardinality(DOMAIN term.cases)
               keys == Ascending(DOMAIN term.cases)
    <3>1. DOMAIN term.cases \in SUBSET Nat /\ IsFiniteSet(DOMAIN term.cases)
      BY <1>1, <2>3 DEF TermKeepsRefs
    <3>2. n \in Nat /\ keys \in [1 .. n -> DOMAIN term.cases]
          /\ \A c \in DOMAIN term.cases : \E k \in 1 .. n : keys[k] = c
      BY <3>1, AscendingFacts
    <3>3. next = [k \in 1 .. n |-> term.cases[keys[k]]]
      BY <2>3 DEF successors
    <3>4. \A c \in DOMAIN term.cases : TargetWellFormed(P, term.cases[c], v)
      BY <1>1, <2>3 DEF TermWellFormed
    <3>5. \A tbl : HasBranch(term, tbl) => tbl[term.index] \in DOMAIN term.cases /\ Branch(term, tbl) = term.cases[tbl[term.index]]
      BY <2>3 DEF HasBranch, Branch
    <3> HIDE DEF n, keys, next
    <3>6. Len(next) = n /\ \A k \in 1 .. n : keys[k] \in DOMAIN term.cases /\ next[k] = term.cases[keys[k]]
      BY <3>2, <3>3
    <3>7. ASSUME NEW tbl, HasBranch(term, tbl) PROVE \E k \in 1 .. Len(next) : next[k] = Branch(term, tbl)
      <4>1. PICK k \in 1 .. n : keys[k] = tbl[term.index]
        BY <3>2, <3>5, <3>7
      <4> QED BY <3>5, <3>6, <3>7, <4>1
    <3> QED BY <3>2, <3>3, <3>4, <3>6, <3>7
  <2> QED BY <1>2, <2>1, <2>2, <2>3
<1>4. \A k \in 1 .. Len(next) : TargetKeepsRefs(P, P.blocks[b], next[k])
  BY <1>1 DEF TermKeepsRefs
<1>5. SuccessorsOf(P, b) = next
  BY DEF SuccessorsOf, term
<1>6. \A k \in 1 .. Len(next) : next[k] \in Branches(P)
  <2>1. Range(next) \subseteq Branches(P)
    BY <1>5 DEF Branches
  <2> HIDE DEF next
  <2> QED BY <1>3, <2>1 DEF Range
<1>7. next \in Seq(Branches(P))
  <2> HIDE DEF next
  <2>1. next \in [1 .. Len(next) -> Branches(P)]
    BY <1>3, <1>6
  <2> QED BY <1>3, <2>1, SeqDef
<1> QED BY <1>3, <1>4, <1>5, <1>7 DEF term, v

(* A direct branch the walk may follow leads to a block of the program.    *)
LEMMA BranchFacts ==
  ASSUME NEW P \in Programs, NEW t \in Branches(P), t.dest = "Block"
  PROVE  t.block \in BlocksOf(P)
<1>1. CASE t \in {Direct(c) : c \in BlocksOf(P)}
  BY <1>1 DEF Direct
<1>2. ASSUME NEW b \in BlocksOf(P), t \in Range(SuccessorsOf(P, b)) PROVE t.block \in BlocksOf(P)
  <2>1. PICK k \in 1 .. Len(SuccessorsOf(P, b)) : SuccessorsOf(P, b)[k] = t
    BY <1>2, SuccessorFacts DEF Range
  <2>2. TargetWellFormed(P, t, NumVars(P.blocks[b]))
    BY <2>1, SuccessorFacts
  <2> QED BY <2>2 DEF TargetWellFormed, BlocksOf
<1> QED BY <1>1, <1>2 DEF Branches

(* The branches a visit adds.                                              *)
LEMMA OnwardFacts ==
  ASSUME NEW P \in Programs, NEW b \in BlocksOf(P)
  PROVE  LET next == SuccessorsOf(P, b)
             onward == Onward(P, b)
         IN  /\ onward \in Seq(Branches(P)) /\ Len(next) \in Nat /\ Len(next) <= Len(onward)
             /\ \A k \in 1 .. Len(next) : onward[k] = next[k]
             /\ Dynamic(P, b) => \A c \in BlocksOf(P) : \E k \in 1 .. Len(onward) : onward[k] = Direct(c)
             /\ ~Dynamic(P, b) => Len(onward) = Len(next)
<1> DEFINE next == SuccessorsOf(P, b)
           all == [k \in 1 .. P.n |-> Direct(k - 1)]
<1>1. next \in Seq(Branches(P))
  BY SuccessorFacts
<1>2. P.n \in Nat
  BY ProgramAssumption DEF WellFormed
<1>3. all \in Seq(Branches(P)) /\ Len(all) = P.n
  <2>1. \A k \in 1 .. P.n : k - 1 \in BlocksOf(P)
    BY <1>2 DEF BlocksOf
  <2>2. \A k \in 1 .. P.n : Direct(k - 1) \in Branches(P)
    BY <2>1 DEF Branches
  <2> QED BY <1>2, <2>2
<1>4. CASE ~Dynamic(P, b)
  <2>1. Onward(P, b) = next
    BY <1>1, <1>4, ConcatEmptySeq DEF Onward
  <2> HIDE DEF next
  <2> QED BY <1>1, <1>4, <2>1 DEF next
<1>5. CASE Dynamic(P, b)
  <2>1. Onward(P, b) = next \o all
    BY <1>5 DEF Onward
  <2>2. /\ next \o all \in Seq(Branches(P)) /\ Len(next \o all) = Len(next) + P.n
        /\ \A i \in 1 .. Len(next) + P.n : (next \o all)[i] = IF i <= Len(next) THEN next[i] ELSE all[i - Len(next)]
    <3> HIDE DEF next, all
    <3> QED BY <1>1, <1>3, ConcatProperties
  <2>3. Len(next) \in Nat
    BY <1>1
  <2>4. ASSUME NEW c \in BlocksOf(P) PROVE \E k \in 1 .. Len(Onward(P, b)) : Onward(P, b)[k] = Direct(c)
    <3>1. c + 1 \in 1 .. P.n /\ all[c + 1] = Direct(c)
      BY <1>2 DEF BlocksOf
    <3>2. Len(next) + (c + 1) \in 1 .. Len(next) + P.n /\ ~(Len(next) + (c + 1) <= Len(next)) /\ (Len(next) + (c + 1)) - Len(next) = c + 1
      BY <1>2, <2>3, <3>1
    <3> HIDE DEF next, all
    <3> QED BY <2>1, <2>2, <3>1, <3>2
  <2> HIDE DEF next, all
  <2>5. Len(next) <= Len(Onward(P, b)) /\ \A k \in 1 .. Len(next) : Onward(P, b)[k] = next[k]
    BY <1>2, <2>1, <2>2, <2>3
  <2> QED BY <1>5, <2>1, <2>2, <2>3, <2>4, <2>5 DEF next
<1> QED BY <1>4, <1>5

-----------------------------------------------------------------------------
(* The walk.                                                               *)

(* A block the walk has placed, or will.                                   *)
Met(o, t, c) == c \in Range(o) \/ \E i \in 1 .. Len(t) : Leads(t[i], c)

(* A branch out of a placed block is met with.                             *)
FollowsAll(P, o, t) ==
  \A m \in 1 .. Len(o) : \A k \in 1 .. Len(SuccessorsOf(P, o[m])) :
    LET s == SuccessorsOf(P, o[m])[k]
    IN  /\ s.dest = "Block" => Met(o, t, s.block)
        /\ s.dest = "Dyn" => \A c \in BlocksOf(P) : Met(o, t, c)

(* Nothing is met with that control cannot come to.                        *)
FollowsOnly(P, o, t) ==
  \A S \in SUBSET BlocksOf(P) :
    0 \in S /\ Closed(P, S) => \A c \in BlocksOf(P) : Met(o, t, c) => c \in S

FirstDirect(P, b, k) ==
  LET next == SuccessorsOf(P, b)
  IN  next[k].dest = "Block" /\ \A j \in 1 .. k - 1 : next[j].dest # "Block"

(* The first block m branches to is placed by the time its own successor   *)
(* is, or it is what the walk will come to next.                           *)
Adjacent(P, o, t) ==
  \A m \in 1 .. Len(o) : \A k \in 1 .. Len(SuccessorsOf(P, o[m])) :
    FirstDirect(P, o[m], k) =>
      LET c == SuccessorsOf(P, o[m])[k].block
      IN  \/ \E j \in 1 .. Len(o) : j <= m + 1 /\ o[j] = c
          \/ m = Len(o) /\ \E i \in 1 .. Len(t) : Leads(t[i], c) /\ \A j \in 1 .. i - 1 : t[j].dest # "Block"

WalkInv(P, o, t) ==
  /\ o \in Seq(BlocksOf(P))
  /\ t \in Seq(Branches(P))
  /\ \A i, j \in 1 .. Len(o) : o[i] = o[j] => i = j
  /\ (o = << >> /\ t = <<Direct(0)>>) \/ (Len(o) > 0 /\ o[1] = 0)
  /\ FollowsAll(P, o, t)
  /\ FollowsOnly(P, o, t)
  /\ Adjacent(P, o, t)

(* The members of a sequence.                                              *)
LEMMA RangeFacts ==
  ASSUME NEW S, NEW s \in Seq(S)
  PROVE  /\ \A c : c \in Range(s) <=> \E i \in 1 .. Len(s) : s[i] = c
         /\ Range(s) \subseteq S
<1>1. DOMAIN s = 1 .. Len(s) /\ \A i \in 1 .. Len(s) : s[i] \in S
  OBVIOUS
<1> QED BY <1>1 DEF Range

(* The walk starts at the entry.                                           *)
LEMMA WalkInit ==
  ASSUME NEW P \in Programs
  PROVE  WalkInv(P, << >>, <<Direct(0)>>)
<1>1. 0 \in BlocksOf(P)
  BY ProgramAssumption DEF WellFormed, BlocksOf
<1>2. Direct(0) \in Branches(P)
  BY <1>1 DEF Branches
<1>3. << >> \in Seq(BlocksOf(P)) /\ <<Direct(0)>> \in Seq(Branches(P)) /\ Len(<< >>) = 0 /\ Len(<<Direct(0)>>) = 1
  BY <1>2
<1>4. FollowsOnly(P, << >>, <<Direct(0)>>)
  <2> SUFFICES ASSUME NEW c \in BlocksOf(P), Met(<< >>, <<Direct(0)>>, c) PROVE c = 0
    BY DEF FollowsOnly
  <2>1. c \notin Range(<< >>)
    BY DEF Range
  <2>2. PICK i \in 1 .. 1 : Leads(<<Direct(0)>>[i], c)
    BY <2>1, <1>3 DEF Met
  <2> QED BY <2>2 DEF Leads, Direct
<1> QED BY <1>3, <1>4 DEF WalkInv, FollowsAll, Adjacent

(* The walk drops a branch that leads to no new block.                     *)
LEMMA WalkSkip ==
  ASSUME NEW P \in Programs, NEW o, NEW t, WalkInv(P, o, t), t # << >>,
         Head(t).dest = "Block" => Head(t).block \in Range(o)
  PROVE  WalkInv(P, o, Tail(t))
<1> DEFINE r == Tail(t)
<1>1. o \in Seq(BlocksOf(P)) /\ t \in Seq(Branches(P))
  BY DEF WalkInv
<1>2. /\ r \in Seq(Branches(P)) /\ Len(t) \in Nat /\ Len(t) > 0 /\ Len(r) = Len(t) - 1
      /\ \A i \in 1 .. Len(r) : r[i] = t[i + 1]
      /\ Head(t) = t[1]
  BY <1>1
<1>3. ASSUME NEW c PROVE Met(o, r, c) <=> Met(o, t, c)
  <2>1. ASSUME NEW i \in 1 .. Len(t), Leads(t[i], c) PROVE Met(o, r, c)
    <3>1. CASE i = 1
      BY <1>2, <2>1, <3>1 DEF Leads, Met
    <3>2. CASE i # 1
      <4>1. i - 1 \in 1 .. Len(r) /\ r[i - 1] = t[i]
        BY <1>2, <3>2
      <4> QED BY <4>1, <2>1 DEF Met
    <3> QED BY <3>1, <3>2
  <2>2. ASSUME NEW i \in 1 .. Len(r), Leads(r[i], c) PROVE Met(o, t, c)
    <3>1. i + 1 \in 1 .. Len(t) /\ r[i] = t[i + 1]
      BY <1>2
    <3> QED BY <3>1, <2>2 DEF Met
  <2> QED BY <2>1, <2>2 DEF Met
<1> HIDE DEF r
<1>4. FollowsAll(P, o, r) /\ FollowsOnly(P, o, r)
  BY <1>3 DEF WalkInv, FollowsAll, FollowsOnly
<1>5. Adjacent(P, o, r)
  <2> SUFFICES ASSUME NEW m \in 1 .. Len(o), NEW k \in 1 .. Len(SuccessorsOf(P, o[m])), FirstDirect(P, o[m], k)
               PROVE  LET c == SuccessorsOf(P, o[m])[k].block
                      IN  \/ \E j \in 1 .. Len(o) : j <= m + 1 /\ o[j] = c
                          \/ m = Len(o) /\ \E i \in 1 .. Len(r) : Leads(r[i], c) /\ \A j \in 1 .. i - 1 : r[j].dest # "Block"
    BY DEF Adjacent
  <2> DEFINE c == SuccessorsOf(P, o[m])[k].block
  <2>1. CASE \E j \in 1 .. Len(o) : j <= m + 1 /\ o[j] = c
    BY <2>1
  <2>2. CASE m = Len(o) /\ \E i \in 1 .. Len(t) : Leads(t[i], c) /\ \A j \in 1 .. i - 1 : t[j].dest # "Block"
    <3>1. PICK i \in 1 .. Len(t) : Leads(t[i], c) /\ \A j \in 1 .. i - 1 : t[j].dest # "Block"
      BY <2>2
    <3>2. CASE i = 1
      <4>1. c \in Range(o)
        BY <1>2, <3>1, <3>2 DEF Leads
      <4>2. PICK j \in 1 .. Len(o) : o[j] = c
        <5> HIDE DEF c
        <5> QED BY <1>1, <4>1, RangeFacts
      <4>3. j <= m + 1
        BY <2>2, <4>2, <1>1
      <4> QED BY <4>2, <4>3
    <3>3. CASE i # 1
      <4>1. i - 1 \in 1 .. Len(r) /\ r[i - 1] = t[i]
        BY <1>2, <3>3
      <4>2. \A j \in 1 .. (i - 1) - 1 : r[j].dest # "Block"
        <5> SUFFICES ASSUME NEW j \in 1 .. (i - 1) - 1 PROVE r[j].dest # "Block"
          OBVIOUS
        <5>1. j + 1 \in 1 .. i - 1 /\ j \in 1 .. Len(r)
          BY <1>2
        <5> QED BY <1>2, <3>1, <5>1
      <4> QED BY <2>2, <3>1, <4>1, <4>2
    <3> QED BY <3>2, <3>3
  <2> HIDE DEF c
  <2> QED BY <2>1, <2>2 DEF WalkInv, Adjacent, c
<1>6. Len(o) > 0 /\ o[1] = 0
  <2>1. CASE o = << >> /\ t = <<Direct(0)>>
    <3>1. Head(t) = Direct(0) /\ Range(o) = {}
      BY <2>1 DEF Range
    <3> QED BY <3>1 DEF Direct
  <2> QED BY <2>1 DEF WalkInv
<1> QED BY <1>1, <1>2, <1>4, <1>5, <1>6 DEF WalkInv, r

(* The walk places a new block.                                            *)
LEMMA WalkPlace ==
  ASSUME NEW P \in Programs, NEW o, NEW t, WalkInv(P, o, t), t # << >>,
         Head(t).dest = "Block", Head(t).block \notin Range(o)
  PROVE  WalkInv(P, Append(o, Head(t).block), Onward(P, Head(t).block) \o Tail(t))
<1> DEFINE b == Head(t).block
           p == Append(o, b)
           on == Onward(P, b)
           r == on \o Tail(t)
<1>1. o \in Seq(BlocksOf(P)) /\ t \in Seq(Branches(P))
  BY DEF WalkInv
<1>2. /\ Tail(t) \in Seq(Branches(P)) /\ Len(t) \in Nat /\ Len(t) > 0 /\ Len(Tail(t)) = Len(t) - 1
      /\ \A i \in 1 .. Len(Tail(t)) : Tail(t)[i] = t[i + 1]
      /\ Head(t) = t[1] /\ t[1] \in Branches(P)
  BY <1>1
<1>3. b \in BlocksOf(P)
  BY <1>2, BranchFacts
<1>4. /\ on \in Seq(Branches(P)) /\ Len(SuccessorsOf(P, b)) \in Nat /\ Len(SuccessorsOf(P, b)) <= Len(on)
      /\ \A k \in 1 .. Len(SuccessorsOf(P, b)) : on[k] = SuccessorsOf(P, b)[k]
      /\ Dynamic(P, b) => \A c \in BlocksOf(P) : \E k \in 1 .. Len(on) : on[k] = Direct(c)
      /\ ~Dynamic(P, b) => Len(on) = Len(SuccessorsOf(P, b))
  BY <1>3, OnwardFacts
<1> HIDE DEF b, on
<1>5. /\ p \in Seq(BlocksOf(P)) /\ Len(o) \in Nat /\ Len(p) = Len(o) + 1 /\ p[Len(o) + 1] = b
      /\ \A i \in 1 .. Len(o) : p[i] = o[i]
  BY <1>1, <1>3, AppendProperties
<1>6. /\ r \in Seq(Branches(P)) /\ Len(on) \in Nat /\ Len(r) = Len(on) + (Len(t) - 1)
      /\ \A i \in 1 .. Len(on) : r[i] = on[i]
      /\ \A i \in 2 .. Len(t) : r[Len(on) + (i - 1)] = t[i]
  <2>1. /\ r \in Seq(Branches(P)) /\ Len(r) = Len(on) + Len(Tail(t)) /\ Len(on) \in Nat
        /\ \A i \in 1 .. Len(on) + Len(Tail(t)) : r[i] = IF i <= Len(on) THEN on[i] ELSE Tail(t)[i - Len(on)]
    BY <1>2, <1>4, ConcatProperties
  <2>2. ASSUME NEW i \in 2 .. Len(t) PROVE r[Len(on) + (i - 1)] = t[i]
    <3>1. /\ Len(on) + (i - 1) \in 1 .. Len(on) + Len(Tail(t)) /\ ~(Len(on) + (i - 1) <= Len(on))
          /\ (Len(on) + (i - 1)) - Len(on) = i - 1 /\ i - 1 \in 1 .. Len(Tail(t)) /\ (i - 1) + 1 = i
      BY <1>2, <2>1
    <3> HIDE DEF r
    <3> QED BY <1>2, <2>1, <3>1
  <2> HIDE DEF r
  <2> QED BY <1>2, <2>1, <2>2
<1> HIDE DEF p, r
<1>7. /\ \A c : c \in Range(p) <=> c = b \/ c \in Range(o)
      /\ b \notin Range(o)
  <2>1. \A c : c \in Range(o) <=> \E i \in 1 .. Len(o) : o[i] = c
    BY <1>1, RangeFacts
  <2>2. \A c : c \in Range(p) <=> \E i \in 1 .. Len(p) : p[i] = c
    BY <1>5, RangeFacts
  <2>3. ASSUME NEW c, c \in Range(p) PROVE c = b \/ c \in Range(o)
    <3>1. PICK i \in 1 .. Len(p) : p[i] = c
      BY <2>2, <2>3
    <3>2. i \in 1 .. Len(o) \/ i = Len(o) + 1
      BY <1>5
    <3> QED BY <1>5, <2>1, <3>1, <3>2
  <2>4. b \in Range(p)
    <3>1. Len(o) + 1 \in 1 .. Len(p)
      BY <1>5
    <3> QED BY <1>5, <2>2, <3>1
  <2>5. ASSUME NEW c, c \in Range(o) PROVE c \in Range(p)
    <3>1. PICK i \in 1 .. Len(o) : o[i] = c
      BY <2>1, <2>5
    <3>2. i \in 1 .. Len(p)
      BY <1>5
    <3> QED BY <1>5, <2>2, <3>1, <3>2
  <2> QED BY <2>3, <2>4, <2>5 DEF b
(* What was met with still is.                                             *)
<1>8. ASSUME NEW c, Met(o, t, c) PROVE Met(p, r, c)
  <2>1. CASE c \in Range(o)
    BY <1>7, <2>1 DEF Met
  <2>2. ASSUME NEW i \in 1 .. Len(t), Leads(t[i], c) PROVE Met(p, r, c)
    <3>1. CASE i = 1
      BY <1>2, <1>7, <2>2, <3>1 DEF Leads, Met, b
    <3>2. CASE i # 1
      <4>1. i \in 2 .. Len(t) /\ Len(on) + (i - 1) \in 1 .. Len(r)
        BY <1>2, <1>6, <3>2
      <4> QED BY <1>6, <2>2, <4>1 DEF Met
    <3> QED BY <3>1, <3>2
  <2> QED BY <1>8, <2>1, <2>2 DEF Met
<1>9. FollowsAll(P, p, r)
  <2> SUFFICES ASSUME NEW m \in 1 .. Len(p), NEW k \in 1 .. Len(SuccessorsOf(P, p[m]))
               PROVE  LET s == SuccessorsOf(P, p[m])[k]
                      IN  /\ s.dest = "Block" => Met(p, r, s.block)
                          /\ s.dest = "Dyn" => \A c \in BlocksOf(P) : Met(p, r, c)
    BY DEF FollowsAll
  <2>1. CASE m \in 1 .. Len(o)
    <3>1. p[m] = o[m]
      BY <1>5, <2>1
    <3> QED BY <1>8, <2>1, <3>1 DEF WalkInv, FollowsAll
  <2>2. CASE m = Len(o) + 1
    <3>1. p[m] = b
      BY <1>5, <2>2
    <3>2. k \in 1 .. Len(on) /\ k \in 1 .. Len(r) /\ r[k] = SuccessorsOf(P, b)[k]
      BY <1>2, <1>4, <1>6, <3>1
    <3>3. SuccessorsOf(P, b)[k].dest = "Block" => Met(p, r, SuccessorsOf(P, b)[k].block)
      BY <3>2 DEF Met, Leads
    <3>4. ASSUME SuccessorsOf(P, b)[k].dest = "Dyn", NEW c \in BlocksOf(P) PROVE Met(p, r, c)
      <4>1. Dynamic(P, b)
        BY <3>1, <3>4 DEF Dynamic
      <4>2. PICK i \in 1 .. Len(on) : on[i] = Direct(c)
        BY <4>1, <1>4
      <4>3. i \in 1 .. Len(r) /\ r[i] = Direct(c)
        BY <1>2, <1>6, <4>2
      <4> QED BY <4>3 DEF Met, Leads, Direct
    <3> QED BY <3>1, <3>3, <3>4
  <2> QED BY <1>5, <2>1, <2>2
<1>10. FollowsOnly(P, p, r)
  <2> SUFFICES ASSUME NEW S \in SUBSET BlocksOf(P), 0 \in S, Closed(P, S), NEW c \in BlocksOf(P), Met(p, r, c)
               PROVE  c \in S
    BY DEF FollowsOnly
  <2>1. \A d \in BlocksOf(P) : Met(o, t, d) => d \in S
    BY DEF WalkInv, FollowsOnly
  <2>2. b \in S
    <3>1. Met(o, t, b)
      <4>1. 1 \in 1 .. Len(t) /\ Leads(t[1], b)
        BY <1>2 DEF Leads, b
      <4> QED BY <4>1 DEF Met
    <3> QED BY <1>3, <2>1, <3>1
  <2>3. CASE c \in Range(p)
    BY <1>7, <2>1, <2>2, <2>3 DEF Met
  <2>4. ASSUME NEW i \in 1 .. Len(r), Leads(r[i], c) PROVE c \in S
    <3>1. CASE i \in 1 .. Len(SuccessorsOf(P, b))
      <4>1. Leads(SuccessorsOf(P, b)[i], c)
        BY <1>4, <1>6, <2>4, <3>1
      <4> QED BY <2>2, <3>1, <4>1 DEF Closed, Leads
    <3>2. CASE i \in 1 .. Len(on) /\ i \notin 1 .. Len(SuccessorsOf(P, b))
      <4>1. Dynamic(P, b)
        BY <1>4, <3>2
      <4>2. PICK k \in 1 .. Len(SuccessorsOf(P, b)) : SuccessorsOf(P, b)[k].dest = "Dyn"
        BY <4>1 DEF Dynamic
      <4>3. BlocksOf(P) \subseteq S
        BY <2>2, <4>2 DEF Closed, BlocksOf
      <4> QED BY <4>3
    <3>3. CASE i \notin 1 .. Len(on)
      <4>1. (i - Len(on)) + 1 \in 2 .. Len(t) /\ Len(on) + (((i - Len(on)) + 1) - 1) = i
        BY <1>2, <1>6, <3>3
      <4>2. r[i] = t[(i - Len(on)) + 1]
        BY <1>6, <4>1
      <4>3. (i - Len(on)) + 1 \in 1 .. Len(t)
        BY <1>2, <4>1
      <4>4. Met(o, t, c)
        BY <2>4, <4>2, <4>3 DEF Met
      <4> QED BY <2>1, <4>4
    <3> QED BY <3>1, <3>2, <3>3
  <2> QED BY <2>3, <2>4 DEF Met
<1>11. Adjacent(P, p, r)
  <2> SUFFICES ASSUME NEW m \in 1 .. Len(p), NEW k \in 1 .. Len(SuccessorsOf(P, p[m])), FirstDirect(P, p[m], k)
               PROVE  LET c == SuccessorsOf(P, p[m])[k].block
                      IN  \/ \E j \in 1 .. Len(p) : j <= m + 1 /\ p[j] = c
                          \/ m = Len(p) /\ \E i \in 1 .. Len(r) : Leads(r[i], c) /\ \A j \in 1 .. i - 1 : r[j].dest # "Block"
    BY DEF Adjacent
  <2> DEFINE c == SuccessorsOf(P, p[m])[k].block
  <2>1. CASE m \in 1 .. Len(o)
    <3>1. p[m] = o[m]
      BY <1>5, <2>1
    <3>2. \/ \E j \in 1 .. Len(o) : j <= m + 1 /\ o[j] = c
          \/ m = Len(o) /\ \E i \in 1 .. Len(t) : Leads(t[i], c) /\ \A j \in 1 .. i - 1 : t[j].dest # "Block"
      BY <2>1, <3>1 DEF WalkInv, Adjacent
    <3> HIDE DEF c
    <3>3. ASSUME NEW j \in 1 .. Len(o), j <= m + 1, o[j] = c PROVE \E l \in 1 .. Len(p) : l <= m + 1 /\ p[l] = c
      <4>1. j \in 1 .. Len(p) /\ p[j] = c
        BY <1>5, <3>3
      <4> QED BY <3>3, <4>1
    <3>4. ASSUME m = Len(o), NEW i \in 1 .. Len(t), Leads(t[i], c), \A j \in 1 .. i - 1 : t[j].dest # "Block"
          PROVE  \E l \in 1 .. Len(p) : l <= m + 1 /\ p[l] = c
      <4>1. i = 1
        <5>1. 1 \notin 1 .. i - 1
          BY <3>4, <1>2
        <5> QED BY <5>1
      <4>2. c = b
        BY <1>2, <3>4, <4>1 DEF Leads, b
      <4>3. Len(o) + 1 \in 1 .. Len(p) /\ Len(o) + 1 <= m + 1
        BY <1>5, <3>4
      <4> QED BY <1>5, <4>2, <4>3
    <3> QED BY <3>2, <3>3, <3>4 DEF c
  <2>2. CASE m = Len(o) + 1
    <3>1. p[m] = b /\ m = Len(p)
      BY <1>5, <2>2
    <3>2. \A i \in 1 .. k : i \in 1 .. Len(r) /\ r[i] = SuccessorsOf(P, b)[i]
      <4> SUFFICES ASSUME NEW i \in 1 .. k PROVE i \in 1 .. Len(r) /\ r[i] = SuccessorsOf(P, b)[i]
        OBVIOUS
      <4>1. i \in 1 .. Len(SuccessorsOf(P, b)) /\ i \in 1 .. Len(on)
        BY <1>4, <1>6, <3>1
      <4> QED BY SMTT(30), <1>2, <1>4, <1>6, <4>1
    <3>3. k \in 1 .. k /\ \A j \in 1 .. k - 1 : j \in 1 .. k
      BY <1>4, <3>1
    <3>4. Leads(r[k], c) /\ \A j \in 1 .. k - 1 : r[j].dest # "Block"
      BY <3>1, <3>2, <3>3 DEF FirstDirect, Leads
    <3>5. k \in 1 .. Len(r)
      BY <3>2, <3>3
    <3> HIDE DEF c
    <3> QED BY <3>1, <3>4, <3>5 DEF c
  <2> QED BY <1>5, <2>1, <2>2
<1>12. \A i, j \in 1 .. Len(p) : p[i] = p[j] => i = j
  <2> SUFFICES ASSUME NEW i \in 1 .. Len(p), NEW j \in 1 .. Len(p), p[i] = p[j] PROVE i = j
    OBVIOUS
  <2>1. \A l \in 1 .. Len(o) : o[l] # b
    BY <1>1, <1>7, RangeFacts
  <2>2. \A l, m \in 1 .. Len(o) : o[l] = o[m] => l = m
    BY DEF WalkInv
  <2>3. (i \in 1 .. Len(o) \/ i = Len(o) + 1) /\ (j \in 1 .. Len(o) \/ j = Len(o) + 1)
    BY <1>5
  <2> QED BY <1>5, <2>1, <2>2, <2>3
<1>13. Len(p) > 0 /\ p[1] = 0
  <2>1. CASE o = << >> /\ t = <<Direct(0)>>
    <3>1. b = 0 /\ Len(o) = 0
      BY <2>1 DEF b, Direct
    <3> QED BY <1>5, <3>1
  <2>2. CASE Len(o) > 0 /\ o[1] = 0
    <3>1. 1 \in 1 .. Len(o)
      BY <2>2, <1>5
    <3> QED BY <1>5, <2>2, <3>1
  <2> QED BY <2>1, <2>2 DEF WalkInv
<1> QED BY <1>5, <1>6, <1>9, <1>10, <1>11, <1>12, <1>13 DEF WalkInv, p, r, b, on

(* When nothing is left to follow the blocks are laid out as they should.  *)
LEMMA WalkEnd ==
  ASSUME NEW P \in Programs, NEW o, WalkInv(P, o, << >>)
  PROVE  /\ o[1] = 0 /\ Len(o) > 0
         /\ Range(o) = Reachable(P)
         /\ Len(o) = Cardinality(Reachable(P))
         /\ \A m \in 1 .. Len(o) : \A k \in 1 .. Len(SuccessorsOf(P, o[m])) :
              FirstDirect(P, o[m], k) =>
                \E j \in 1 .. Len(o) : j <= m + 1 /\ o[j] = SuccessorsOf(P, o[m])[k].block
<1>1. o \in Seq(BlocksOf(P)) /\ Len(o) \in Nat /\ DOMAIN o = 1 .. Len(o) /\ Len(<< >>) = 0
  BY DEF WalkInv
<1>2. \A c : Met(o, << >>, c) <=> c \in Range(o)
  BY <1>1 DEF Met
<1>3. o[1] = 0 /\ Len(o) > 0
  <2>1. << >> # <<Direct(0)>>
    OBVIOUS
  <2> QED BY <2>1 DEF WalkInv
<1>4. Range(o) \in SUBSET BlocksOf(P) /\ 0 \in Range(o)
  <2>1. 1 \in 1 .. Len(o)
    BY <1>1, <1>3
  <2> QED BY <1>1, <1>3, <2>1, RangeFacts
<1>5. Closed(P, Range(o))
  <2> SUFFICES ASSUME NEW b \in Range(o), NEW k \in 1 .. Len(SuccessorsOf(P, b))
               PROVE  /\ SuccessorsOf(P, b)[k].dest = "Block" => SuccessorsOf(P, b)[k].block \in Range(o)
                      /\ SuccessorsOf(P, b)[k].dest = "Dyn" => 0 .. P.n - 1 \subseteq Range(o)
    BY DEF Closed
  <2>1. PICK m \in 1 .. Len(o) : o[m] = b
    BY <1>1, RangeFacts
  <2>2. FollowsAll(P, o, << >>)
    BY DEF WalkInv
  <2> QED BY <1>2, <2>1, <2>2 DEF FollowsAll, BlocksOf
<1>6. Range(o) = Reachable(P)
  <2>1. Reachable(P) \subseteq Range(o)
    BY <1>4, <1>5 DEF Reachable, BlocksOf
  <2>2. ASSUME NEW b \in Range(o) PROVE b \in Reachable(P)
    <3>1. b \in BlocksOf(P)
      BY <1>4
    <3>2. ASSUME NEW S \in SUBSET BlocksOf(P), 0 \in S, Closed(P, S) PROVE b \in S
      <4>1. FollowsOnly(P, o, << >>)
        BY DEF WalkInv
      <4> QED BY <1>2, <3>1, <3>2, <4>1 DEF FollowsOnly
    <3> QED BY <3>1, <3>2 DEF Reachable, BlocksOf
  <2> QED BY <2>1, <2>2
<1>7. Len(o) = Cardinality(Range(o))
  <2>1. o \in [1 .. Len(o) -> Range(o)]
    BY <1>1 DEF Range
  <2>2. \A i, j \in 1 .. Len(o) : o[i] = o[j] => i = j
    BY DEF WalkInv
  <2>3. \A c \in Range(o) : \E i \in 1 .. Len(o) : o[i] = c
    BY <1>1, RangeFacts
  <2>4. o \in Bijection(1 .. Len(o), Range(o))
    BY <2>1, <2>2, <2>3 DEF Bijection, Injection, Surjection, IsInjective
  <2>5. ExistsBijection(1 .. Len(o), Range(o))
    BY <2>4 DEF ExistsBijection
  <2> QED BY <1>1, <2>5, FS_CountingElements
<1>8. Adjacent(P, o, << >>)
  BY DEF WalkInv
<1> QED BY <1>1, <1>3, <1>6, <1>7, <1>8 DEF Adjacent

-----------------------------------------------------------------------------
(* The program laid out.                                                   *)

(* A reference and a table of values, as they were before the layout.      *)
OldRef(o, is_ref, x) == IF is_ref /\ x < Len(o) THEN o[x + 1] ELSE x
OldTable(o, block, tbl) == [v \in 1 .. Len(tbl) |-> OldRef(o, IsRef(block, v), tbl[v])]
OldCells(o, cells) == [c \in DOMAIN cells |-> OldRef(o, c[2] \in BlockTypes, cells[c])]

StmtMoved(o, s, r) ==
  /\ r.op = s.op
  /\ s.op # "Const" => r = s
  /\ s.op = "Const" => /\ r.ty = s.ty
                       /\ r.value \in Nat
                       /\ OldRef(o, s.ty \in BlockTypes, r.value) = s.value

TargetMoved(o, t, u) ==
  /\ u.dest = t.dest
  /\ u.args = t.args
  /\ t.dest = "Block" => u.block \in 0 .. Len(o) - 1 /\ o[u.block + 1] = t.block
  /\ t.dest # "Block" => u = t

TermMoved(o, t, u) ==
  /\ u.kind = t.kind
  /\ t.kind = "Jmp" => TargetMoved(o, t.target, u.target)
  /\ t.kind = "JumpCond" => /\ u.condition = t.condition
                            /\ TargetMoved(o, t.then, u.then) /\ TargetMoved(o, t.else, u.else)
  /\ t.kind = "JumpTable" => /\ u.index = t.index /\ DOMAIN u.cases = DOMAIN t.cases
                             /\ \A c \in DOMAIN t.cases : TargetMoved(o, t.cases[c], u.cases[c])

BlockMoved(o, b, c) ==
  /\ c.params = b.params
  /\ Len(c.stmts) = Len(b.stmts)
  /\ \A j \in 1 .. Len(b.stmts) : StmtMoved(o, b.stmts[j], c.stmts[j])
  /\ TermMoved(o, b.term, c.term)

(* Q is P with its blocks in the order o.                                  *)
Moved(P, o, Q) ==
  /\ o \in Seq(BlocksOf(P)) /\ Len(o) > 0 /\ o[1] = 0
  /\ Q.n = Len(o)
  /\ \A k \in 0 .. Len(o) - 1 : BlockMoved(o, P.blocks[o[k + 1]], Q.blocks[k])
  /\ (\E k \in 0 .. Len(o) - 1 : Dynamic(P, o[k + 1])) => Len(o) = P.n

(* What the assumptions say of a block.                                    *)
LEMMA BlockFacts ==
  ASSUME NEW P \in Programs, NEW b \in BlocksOf(P)
  PROVE  /\ BlockWellFormed(P, P.blocks[b])
         /\ \A j \in 1 .. Len(P.blocks[b].stmts) : StmtKeepsRefs(P.blocks[b], P.blocks[b].stmts[j])
         /\ TermKeepsRefs(P, P.blocks[b], P.blocks[b].term)
BY ProgramAssumption, LayoutAssumption DEF WellFormed, Supported, BlocksOf

(* A single block stays as it is, and that is its layout.                  *)
LEMMA SingleMoved ==
  ASSUME NEW P \in Programs, P.n <= 1
  PROVE  Moved(P, <<0>>, P)
<1> DEFINE o == <<0>>
<1>1. P.n = 1 /\ BlocksOf(P) = {0} /\ Len(o) = 1 /\ o[1] = 0
  BY ProgramAssumption DEF WellFormed, BlocksOf
<1>2. o \in Seq(BlocksOf(P))
  BY <1>1
<1>4. BlockWellFormed(P, P.blocks[0]) /\ TermKeepsRefs(P, P.blocks[0], P.blocks[0].term)
  BY <1>1, BlockFacts
<1>5. ASSUME NEW j \in 1 .. Len(P.blocks[0].stmts) PROVE StmtMoved(o, P.blocks[0].stmts[j], P.blocks[0].stmts[j])
  <2> DEFINE s == P.blocks[0].stmts[j]
  <2>1. StmtWellFormed(s, Len(P.blocks[0].params) + j - 1)
    BY <1>4 DEF BlockWellFormed
  <2>2. s.op = "Const" => s.value \in Nat
    BY <2>1, ProgramAssumption DEF StmtWellFormed
  <2> SUFFICES StmtMoved(o, s, s)
    OBVIOUS
  <2> HIDE DEF s, o
  <2>3. CASE s.op = "Const"
    <3>1. s.value < Len(o) => s.value = 0
      BY <1>1, <2>2, <2>3
    <3> QED BY <1>1, <2>2, <2>3, <3>1 DEF StmtMoved, OldRef
  <2> QED BY <2>3 DEF StmtMoved
<1>6. ASSUME NEW t, NEW v, TargetWellFormed(P, t, v) PROVE TargetMoved(o, t, t)
  BY <1>1, <1>6 DEF TargetWellFormed, TargetMoved
<1>7. TermMoved(o, P.blocks[0].term, P.blocks[0].term)
  <2>1. TermWellFormed(P, P.blocks[0].term, NumVars(P.blocks[0]))
    BY <1>4 DEF BlockWellFormed
  <2> HIDE DEF o
  <2> QED BY <2>1, <1>6 DEF TermWellFormed, TermMoved
<1>8. BlockMoved(o, P.blocks[0], P.blocks[0])
  BY <1>5, <1>7 DEF BlockMoved
<1>9. \A k \in 0 .. Len(o) - 1 : k = 0 /\ o[k + 1] = 0
  BY <1>1
<1> HIDE DEF o
<1> QED BY <1>1, <1>2, <1>8, <1>9 DEF Moved, o

(* old_to_new is the inverse of the order.                                 *)
LEMMA MapFacts ==
  ASSUME NEW S, NEW o \in Seq(S)
  PROVE  /\ DOMAIN old_to_new(o) = Range(o)
         /\ \A b \in Range(o) : old_to_new(o)[b] \in 0 .. Len(o) - 1 /\ o[old_to_new(o)[b] + 1] = b
<1>1. DOMAIN old_to_new(o) = Range(o)
  BY DEF old_to_new
<1>2. ASSUME NEW b \in Range(o) PROVE old_to_new(o)[b] \in 0 .. Len(o) - 1 /\ o[old_to_new(o)[b] + 1] = b
  <2> DEFINE k == CHOOSE k \in 1 .. Len(o) : o[k] = b
  <2>1. \E i \in 1 .. Len(o) : o[i] = b
    BY RangeFacts
  <2>2. k \in 1 .. Len(o) /\ o[k] = b
    BY <2>1
  <2>3. old_to_new(o)[b] = k - 1
    BY DEF old_to_new
  <2> HIDE DEF k
  <2>4. k \in Int /\ Len(o) \in Nat
    BY <2>2
  <2>5. k - 1 \in 0 .. Len(o) - 1 /\ (k - 1) + 1 = k
    BY <2>2, <2>4
  <2> QED BY <2>2, <2>3, <2>5
<1> QED BY <1>1, <1>2

(* What the layout makes is the source with its blocks moved.              *)
LEMMA LaidMoved ==
  ASSUME NEW P \in Programs, NEW o, WalkInv(P, o, << >>)
  PROVE  Moved(P, o, Laid(P, o))
<1> DEFINE map == old_to_new(o)
           Q == Laid(P, o)
<1>1. o \in Seq(BlocksOf(P)) /\ Len(o) \in Nat /\ Len(o) > 0 /\ o[1] = 0
  BY WalkEnd DEF WalkInv
<1>2. Range(o) = Reachable(P) /\ Len(o) = Cardinality(Range(o))
  BY WalkEnd
<1>3. /\ DOMAIN map = Range(o)
      /\ \A b \in Range(o) : map[b] \in 0 .. Len(o) - 1 /\ o[map[b] + 1] = b
  BY <1>1, MapFacts
<1>4. P.n \in Nat /\ Len(o) <= P.n /\ Cardinality(BlocksOf(P)) = P.n
  <2>1. P.n \in Nat
    BY ProgramAssumption DEF WellFormed
  <2>2. IsFiniteSet(BlocksOf(P)) /\ Cardinality(BlocksOf(P)) = P.n
    <3>1. 0 \in Int /\ P.n - 1 \in Int /\ (0 > P.n - 1 => P.n = 0) /\ (P.n - 1) - 0 + 1 = P.n
      BY <2>1
    <3> QED BY <2>1, <3>1, FS_Interval DEF BlocksOf
  <2>3. Range(o) \subseteq BlocksOf(P)
    BY <1>1, RangeFacts
  <2> QED BY <1>2, <2>1, <2>2, <2>3, FS_Subset
<1>5. /\ Q.n = Len(o)
      /\ \A k \in 0 .. Len(o) - 1 :
           /\ Q.blocks[k].params = P.blocks[o[k + 1]].params
           /\ Q.blocks[k].stmts = [j \in 1 .. Len(P.blocks[o[k + 1]].stmts) |-> remap_const(P.blocks[o[k + 1]].stmts[j], map)]
           /\ Q.blocks[k].term = remap_terminator(P.blocks[o[k + 1]].term, map)
  BY DEF Laid
<1> HIDE DEF map, Q
<1>6. ASSUME NEW k \in 0 .. Len(o) - 1 PROVE BlockMoved(o, P.blocks[o[k + 1]], Q.blocks[k])
  <2> DEFINE b == o[k + 1]
  <2>1. b \in BlocksOf(P) /\ b \in Range(o)
    <3>1. k + 1 \in 1 .. Len(o)
      BY <1>1
    <3> QED BY <1>1, <3>1, RangeFacts
  <2> HIDE DEF b
  <2>2. BlockWellFormed(P, P.blocks[b])
    BY <2>1, BlockFacts
  <2>3. ASSUME NEW j \in 1 .. Len(P.blocks[b].stmts)
        PROVE  StmtMoved(o, P.blocks[b].stmts[j], remap_const(P.blocks[b].stmts[j], map))
    <3> DEFINE s == P.blocks[b].stmts[j]
    <3>1. s.op = "Const" => s.value \in Nat
      <4>1. StmtWellFormed(s, Len(P.blocks[b].params) + j - 1)
        BY <2>2 DEF BlockWellFormed
      <4> QED BY <4>1, ProgramAssumption DEF StmtWellFormed
    <3>2. s.op = "Const" /\ s.ty \in BlockTypes => s.value \in Range(o) \/ s.value >= P.n
      BY <1>2, <2>1, LayoutAssumption DEF Supported
    <3> SUFFICES StmtMoved(o, s, remap_const(s, map))
      OBVIOUS
    <3> HIDE DEF s
    <3>3. CASE s.op # "Const" \/ s.ty \notin BlockTypes
      BY <3>1, <3>3 DEF StmtMoved, remap_const, OldRef
    <3>4. CASE s.op = "Const" /\ s.ty \in BlockTypes /\ s.value \in Range(o)
      <4> DEFINE r == remap_const(s, map)
      <4>1. r = [op |-> "Const", ty |-> s.ty, value |-> map[s.value]]
        BY <1>3, <3>4 DEF remap_const
      <4>2. r.op = "Const" /\ r.ty = s.ty /\ r.value = map[s.value]
        BY <4>1
      <4>3. map[s.value] \in Nat /\ map[s.value] < Len(o) /\ o[map[s.value] + 1] = s.value
        BY <1>1, <1>3, <3>4
      <4> HIDE DEF r
      <4>4. StmtMoved(o, s, r)
        BY <3>4, <4>2, <4>3 DEF StmtMoved, OldRef
      <4> QED BY <4>4 DEF r
    <3>5. CASE s.op = "Const" /\ s.ty \in BlockTypes /\ s.value \notin Range(o)
      <4>1. remap_const(s, map) = s
        BY <1>3, <3>5 DEF remap_const
      <4>2. ~(s.value < Len(o))
        BY <1>1, <1>4, <3>1, <3>2, <3>5
      <4> QED BY <3>1, <3>5, <4>1, <4>2 DEF StmtMoved, OldRef
    <3> QED BY <3>3, <3>4, <3>5
  <2>4. ASSUME NEW i \in 1 .. Len(SuccessorsOf(P, b))
        PROVE  TargetMoved(o, SuccessorsOf(P, b)[i], remap_target(SuccessorsOf(P, b)[i], map))
    <3> DEFINE t == SuccessorsOf(P, b)[i]
    <3>1. t.dest = "Block" => t.block \in Range(o)
      <4>1. PICK m \in 1 .. Len(o) : o[m] = b
        BY <1>1, <2>1, RangeFacts
      <4>2. FollowsAll(P, o, << >>)
        BY DEF WalkInv
      <4>3. t.dest = "Block" => Met(o, << >>, t.block)
        BY <4>1, <4>2 DEF FollowsAll
      <4> QED BY <4>3 DEF Met
    <3> HIDE DEF t
    <3>2. CASE t.dest = "Block"
      <4> DEFINE u == remap_target(t, map)
      <4>1. u = [dest |-> "Block", block |-> map[t.block], args |-> t.args]
        BY <3>2 DEF remap_target
      <4>2. u.dest = "Block" /\ u.block = map[t.block] /\ u.args = t.args
        BY <4>1
      <4> HIDE DEF u
      <4>3. TargetMoved(o, t, u)
        BY <1>3, <3>1, <3>2, <4>2 DEF TargetMoved
      <4> QED BY <4>3 DEF t, u
    <3>3. CASE t.dest # "Block"
      BY <3>3 DEF TargetMoved, remap_target, t
    <3> QED BY <3>2, <3>3
  <2>5. TermMoved(o, P.blocks[b].term, remap_terminator(P.blocks[b].term, map))
    <3> DEFINE term == P.blocks[b].term
               next == SuccessorsOf(P, b)
    <3>1. term.kind \in {"Jmp", "JumpCond", "JumpTable"}
      BY <2>2 DEF BlockWellFormed, TermWellFormed
    <3>2. CASE term.kind = "Jmp"
      <4>1. next = <<term.target>> /\ Len(next) = 1
        BY <3>2 DEF SuccessorsOf, successors
      <4>2. TargetMoved(o, term.target, remap_target(term.target, map))
        BY <2>4, <4>1
      <4>3. remap_terminator(term, map) = [kind |-> "Jmp", target |-> remap_target(term.target, map)]
        BY <3>2 DEF remap_terminator
      <4> HIDE DEF term
      <4> QED BY <3>2, <4>2, <4>3 DEF TermMoved, term
    <3>3. CASE term.kind = "JumpCond"
      <4>1. next = <<term.then, term.else>> /\ Len(next) = 2
        BY <3>3 DEF SuccessorsOf, successors
      <4>2. TargetMoved(o, term.then, remap_target(term.then, map)) /\ TargetMoved(o, term.else, remap_target(term.else, map))
        <5>1. 1 \in 1 .. Len(next) /\ 2 \in 1 .. Len(next) /\ next[1] = term.then /\ next[2] = term.else
          BY <4>1
        <5> QED BY <2>4, <5>1
      <4>3. remap_terminator(term, map) =
              [kind |-> "JumpCond", condition |-> term.condition,
               then |-> remap_target(term.then, map), else |-> remap_target(term.else, map)]
        BY <3>3 DEF remap_terminator
      <4> HIDE DEF term
      <4> QED BY <3>3, <4>2, <4>3 DEF TermMoved, term
    <3>4. CASE term.kind = "JumpTable"
      <4>1. ASSUME NEW c \in DOMAIN term.cases PROVE TargetMoved(o, term.cases[c], remap_target(term.cases[c], map))
        <5> DEFINE n == Cardinality(DOMAIN term.cases)
                   keys == Ascending(DOMAIN term.cases)
        <5>1. DOMAIN term.cases \in SUBSET Nat /\ IsFiniteSet(DOMAIN term.cases)
          <6>1. TermKeepsRefs(P, P.blocks[b], term)
            BY <2>1, BlockFacts
          <6> QED BY <6>1, <3>4 DEF TermKeepsRefs
        <5>2. n \in Nat /\ \E i \in 1 .. n : keys[i] = c
          BY <5>1, <4>1, AscendingFacts
        <5>3. next = [i \in 1 .. n |-> term.cases[keys[i]]]
          BY <3>4 DEF SuccessorsOf, successors
        <5>4. PICK i \in 1 .. n : keys[i] = c
          BY <5>2
        <5> HIDE DEF n, keys, next, term
        <5>5. i \in 1 .. Len(next) /\ next[i] = term.cases[c]
          BY <5>2, <5>3, <5>4
        <5> QED BY <2>4, <5>5 DEF next, term
      <4>2. remap_terminator(term, map) =
              [kind |-> "JumpTable", index |-> term.index,
               cases |-> [c \in DOMAIN term.cases |-> remap_target(term.cases[c], map)]]
        BY <3>4 DEF remap_terminator
      <4> HIDE DEF term
      <4> QED BY <3>4, <4>1, <4>2 DEF TermMoved, term
    <3> QED BY <3>1, <3>2, <3>3, <3>4
  <2>6. Len(P.blocks[b].stmts) \in Nat
    BY <2>2 DEF BlockWellFormed
  <2>7. /\ Q.blocks[k].params = P.blocks[b].params
        /\ Q.blocks[k].stmts = [j \in 1 .. Len(P.blocks[b].stmts) |-> remap_const(P.blocks[b].stmts[j], map)]
        /\ Q.blocks[k].term = remap_terminator(P.blocks[b].term, map)
    BY <1>5 DEF b
  <2>8. BlockMoved(o, P.blocks[b], Q.blocks[k])
    BY <2>3, <2>5, <2>6, <2>7 DEF BlockMoved
  <2> QED BY <2>8 DEF b
<1>7. ASSUME NEW k \in 0 .. Len(o) - 1, Dynamic(P, o[k + 1]) PROVE Len(o) = P.n
  <2>1. k + 1 \in 1 .. Len(o)
    BY <1>1
  <2>2. PICK i \in 1 .. Len(SuccessorsOf(P, o[k + 1])) : SuccessorsOf(P, o[k + 1])[i].dest = "Dyn"
    BY <1>7 DEF Dynamic
  <2>3. \A c \in BlocksOf(P) : Met(o, << >>, c)
    BY <2>1, <2>2 DEF WalkInv, FollowsAll
  <2>4. BlocksOf(P) = Range(o)
    <3>1. Range(o) \subseteq BlocksOf(P)
      BY <1>1, RangeFacts
    <3>2. BlocksOf(P) \subseteq Range(o)
      BY <2>3 DEF Met
    <3> QED BY <3>1, <3>2
  <2> QED BY <1>2, <1>4, <2>4
<1> QED BY <1>1, <1>5, <1>6, <1>7 DEF Moved, Q

-----------------------------------------------------------------------------
(* Running it.                                                             *)

Running(P, o, Q, k, tbl, cells) ==
  /\ Moved(P, o, Q)
  /\ k \in 0 .. Len(o) - 1
  /\ tbl \in Seq(Nat)
  /\ Len(Q.blocks[k].params) <= Len(tbl) /\ Len(tbl) <= NumVars(Q.blocks[k])
  /\ \A v \in 1 .. Len(tbl) : ~IsRef(Q.blocks[k], v) => tbl[v] \in Val
  /\ cells \in [Cells -> Nat]
  /\ \A c \in Cells : c[2] \notin BlockTypes => cells[c] \in Val

(* The variables of a block: parameters, then statements.                  *)
LEMMA NumVarsFacts ==
  ASSUME NEW block, Len(block.params) \in Nat, Len(block.stmts) \in Nat
  PROVE  /\ NumVars(block) \in Nat
         /\ \A v \in 1 .. NumVars(block) :
              ~(v <= Len(block.params)) => v - Len(block.params) \in 1 .. Len(block.stmts)
         /\ \A n \in Nat : Len(block.params) <= n /\ n < NumVars(block) =>
              /\ n - Len(block.params) + 1 \in 1 .. Len(block.stmts)
              /\ Len(block.params) + (n - Len(block.params) + 1) - 1 = n
              /\ ~(n + 1 <= Len(block.params))
              /\ (n + 1) - Len(block.params) = n - Len(block.params) + 1
              /\ n + 1 <= NumVars(block)
<1> DEFINE p == Len(block.params)
           q == Len(block.stmts)
<1>1. p \in Nat /\ q \in Nat /\ NumVars(block) = p + q
  BY DEF NumVars
<1> HIDE DEF p, q
<1>2. /\ p + q \in Nat
      /\ \A v \in 1 .. p + q : ~(v <= p) => v - p \in 1 .. q
      /\ \A n \in Nat : p <= n /\ n < p + q =>
           n - p + 1 \in 1 .. q /\ p + (n - p + 1) - 1 = n /\ ~(n + 1 <= p) /\ (n + 1) - p = n - p + 1 /\ n + 1 <= p + q
  BY <1>1
<1> QED BY <1>1, <1>2 DEF p, q

(* A block and the block it was hold the same variables, and references    *)
(* in the same of them.                                                    *)
SameShape(B, C) ==
  /\ Len(B.params) \in Nat /\ Len(B.stmts) \in Nat
  /\ C.params = B.params /\ Len(C.stmts) = Len(B.stmts) /\ NumVars(C) = NumVars(B)
  /\ \A v \in 1 .. NumVars(B) : IsRef(C, v) <=> IsRef(B, v)

(* A moved block has the variables of the block it comes from.             *)
LEMMA SameVariables ==
  ASSUME NEW P \in Programs, NEW o, NEW Q, Moved(P, o, Q), NEW k, k \in 0 .. Len(o) - 1
  PROVE  o[k + 1] \in BlocksOf(P) /\ SameShape(P.blocks[o[k + 1]], Q.blocks[k])
<1> DEFINE B == P.blocks[o[k + 1]]
           C == Q.blocks[k]
<1>1. o \in Seq(BlocksOf(P)) /\ k + 1 \in 1 .. Len(o)
  BY DEF Moved
<1>2. o[k + 1] \in BlocksOf(P)
  BY <1>1
<1>3. BlockMoved(o, B, C)
  BY DEF Moved
<1>4. B.params \in Seq(Types) /\ Len(B.params) \in Nat /\ Len(B.stmts) \in Nat
  BY <1>2, BlockFacts DEF BlockWellFormed
<1> HIDE DEF B, C
<1>5. C.params = B.params /\ Len(C.stmts) = Len(B.stmts) /\ NumVars(C) = NumVars(B)
  BY <1>3 DEF BlockMoved, NumVars
<1>6. ASSUME NEW v \in 1 .. NumVars(B) PROVE IsRef(C, v) <=> IsRef(B, v)
  <2>1. CASE v <= Len(B.params)
    BY <1>5, <2>1 DEF IsRef
  <2>2. CASE ~(v <= Len(B.params))
    <3>1. v - Len(B.params) \in 1 .. Len(B.stmts)
      BY <1>4, <2>2, NumVarsFacts
    <3>2. StmtMoved(o, B.stmts[v - Len(B.params)], C.stmts[v - Len(B.params)])
      BY <1>3, <3>1 DEF BlockMoved
    <3> QED BY <1>5, <2>2, <3>2 DEF IsRef, StmtMoved
  <2> QED BY <2>1, <2>2
<1> QED BY <1>2, <1>4, <1>5, <1>6 DEF B, C, SameShape

(* The table before: what is no reference is the same.                     *)
SameTable(o, B, old, tbl) ==
  /\ Len(tbl) \in Nat /\ Len(B.params) <= Len(tbl) /\ Len(tbl) <= NumVars(B)
  /\ Len(old) = Len(tbl) /\ old \in Seq(Nat)
  /\ \A v \in 1 .. Len(tbl) : old[v] = OldRef(o, IsRef(B, v), tbl[v])
  /\ \A v \in 1 .. Len(tbl) : ~IsRef(B, v) => old[v] = tbl[v] /\ tbl[v] \in Val

(* The table of a moved block, read in the old numbering, differs in its   *)
(* block references only.                                                  *)
LEMMA TableFacts ==
  ASSUME NEW P \in Programs, NEW o, NEW Q, NEW k, NEW tbl, NEW cells, Running(P, o, Q, k, tbl, cells)
  PROVE  SameTable(o, P.blocks[o[k + 1]], OldTable(o, Q.blocks[k], tbl), tbl)
<1> DEFINE B == P.blocks[o[k + 1]]
           C == Q.blocks[k]
           old == OldTable(o, C, tbl)
<1>1. /\ Moved(P, o, Q) /\ k \in 0 .. Len(o) - 1 /\ tbl \in Seq(Nat)
      /\ Len(C.params) <= Len(tbl) /\ Len(tbl) <= NumVars(C)
      /\ \A v \in 1 .. Len(tbl) : ~IsRef(C, v) => tbl[v] \in Val
  BY DEF Running
<1>2. /\ Len(B.params) \in Nat /\ Len(B.stmts) \in Nat
      /\ C.params = B.params /\ NumVars(C) = NumVars(B)
      /\ \A v \in 1 .. NumVars(B) : IsRef(C, v) <=> IsRef(B, v)
  <2>1. SameShape(B, C)
    BY <1>1, SameVariables
  <2> HIDE DEF B, C
  <2> QED BY <2>1 DEF SameShape
<1> HIDE DEF B, C
<1>3. NumVars(B) \in Nat
  BY <1>2, NumVarsFacts
<1>4. Len(tbl) \in Nat /\ \A v \in 1 .. Len(tbl) : v \in 1 .. NumVars(B) /\ tbl[v] \in Nat
  BY <1>1, <1>2, <1>3
<1>5. ASSUME NEW v \in 1 .. Len(tbl) PROVE old[v] = OldRef(o, IsRef(B, v), tbl[v])
  <2>1. old[v] = OldRef(o, IsRef(C, v), tbl[v])
    BY DEF OldTable
  <2>2. IsRef(C, v) <=> IsRef(B, v)
    BY <1>2, <1>4
  <2> QED BY <2>1, <2>2 DEF OldRef
<1>6. Len(old) = Len(tbl) /\ old \in Seq(Nat)
  <2>1. \A v \in 1 .. Len(tbl) : OldRef(o, IsRef(C, v), tbl[v]) \in Nat
    <3> SUFFICES ASSUME NEW v \in 1 .. Len(tbl) PROVE OldRef(o, IsRef(C, v), tbl[v]) \in Nat
      OBVIOUS
    <3>1. o \in Seq(Nat) /\ Len(o) \in Nat
      <4>1. BlocksOf(P) \subseteq Nat
        BY DEF BlocksOf
      <4> QED BY <1>1, <4>1, SeqMonotonic DEF Moved
    <3>2. ASSUME tbl[v] < Len(o) PROVE o[tbl[v] + 1] \in Nat
      <4>1. tbl[v] + 1 \in 1 .. Len(o)
        BY <1>4, <3>1, <3>2
      <4> QED BY <3>1, <4>1
    <3> QED BY <1>4, <3>2 DEF OldRef
  <2>2. old = [v \in 1 .. Len(tbl) |-> OldRef(o, IsRef(C, v), tbl[v])]
    BY DEF OldTable
  <2> HIDE DEF old
  <2>3. old \in [1 .. Len(tbl) -> Nat]
    BY <2>1, <2>2
  <2> QED BY <1>4, <2>3
<1>7. ASSUME NEW v \in 1 .. Len(tbl), ~IsRef(B, v) PROVE old[v] = tbl[v] /\ tbl[v] \in Val
  <2>1. ~IsRef(C, v)
    BY <1>2, <1>4, <1>7
  <2> QED BY <1>1, <1>5, <1>7, <2>1 DEF OldRef
<1> HIDE DEF old
<1> QED BY <1>1, <1>2, <1>4, <1>5, <1>6, <1>7 DEF B, C, old, SameTable

(* The statement the block has come to.                                    *)
LEMMA StmtFacts ==
  ASSUME NEW P \in Programs, NEW o, NEW Q, NEW k, NEW tbl, NEW cells, Running(P, o, Q, k, tbl, cells),
         Len(tbl) < NumVars(Q.blocks[k])
  PROVE  LET B == P.blocks[o[k + 1]]
             s == StmtAt(B, tbl)
         IN  /\ Len(tbl) < NumVars(B)
             /\ StmtAt(B, OldTable(o, Q.blocks[k], tbl)) = s
             /\ StmtMoved(o, s, StmtAt(Q.blocks[k], tbl))
             /\ StmtWellFormed(s, Len(tbl))
             /\ StmtKeepsRefs(B, s)
             /\ IsRef(B, Len(tbl) + 1) <=> s.op \in {"Const", "StorageRead"} /\ s.ty \in BlockTypes
<1> DEFINE B == P.blocks[o[k + 1]]
           C == Q.blocks[k]
           s == StmtAt(B, tbl)
           j == Len(tbl) - Len(B.params) + 1
<1>1. Moved(P, o, Q) /\ k \in 0 .. Len(o) - 1
  BY DEF Running
<1>2. /\ o[k + 1] \in BlocksOf(P) /\ Len(B.params) \in Nat /\ Len(B.stmts) \in Nat
      /\ C.params = B.params /\ NumVars(C) = NumVars(B)
  BY <1>1, SameVariables DEF SameShape
<1>3. /\ Len(tbl) \in Nat /\ Len(B.params) <= Len(tbl) /\ Len(tbl) <= NumVars(B)
      /\ Len(OldTable(o, C, tbl)) = Len(tbl)
  BY TableFacts DEF SameTable
<1>4. BlockMoved(o, B, C)
  BY <1>1 DEF Moved
<1>5. /\ \A i \in 1 .. Len(B.stmts) : StmtWellFormed(B.stmts[i], Len(B.params) + i - 1)
      /\ \A i \in 1 .. Len(B.stmts) : StmtKeepsRefs(B, B.stmts[i])
  BY <1>2, BlockFacts DEF BlockWellFormed
<1>6. Len(tbl) < NumVars(B)
  BY <1>2
<1> HIDE DEF B, C
<1>7. j \in 1 .. Len(B.stmts) /\ Len(B.params) + j - 1 = Len(tbl) /\ ~(Len(tbl) + 1 <= Len(B.params))
      /\ (Len(tbl) + 1) - Len(B.params) = j
  BY <1>2, <1>3, <1>6, NumVarsFacts
<1>8. s = B.stmts[j] /\ StmtAt(B, OldTable(o, C, tbl)) = B.stmts[j] /\ StmtAt(C, tbl) = C.stmts[j]
  BY <1>2, <1>3 DEF StmtAt
<1>9. StmtMoved(o, B.stmts[j], C.stmts[j])
  BY <1>4, <1>7 DEF BlockMoved
<1>10. IsRef(B, Len(tbl) + 1) <=> s.op \in {"Const", "StorageRead"} /\ s.ty \in BlockTypes
  BY <1>7, <1>8 DEF IsRef
<1>11. StmtWellFormed(B.stmts[j], Len(tbl)) /\ StmtKeepsRefs(B, B.stmts[j])
  <2> HIDE DEF j
  <2> QED BY <1>5, <1>7
<1> HIDE DEF j, s
<1> QED BY <1>6, <1>8, <1>9, <1>10, <1>11 DEF B, C, s

(* Values are numbers.                                                     *)
LEMMA ValFacts == Val \subseteq Nat /\ 0 \in Val /\ 0 \in Nat
BY ProgramAssumption

(* What the arguments of a statement are, where none is a reference.       *)
LEMMA ArgsFacts ==
  ASSUME NEW n \in Nat, NEW args \in Seq(1 .. n), NEW tbl, NEW old,
         \A i \in 1 .. Len(args) : old[args[i]] = tbl[args[i]] /\ tbl[args[i]] \in Val
  PROVE  Args(args, old) = Args(args, tbl) /\ Args(args, tbl) \in [1 .. Len(args) -> Val]
BY DEF Args

(* A statement s of block B, now r, yields what it did before.             *)
ValueKept(o, B, s, r, old, tbl, cells) ==
  LET x == StmtValue(r, tbl, cells)
  IN  /\ StmtValue(s, old, OldCells(o, cells)) = OldRef(o, IsRef(B, Len(tbl) + 1), x)
      /\ x \in Nat /\ (~IsRef(B, Len(tbl) + 1) => x \in Val)
      /\ Performed(s, old) = Performed(r, tbl)
      /\ s.op = "StorageWrite" =>
           /\ Cell(r, tbl) \in Cells /\ Cell(s, old) = Cell(r, tbl) /\ Cell(r, tbl)[2] = s.ty
           /\ tbl[r.src] \in Nat /\ (s.ty \notin BlockTypes => tbl[r.src] \in Val)
           /\ old[s.src] = OldRef(o, s.ty \in BlockTypes, tbl[r.src])

(* Every statement of a moved block does.                                  *)
LEMMA SameValue ==
  ASSUME NEW P \in Programs, NEW o, NEW Q, NEW k, NEW tbl, NEW cells, Running(P, o, Q, k, tbl, cells),
         Len(tbl) < NumVars(Q.blocks[k])
  PROVE  ValueKept(o, P.blocks[o[k + 1]], StmtAt(P.blocks[o[k + 1]], tbl), StmtAt(Q.blocks[k], tbl),
                   OldTable(o, Q.blocks[k], tbl), tbl, cells)
<1> DEFINE B == P.blocks[o[k + 1]]
           s == StmtAt(B, tbl)
           r == StmtAt(Q.blocks[k], tbl)
           old == OldTable(o, Q.blocks[k], tbl)
           x == StmtValue(r, tbl, cells)
           ref == IsRef(B, Len(tbl) + 1)
           n == Len(tbl)
<1>1. /\ StmtMoved(o, s, r) /\ StmtWellFormed(s, n) /\ StmtKeepsRefs(B, s)
      /\ ref <=> s.op \in {"Const", "StorageRead"} /\ s.ty \in BlockTypes
  BY StmtFacts
<1>2. /\ n \in Nat
      /\ \A v \in 1 .. n : old[v] = OldRef(o, IsRef(B, v), tbl[v])
      /\ \A v \in 1 .. n : ~IsRef(B, v) => old[v] = tbl[v] /\ tbl[v] \in Val
  <2>1. SameTable(o, B, old, tbl)
    BY TableFacts
  <2> HIDE DEF B, old
  <2> QED BY <2>1 DEF SameTable
<1>3. /\ \A v \in 1 .. n : tbl[v] \in Nat
      /\ cells \in [Cells -> Nat] /\ \A c \in Cells : c[2] \notin BlockTypes => cells[c] \in Val
  BY <1>2 DEF Running
<1>4. s.op \in {"Const", "Pure", "StorageRead", "StorageWrite", "ActionCall"}
  BY <1>1 DEF StmtWellFormed
<1> SUFFICES /\ StmtValue(s, old, OldCells(o, cells)) = OldRef(o, ref, x)
             /\ x \in Nat /\ (~ref => x \in Val)
             /\ Performed(s, old) = Performed(r, tbl)
             /\ s.op = "StorageWrite" =>
                  /\ Cell(r, tbl) \in Cells /\ Cell(s, old) = Cell(r, tbl) /\ Cell(r, tbl)[2] = s.ty
                  /\ tbl[r.src] \in Nat /\ (s.ty \notin BlockTypes => tbl[r.src] \in Val)
                  /\ old[s.src] = OldRef(o, s.ty \in BlockTypes, tbl[r.src])
  BY DEF ValueKept
<1> HIDE DEF B, s, r, old, n, ref
<1>5. s.op # "Const" => r = s
  BY <1>1 DEF StmtMoved
<1>6. CASE s.op = "Const"
  <2>1. x = r.value /\ StmtValue(s, old, OldCells(o, cells)) = s.value
    BY <1>1, <1>6 DEF StmtValue, StmtMoved
  <2>2. r.value \in Nat /\ OldRef(o, ref, r.value) = s.value
    BY <1>1, <1>6 DEF StmtMoved, OldRef
  <2>3. ~ref => r.value = s.value /\ s.value \in Val
    BY <1>1, <1>6, <2>2 DEF OldRef, StmtWellFormed
  <2>4. Performed(s, old) = Performed(r, tbl)
    BY <1>1, <1>6 DEF Performed, StmtMoved
  <2> HIDE DEF x
  <2> QED BY <1>6, <2>1, <2>2, <2>3, <2>4
<1>7. CASE s.op = "Pure"
  <2>1. s.args \in Seq(1 .. n) /\ FunctionOf(s.f, Len(s.args))
    BY <1>1, <1>7 DEF StmtWellFormed
  <2>2. \A i \in 1 .. Len(s.args) : s.args[i] \in 1 .. n /\ ~IsRef(B, s.args[i])
    <3>1. \A i \in 1 .. Len(s.args) : ~IsRef(B, s.args[i])
      BY <1>1, <1>7 DEF StmtKeepsRefs
    <3>2. \A i \in 1 .. Len(s.args) : s.args[i] \in 1 .. n
      BY <2>1, ElementOfSeq
    <3> QED BY <3>1, <3>2
  <2>3. Args(s.args, old) = Args(s.args, tbl) /\ Args(s.args, tbl) \in [1 .. Len(s.args) -> Val]
    <3>1. \A i \in 1 .. Len(s.args) : old[s.args[i]] = tbl[s.args[i]] /\ tbl[s.args[i]] \in Val
      BY <1>2, <2>2
    <3> QED BY ZenonT(30), <1>2, <2>1, <3>1, ArgsFacts
  <2>4. s.f[Args(s.args, tbl)] \in Val
    BY <2>1, <2>3 DEF FunctionOf
  <2>5. x = s.f[Args(s.args, tbl)] /\ StmtValue(s, old, OldCells(o, cells)) = s.f[Args(s.args, tbl)]
    BY <1>5, <1>7, <2>3 DEF StmtValue
  <2>6. ~ref
    BY <1>1, <1>7
  <2> HIDE DEF x
  <2> QED BY <1>5, <1>7, <2>4, <2>5, <2>6, ValFacts DEF OldRef, Performed
<1>8. CASE s.op = "StorageRead"
  <2>1. s.storage \in Storages /\ s.ty \in Types /\ s.addr \in 1 .. n
    BY <1>1, <1>8 DEF StmtWellFormed
  <2>2. old[s.addr] = tbl[s.addr] /\ tbl[s.addr] \in Val
    BY <1>1, <1>2, <1>8, <2>1 DEF StmtKeepsRefs
  <2> DEFINE c == Cell(s, tbl)
  <2>3. Cell(s, old) = c /\ c \in Cells /\ c[2] = s.ty
    BY <2>1, <2>2 DEF Cell, Cells
  <2>4. x = cells[c] /\ StmtValue(s, old, OldCells(o, cells)) = OldCells(o, cells)[c]
    BY <1>5, <1>8, <2>3 DEF StmtValue
  <2> HIDE DEF c, x
  <2>5. OldCells(o, cells)[c] = OldRef(o, s.ty \in BlockTypes, cells[c])
    BY <1>3, <2>3 DEF OldCells
  <2>6. OldRef(o, s.ty \in BlockTypes, cells[c]) = OldRef(o, ref, cells[c])
    BY <1>1, <1>8 DEF OldRef
  <2> QED BY <1>1, <1>3, <1>5, <1>8, <2>3, <2>4, <2>5, <2>6 DEF Performed
<1>9. CASE s.op = "StorageWrite"
  <2>1. s.storage \in Storages /\ s.ty \in Types /\ s.addr \in 1 .. n /\ s.src \in 1 .. n
    BY <1>1, <1>9 DEF StmtWellFormed
  <2>2. old[s.addr] = tbl[s.addr] /\ tbl[s.addr] \in Val
    BY <1>1, <1>2, <1>9, <2>1 DEF StmtKeepsRefs
  <2>3. IsRef(B, s.src) <=> s.ty \in BlockTypes
    BY <1>1, <1>9 DEF StmtKeepsRefs
  <2>4. Cell(s, old) = Cell(s, tbl) /\ Cell(s, tbl) \in Cells /\ Cell(s, tbl)[2] = s.ty
    BY <2>1, <2>2 DEF Cell, Cells
  <2>5. old[s.src] = OldRef(o, s.ty \in BlockTypes, tbl[s.src])
    BY <1>2, <2>1, <2>3 DEF OldRef
  <2>6. tbl[s.src] \in Nat /\ (s.ty \notin BlockTypes => tbl[s.src] \in Val)
    BY <1>2, <1>3, <2>1, <2>3
  <2>7. x = 0 /\ StmtValue(s, old, OldCells(o, cells)) = 0 /\ ~ref
    BY <1>1, <1>5, <1>9 DEF StmtValue
  <2> HIDE DEF x
  <2>8. r = s /\ Performed(s, old) = Performed(r, tbl)
    BY <1>5, <1>9 DEF Performed
  <2>9. OldRef(o, ref, x) = 0
    BY <2>7 DEF OldRef
  <2> QED BY <2>4, <2>5, <2>6, <2>7, <2>8, <2>9, ValFacts
<1>10. CASE s.op = "ActionCall"
  <2>1. s.args \in Seq(1 .. n) /\ FunctionOf(s.f, Len(s.args)) /\ s.guard \in 1 .. n /\ s.fallback \in 1 .. n
    BY <1>1, <1>10 DEF StmtWellFormed
  <2>2. \A i \in 1 .. Len(s.args) : s.args[i] \in 1 .. n /\ ~IsRef(B, s.args[i])
    <3>1. \A i \in 1 .. Len(s.args) : ~IsRef(B, s.args[i])
      BY <1>1, <1>10 DEF StmtKeepsRefs
    <3>2. \A i \in 1 .. Len(s.args) : s.args[i] \in 1 .. n
      BY <2>1, ElementOfSeq
    <3> QED BY <3>1, <3>2
  <2>3. Args(s.args, old) = Args(s.args, tbl) /\ Args(s.args, tbl) \in [1 .. Len(s.args) -> Val]
    <3>1. \A i \in 1 .. Len(s.args) : old[s.args[i]] = tbl[s.args[i]] /\ tbl[s.args[i]] \in Val
      BY <1>2, <2>2
    <3> QED BY ZenonT(30), <1>2, <2>1, <3>1, ArgsFacts
  <2>4. s.f[Args(s.args, tbl)] \in Val
    BY <2>1, <2>3 DEF FunctionOf
  <2>5. old[s.guard] = tbl[s.guard] /\ old[s.fallback] = tbl[s.fallback] /\ tbl[s.fallback] \in Val
    BY <1>1, <1>2, <1>10, <2>1 DEF StmtKeepsRefs
  <2>6. x = (IF tbl[s.guard] # 0 THEN s.f[Args(s.args, tbl)] ELSE tbl[s.fallback])
        /\ StmtValue(s, old, OldCells(o, cells)) = x
    BY <1>5, <1>10, <2>3, <2>5 DEF StmtValue
  <2>7. ~ref
    BY <1>1, <1>10
  <2>8. Performed(s, old) = Performed(r, tbl)
    BY <1>5, <1>10, <2>5 DEF Performed
  <2> HIDE DEF x
  <2>9. x \in Val
    BY <2>4, <2>5, <2>6
  <2>10. OldRef(o, ref, x) = x
    BY <2>7 DEF OldRef
  <2> QED BY <1>10, <2>6, <2>8, <2>9, <2>10, ValFacts
<1> QED BY <1>4, <1>6, <1>7, <1>8, <1>9, <1>10

AfterWrite(s, tbl, cells) ==
  IF s.op = "StorageWrite" THEN [cells EXCEPT ![Cell(s, tbl)] = tbl[s.src]] ELSE cells

(* A statement does what it did before.                                    *)
SameEffect(P, o, Q, k, tbl, cells) ==
  LET r == StmtAt(Q.blocks[k], tbl)
      old == OldTable(o, Q.blocks[k], tbl)
      s == StmtAt(P.blocks[o[k + 1]], old)
      tbl2 == Append(tbl, StmtValue(r, tbl, cells))
      cells2 == AfterWrite(r, tbl, cells)
  IN  /\ Running(P, o, Q, k, tbl2, cells2)
      /\ Len(old) < NumVars(P.blocks[o[k + 1]])
      /\ OldTable(o, Q.blocks[k], tbl2) = Append(old, StmtValue(s, old, OldCells(o, cells)))
      /\ OldCells(o, cells2) = AfterWrite(s, old, OldCells(o, cells))
      /\ Performed(s, old) = Performed(r, tbl)

(* A statement of a moved block does what it did at its old place.         *)
LEMMA StmtStep ==
  ASSUME NEW P \in Programs, NEW o, NEW Q, NEW k, NEW tbl, NEW cells, Running(P, o, Q, k, tbl, cells),
         Len(tbl) < NumVars(Q.blocks[k])
  PROVE  SameEffect(P, o, Q, k, tbl, cells)
<1> PICK r : r = StmtAt(Q.blocks[k], tbl)
  OBVIOUS
<1> PICK old : old = OldTable(o, Q.blocks[k], tbl)
  OBVIOUS
<1> PICK s : s = StmtAt(P.blocks[o[k + 1]], old)
  OBVIOUS
<1> PICK tbl2 : tbl2 = Append(tbl, StmtValue(r, tbl, cells))
  OBVIOUS
<1> PICK cells2 : cells2 = AfterWrite(r, tbl, cells)
  OBVIOUS
<1> DEFINE B == P.blocks[o[k + 1]]
           C == Q.blocks[k]
           x == StmtValue(r, tbl, cells)
           y == StmtValue(s, old, OldCells(o, cells))
           n == Len(tbl)
<1>1. s = StmtAt(B, tbl) /\ n < NumVars(B) /\ StmtMoved(o, s, r)
  BY StmtFacts
<1>2. SameTable(o, B, old, tbl)
  BY TableFacts
<1>3. /\ y = OldRef(o, IsRef(B, n + 1), x)
      /\ x \in Nat /\ (~IsRef(B, n + 1) => x \in Val)
      /\ Performed(s, old) = Performed(r, tbl)
      /\ s.op = "StorageWrite" =>
           /\ Cell(r, tbl) \in Cells /\ Cell(s, old) = Cell(r, tbl) /\ Cell(r, tbl)[2] = s.ty
           /\ tbl[r.src] \in Nat /\ (s.ty \notin BlockTypes => tbl[r.src] \in Val)
           /\ old[s.src] = OldRef(o, s.ty \in BlockTypes, tbl[r.src])
  <2>1. ValueKept(o, B, s, r, old, tbl, cells)
    BY <1>1, SameValue
  <2> QED BY <2>1 DEF ValueKept
<1>4. /\ Moved(P, o, Q) /\ k \in 0 .. Len(o) - 1 /\ tbl \in Seq(Nat) /\ n \in Nat
      /\ Len(C.params) <= n
      /\ \A v \in 1 .. n : ~IsRef(C, v) => tbl[v] \in Val
      /\ cells \in [Cells -> Nat] /\ \A c \in Cells : c[2] \notin BlockTypes => cells[c] \in Val
  BY <1>2 DEF Running, SameTable
<1>5. SameShape(B, C)
  BY <1>4, SameVariables
<1>6. IsRef(C, n + 1) <=> IsRef(B, n + 1)
  <2> HIDE DEF B, C, n
  <2>1. NumVars(B) \in Nat
    BY <1>5, NumVarsFacts DEF SameShape
  <2>2. n + 1 \in 1 .. NumVars(B)
    BY <1>1, <1>4, <2>1
  <2> QED BY <1>5, <2>2 DEF SameShape
<1> HIDE DEF x, y
<1>7. /\ tbl2 \in Seq(Nat) /\ Len(tbl2) = n + 1 /\ tbl2[n + 1] = x
      /\ \A v \in 1 .. n : tbl2[v] = tbl[v]
  BY <1>3, <1>4, AppendProperties DEF x
<1>8. old \in Seq(Nat) /\ Len(old) = n
  BY <1>2 DEF SameTable
<1> HIDE DEF B, C, n
<1>9. OldTable(o, C, tbl2) = Append(old, y)
  <2>2. Append(old, y) = [v \in 1 .. n + 1 |-> IF v = n + 1 THEN y ELSE old[v]]
    BY <1>4, <1>8
  <2>3. OldTable(o, C, tbl2) = [v \in 1 .. n + 1 |-> OldRef(o, IsRef(C, v), tbl2[v])]
    BY <1>7 DEF OldTable
  <2>4. ASSUME NEW v \in 1 .. n + 1 PROVE OldRef(o, IsRef(C, v), tbl2[v]) = IF v = n + 1 THEN y ELSE old[v]
    <3>1. CASE v = n + 1
      BY <1>3, <1>6, <1>7, <3>1 DEF OldRef
    <3>2. CASE v # n + 1
      <4>1. v \in 1 .. n
        BY <1>4, <3>2
      <4>2. old[v] = OldRef(o, IsRef(C, v), tbl[v])
        BY <4>1 DEF OldTable, C, n
      <4> QED BY <1>7, <3>2, <4>1, <4>2
    <3> QED BY <3>1, <3>2
  <2> QED BY <2>2, <2>3, <2>4
<1>10. r.op = s.op
  BY <1>1 DEF StmtMoved
<1>11. /\ cells2 \in [Cells -> Nat] /\ \A c \in Cells : c[2] \notin BlockTypes => cells2[c] \in Val
       /\ OldCells(o, cells2) = AfterWrite(s, old, OldCells(o, cells))
  <2>1. CASE s.op # "StorageWrite"
    BY <1>4, <1>10, <2>1 DEF AfterWrite
  <2>2. CASE s.op = "StorageWrite"
    <3> DEFINE c == Cell(r, tbl)
               w == tbl[r.src]
    <3>1. c \in Cells /\ Cell(s, old) = c /\ c[2] = s.ty /\ w \in Nat /\ (s.ty \notin BlockTypes => w \in Val)
          /\ old[s.src] = OldRef(o, s.ty \in BlockTypes, w)
      BY <1>3, <2>2
    <3>2. cells2 = [cells EXCEPT ![c] = w]
      BY <1>10, <2>2 DEF AfterWrite
    <3>3. AfterWrite(s, old, OldCells(o, cells)) = [OldCells(o, cells) EXCEPT ![c] = old[s.src]]
      BY <2>2, <3>1 DEF AfterWrite
    <3> HIDE DEF c, w
    <3>4. cells2 = [d \in Cells |-> IF d = c THEN w ELSE cells[d]]
      BY <1>4, <3>2
    <3>5. cells2 \in [Cells -> Nat] /\ \A d \in Cells : d[2] \notin BlockTypes => cells2[d] \in Val
      BY <1>4, <3>1, <3>4
    <3>6. OldCells(o, cells) = [d \in Cells |-> OldRef(o, d[2] \in BlockTypes, cells[d])]
      BY <1>4 DEF OldCells
    <3>7. OldCells(o, cells2) = [d \in Cells |-> OldRef(o, d[2] \in BlockTypes, cells2[d])]
      BY <3>4 DEF OldCells
    <3>8. ASSUME NEW d \in Cells
          PROVE  OldRef(o, d[2] \in BlockTypes, cells2[d]) = [OldCells(o, cells) EXCEPT ![c] = old[s.src]][d]
      <4>1. CASE d = c
        BY <3>1, <3>4, <3>6, <4>1
      <4>2. CASE d # c
        BY <3>4, <3>6, <4>2
      <4> QED BY <4>1, <4>2
    <3>9. [OldCells(o, cells) EXCEPT ![c] = old[s.src]] = [d \in Cells |-> [OldCells(o, cells) EXCEPT ![c] = old[s.src]][d]]
      BY <3>6
    <3>10. OldCells(o, cells2) = [OldCells(o, cells) EXCEPT ![c] = old[s.src]]
      BY <3>7, <3>8, <3>9
    <3> QED BY <3>3, <3>5, <3>10
  <2> QED BY <2>1, <2>2
<1>12. Running(P, o, Q, k, tbl2, cells2)
  <2>1. Len(C.params) <= Len(tbl2) /\ Len(tbl2) <= NumVars(C)
    <3>1. Len(C.params) \in Nat /\ NumVars(C) \in Nat /\ n < NumVars(C)
      BY <1>1, <1>5, NumVarsFacts DEF SameShape
    <3> QED BY <1>4, <1>7, <3>1
  <2>2. \A v \in 1 .. Len(tbl2) : ~IsRef(C, v) => tbl2[v] \in Val
    <3> SUFFICES ASSUME NEW v \in 1 .. Len(tbl2), ~IsRef(C, v) PROVE tbl2[v] \in Val
      OBVIOUS
    <3>1. v = n + 1 \/ v \in 1 .. n
      BY <1>4, <1>7
    <3> QED BY <1>3, <1>4, <1>6, <1>7, <3>1
  <2> QED BY <1>4, <1>7, <1>11, <2>1, <2>2 DEF Running, C
<1> QED BY <1>1, <1>3, <1>8, <1>9, <1>11, <1>12 DEF B, C, y, n, SameEffect

(* A branch is taken as it was before.                                     *)
SameBranch(P, o, Q, k, tbl, cells) ==
  LET old == OldTable(o, Q.blocks[k], tbl)
      u == Branch(Q.blocks[k].term, tbl)
      t == Branch(P.blocks[o[k + 1]].term, old)
  IN  /\ Len(old) = NumVars(P.blocks[o[k + 1]])
      /\ Defined(P, P.blocks[o[k + 1]].term, old) <=> Defined(Q, Q.blocks[k].term, tbl)
      /\ Defined(Q, Q.blocks[k].term, tbl) =>
           /\ t.dest = u.dest /\ t.args = u.args
           /\ u.dest # "Return" =>
                /\ Running(P, o, Q, TargetBlock(u, tbl), Args(u.args, tbl), cells)
                /\ o[TargetBlock(u, tbl) + 1] = TargetBlock(t, old)
                /\ OldTable(o, Q.blocks[TargetBlock(u, tbl)], Args(u.args, tbl)) = Args(t.args, old)

(* A terminator of a moved block leads where it led, in the new numbering. *)
LEMMA BranchStep ==
  ASSUME NEW P \in Programs, NEW o, NEW Q, NEW k, NEW tbl, NEW cells, Running(P, o, Q, k, tbl, cells),
         Len(tbl) = NumVars(Q.blocks[k])
  PROVE  SameBranch(P, o, Q, k, tbl, cells)
<1>o. PICK old : old = OldTable(o, Q.blocks[k], tbl)
  OBVIOUS
<1>u. PICK u : u = Branch(Q.blocks[k].term, tbl)
  OBVIOUS
<1>t. PICK t : t = Branch(P.blocks[o[k + 1]].term, old)
  OBVIOUS
<1> DEFINE B == P.blocks[o[k + 1]]
           C == Q.blocks[k]
           n == Len(tbl)
<1>1. SameTable(o, B, old, tbl)
  BY <1>o, TableFacts
<1>2. /\ Moved(P, o, Q) /\ k \in 0 .. Len(o) - 1 /\ tbl \in Seq(Nat) /\ n \in Nat
      /\ cells \in [Cells -> Nat] /\ \A c \in Cells : c[2] \notin BlockTypes => cells[c] \in Val
  BY <1>1 DEF Running, SameTable
<1>3. SameShape(B, C) /\ o[k + 1] \in BlocksOf(P)
  BY <1>2, SameVariables
<1>4. n = NumVars(B) /\ Len(old) = n
  BY <1>1, <1>3 DEF SameShape, SameTable
<1>5. BlockMoved(o, B, C) /\ TermMoved(o, B.term, C.term)
  BY <1>2 DEF Moved, BlockMoved
<1>6. TermWellFormed(P, B.term, n) /\ TermKeepsRefs(P, B, B.term)
  BY <1>3, <1>4, BlockFacts DEF BlockWellFormed
<1>7. B.term.kind \in {"Jmp", "JumpCond", "JumpTable"}
  BY <1>6 DEF TermWellFormed
<1>8. ASSUME HasBranch(B.term, old)
      PROVE  /\ TargetWellFormed(P, t, n) /\ TargetKeepsRefs(P, B, t)
             /\ t.dest = "Dyn" => Dynamic(P, o[k + 1])
  <2>1. PICK i \in 1 .. Len(SuccessorsOf(P, o[k + 1])) : SuccessorsOf(P, o[k + 1])[i] = t
    BY <1>t, <1>3, <1>8, SuccessorFacts
  <2>2. TargetWellFormed(P, t, NumVars(B)) /\ TargetKeepsRefs(P, B, t)
    BY <1>3, <2>1, SuccessorFacts
  <2> QED BY <1>4, <2>1, <2>2 DEF Dynamic
<1>9. /\ HasBranch(B.term, old) <=> HasBranch(C.term, tbl)
      /\ HasBranch(B.term, old) => TargetMoved(o, t, u)
  <2> HIDE DEF B, C, n
  <2>1. CASE B.term.kind = "Jmp"
    BY <1>t, <1>u, <1>5, <2>1 DEF TermMoved, HasBranch, Branch, B, C
  <2>2. CASE B.term.kind = "JumpCond"
    <3>1. old[B.term.condition] = tbl[B.term.condition]
      <4>1. B.term.condition \in 1 .. n /\ ~IsRef(B, B.term.condition)
        BY <1>6, <2>2 DEF TermWellFormed, TermKeepsRefs
      <4> QED BY <1>1, <4>1 DEF SameTable, n
    <3>2. t = IF old[B.term.condition] = 1 THEN B.term.then ELSE B.term.else
      BY <1>t, <2>2 DEF Branch, B
    <3>3. u = IF tbl[B.term.condition] = 1 THEN C.term.then ELSE C.term.else
      BY <1>u, <1>5, <2>2 DEF Branch, TermMoved, C
    <3>4. TargetMoved(o, B.term.then, C.term.then) /\ TargetMoved(o, B.term.else, C.term.else) /\ C.term.kind = "JumpCond"
      BY <1>5, <2>2 DEF TermMoved
    <3> QED BY <2>2, <3>1, <3>2, <3>3, <3>4 DEF HasBranch
  <2>3. CASE B.term.kind = "JumpTable"
    <3>1. old[B.term.index] = tbl[B.term.index]
      <4>1. B.term.index \in 1 .. n /\ ~IsRef(B, B.term.index)
        BY <1>6, <2>3 DEF TermWellFormed, TermKeepsRefs
      <4> QED BY <1>1, <4>1 DEF SameTable, n
    <3>2. t = B.term.cases[old[B.term.index]]
      BY <1>t, <2>3 DEF Branch, B
    <3>3. C.term.kind = "JumpTable" /\ C.term.index = B.term.index /\ DOMAIN C.term.cases = DOMAIN B.term.cases
          /\ \A c \in DOMAIN B.term.cases : TargetMoved(o, B.term.cases[c], C.term.cases[c])
      BY <1>5, <2>3 DEF TermMoved
    <3>4. u = C.term.cases[tbl[B.term.index]]
      BY <1>u, <3>3 DEF Branch, C
    <3> QED BY <2>3, <3>1, <3>2, <3>3, <3>4 DEF HasBranch
  <2> QED BY <1>7, <2>1, <2>2, <2>3
(* A Dyn branch: the reference is to the same block.                       *)
<1>10. ASSUME HasBranch(B.term, old), t.dest = "Dyn"
       PROVE  /\ u = t /\ t.var \in 1 .. n /\ IsRef(B, t.var) /\ Len(o) = P.n
              /\ tbl[t.var] \in Nat
              /\ old[t.var] = OldRef(o, TRUE, tbl[t.var])
  <2>1. t.var \in 1 .. n /\ IsRef(B, t.var)
    BY <1>8, <1>10 DEF TargetWellFormed, TargetKeepsRefs
  <2>2. Len(o) = P.n
    BY <1>2, <1>8, <1>10 DEF Moved
  <2>3. u = t
    BY <1>9, <1>10 DEF TargetMoved
  <2>4. old[t.var] = OldRef(o, TRUE, tbl[t.var])
    BY <1>1, <2>1 DEF SameTable, OldRef
  <2>5. tbl[t.var] \in Nat
    BY <1>2, <2>1, ElementOfSeq
  <2> HIDE DEF B, n
  <2> QED BY <2>1, <2>2, <2>3, <2>4, <2>5
<1>11. Q.n = Len(o) /\ o \in Seq(BlocksOf(P)) /\ Len(o) \in Nat /\ P.n \in Nat
  BY <1>2, ProgramAssumption DEF Moved, WellFormed
<1>12. ASSUME NEW i \in 0 .. Len(o) - 1 PROVE o[i + 1] \in 0 .. P.n - 1 /\ SameShape(P.blocks[o[i + 1]], Q.blocks[i])
  BY <1>2, SameVariables DEF BlocksOf
<1>13. ASSUME HasBranch(B.term, old), t.dest = "Dyn"
       PROVE  /\ tbl[u.var] \in 0 .. Q.n - 1 <=> old[t.var] \in 0 .. P.n - 1
              /\ tbl[u.var] \in 0 .. Q.n - 1 => /\ old[t.var] = o[tbl[u.var] + 1]
                                                /\ Q.blocks[tbl[u.var]].params = P.blocks[old[t.var]].params
  <2> DEFINE i == tbl[t.var]
             m == Len(o)
  <2>1. u = t /\ m = P.n /\ Q.n = m /\ i \in Nat /\ m \in Nat /\ old[t.var] = (IF i < m THEN o[i + 1] ELSE i)
    BY <1>10, <1>11, <1>13 DEF OldRef
  <2> HIDE DEF i, m
  <2>2. CASE i < m
    <3>1. i \in 0 .. m - 1
      BY <2>1, <2>2
    <3>2. o[i + 1] \in 0 .. P.n - 1 /\ Q.blocks[i].params = P.blocks[o[i + 1]].params
      BY <1>12, <3>1 DEF SameShape, m
    <3> QED BY <2>1, <2>2, <3>1, <3>2 DEF i
  <2>3. CASE ~(i < m)
    <3>1. i \notin 0 .. m - 1 /\ old[t.var] = i
      BY <2>1, <2>3
    <3> QED BY <2>1, <3>1 DEF i
  <2> QED BY <2>2, <2>3
<1>14. Defined(P, B.term, old) <=> Defined(Q, C.term, tbl)
  <2>1. CASE ~HasBranch(B.term, old)
    BY <1>9, <2>1 DEF Defined
  <2>2. CASE HasBranch(B.term, old) /\ t.dest # "Dyn"
    <3>1. u.dest # "Dyn"
      BY <1>9, <2>2 DEF TargetMoved
    <3> QED BY <1>t, <1>u, <1>9, <2>2, <3>1 DEF Defined
  <2>3. CASE HasBranch(B.term, old) /\ t.dest = "Dyn"
    <3>1. u = t /\ HasBranch(C.term, tbl)
      BY <1>9, <1>10, <2>3
    <3>2. Defined(P, B.term, old) <=> old[t.var] \in 0 .. P.n - 1 /\ P.blocks[old[t.var]].params = SigOf(t.sig)
      BY <1>t, <2>3 DEF Defined
    <3>3. Defined(Q, C.term, tbl) <=> tbl[t.var] \in 0 .. Q.n - 1 /\ Q.blocks[tbl[t.var]].params = SigOf(t.sig)
      BY <1>u, <2>3, <3>1 DEF Defined
    <3> QED BY <1>13, <2>3, <3>1, <3>2, <3>3
  <2> QED BY <2>1, <2>2, <2>3
<1>15. ASSUME Defined(Q, C.term, tbl) PROVE HasBranch(B.term, old) /\ t.dest = u.dest /\ t.args = u.args
  <2>1. HasBranch(B.term, old)
    BY <1>9, <1>15 DEF Defined
  <2> QED BY <1>9, <2>1 DEF TargetMoved
<1>16. ASSUME Defined(Q, C.term, tbl), u.dest # "Return"
       PROVE  /\ Running(P, o, Q, TargetBlock(u, tbl), Args(u.args, tbl), cells)
              /\ o[TargetBlock(u, tbl) + 1] = TargetBlock(t, old)
              /\ OldTable(o, Q.blocks[TargetBlock(u, tbl)], Args(u.args, tbl)) = Args(t.args, old)
  <2> DEFINE i == TargetBlock(u, tbl)
             new == Args(u.args, tbl)
             D == Q.blocks[i]
  <2>1. HasBranch(B.term, old) /\ t.dest = u.dest /\ t.args = u.args
    BY <1>15, <1>16
  <2>2. TargetWellFormed(P, t, n) /\ TargetKeepsRefs(P, B, t) /\ TargetMoved(o, t, u)
    BY <1>8, <1>9, <2>1
  <2>3. t.args \in Seq(1 .. n) /\ t.dest \in {"Block", "Dyn"}
    BY <1>16, <2>1, <2>2 DEF TargetWellFormed
  <2>4. /\ i \in 0 .. Len(o) - 1 /\ o[i + 1] = TargetBlock(t, old)
        /\ Len(t.args) = Len(D.params)
        /\ \A j \in 1 .. Len(t.args) : IsRef(B, t.args[j]) <=> D.params[j] \in BlockTypes
    <3>1. CASE t.dest = "Block"
      <4>1. i = u.block /\ u.block \in 0 .. Len(o) - 1 /\ o[u.block + 1] = t.block /\ TargetBlock(t, old) = t.block
        BY <2>1, <2>2, <3>1 DEF TargetMoved, TargetBlock
      <4>2. D.params = P.blocks[t.block].params
        BY <1>12, <4>1 DEF SameShape
      <4>3. Len(t.args) = Len(P.blocks[t.block].params)
        BY <2>2, <3>1 DEF TargetWellFormed
      <4>4. \A j \in 1 .. Len(t.args) : IsRef(B, t.args[j]) <=> P.blocks[t.block].params[j] \in BlockTypes
        BY <2>2, <3>1 DEF TargetKeepsRefs
      <4> HIDE DEF i, D, B
      <4> QED BY <4>1, <4>2, <4>3, <4>4
    <3>2. CASE t.dest = "Dyn"
      <4>1. u = t /\ i = tbl[t.var] /\ TargetBlock(t, old) = old[t.var]
        BY <1>10, <2>1, <3>2 DEF TargetBlock
      <4>2. tbl[u.var] \in 0 .. Q.n - 1 /\ D.params = SigOf(t.sig)
        BY <1>u, <1>16, <3>2, <4>1 DEF Defined
      <4>3. old[t.var] = o[tbl[u.var] + 1]
        BY <1>13, <2>1, <3>2, <4>2
      <4>4. Len(t.args) = Len(SigOf(t.sig))
        BY <2>2, <3>2 DEF TargetWellFormed
      <4>5. \A j \in 1 .. Len(t.args) : IsRef(B, t.args[j]) <=> SigOf(t.sig)[j] \in BlockTypes
        BY <2>2, <3>2 DEF TargetKeepsRefs
      <4> HIDE DEF i, D, B
      <4> QED BY <1>11, <4>1, <4>2, <4>3, <4>4, <4>5
    <3> QED BY <2>3, <3>1, <3>2
  <2>5. SameShape(P.blocks[o[i + 1]], D)
    BY <1>12, <2>4
  <2> HIDE DEF i, D, B
  <2>6. Len(t.args) \in Nat /\ \A j \in 1 .. Len(t.args) : t.args[j] \in 1 .. n
    BY <2>3
  <2>7. \A j \in 1 .. Len(t.args) : IsRef(D, j) <=> IsRef(B, t.args[j])
    <3> SUFFICES ASSUME NEW j \in 1 .. Len(t.args) PROVE IsRef(D, j) <=> IsRef(B, t.args[j])
      OBVIOUS
    <3>1. j <= Len(D.params)
      BY <2>4, <2>6
    <3>2. IsRef(D, j) <=> D.params[j] \in BlockTypes
      BY <3>1 DEF IsRef
    <3> QED BY <2>4, <3>2
  <2>8. new = [j \in 1 .. Len(t.args) |-> tbl[t.args[j]]]
    BY <2>1 DEF Args
  <2> HIDE DEF new
  <2>9. \A v \in 1 .. n : tbl[v] \in Nat
    BY <1>2
  <2>10. new \in Seq(Nat) /\ Len(new) = Len(t.args) /\ \A j \in 1 .. Len(t.args) : new[j] = tbl[t.args[j]]
    <3>1. new \in [1 .. Len(t.args) -> Nat]
      BY <2>6, <2>8, <2>9
    <3>2. new \in Seq(Nat) /\ Len(new) = Len(t.args)
      <4> DEFINE m == Len(t.args)
      <4>1. m \in Nat /\ new \in [1 .. m -> Nat]
        BY <2>6, <3>1
      <4> HIDE DEF m
      <4>2. new \in Seq(Nat) /\ Len(new) = m
        BY <4>1
      <4> QED BY <4>2 DEF m
    <3> QED BY <2>8, <3>2
  <2>11. OldTable(o, D, new) = Args(t.args, old)
    <3>1. Args(t.args, old) = [j \in 1 .. Len(t.args) |-> old[t.args[j]]]
      BY DEF Args
    <3>2. OldTable(o, D, new) = [j \in 1 .. Len(t.args) |-> OldRef(o, IsRef(D, j), new[j])]
      BY <2>10 DEF OldTable
    <3>3. ASSUME NEW j \in 1 .. Len(t.args) PROVE OldRef(o, IsRef(D, j), new[j]) = old[t.args[j]]
      <4>1. old[t.args[j]] = OldRef(o, IsRef(B, t.args[j]), tbl[t.args[j]])
        BY <1>1, <2>6 DEF SameTable, n, B
      <4> QED BY <2>7, <2>10, <4>1 DEF OldRef
    <3> QED BY <3>1, <3>2, <3>3
  <2>12. Running(P, o, Q, i, new, cells)
    <3>1. Len(D.params) <= Len(new) /\ Len(new) <= NumVars(D)
      <4>1. NumVars(D) = Len(D.params) + Len(D.stmts) /\ Len(D.params) \in Nat /\ Len(D.stmts) \in Nat
        BY <2>5 DEF NumVars, SameShape
      <4>2. Len(new) = Len(D.params)
        BY <2>4, <2>10
      <4> HIDE DEF D
      <4> DEFINE a == Len(D.params)
                 d == Len(D.stmts)
      <4>3. a \in Nat /\ d \in Nat => a <= a /\ a <= a + d
        <5> HIDE DEF a, d
        <5> QED OBVIOUS
      <4> QED BY <4>1, <4>2, <4>3
    <3>2. \A v \in 1 .. Len(new) : ~IsRef(D, v) => new[v] \in Val
      <4> SUFFICES ASSUME NEW v \in 1 .. Len(new), ~IsRef(D, v) PROVE new[v] \in Val
        OBVIOUS
      <4>1. v \in 1 .. Len(t.args) /\ t.args[v] \in 1 .. n
        BY <2>6, <2>10
      <4>2. ~IsRef(B, t.args[v])
        BY <2>7, <4>1
      <4> QED BY <1>1, <2>10, <4>1, <4>2 DEF SameTable, n, B
    <3> QED BY <1>2, <2>4, <2>10, <3>1, <3>2 DEF Running, D
  <2> QED BY <2>4, <2>11, <2>12 DEF i, new, D
<1> QED BY <1>o, <1>u, <1>t, <1>4, <1>14, <1>15, <1>16 DEF SameBranch

-----------------------------------------------------------------------------
(* The specification.                                                      *)

(* Before the layout nothing has run yet; after it the program is the      *)
(* source with its blocks moved.                                           *)
LayoutInv ==
  /\ src \in Programs
  /\ laid \in BOOLEAN
  /\ ~laid => /\ prog = src
              /\ status = "run" /\ pc = 0
              /\ vals \in InputsFor(src.blocks[0].params)
              /\ stor = src.pre_init
              /\ src.n > 1 => WalkInv(src, order, todo)
  /\ laid => /\ src.n > 1 => WalkInv(src, order, << >>)
             /\ Running(src, order, prog, pc, vals, stor)

(* The invariant holds at first.                                           *)
LEMMA InitInv == Init => LayoutInv
<1> SUFFICES ASSUME Init PROVE LayoutInv
  OBVIOUS
<1>1. /\ prog \in Programs /\ src = prog /\ todo = <<Direct(0)>> /\ order = << >> /\ laid = FALSE
      /\ status = "run" /\ pc = 0 /\ vals \in InputsFor(prog.blocks[0].params) /\ stor = prog.pre_init
  BY DEF Init, Run!Init, Run!InputsFor, InputsFor
<1>2. WalkInv(src, order, todo)
  BY <1>1, WalkInit
<1> QED BY <1>1, <1>2 DEF LayoutInv

(* The program that has been laid out is ready to run, and the state it    *)
(* starts in is the one the source starts in.                              *)
LEMMA StartsRunning ==
  ASSUME NEW P \in Programs, NEW o, NEW Q, Moved(P, o, Q), NEW tbl \in InputsFor(P.blocks[0].params)
  PROVE  /\ Running(P, o, Q, 0, tbl, P.pre_init)
         /\ o[1] = 0
         /\ OldTable(o, Q.blocks[0], tbl) = tbl
         /\ OldCells(o, P.pre_init) = P.pre_init
<1> DEFINE params == P.blocks[0].params
<1>1. o[1] = 0 /\ Len(o) > 0 /\ Len(o) \in Nat /\ 0 \in 0 .. Len(o) - 1
  BY DEF Moved
<1>2. SameShape(P.blocks[0], Q.blocks[0])
  <2>1. 0 + 1 = 1
    OBVIOUS
  <2> QED BY <1>1, <2>1, SameVariables
<1>3. Q.blocks[0].params = params /\ Len(params) \in Nat /\ NumVars(Q.blocks[0]) = NumVars(P.blocks[0])
  BY <1>2 DEF SameShape
<1>4. tbl \in [1 .. Len(params) -> Val]
  BY DEF InputsFor
<1>5. tbl \in Seq(Nat) /\ Len(tbl) = Len(params)
  <2> DEFINE m == Len(params)
  <2>1. m \in Nat /\ tbl \in [1 .. m -> Nat]
    BY <1>3, <1>4, ValFacts
  <2> HIDE DEF m
  <2>2. tbl \in Seq(Nat) /\ Len(tbl) = m
    BY <2>1
  <2> QED BY <2>2 DEF m
<1>6. \A k \in 1 .. Len(params) : params[k] \notin BlockTypes
  BY LayoutAssumption DEF Supported
<1>7. ASSUME NEW v \in 1 .. Len(tbl) PROVE ~IsRef(Q.blocks[0], v) /\ tbl[v] \in Val
  <2> HIDE DEF params
  <2>1. v <= Len(params) /\ v \in 1 .. Len(params)
    BY <1>3, <1>5
  <2> QED BY <1>3, <1>4, <1>6, <2>1 DEF IsRef
<1>8. P.pre_init \in [Cells -> Val] /\ \A c \in Cells : c[2] \in BlockTypes => P.pre_init[c] = 0
  BY ProgramAssumption, LayoutAssumption DEF WellFormed, Supported
<1>9. OldTable(o, Q.blocks[0], tbl) = tbl
  <2>1. OldTable(o, Q.blocks[0], tbl) = [v \in 1 .. Len(tbl) |-> tbl[v]]
    BY <1>7 DEF OldTable, OldRef
  <2> QED BY <1>5, <2>1
<1>10. OldCells(o, P.pre_init) = P.pre_init
  <2>1. \A c \in Cells : OldRef(o, c[2] \in BlockTypes, P.pre_init[c]) = P.pre_init[c]
    <3> SUFFICES ASSUME NEW c \in Cells PROVE OldRef(o, c[2] \in BlockTypes, P.pre_init[c]) = P.pre_init[c]
      OBVIOUS
    <3>1. CASE c[2] \in BlockTypes
      <4>1. P.pre_init[c] = 0 /\ 0 + 1 = 1
        BY <1>8, <3>1
      <4> QED BY <1>1, <4>1 DEF OldRef
    <3>2. CASE c[2] \notin BlockTypes
      BY <3>2 DEF OldRef
    <3> QED BY <3>1, <3>2
  <2> QED BY <1>8, <2>1 DEF OldCells
<1>11. Running(P, o, Q, 0, tbl, P.pre_init)
  <2>1. Len(Q.blocks[0].params) <= Len(tbl)
    BY <1>3, <1>5
  <2>2. Len(tbl) <= NumVars(Q.blocks[0])
    <3> DEFINE a == Len(params)
               b == Len(P.blocks[0].stmts)
    <3>1. a \in Nat /\ b \in Nat /\ NumVars(P.blocks[0]) = a + b
      BY <1>2 DEF SameShape, NumVars
    <3> HIDE DEF a, b
    <3>2. a <= a + b
      BY <3>1
    <3> QED BY <1>3, <1>5, <3>1, <3>2 DEF a
  <2>3. P.pre_init \in [Cells -> Nat]
    BY <1>8, ValFacts
  <2> QED BY <1>1, <1>5, <1>7, <1>8, <2>1, <2>2, <2>3 DEF Running
<1> QED BY <1>1, <1>9, <1>10, <1>11

(* The mapping, once the program has been laid out.                        *)
LEMMA MappingFacts ==
  laid => /\ OldBlock(pc) = order[pc + 1]
          /\ OldVals = OldTable(order, prog.blocks[pc], vals)
          /\ [c \in DOMAIN stor |-> Old(c[2] \in BlockTypes, stor[c])] = OldCells(order, stor)
BY DEF OldBlock, OldVals, Old, OldTable, OldCells, OldRef

(* The mapping, before.                                                    *)
LEMMA MappingBefore ==
  ASSUME ~laid, NEW S, vals \in [1 .. Len(vals) -> S], stor \in [Cells -> S]
  PROVE  /\ OldBlock(pc) = pc
         /\ OldVals = vals
         /\ [c \in DOMAIN stor |-> Old(c[2] \in BlockTypes, stor[c])] = stor
BY DEF OldBlock, OldVals, Old

-----------------------------------------------------------------------------
(* The steps.                                                              *)

(* A visit changes nothing of what the source does.                        *)
LEMMA VisitStep ==
  ASSUME LayoutInv, visit
  PROVE  LayoutInv' /\ UNCHANGED Source!vars
<1>1. /\ ~laid /\ src.n > 1 /\ todo # << >> /\ src \in Programs /\ WalkInv(src, order, todo)
      /\ UNCHANGED <<src, prog, laid, status, pc, vals, stor, ret, log>>
  BY DEF visit, LayoutInv, runVars
<1> DEFINE t == Head(todo)
<1>2. t \in Branches(src)
  BY <1>1 DEF WalkInv
<1>3. t.dest = "Block" => t.block \in BlocksOf(src) /\ t.block < src.n
  <2>1. src.n \in Nat
    BY <1>1, ProgramAssumption DEF WellFormed
  <2> QED BY <1>1, <1>2, <2>1, BranchFacts DEF BlocksOf
<1>4. WalkInv(src, order', todo')
  <2>1. CASE t.dest = "Block" /\ t.block \notin Range(order)
    <3>1. order' = Append(order, t.block) /\ todo' = Onward(src, t.block) \o Tail(todo)
      BY <1>3, <2>1 DEF visit
    <3> QED BY <1>1, <2>1, <3>1, WalkPlace
  <2>2. CASE ~(t.dest = "Block" /\ t.block \notin Range(order))
    <3>1. order' = order /\ todo' = Tail(todo)
      BY <2>2 DEF visit
    <3> QED BY <1>1, <2>2, <3>1, WalkSkip
  <2> QED BY <2>1, <2>2
<1>5. LayoutInv'
  BY <1>1, <1>4 DEF LayoutInv
<1>6. OldBlock(pc)' = OldBlock(pc) /\ OldVals' = OldVals
      /\ [c \in DOMAIN stor |-> Old(c[2] \in BlockTypes, stor[c])]' = [c \in DOMAIN stor |-> Old(c[2] \in BlockTypes, stor[c])]
  BY <1>1 DEF OldBlock, OldVals, Old
<1>7. status # "return"
  BY <1>1 DEF LayoutInv
<1> QED BY <1>1, <1>5, <1>6, <1>7 DEF Source!vars

(* Nor does the layout itself.                                             *)
LEMMA LayoutStep ==
  ASSUME LayoutInv, layout_cfg_for_movfuscation_typed
  PROVE  LayoutInv' /\ UNCHANGED Source!vars
<1>1. /\ ~laid /\ laid' /\ src \in Programs /\ prog = src /\ pc = 0 /\ status = "run"
      /\ vals \in InputsFor(src.blocks[0].params) /\ stor = src.pre_init
      /\ UNCHANGED <<src, todo, status, pc, vals, stor, ret, log>> /\ laid' = TRUE
  BY DEF layout_cfg_for_movfuscation_typed, LayoutInv, runVars
<1>2. Moved(src, order', prog') /\ (src.n > 1 => WalkInv(src, order', << >>))
  <2>1. CASE src.n <= 1
    <3>1. order' = <<0>> /\ prog' = src /\ ~(src.n > 1)
      <4>1. src.n \in Nat
        BY <1>1, ProgramAssumption DEF WellFormed
      <4> QED BY <1>1, <2>1, <4>1 DEF layout_cfg_for_movfuscation_typed
    <3> QED BY <1>1, <2>1, <3>1, SingleMoved
  <2>2. CASE src.n > 1 /\ todo = << >> /\ order' = order /\ prog' = Laid(src, order)
    <3>1. WalkInv(src, order', << >>)
      BY <1>1, <2>2 DEF LayoutInv
    <3> QED BY <1>1, <2>2, <3>1, LaidMoved
  <2> QED BY <2>1, <2>2 DEF layout_cfg_for_movfuscation_typed
<1>3. /\ Running(src, order', prog', 0, vals, src.pre_init)
      /\ order'[1] = 0
      /\ OldTable(order', prog'.blocks[0], vals) = vals
      /\ OldCells(order', src.pre_init) = src.pre_init
  BY <1>1, <1>2, StartsRunning
<1>4. LayoutInv'
  BY <1>1, <1>2, <1>3 DEF LayoutInv
<1>5. vals \in [1 .. Len(vals) -> Val] /\ stor \in [Cells -> Val]
  <2>1. stor \in [Cells -> Val]
    BY <1>1, ProgramAssumption DEF WellFormed
  <2>2. vals \in [1 .. Len(src.blocks[0].params) -> Val]
    BY <1>1 DEF InputsFor
  <2>3. 0 \in BlocksOf(src)
    BY <1>1, ProgramAssumption DEF WellFormed, BlocksOf
  <2>4. src.blocks[0].params \in Seq(Types)
    BY <1>1, <2>3, BlockFacts DEF BlockWellFormed
  <2> DEFINE m == Len(src.blocks[0].params)
  <2>5. m \in Nat
    BY <2>4
  <2> HIDE DEF m
  <2>6. vals \in [1 .. m -> Val]
    BY <2>2 DEF m
  <2>7. Len(vals) = m
    BY <2>5, <2>6
  <2> QED BY <2>1, <2>6, <2>7
<1>6. /\ OldBlock(pc) = 0 /\ OldVals = vals
      /\ [c \in DOMAIN stor |-> Old(c[2] \in BlockTypes, stor[c])] = stor
  BY <1>1, <1>5, MappingBefore
<1>7. /\ OldBlock(pc)' = order'[pc' + 1]
      /\ OldVals' = OldTable(order', prog'.blocks[pc'], vals')
      /\ [c \in DOMAIN stor |-> Old(c[2] \in BlockTypes, stor[c])]' = OldCells(order', stor')
  BY <1>1 DEF OldBlock, OldVals, Old, OldTable, OldCells, OldRef
<1>8. /\ OldBlock(pc)' = OldBlock(pc) /\ OldVals' = OldVals
      /\ [c \in DOMAIN stor |-> Old(c[2] \in BlockTypes, stor[c])]' = [c \in DOMAIN stor |-> Old(c[2] \in BlockTypes, stor[c])]
  <2>1. pc' + 1 = 1
    BY <1>1
  <2> QED BY <1>1, <1>3, <1>6, <1>7, <2>1
<1>9. status # "return"
  BY <1>1
<1> QED BY <1>1, <1>4, <1>8, <1>9 DEF Source!vars

(* What holds between the two states of a step of the program laid out.    *)
LEMMA ExecuteFacts ==
  ASSUME LayoutInv, laid, UNCHANGED <<src, prog, todo, order, laid>>
  PROVE  /\ src \in Programs /\ Running(src, order, prog, pc, vals, stor)
         /\ OldBlock(pc) = order[pc + 1]
         /\ OldVals = OldTable(order, prog.blocks[pc], vals)
         /\ [c \in DOMAIN stor |-> Old(c[2] \in BlockTypes, stor[c])] = OldCells(order, stor)
         /\ OldBlock(pc)' = order[pc' + 1]
         /\ OldVals' = OldTable(order, prog.blocks[pc'], vals')
         /\ [c \in DOMAIN stor |-> Old(c[2] \in BlockTypes, stor[c])]' = OldCells(order, stor')
         /\ Running(src, order, prog, pc', vals', stor') => LayoutInv'
<1>1. src \in Programs /\ Running(src, order, prog, pc, vals, stor) /\ laid' = laid
      /\ src' = src /\ prog' = prog /\ order' = order
  BY DEF LayoutInv
<1>2. /\ OldBlock(pc)' = order[pc' + 1]
      /\ OldVals' = OldTable(order, prog.blocks[pc'], vals')
      /\ [c \in DOMAIN stor |-> Old(c[2] \in BlockTypes, stor[c])]' = OldCells(order, stor')
  BY <1>1 DEF OldBlock, OldVals, Old, OldTable, OldCells, OldRef
<1>3. Running(src, order, prog, pc', vals', stor') => LayoutInv'
  BY <1>1 DEF LayoutInv
<1> QED BY <1>1, <1>2, <1>3, MappingFacts

(* A statement of the program laid out is one of the source.               *)
LEMMA EvalStep ==
  ASSUME LayoutInv, laid, Run!eval_ir_stmt, UNCHANGED <<src, todo, order, laid>>
  PROVE  LayoutInv' /\ Source!eval_ir_stmt
<1> DEFINE C == prog.blocks[pc]
           B == src.blocks[order[pc + 1]]
           r == StmtAt(C, vals)
           old == OldTable(order, C, vals)
           s == StmtAt(B, old)
<1>1. /\ status = "run" /\ Len(vals) < NumVars(C)
      /\ vals' = Append(vals, StmtValue(r, vals, stor))
      /\ stor' = AfterWrite(r, vals, stor)
      /\ log' = log \o Performed(r, vals)
      /\ UNCHANGED <<prog, status, pc, ret>>
  BY DEF Run!eval_ir_stmt, Run!Block, Run!NumVars, NumVars, Run!StmtAt, StmtAt, Run!StmtValue, StmtValue,
         Run!Args, Args, Run!Cell, Cell, Run!Performed, Performed, AfterWrite
<1>2. /\ src \in Programs /\ Running(src, order, prog, pc, vals, stor)
      /\ OldBlock(pc) = order[pc + 1] /\ OldVals = old
      /\ [c \in DOMAIN stor |-> Old(c[2] \in BlockTypes, stor[c])] = OldCells(order, stor)
      /\ OldBlock(pc)' = order[pc' + 1] /\ OldVals' = OldTable(order, prog.blocks[pc'], vals')
      /\ [c \in DOMAIN stor |-> Old(c[2] \in BlockTypes, stor[c])]' = OldCells(order, stor')
      /\ Running(src, order, prog, pc', vals', stor') => LayoutInv'
  BY <1>1, ExecuteFacts
<1>3. /\ Running(src, order, prog, pc, vals', stor')
      /\ Len(old) < NumVars(B)
      /\ OldTable(order, C, vals') = Append(old, StmtValue(s, old, OldCells(order, stor)))
      /\ OldCells(order, stor') = AfterWrite(s, old, OldCells(order, stor))
      /\ Performed(s, old) = Performed(r, vals)
  <2>1. SameEffect(src, order, prog, pc, vals, stor)
    BY <1>1, <1>2, StmtStep
  <2> QED BY <1>1, <2>1 DEF SameEffect
<1>4. LayoutInv'
  BY <1>1, <1>2, <1>3
<1> HIDE DEF B, C, old, s, r
<1>5. Source!Block = B
  BY <1>2 DEF Source!Block, B
<1>6. Source!NumVars(B) = NumVars(B) /\ Source!StmtAt(B, old) = s
  BY DEF Source!NumVars, NumVars, Source!StmtAt, StmtAt, s
<1>7. /\ Source!StmtValue(s, old, OldCells(order, stor)) = StmtValue(s, old, OldCells(order, stor))
      /\ Source!Performed(s, old) = Performed(s, old)
  BY DEF Source!StmtValue, StmtValue, Source!Args, Args, Source!Cell, Cell, Source!Performed, Performed
<1>8. AfterWrite(s, old, OldCells(order, stor)) =
        IF s.op = "StorageWrite" THEN [OldCells(order, stor) EXCEPT ![Source!Cell(s, old)] = old[s.src]]
        ELSE OldCells(order, stor)
  BY DEF AfterWrite, Source!Cell, Cell
<1>9. /\ OldVals' = Append(OldVals, StmtValue(s, old, OldCells(order, stor))) /\ OldBlock(pc)' = OldBlock(pc)
      /\ [c \in DOMAIN stor |-> Old(c[2] \in BlockTypes, stor[c])]' = AfterWrite(s, old, OldCells(order, stor))
  BY <1>1, <1>2, <1>3 DEF C
<1>10. log' = log \o Performed(s, old) /\ status' = "run" /\ status = "run" /\ ret' = ret /\ src' = src
  BY <1>1, <1>3
<1>11. Len(OldVals) < Source!NumVars(Source!Block)
  BY <1>2, <1>3, <1>5, <1>6
<1>12. Source!eval_ir_stmt
  BY <1>2, <1>5, <1>6, <1>7, <1>8, <1>9, <1>10, <1>11 DEF Source!eval_ir_stmt
<1> QED BY <1>4, <1>12

(* The branch the block has come to, there and in the source.              *)
LEMMA AtBranch ==
  ASSUME LayoutInv, laid, Run!AtTerminator, UNCHANGED <<src, prog, todo, order, laid>>,
         NEW u, u = Branch(prog.blocks[pc].term, vals),
         NEW t, t = Branch(src.blocks[order[pc + 1]].term, OldVals)
  PROVE  /\ Source!AtTerminator /\ Source!Target = t /\ Run!Target = u
         /\ Source!Defined(src, Source!Block.term, OldVals) <=> Run!Defined(prog, Run!Block.term, vals)
         /\ Run!Defined(prog, Run!Block.term, vals) =>
              /\ t.dest = u.dest /\ t.args = u.args
              /\ u.dest # "Return" =>
                   /\ Running(src, order, prog, TargetBlock(u, vals), Args(u.args, vals), stor)
                   /\ order[TargetBlock(u, vals) + 1] = TargetBlock(t, OldVals)
                   /\ OldTable(order, prog.blocks[TargetBlock(u, vals)], Args(u.args, vals)) = Args(t.args, OldVals)
<1> DEFINE C == prog.blocks[pc]
           B == src.blocks[order[pc + 1]]
<1>1. /\ src \in Programs /\ Running(src, order, prog, pc, vals, stor)
      /\ OldBlock(pc) = order[pc + 1] /\ OldVals = OldTable(order, C, vals)
  BY ExecuteFacts
<1>2. status = "run" /\ Len(vals) = NumVars(C) /\ Run!Block = C
  BY DEF Run!AtTerminator, Run!Block, Run!NumVars, NumVars
<1>3. /\ Len(OldVals) = NumVars(B)
      /\ Defined(src, B.term, OldVals) <=> Defined(prog, C.term, vals)
      /\ Defined(prog, C.term, vals) =>
           /\ t.dest = u.dest /\ t.args = u.args
           /\ u.dest # "Return" =>
                /\ Running(src, order, prog, TargetBlock(u, vals), Args(u.args, vals), stor)
                /\ order[TargetBlock(u, vals) + 1] = TargetBlock(t, OldVals)
                /\ OldTable(order, prog.blocks[TargetBlock(u, vals)], Args(u.args, vals)) = Args(t.args, OldVals)
  <2>1. SameBranch(src, order, prog, pc, vals, stor)
    BY <1>1, <1>2, BranchStep
  <2> QED BY <1>1, <2>1 DEF SameBranch
<1> HIDE DEF B, C
<1>4. Source!Block = B
  BY <1>1 DEF Source!Block, B
<1>5. Source!AtTerminator
  <2>1. Source!NumVars(B) = NumVars(B)
    BY DEF Source!NumVars, NumVars
  <2> QED BY <1>2, <1>3, <1>4, <2>1 DEF Source!AtTerminator
<1>6. Source!Branch(B.term, OldVals) = t /\ Run!Branch(C.term, vals) = u
  BY DEF Source!Branch, Run!Branch, Branch, B, C
<1>7. Source!Target = t /\ Run!Target = u
  BY <1>2, <1>4, <1>6 DEF Source!Target, Run!Target
<1>8. /\ Source!Defined(src, B.term, OldVals) <=> Defined(src, B.term, OldVals)
      /\ Run!Defined(prog, C.term, vals) <=> Defined(prog, C.term, vals)
  BY DEF Source!Defined, Run!Defined, Defined, Source!HasBranch, Run!HasBranch, HasBranch, Source!Branch, Run!Branch, Branch
<1> QED BY <1>2, <1>3, <1>4, <1>5, <1>7, <1>8

(* A jump is a jump of the source.                                         *)
LEMMA JumpStep ==
  ASSUME LayoutInv, laid, Run!Jump, UNCHANGED <<src, todo, order, laid>>
  PROVE  LayoutInv' /\ Source!Jump
<1> DEFINE u == Branch(prog.blocks[pc].term, vals)
           t == Branch(src.blocks[order[pc + 1]].term, OldVals)
<1>1. /\ Run!AtTerminator /\ Run!Defined(prog, Run!Block.term, vals) /\ Run!Target.dest # "Return"
      /\ pc' = Run!TargetBlock(Run!Target, vals) /\ vals' = Run!Args(Run!Target.args, vals)
      /\ UNCHANGED <<prog, status, stor, ret, log>>
  BY DEF Run!Jump
<1>2. u = Branch(prog.blocks[pc].term, vals) /\ t = Branch(src.blocks[order[pc + 1]].term, OldVals)
  OBVIOUS
<1> HIDE DEF u, t
<1>3. /\ Source!AtTerminator /\ Source!Target = t /\ Run!Target = u
      /\ Source!Defined(src, Source!Block.term, OldVals) <=> Run!Defined(prog, Run!Block.term, vals)
      /\ Run!Defined(prog, Run!Block.term, vals) =>
           /\ t.dest = u.dest /\ t.args = u.args
           /\ u.dest # "Return" =>
                /\ Running(src, order, prog, TargetBlock(u, vals), Args(u.args, vals), stor)
                /\ order[TargetBlock(u, vals) + 1] = TargetBlock(t, OldVals)
                /\ OldTable(order, prog.blocks[TargetBlock(u, vals)], Args(u.args, vals)) = Args(t.args, OldVals)
  BY <1>1, <1>2, AtBranch
<1>4. pc' = TargetBlock(u, vals) /\ vals' = Args(u.args, vals)
  BY <1>1, <1>3 DEF Run!TargetBlock, TargetBlock, Run!Args, Args
<1>5. /\ [c \in DOMAIN stor |-> Old(c[2] \in BlockTypes, stor[c])] = OldCells(order, stor)
      /\ OldBlock(pc)' = order[pc' + 1] /\ OldVals' = OldTable(order, prog.blocks[pc'], vals')
      /\ [c \in DOMAIN stor |-> Old(c[2] \in BlockTypes, stor[c])]' = OldCells(order, stor')
      /\ Running(src, order, prog, pc', vals', stor') => LayoutInv'
  BY <1>1, ExecuteFacts
<1>6. LayoutInv'
  BY <1>1, <1>3, <1>4, <1>5
<1>7. OldBlock(pc)' = TargetBlock(t, OldVals) /\ OldVals' = Args(t.args, OldVals)
  BY <1>1, <1>3, <1>4, <1>5
<1>8. Source!TargetBlock(t, OldVals) = TargetBlock(t, OldVals) /\ Source!Args(t.args, OldVals) = Args(t.args, OldVals)
  BY DEF Source!TargetBlock, TargetBlock, Source!Args, Args
<1>9. [c \in DOMAIN stor |-> Old(c[2] \in BlockTypes, stor[c])]' = [c \in DOMAIN stor |-> Old(c[2] \in BlockTypes, stor[c])]
  BY <1>1, <1>5
<1>10. status # "return" /\ status' = status
  BY <1>1 DEF Run!AtTerminator
<1>11. Source!Jump
  BY <1>1, <1>3, <1>7, <1>8, <1>9, <1>10 DEF Source!Jump
<1> QED BY <1>6, <1>11

(* A return is a return of the source, of the same values.                 *)
LEMMA ReturnStep ==
  ASSUME LayoutInv, laid, Run!Return, UNCHANGED <<src, todo, order, laid>>
  PROVE  LayoutInv' /\ Source!Return
<1> DEFINE u == Branch(prog.blocks[pc].term, vals)
           t == Branch(src.blocks[order[pc + 1]].term, OldVals)
<1>1. /\ Run!AtTerminator /\ Run!Defined(prog, Run!Block.term, vals) /\ Run!Target.dest = "Return"
      /\ status' = "return"
      /\ UNCHANGED <<prog, pc, vals, stor, log>>
  BY DEF Run!Return
<1>2. u = Branch(prog.blocks[pc].term, vals) /\ t = Branch(src.blocks[order[pc + 1]].term, OldVals)
  OBVIOUS
<1> HIDE DEF u, t
<1>3. /\ Source!AtTerminator /\ Source!Target = t /\ Run!Target = u
      /\ Source!Defined(src, Source!Block.term, OldVals) <=> Run!Defined(prog, Run!Block.term, vals)
      /\ Run!Defined(prog, Run!Block.term, vals) => t.dest = u.dest /\ t.args = u.args
  BY <1>1, <1>2, AtBranch
<1>4. /\ Running(src, order, prog, pc, vals, stor)
      /\ OldBlock(pc) = order[pc + 1] /\ OldVals = OldTable(order, prog.blocks[pc], vals)
      /\ [c \in DOMAIN stor |-> Old(c[2] \in BlockTypes, stor[c])] = OldCells(order, stor)
      /\ OldBlock(pc)' = order[pc' + 1] /\ OldVals' = OldTable(order, prog.blocks[pc'], vals')
      /\ [c \in DOMAIN stor |-> Old(c[2] \in BlockTypes, stor[c])]' = OldCells(order, stor')
      /\ Running(src, order, prog, pc', vals', stor') => LayoutInv'
  BY <1>1, ExecuteFacts
<1>5. LayoutInv'
  BY <1>1, <1>4
<1>6. /\ OldBlock(pc)' = OldBlock(pc) /\ OldVals' = OldVals
      /\ [c \in DOMAIN stor |-> Old(c[2] \in BlockTypes, stor[c])]' = [c \in DOMAIN stor |-> Old(c[2] \in BlockTypes, stor[c])]
  BY <1>1, <1>4
<1>7. (IF status = "return" THEN Args(Branch(prog.blocks[pc].term, vals).args, OldVals) ELSE ret)' = Args(t.args, OldVals)
  BY <1>1, <1>2, <1>3, <1>6
<1>8. Source!Args(t.args, OldVals) = Args(t.args, OldVals)
  BY DEF Source!Args, Args
<1>9. Source!Return
  BY <1>1, <1>3, <1>6, <1>7, <1>8 DEF Source!Return
<1> QED BY <1>5, <1>9

(* A panic is a panic of the source.                                       *)
LEMMA PanicStep ==
  ASSUME LayoutInv, laid, Run!Panic, UNCHANGED <<src, todo, order, laid>>, UNCHANGED <<prog, pc, vals, stor, ret, log>>
  PROVE  LayoutInv' /\ Source!Panic
<1>1. Run!AtTerminator /\ ~Run!Defined(prog, Run!Block.term, vals) /\ status' = "panic"
  BY DEF Run!Panic
<1>2. /\ Source!AtTerminator
      /\ Source!Defined(src, Source!Block.term, OldVals) <=> Run!Defined(prog, Run!Block.term, vals)
  BY <1>1, AtBranch
<1>3. Running(src, order, prog, pc, vals, stor) /\ (Running(src, order, prog, pc', vals', stor') => LayoutInv')
  BY ExecuteFacts
<1> QED BY <1>1, <1>2, <1>3 DEF Source!Panic

(* When nothing happens nothing happens.                                   *)
LEMMA StutterStep ==
  ASSUME LayoutInv, UNCHANGED vars
  PROVE  LayoutInv' /\ UNCHANGED Source!vars
<1>1. UNCHANGED <<src, prog, todo, order, laid, status, pc, vals, stor, ret, log>>
  BY DEF vars
<1> QED BY <1>1 DEF LayoutInv, Source!vars, OldBlock, OldVals, Old

(* Every step keeps the invariant and is a step of the source or none.     *)
LEMMA NextStep == LayoutInv /\ [Next]_vars => LayoutInv' /\ [Source!Next]_(Source!vars)
<1> SUFFICES ASSUME LayoutInv, [Next]_vars PROVE LayoutInv' /\ [Source!Next]_(Source!vars)
  OBVIOUS
<1>1. CASE visit
  BY <1>1, VisitStep
<1>2. CASE layout_cfg_for_movfuscation_typed
  BY <1>2, LayoutStep
<1>3. CASE Execute
  <2>1. laid /\ UNCHANGED <<src, todo, order, laid>>
    BY <1>3 DEF Execute
  <2>2. CASE Run!eval_ir_stmt
    BY <2>1, <2>2, EvalStep DEF Source!Next
  <2>3. CASE Run!Jump
    BY <2>1, <2>3, JumpStep DEF Source!Next
  <2>4. CASE Run!Return
    BY <2>1, <2>4, ReturnStep DEF Source!Next
  <2>5. CASE Run!Panic /\ UNCHANGED <<prog, pc, vals, stor, ret, log>>
    BY <2>1, <2>5, PanicStep DEF Source!Next
  <2> QED BY <1>3, <2>2, <2>3, <2>4, <2>5 DEF Execute
<1>4. CASE UNCHANGED vars
  BY <1>4, StutterStep
<1> QED BY <1>1, <1>2, <1>3, <1>4 DEF Next

(* The initial states are the source's.                                    *)
LEMMA SourceInit == Init => Source!Init
<1> SUFFICES ASSUME Init PROVE Source!Init
  OBVIOUS
<1>1. /\ src \in Programs /\ prog = src /\ laid = FALSE /\ status = "run" /\ pc = 0
      /\ vals \in InputsFor(src.blocks[0].params) /\ stor = src.pre_init /\ ret = << >> /\ log = << >>
  BY DEF Init, Run!Init, Run!InputsFor, InputsFor
<1>2. /\ OldBlock(pc) = pc
      /\ [c \in DOMAIN stor |-> Old(c[2] \in BlockTypes, stor[c])] = stor
  <2>1. stor \in [Cells -> Val]
    BY <1>1, ProgramAssumption DEF WellFormed
  <2> QED BY <1>1, <2>1 DEF OldBlock, Old
<1>3. OldVals = vals
  <2>1. vals \in [1 .. Len(src.blocks[0].params) -> Val]
    BY <1>1 DEF InputsFor
  <2>2. 0 \in BlocksOf(src)
    BY <1>1, ProgramAssumption DEF WellFormed, BlocksOf
  <2>3. src.blocks[0].params \in Seq(Types)
    BY <1>1, <2>2, BlockFacts DEF BlockWellFormed
  <2> DEFINE m == Len(src.blocks[0].params)
  <2>4. m \in Nat
    BY <2>3
  <2> HIDE DEF m
  <2>5. vals \in [1 .. m -> Val]
    BY <2>1 DEF m
  <2>6. Len(vals) = m
    BY <2>4, <2>5
  <2> QED BY <1>1, <2>5, <2>6 DEF OldVals, Old
<1>4. vals \in Source!InputsFor(src.blocks[0].params)
  BY <1>1 DEF Source!InputsFor, InputsFor
<1> QED BY <1>1, <1>2, <1>3, <1>4 DEF Source!Init

(* For every program: the program layout_cfg_for_movfuscation_typed makes  *)
(* does, step by step, what the source does, with references renumbered    *)
(* wherever they are.                                                      *)
THEOREM LayoutCorrect == Spec => Refines
<1>1. Init => LayoutInv
  BY InitInv
<1>2. LayoutInv /\ [Next]_vars => LayoutInv'
  BY NextStep
<1>3. LayoutInv /\ [Next]_vars => [Source!Next]_(Source!vars)
  BY NextStep
<1>4. Init => Source!Init
  BY SourceInit
<1> QED BY <1>1, <1>2, <1>3, <1>4, PTL DEF Spec, Refines, Source!Spec

(* What the invariant says of the order.                                   *)
LEMMA InvLaidOut == LayoutInv => LaidOut
<1> SUFFICES ASSUME LayoutInv, laid, src.n > 1
             PROVE  LET At(b) == CHOOSE k \in 1 .. Len(order) : order[k] = b
                    IN  /\ order[1] = 0
                        /\ Range(order) = Reachable(src) /\ Len(order) = Cardinality(Reachable(src))
                        /\ \A b \in Range(order) : \A k \in 1 .. Len(SuccessorsOf(src, b)) :
                             LET next == SuccessorsOf(src, b)
                             IN  next[k].dest = "Block" /\ (\A j \in 1 .. k - 1 : next[j].dest # "Block") =>
                                   At(next[k].block) <= At(b) + 1
  BY DEF LaidOut
<1> DEFINE At(b) == CHOOSE k \in 1 .. Len(order) : order[k] = b
<1>1. src \in Programs /\ WalkInv(src, order, << >>)
  BY DEF LayoutInv
<1>2. /\ order[1] = 0 /\ Range(order) = Reachable(src) /\ Len(order) = Cardinality(Reachable(src))
      /\ \A m \in 1 .. Len(order) : \A k \in 1 .. Len(SuccessorsOf(src, order[m])) :
           FirstDirect(src, order[m], k) =>
             \E j \in 1 .. Len(order) : j <= m + 1 /\ order[j] = SuccessorsOf(src, order[m])[k].block
  BY <1>1, WalkEnd
<1>3. order \in Seq(BlocksOf(src)) /\ \A i, j \in 1 .. Len(order) : order[i] = order[j] => i = j
  BY <1>1 DEF WalkInv
<1>4. ASSUME NEW m \in 1 .. Len(order) PROVE At(order[m]) = m
  <2>1. At(order[m]) \in 1 .. Len(order) /\ order[At(order[m])] = order[m]
    OBVIOUS
  <2> HIDE DEF At
  <2> QED BY <1>3, <2>1
<1> HIDE DEF At
<1>5. ASSUME NEW b \in Range(order), NEW k \in 1 .. Len(SuccessorsOf(src, b)), FirstDirect(src, b, k)
      PROVE  At(SuccessorsOf(src, b)[k].block) <= At(b) + 1
  <2>1. PICK m \in 1 .. Len(order) : order[m] = b
    BY <1>3, RangeFacts
  <2>2. PICK j \in 1 .. Len(order) : j <= m + 1 /\ order[j] = SuccessorsOf(src, b)[k].block
    BY <1>2, <1>5, <2>1
  <2> QED BY <1>4, <2>1, <2>2
<1> QED BY <1>2, <1>5 DEF FirstDirect, At

(* For every program: visit places exactly the reachable blocks, each      *)
(* once, the entry first, a block's first successor next to it.            *)
THEOREM LayoutOrder == Spec => []LaidOut
<1>1. Init => LayoutInv
  BY InitInv
<1>2. LayoutInv /\ [Next]_vars => LayoutInv'
  BY NextStep
<1>3. LayoutInv => LaidOut
  BY InvLaidOut
<1> QED BY <1>1, <1>2, <1>3, PTL DEF Spec
=============================================================================
