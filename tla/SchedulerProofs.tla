--------------------------- MODULE SchedulerProofs ---------------------------
(***************************************************************************)
(* A planned schedule is serializable in program order: whatever the       *)
(* number of iterations, cells and workers and whatever the callbacks do,  *)
(* the runtime of Scheduler implements SerialSchedule.                     *)
(***************************************************************************)
EXTENDS Scheduler, TLAPS, FiniteSetTheorems, WellFoundedInduction

(* The planner's part of the invariant: the manifest describes the first   *)
(* iterations of the program, in epochs that never decrease.               *)
PlanShape ==
    /\ program \in Programs
    /\ phase \in {"planning", "built", "running", "rejected"}
    /\ epochs \in Nat
    /\ \E n \in 0..Len(program) : DOMAIN manifest = 0..(n - 1)
    /\ phase \in {"built", "running"} =>
         /\ DOMAIN manifest = 0..(Len(program) - 1)
         /\ \A i \in DOMAIN manifest : manifest[i].epoch < epochs

PlanFaithful ==
    \A i \in DOMAIN manifest :
        /\ manifest[i].logical_step = program[i + 1].logical_step
        /\ manifest[i].claims = canonicalize(program[i + 1].claims)
        /\ manifest[i].epoch \in Nat
        /\ \A d \in manifest[i].dependencies : d < i

PlanOrdered ==
    \A i, j \in DOMAIN manifest : j < i => manifest[j].epoch <= manifest[i].epoch

PlanInv == PlanShape /\ PlanFaithful /\ PlanOrdered /\ EpochsIndependent

(* The runtime's part: active iterations belong to the current epoch, and  *)
(* the epochs before it are complete.                                      *)
RuntimeShape ==
    /\ current_epoch \in 0..epochs
    /\ aborted \in BOOLEAN
    /\ phase # "running" =>
         /\ active = {} /\ completed = {} /\ DOMAIN txn = {}
         /\ current_epoch = 0
    /\ active \subseteq DOMAIN manifest
    /\ completed \subseteq DOMAIN manifest
    /\ active \cap completed = {}
    /\ DOMAIN txn \subseteq active

EpochInv ==
    /\ \A i \in active : manifest[i].epoch = current_epoch
    /\ \A i \in completed : /\ manifest[i].epoch <= current_epoch
                            /\ trace[i].epoch = manifest[i].epoch
    /\ \A i \in DOMAIN manifest : manifest[i].epoch < current_epoch => i \in completed
    /\ \A i \in active \cup completed : manifest[i].dependencies \subseteq completed

(* A log is what the callback observes on the bank, access by access.      *)
IsLog(l) == \E S : l \in Seq(S)

Follows(step, claims, l, b) ==
    \A n \in DOMAIN l :
        LET before == Prefix(l, n - 1)
            op == Step(step, before)
        IN  /\ op \in Accesses
            /\ l[n] = Observation(op, Permitted(claims, op, before), before, b)

Logs == [i \in completed |-> trace[i].log]

(* The bank is the canonical image of what has committed, and a committed  *)
(* iteration observed the image of those before it.                        *)
CommittedInv ==
    /\ bank = Image(Logs, completed)
    /\ \A i \in completed :
         /\ IsLog(trace[i].log)
         /\ Follows(manifest[i].logical_step, manifest[i].claims, trace[i].log,
                    Image(Logs, {j \in completed : j < i}))
         /\ Step(manifest[i].logical_step, trace[i].log).kind = "commit"

(* An open iteration still sees in the bank all that it has observed.      *)
OpenInv ==
    \A i \in DOMAIN txn :
        /\ IsLog(txn[i])
        /\ ~aborted => Follows(manifest[i].logical_step, manifest[i].claims, txn[i], bank)

IInv == PlanInv /\ RuntimeShape /\ EpochInv /\ CommittedInv /\ OpenInv

-----------------------------------------------------------------------------
(* Claims.                                                                 *)

(* It does not matter which of two iterations is asked about a conflict.   *)
LEMMA ConflictSymmetric ==
  ASSUME NEW A, NEW B
  PROVE  Conflict(A, B) <=> Conflict(B, A)
<1>1. \A a, b : conflicts_with(a, b) <=> conflicts_with(b, a)
  <2>1. \A s, t : overlaps(s, t) <=> overlaps(t, s)
    BY DEF overlaps
  <2> QED BY <2>1 DEF conflicts_with
<1> QED BY <1>1 DEF Conflict

(* Two iterations that may touch one cell, one of them writing, conflict:  *)
(* overlaps is true of every two scopes with a common address.             *)
LEMMA CommonCellConflicts ==
  ASSUME NEW A, NEW B, NEW c \in Cells,
         \A x \in A \cup B : ClaimTyped(x),
         Covers(A, c), CoversWrite(B, c)
  PROVE  Conflict(A, B) /\ Conflict(B, A)
<1>1. PICK a \in A : a.key = c.key /\ scope_contains(a.scope, c.address)
  BY DEF Covers
<1>2. PICK b \in B : /\ b.key = c.key
                     /\ scope_contains(b.scope, c.address)
                     /\ effective(b.mode) # "Read"
  BY DEF CoversWrite
<1>3. overlaps(a.scope, b.scope)
  <2>1. c.address \in Nat
    BY StorageLogAssumption
  <2>2. /\ a.scope.start \in Nat /\ a.scope.len \in Nat
        /\ b.scope.start \in Nat /\ b.scope.len \in Nat
    BY DEF ClaimTyped
  <2> QED BY <1>1, <1>2, <2>1, <2>2 DEF overlaps, scope_contains
<1>4. conflicts_with(a, b)
  BY <1>1, <1>2, <1>3 DEF conflicts_with
<1>5. Conflict(A, B)
  BY <1>4 DEF Conflict
<1> QED BY <1>5, ConflictSymmetric

(* Joining the claims with the same key and scope keeps their types and    *)
(* permits the same accesses.                                              *)
LEMMA CanonicalClaims ==
  ASSUME NEW A, \A x \in A : ClaimTyped(x), NEW c
  PROVE  /\ \A x \in canonicalize(A) : ClaimTyped(x)
         /\ Covers(canonicalize(A), c) <=> Covers(A, c)
         /\ CoversWrite(canonicalize(A), c) <=> CoversWrite(A, c)
<1> DEFINE Equal(x) == {e \in A : e.key = x.key /\ e.scope = x.scope}
           Joined(x) == [key |-> x.key, scope |-> x.scope,
                         mode |-> join({d.mode : d \in Equal(x)})]
<1>1. canonicalize(A) = {Joined(x) : x \in A}
  BY DEF canonicalize
<1>2. \A x \in A : /\ Joined(x).key = x.key
                   /\ Joined(x).scope = x.scope
                   /\ Joined(x).mode = join({d.mode : d \in Equal(x)})
  OBVIOUS
<1>7. /\ \A x \in A : Joined(x) \in canonicalize(A)
      /\ \A y \in canonicalize(A) : \E x \in A : y = Joined(x)
  BY <1>1
<1> HIDE DEF Joined
<1>3. \A x \in A : ClaimTyped(Joined(x))
  <2> TAKE x \in A
  <2>1. join({d.mode : d \in Equal(x)}) \in {"Read", "Write", "Unknown"}
    BY DEF join
  <2> QED BY <1>2, <2>1 DEF ClaimTyped
<1>4. \A x \in A : effective(Joined(x).mode) # "Read" <=> \E d \in Equal(x) : effective(d.mode) # "Read"
  <2> TAKE x \in A
  <2> DEFINE modes == {d.mode : d \in Equal(x)}
  <2>3. effective(join(modes)) # "Read" <=> ("Unknown" \in modes \/ "Write" \in modes)
    BY DEF effective, join
  <2>1. effective(Joined(x).mode) # "Read" <=> \E d \in Equal(x) : d.mode \in {"Unknown", "Write"}
    <3>1. \A v : v \in modes <=> \E d \in Equal(x) : d.mode = v
      OBVIOUS
    <3> HIDE DEF modes
    <3>2. Joined(x).mode = join(modes)
      BY <1>2 DEF modes
    <3> QED BY <2>3, <3>1, <3>2
  <2>2. \A d \in Equal(x) : effective(d.mode) # "Read" <=> d.mode \in {"Unknown", "Write"}
    BY DEF effective, ClaimTyped
  <2> QED BY <2>1, <2>2
<1>5. Covers(canonicalize(A), c) <=> Covers(A, c)
  <2>1. ASSUME Covers(canonicalize(A), c) PROVE Covers(A, c)
    <3>1. PICK y \in canonicalize(A) : y.key = c.key /\ scope_contains(y.scope, c.address)
      BY <2>1 DEF Covers
    <3>2. PICK x \in A : y = Joined(x)
      BY <1>7
    <3>3. x.key = c.key /\ scope_contains(x.scope, c.address)
      BY <1>2, <3>1, <3>2
    <3> QED BY <3>3 DEF Covers
  <2>2. ASSUME Covers(A, c) PROVE Covers(canonicalize(A), c)
    <3>1. PICK x \in A : x.key = c.key /\ scope_contains(x.scope, c.address)
      BY <2>2 DEF Covers
    <3>2. Joined(x).key = c.key /\ scope_contains(Joined(x).scope, c.address)
      BY <1>2, <3>1
    <3> QED BY <1>7, <3>2 DEF Covers
  <2> QED BY <2>1, <2>2
<1>6. CoversWrite(canonicalize(A), c) <=> CoversWrite(A, c)
  <2>1. ASSUME CoversWrite(canonicalize(A), c) PROVE CoversWrite(A, c)
    <3>1. PICK x \in A : /\ x.key = c.key
                         /\ scope_contains(x.scope, c.address)
                         /\ effective(Joined(x).mode) # "Read"
      <4>1. PICK y \in canonicalize(A) : /\ y.key = c.key
                                         /\ scope_contains(y.scope, c.address)
                                         /\ effective(y.mode) # "Read"
        BY <2>1 DEF CoversWrite
      <4>2. PICK x \in A : y = Joined(x)
        BY <1>7
      <4> QED BY <1>2, <4>1, <4>2
    <3>2. PICK d \in Equal(x) : effective(d.mode) # "Read"
      BY <1>4, <3>1
    <3> QED BY <3>1, <3>2 DEF CoversWrite
  <2>2. ASSUME CoversWrite(A, c) PROVE CoversWrite(canonicalize(A), c)
    <3>1. PICK d \in A : /\ d.key = c.key
                         /\ scope_contains(d.scope, c.address)
                         /\ effective(d.mode) # "Read"
      BY <2>2 DEF CoversWrite
    <3>2. d \in Equal(d)
      OBVIOUS
    <3>3. /\ Joined(d).key = c.key
          /\ scope_contains(Joined(d).scope, c.address)
          /\ effective(Joined(d).mode) # "Read"
      BY <1>2, <1>4, <3>1, <3>2
    <3> QED BY <1>7, <3>3 DEF CoversWrite
  <2> QED BY <2>1, <2>2
<1> QED BY <1>3, <1>5, <1>6, <1>7

-----------------------------------------------------------------------------
(* Logs.                                                                   *)

(* A callback that finds the same in the cells its claims cover observes   *)
(* the same.                                                               *)
LEMMA FollowsLocal ==
  ASSUME NEW step, NEW claims, NEW l, NEW b, NEW d,
         Follows(step, claims, l, b),
         \A c \in Cells : Covers(claims, c) => b[c] = d[c]
  PROVE  Follows(step, claims, l, d)
<1> SUFFICES ASSUME NEW n \in DOMAIN l
             PROVE  /\ Step(step, Prefix(l, n - 1)) \in Accesses
                    /\ l[n] = Observation(Step(step, Prefix(l, n - 1)),
                                Permitted(claims, Step(step, Prefix(l, n - 1)), Prefix(l, n - 1)),
                                Prefix(l, n - 1), d)
  BY DEF Follows
<1> DEFINE before == Prefix(l, n - 1)
           op == Step(step, before)
<1>1. op \in Accesses /\ l[n] = Observation(op, Permitted(claims, op, before), before, b)
  BY DEF Follows
<1> HIDE DEF before, op
<1>2. op.cell \in Cells
  BY <1>1 DEF Accesses
<1>3. Permitted(claims, op, before) => b[op.cell] = d[op.cell]
  BY <1>2 DEF Permitted
<1>4. Permitted(claims, op, before) => Observed(before, op.cell, b) = Observed(before, op.cell, d)
  BY <1>3 DEF Observed
<1>5. Observation(op, Permitted(claims, op, before), before, b)
        = Observation(op, Permitted(claims, op, before), before, d)
  BY <1>4 DEF Observation
<1> QED BY <1>1, <1>5 DEF before, op

(* A write that got through is covered by a claim that is not a Read.      *)
LEMMA FollowsWrites ==
  ASSUME NEW step, NEW claims, NEW l, NEW b, NEW c,
         Follows(step, claims, l, b),
         WritesTo(l, c) # {}
  PROVE  CoversWrite(claims, c) /\ Covers(claims, c)
<1>1. PICK n \in DOMAIN l : l[n].ok /\ l[n].kind = "write" /\ l[n].cell = c
  BY DEF WritesTo
<1> DEFINE before == Prefix(l, n - 1)
           op == Step(step, before)
<1>2. l[n] = Observation(op, Permitted(claims, op, before), before, b)
  BY DEF Follows
<1> HIDE DEF before, op
<1>3. l[n].ok = Permitted(claims, op, before) /\ l[n].kind = op.kind /\ l[n].cell = op.cell
  BY <1>2 DEF Observation
<1>4. CoversWrite(claims, c)
  BY <1>1, <1>3 DEF Permitted
<1> QED BY <1>4 DEF CoversWrite, Covers

(* One more access, observed on the same bank.                             *)
LEMMA FollowsAppend ==
  ASSUME NEW step, NEW claims, NEW l, NEW b, IsLog(l),
         Follows(step, claims, l, b),
         Step(step, l) \in Accesses,
         NEW o, o = Observation(Step(step, l), Permitted(claims, Step(step, l), l), l, b)
  PROVE  Follows(step, claims, Append(l, o), b)
<1>1. PICK S : l \in Seq(S)
  BY DEF IsLog
<1> DEFINE k == Append(l, o)
<1>2. /\ Len(l) \in Nat
      /\ DOMAIN l = 1..Len(l)
      /\ DOMAIN k = 1..(Len(l) + 1)
      /\ \A n \in 1..Len(l) : k[n] = l[n]
      /\ k[Len(l) + 1] = o
  <2>1. l \in Seq(S \cup {o})
    BY <1>1
  <2> QED BY <2>1
<1>3. \A n \in 1..(Len(l) + 1) : Prefix(k, n - 1) = Prefix(l, n - 1)
  BY <1>2 DEF Prefix
<1>4. Prefix(l, (Len(l) + 1) - 1) = l
  <2>1. (Len(l) + 1) - 1 = Len(l)
    BY <1>2
  <2>2. l = [m \in 1..Len(l) |-> l[m]]
    BY <1>1
  <2> QED BY <2>1, <2>2 DEF Prefix
<1> HIDE DEF k
<1>5. ASSUME NEW n \in DOMAIN k
      PROVE  /\ Step(step, Prefix(k, n - 1)) \in Accesses
             /\ k[n] = Observation(Step(step, Prefix(k, n - 1)),
                         Permitted(claims, Step(step, Prefix(k, n - 1)), Prefix(k, n - 1)),
                         Prefix(k, n - 1), b)
  <2>1. CASE n = Len(l) + 1
    <3>1. Prefix(k, n - 1) = l
      BY <1>2, <1>3, <1>4, <2>1
    <3> QED BY <1>2, <2>1, <3>1
  <2>2. CASE n \in 1..Len(l)
    <3>1. n \in DOMAIN l /\ k[n] = l[n] /\ Prefix(k, n - 1) = Prefix(l, n - 1)
      BY <1>2, <1>3, <2>2
    <3> QED BY <3>1 DEF Follows
  <2> QED BY <1>2, <2>1, <2>2
<1> QED BY <1>5 DEF Follows, k

(* Appending to a log makes a log.                                         *)
LEMMA AppendLog ==
  ASSUME NEW l, NEW o, IsLog(l)
  PROVE  IsLog(Append(l, o))
<1>1. PICK S : l \in Seq(S)
  BY DEF IsLog
<1>2. l \in Seq(S \cup {o})
  BY <1>1
<1>3. Append(l, o) \in Seq(S \cup {o})
  BY <1>2
<1> QED BY <1>3 DEF IsLog

(* A nonempty bounded set of numbers has a latest element.                *)
LEMMA LatestExists ==
  ASSUME NEW N \in Nat, NEW W, W \subseteq 0..N, W # {}
  PROVE  Latest(W) \in W
<1> DEFINE T == {N - x : x \in W}
           less == OpToRel(<, Nat)
<1>1. T \subseteq Nat /\ T # {}
  <2>1. PICK x : x \in W
    OBVIOUS
  <2>2. N - x \in T
    BY <2>1
  <2>3. \A x1 \in W : N - x1 \in Nat
    OBVIOUS
  <2> QED BY <2>2, <2>3
<1>2. IsWellFoundedOn(less, Nat)
  BY NatLessThanWellFounded
<1>3. \A x, y \in Nat : x < y => <<x, y>> \in less
  BY DEF OpToRel
<1> HIDE DEF T, less
<1>4. PICK t \in T : \A y \in T : ~(<<y, t>> \in less)
  BY <1>1, <1>2, WFMin
<1>5. PICK x \in W : t = N - x
  BY DEF T
<1>6. \A y \in W : y <= x
  <2> TAKE y \in W
  <2>1. N - y \in T
    BY DEF T
  <2>2. ~(N - y < t)
    BY <1>1, <1>3, <1>4, <2>1
  <2> QED BY <1>5, <2>2
<1> QED BY <1>6 DEF Latest

Bounded(S) == \E N \in Nat : S \subseteq 0..N

(* The image depends only on the logs of the iterations it is made of.     *)
LEMMA ImageOfLogs ==
  ASSUME NEW f, NEW g, NEW S, Bounded(S), \A i \in S : f[i] = g[i]
  PROVE  Image(f, S) = Image(g, S)
<1>0. PICK N \in Nat : S \subseteq 0..N
  BY DEF Bounded
<1> SUFFICES ASSUME NEW c \in Cells PROVE Image(f, S)[c] = Image(g, S)[c]
  BY DEF Image
<1> DEFINE W(h) == {i \in S : WritesTo(h[i], c) # {}}
<1>1. W(f) = W(g) /\ W(f) \subseteq S /\ W(f) \subseteq 0..N
  BY <1>0
<1>2. W(f) # {} => f[Latest(W(f))] = g[Latest(W(g))]
  BY <1>1, LatestExists
<1>3. \A h : Image(h, S)[c] = IF W(h) = {} THEN InitialBank[c]
                              ELSE Observed(h[Latest(W(h))], c, InitialBank)
  BY DEF Image
<1> HIDE DEF W
<1> QED BY <1>1, <1>2, <1>3

(* Two sets of iterations with the same writers of a cell leave the same   *)
(* in it.                                                                  *)
LEMMA ImageOfWriters ==
  ASSUME NEW f, NEW S, NEW T, NEW c \in Cells,
         \A i \in S : WritesTo(f[i], c) # {} => i \in T,
         \A i \in T : WritesTo(f[i], c) # {} => i \in S
  PROVE  Image(f, S)[c] = Image(f, T)[c]
<1>1. {i \in S : WritesTo(f[i], c) # {}} = {i \in T : WritesTo(f[i], c) # {}}
  OBVIOUS
<1> QED BY <1>1 DEF Image

(* The last writer of a cell decides what is in it.                        *)
LEMMA ImageOfLast ==
  ASSUME NEW f, NEW S \in SUBSET Nat, NEW c \in Cells, NEW k \in S, NEW b,
         WritesTo(f[k], c) # {},
         \A i \in S : WritesTo(f[i], c) # {} => i <= k
  PROVE  Image(f, S)[c] = Observed(f[k], c, b)
<1> DEFINE W == {i \in S : WritesTo(f[i], c) # {}}
<1>1. Latest(W) = k
  <2>1. k \in W /\ W \subseteq Nat /\ \A i \in W : i <= k
    OBVIOUS
  <2> HIDE DEF W
  <2>2. Latest(W) \in W /\ \A i \in W : i <= Latest(W)
    BY <2>1 DEF Latest
  <2>3. Latest(W) \in Nat /\ k \in Nat /\ Latest(W) <= k /\ k <= Latest(W)
    BY <2>1, <2>2
  <2> QED BY <2>3
<1>2. Image(f, S)[c] = Observed(f[k], c, InitialBank)
  BY <1>1 DEF Image
<1> QED BY <1>2 DEF Observed

-----------------------------------------------------------------------------
(* The planner.                                                            *)

(* The manifest holds as many iterations as its domain says.               *)
LEMMA PlacedCounts ==
  ASSUME NEW n \in Nat, DOMAIN manifest = 0..(n - 1)
  PROVE  Placed = n
<1>1. Cardinality(0..(n - 1)) = IF 0 > n - 1 THEN 0 ELSE (n - 1) - 0 + 1
  BY FS_Interval
<1> QED BY <1>1 DEF Placed

(* The epoch being filled is the last one so far.                          *)
LEMMA CurrentOrdinalLast ==
  ASSUME PlanInv
  PROVE  CurrentOrdinal \in Nat /\ \A j \in DOMAIN manifest : manifest[j].epoch <= CurrentOrdinal
<1>1. PICK n \in 0..Len(program) : DOMAIN manifest = 0..(n - 1)
  BY DEF PlanInv, PlanShape
<1>2. Len(program) \in Nat /\ n \in Nat
  BY ProgramsAssumption DEF PlanInv, PlanShape
<1>3. Placed = n
  BY <1>1, <1>2, PlacedCounts
<1>4. CASE n = 0
  BY <1>1, <1>3, <1>4 DEF CurrentOrdinal
<1>5. CASE n # 0
  <2>1. n - 1 \in DOMAIN manifest /\ CurrentOrdinal = manifest[n - 1].epoch
    BY <1>1, <1>2, <1>3, <1>5 DEF CurrentOrdinal
  <2>2. \A j \in DOMAIN manifest : j < n - 1 \/ j = n - 1
    BY <1>1, <1>2
  <2>3. \A j \in DOMAIN manifest : manifest[j].epoch \in Nat
    BY DEF PlanInv, PlanFaithful
  <2> QED BY <2>1, <2>2, <2>3 DEF PlanInv, PlanOrdered
<1> QED BY <1>4, <1>5

(* Placing one more iteration keeps the manifest faithful to the program   *)
(* and its epochs ordered and independent.                                 *)
LEMMA PlanIterationStep ==
  ASSUME PlanInv, plan_iteration
  PROVE  PlanInv'
<1>1. PICK n \in 0..Len(program) : DOMAIN manifest = 0..(n - 1)
  BY DEF PlanInv, PlanShape
<1>2. Len(program) \in Nat /\ n \in Nat
  BY ProgramsAssumption DEF PlanInv, PlanShape
<1>3. Placed = n
  BY <1>1, <1>2, PlacedCounts
<1> DEFINE it == program[n + 1]
           d == Descriptor(it)
<1>4. /\ n < Len(program)
      /\ IterationAccepted(it)
      /\ phase = "planning"
      /\ manifest' = [i \in DOMAIN manifest \cup {n} |-> IF i = n THEN d ELSE manifest[i]]
      /\ UNCHANGED <<program, epochs, phase>>
  BY <1>3 DEF plan_iteration
<1>5. /\ d.logical_step = it.logical_step
      /\ d.claims = canonicalize(it.claims)
      /\ d.dependencies = it.dependencies
      /\ d.epoch = IF ClosesEpoch(it) THEN CurrentOrdinal + 1 ELSE CurrentOrdinal
  BY DEF Descriptor
<1>6. CurrentOrdinal \in Nat /\ \A j \in DOMAIN manifest : manifest[j].epoch <= CurrentOrdinal
  BY CurrentOrdinalLast
<1>7. d.epoch \in Nat /\ \A j \in DOMAIN manifest : manifest[j].epoch <= d.epoch
  <2>1. \A j \in DOMAIN manifest : manifest[j].epoch \in Nat
    BY DEF PlanInv, PlanFaithful
  <2> QED BY <1>5, <1>6, <2>1
<1>8. \A j \in DOMAIN manifest : manifest[j].epoch = d.epoch =>
         /\ ~Conflict(manifest[j].claims, d.claims)
         /\ j \notin d.dependencies
  <2> SUFFICES ASSUME NEW j \in DOMAIN manifest, manifest[j].epoch = d.epoch
               PROVE  ~Conflict(manifest[j].claims, d.claims) /\ j \notin d.dependencies
    OBVIOUS
  <2>1. ~ClosesEpoch(it) /\ d.epoch = CurrentOrdinal
    <3>1. manifest[j].epoch \in Nat
      BY DEF PlanInv, PlanFaithful
    <3> HIDE DEF d
    <3> QED BY <1>5, <1>6, <3>1
  <2>2. j \in Current
    BY <2>1 DEF Current
  <2> HIDE DEF d, it
  <2> QED BY <1>5, <2>1, <2>2 DEF ClosesEpoch
<1>9. \A e \in d.dependencies : e < n
  BY <1>3, <1>4, <1>5 DEF IterationAccepted
<1> HIDE DEF d
<1>10. /\ DOMAIN manifest' = 0..n
       /\ n \notin DOMAIN manifest
       /\ DOMAIN manifest' = DOMAIN manifest \cup {n}
       /\ manifest'[n] = d
       /\ \A i \in DOMAIN manifest : manifest'[i] = manifest[i] /\ i < n /\ i \in Nat
  BY <1>1, <1>2, <1>4
<1>11. PlanShape'
  <2>1. n + 1 \in 0..Len(program) /\ DOMAIN manifest' = 0..((n + 1) - 1)
    BY <1>2, <1>4, <1>10
  <2> QED BY <1>4, <2>1 DEF PlanInv, PlanShape
<1>12. PlanFaithful'
  BY <1>4, <1>5, <1>7, <1>9, <1>10 DEF PlanInv, PlanFaithful
<1>13. PlanOrdered'
  <2> SUFFICES ASSUME NEW i \in DOMAIN manifest', NEW j \in DOMAIN manifest', j < i
               PROVE  manifest'[j].epoch <= manifest'[i].epoch
    BY DEF PlanOrdered
  <2>1. j \in DOMAIN manifest
    BY <1>2, <1>10
  <2>2. CASE i = n
    BY <1>7, <1>10, <2>1, <2>2
  <2>3. CASE i # n
    BY <1>10, <2>1, <2>3 DEF PlanInv, PlanOrdered
  <2> QED BY <2>2, <2>3
<1>14. EpochsIndependent'
  <2> SUFFICES ASSUME NEW i \in DOMAIN manifest', NEW j \in DOMAIN manifest',
                      i # j, manifest'[i].epoch = manifest'[j].epoch
               PROVE  /\ ~Conflict(manifest'[i].claims, manifest'[j].claims)
                      /\ j \notin manifest'[i].dependencies
    BY DEF EpochsIndependent
  <2>1. CASE i = n
    BY <1>8, <1>10, <2>1, ConflictSymmetric
  <2>2. CASE j = n
    <3>1. i \in DOMAIN manifest /\ manifest'[i] = manifest[i] /\ i < n
      BY <1>10, <2>2
    <3>2. n \notin manifest[i].dependencies
      BY <1>2, <1>10, <3>1 DEF PlanInv, PlanFaithful
    <3> QED BY <1>8, <1>10, <2>2, <3>1, <3>2
  <2>3. CASE i # n /\ j # n
    BY <1>10, <2>3 DEF PlanInv, EpochsIndependent
  <2> QED BY <2>1, <2>2, <2>3
<1> QED BY <1>11, <1>12, <1>13, <1>14 DEF PlanInv

(* The end of planning, by validation or by an error.                      *)
LEMMA PlanEndStep ==
  ASSUME PlanInv, plan_finish \/ plan_reject
  PROVE  PlanInv'
<1>1. CASE plan_finish
  <2>1. PICK n \in 0..Len(program) : DOMAIN manifest = 0..(n - 1)
    BY DEF PlanInv, PlanShape
  <2>2. Len(program) \in Nat /\ n \in Nat
    BY ProgramsAssumption DEF PlanInv, PlanShape
  <2>3. n = Len(program)
    BY <1>1, <2>1, <2>2, PlacedCounts DEF plan_finish
  <2>4. epochs' \in Nat
    BY <1>1, CurrentOrdinalLast DEF plan_finish
  <2>5. phase' \in {"built", "rejected"}
    BY <1>1 DEF plan_finish
  <2>6. phase' = "built" => \A i \in DOMAIN manifest : manifest[i].epoch < epochs'
    <3>1. phase' = "built" => validate(manifest, epochs')
      BY <1>1 DEF plan_finish
    <3> QED BY <3>1 DEF validate
  <2>7. UNCHANGED <<program, manifest>>
    BY <1>1 DEF plan_finish
  <2>8. PlanShape'
    BY <2>1, <2>3, <2>4, <2>5, <2>6, <2>7 DEF PlanInv, PlanShape
  <2> QED BY <2>7, <2>8 DEF PlanInv, PlanFaithful, PlanOrdered, EpochsIndependent
<1>2. CASE plan_reject
  BY <1>2 DEF plan_reject, PlanInv, PlanShape, PlanFaithful, PlanOrdered, EpochsIndependent
<1> QED BY <1>1, <1>2

(* While nothing has run, the runtime's part of the invariant only says so. *)
LEMMA PlanStep ==
  ASSUME IInv, plan_from_iterations, UNCHANGED runtimeVars
  PROVE  IInv'
<1>1. PlanInv'
  BY PlanIterationStep, PlanEndStep DEF IInv, plan_from_iterations
<1>2. /\ phase = "planning" /\ phase' # "running"
      /\ UNCHANGED <<bank, current_epoch, active, trace, aborted, txn>>
  BY DEF plan_from_iterations, plan_iteration, plan_finish, plan_reject, runtimeVars
<1>3. active = {} /\ completed = {} /\ DOMAIN txn = {} /\ current_epoch = 0 /\ aborted \in BOOLEAN
  BY <1>2 DEF IInv, RuntimeShape
<1>4. epochs' \in Nat /\ \A i \in DOMAIN manifest' : manifest'[i].epoch \in Nat
  BY <1>1 DEF PlanInv, PlanShape, PlanFaithful
<1>5. RuntimeShape'
  BY <1>2, <1>3, <1>4 DEF RuntimeShape, completed
<1>6. EpochInv'
  BY <1>2, <1>3, <1>4 DEF EpochInv, completed
<1>7. CommittedInv' /\ OpenInv'
  BY <1>2, <1>3 DEF IInv, CommittedInv, OpenInv, Logs, completed
<1> QED BY <1>1, <1>5, <1>6, <1>7 DEF IInv

-----------------------------------------------------------------------------
(* The runtime.                                                            *)

(* The committed iterations' part of it does not look at the open ones.    *)
LEMMA CommittedUnchanged ==
  ASSUME CommittedInv, UNCHANGED <<bank, trace, manifest>>
  PROVE  CommittedInv'
BY DEF CommittedInv, Logs, completed

(* The planner's part of the invariant does not look at the runtime.       *)
LEMMA PlanUnchanged ==
  ASSUME PlanInv, UNCHANGED planVars
  PROVE  PlanInv'
BY DEF PlanInv, PlanShape, PlanFaithful, PlanOrdered, EpochsIndependent, planVars

(* Dropping transactions or poisoning the runtime leaves the open ones.    *)
LEMMA OpenFewer ==
  ASSUME OpenInv, UNCHANGED <<manifest, bank>>,
         aborted' = aborted \/ aborted' = TRUE,
         \A i \in DOMAIN txn' : i \in DOMAIN txn /\ txn'[i] = txn[i]
  PROVE  OpenInv'
<1> SUFFICES ASSUME NEW i \in DOMAIN txn'
             PROVE  /\ IsLog(txn'[i])
                    /\ ~aborted' => Follows(manifest'[i].logical_step, manifest'[i].claims,
                                            txn'[i], bank')
  BY DEF OpenInv
<1>1. IsLog(txn[i]) /\ (~aborted => Follows(manifest[i].logical_step, manifest[i].claims, txn[i], bank))
  BY DEF OpenInv
<1>2. CASE aborted' = aborted
  BY <1>1, <1>2
<1>3. CASE aborted' = TRUE
  BY <1>1, <1>3
<1> QED BY <1>2, <1>3

(* The actions that neither commit nor move to the next epoch.             *)
LEMMA QuietStep ==
  ASSUME IInv, new \/ (\E i \in IterationIds : begin_refused(i)) \/ finish_refused
  PROVE  IInv'
<1>1. /\ UNCHANGED <<program, manifest, epochs, bank, current_epoch, active, trace, txn>>
      /\ aborted' = aborted \/ aborted' = TRUE
      /\ \/ phase' = phase
         \/ phase = "built" /\ phase' \in {"running", "rejected"}
  BY DEF new, begin_refused, finish_refused, planVars, runtimeVars
<1>2. phase = "running" => phase' = "running"
  BY <1>1
<1>3. PlanInv'
  BY <1>1 DEF IInv, PlanInv, PlanShape, PlanFaithful, PlanOrdered, EpochsIndependent
<1>4. RuntimeShape'
  BY <1>1, <1>2 DEF IInv, RuntimeShape, completed
<1>5. EpochInv'
  BY <1>1 DEF IInv, EpochInv, completed
<1>6. CommittedInv'
  BY <1>1, CommittedUnchanged DEF IInv
<1>7. OpenInv'
  BY <1>1, OpenFewer DEF IInv
<1> QED BY <1>3, <1>4, <1>5, <1>6, <1>7 DEF IInv

(* A transaction opens with an empty log.                                  *)
LEMMA BeginStep ==
  ASSUME IInv, NEW i \in IterationIds, begin(i)
  PROVE  IInv'
<1>1. /\ Live /\ MayBegin(i)
      /\ active' = active \cup {i}
      /\ txn' = [j \in DOMAIN txn \cup {i} |-> IF j = i THEN << >> ELSE txn[j]]
      /\ UNCHANGED <<program, manifest, epochs, phase, bank, current_epoch, trace, aborted>>
  BY DEF begin, planVars
<1>2. PlanInv'
  BY PlanUnchanged DEF IInv, begin
<1>3. /\ i \in DOMAIN manifest /\ manifest[i].epoch = current_epoch
      /\ i \notin completed /\ i \notin active
      /\ manifest[i].dependencies \subseteq completed
      /\ phase = "running"
  BY <1>1 DEF MayBegin, Live
<1>4. RuntimeShape'
  BY <1>1, <1>3 DEF IInv, RuntimeShape, completed
<1>5. EpochInv'
  BY <1>1, <1>3 DEF IInv, EpochInv, completed
<1>6. CommittedInv'
  BY <1>1, CommittedUnchanged DEF IInv
<1>7. OpenInv'
  <2>2. ASSUME NEW j \in DOMAIN txn'
        PROVE  /\ IsLog(txn'[j])
               /\ ~aborted' => Follows(manifest'[j].logical_step, manifest'[j].claims, txn'[j], bank')
    <3>1. CASE j = i
      <4>1. txn'[j] = << >>
        BY <1>1, <3>1
      <4>2. << >> \in Seq({})
        OBVIOUS
      <4>3. DOMAIN << >> = {}
        OBVIOUS
      <4> QED BY <4>1, <4>2, <4>3 DEF IsLog, Follows
    <3>2. CASE j # i
      BY <1>1, <2>2, <3>2 DEF IInv, OpenInv
    <3> QED BY <3>1, <3>2
  <2> QED BY <2>2 DEF OpenInv
<1> QED BY <1>2, <1>4, <1>5, <1>6, <1>7 DEF IInv

(* An access is appended to the log of its own transaction.                *)
LEMMA AccessStep ==
  ASSUME IInv, NEW i \in DOMAIN txn, access(i)
  PROVE  IInv'
<1> DEFINE step == manifest[i].logical_step
           claims == manifest[i].claims
           op == Step(step, txn[i])
           ok == Live /\ i \in active /\ Permitted(claims, op, txn[i])
           o == Observation(op, ok, txn[i], bank)
<1>1. /\ op \in Accesses
      /\ txn' = [txn EXCEPT ![i] = Append(@, o)]
      /\ phase = "running"
      /\ UNCHANGED <<program, manifest, epochs, phase, bank, current_epoch, active, trace, aborted>>
  BY DEF access, NextStep, planVars
<1>2. PlanInv'
  BY PlanUnchanged DEF IInv, access
<1>3. DOMAIN txn' = DOMAIN txn /\ txn'[i] = Append(txn[i], o)
      /\ \A j \in DOMAIN txn : j # i => txn'[j] = txn[j]
  BY <1>1
<1>4. RuntimeShape'
  BY <1>1, <1>3 DEF IInv, RuntimeShape, completed
<1>5. EpochInv'
  BY <1>1 DEF IInv, EpochInv, completed
<1>6. CommittedInv'
  BY <1>1, CommittedUnchanged DEF IInv
<1>7. IsLog(txn[i]) /\ IsLog(txn'[i])
  BY <1>3, AppendLog DEF IInv, OpenInv
<1>8. ASSUME ~aborted
      PROVE  Follows(step, claims, txn'[i], bank)
  <2>1. Follows(step, claims, txn[i], bank)
    BY <1>8 DEF IInv, OpenInv
  <2>2. ok = Permitted(claims, op, txn[i])
    BY <1>1, <1>8 DEF IInv, RuntimeShape, Live, Permitted
  <2>3. o = Observation(op, Permitted(claims, op, txn[i]), txn[i], bank)
    BY <2>2
  <2> HIDE DEF o, ok
  <2> QED BY <1>1, <1>3, <1>7, <2>1, <2>3, FollowsAppend
<1> HIDE DEF o, ok
<1>9. OpenInv'
  <2> SUFFICES ASSUME NEW j \in DOMAIN txn'
               PROVE  /\ IsLog(txn'[j])
                      /\ ~aborted' => Follows(manifest'[j].logical_step, manifest'[j].claims,
                                              txn'[j], bank')
    BY DEF OpenInv
  <2>1. CASE j = i
    BY <1>1, <1>7, <1>8, <2>1
  <2>2. CASE j # i
    BY <1>1, <1>3, <2>2 DEF IInv, OpenInv
  <2> QED BY <2>1, <2>2
<1> QED BY <1>2, <1>4, <1>5, <1>6, <1>9 DEF IInv

(* A transaction given up or refused writes nothing.                       *)
LEMMA DropStep ==
  ASSUME IInv, NEW i \in DOMAIN txn, commit_refused(i) \/ abort(i)
  PROVE  IInv'
<1>1. /\ active' \subseteq active /\ active \ {i} \subseteq active'
      /\ DOMAIN txn' = DOMAIN txn \ {i}
      /\ \A j \in DOMAIN txn' : txn'[j] = txn[j]
      /\ aborted' = aborted \/ aborted' = TRUE
      /\ phase = "running"
      /\ UNCHANGED <<program, manifest, epochs, phase, bank, current_epoch, trace>>
  BY DEF commit_refused, abort, planVars
<1>2. PlanInv'
  BY PlanUnchanged DEF IInv, commit_refused, abort
<1>3. RuntimeShape'
  BY <1>1 DEF IInv, RuntimeShape, completed
<1>4. EpochInv'
  BY <1>1 DEF IInv, EpochInv, completed
<1>5. CommittedInv'
  BY <1>1, CommittedUnchanged DEF IInv
<1>6. OpenInv'
  BY <1>1, OpenFewer DEF IInv
<1> QED BY <1>2, <1>3, <1>4, <1>5, <1>6 DEF IInv

(* The barrier: the next epoch starts when this one has committed.         *)
LEMMA FinishStep ==
  ASSUME IInv, finish_epoch
  PROVE  IInv'
<1>1. /\ active = {} /\ current_epoch < epochs /\ current_epoch' = current_epoch + 1
      /\ phase = "running"
      /\ \A i \in DOMAIN manifest : manifest[i].epoch = current_epoch => i \in completed
      /\ UNCHANGED <<program, manifest, epochs, phase, bank, active, trace, aborted, txn>>
  BY DEF finish_epoch, EpochDone, Live, planVars
<1>2. PlanInv'
  BY PlanUnchanged DEF IInv, finish_epoch
<1>3. /\ epochs \in Nat /\ current_epoch \in Nat
      /\ \A i \in DOMAIN manifest : manifest[i].epoch \in Nat
  BY DEF IInv, PlanInv, PlanShape, PlanFaithful, RuntimeShape
<1>4. RuntimeShape'
  BY <1>1, <1>3 DEF IInv, RuntimeShape, completed
<1>5. EpochInv'
  <2>1. \A i \in completed' : /\ manifest'[i].epoch <= current_epoch'
                              /\ trace'[i].epoch = manifest'[i].epoch
    BY <1>1, <1>3 DEF IInv, EpochInv, RuntimeShape, completed
  <2>2. \A i \in DOMAIN manifest' : manifest'[i].epoch < current_epoch' => i \in completed'
    BY <1>1, <1>3 DEF IInv, EpochInv, completed
  <2> QED BY <1>1, <2>1, <2>2 DEF IInv, EpochInv, completed
<1>6. CommittedInv'
  BY <1>1, CommittedUnchanged DEF IInv
<1>7. OpenInv'
  BY <1>1, OpenFewer DEF IInv
<1> QED BY <1>2, <1>4, <1>5, <1>6, <1>7 DEF IInv

(* Two iterations of one epoch never have a cell in common that one of     *)
(* them may write.                                                         *)
LEMMA Apart ==
  ASSUME PlanInv, NEW i \in DOMAIN manifest, NEW j \in DOMAIN manifest, i # j,
         manifest[i].epoch = manifest[j].epoch, NEW c \in Cells,
         Covers(manifest[i].claims, c), CoversWrite(manifest[j].claims, c)
  PROVE  FALSE
<1>1. \A h \in DOMAIN manifest : \A x \in manifest[h].claims : ClaimTyped(x)
  <2> SUFFICES ASSUME NEW h \in DOMAIN manifest
               PROVE  \A x \in manifest[h].claims : ClaimTyped(x)
    OBVIOUS
  <2>1. /\ program \in Programs /\ Len(program) \in Nat
        /\ h + 1 \in 1..Len(program)
        /\ manifest[h].claims = canonicalize(program[h + 1].claims)
    BY ProgramsAssumption DEF PlanInv, PlanShape, PlanFaithful
  <2>2. \A x \in program[h + 1].claims : ClaimTyped(x)
    BY <2>1, ProgramsAssumption
  <2> QED BY <2>1, <2>2, CanonicalClaims
<1>2. Conflict(manifest[i].claims, manifest[j].claims)
  BY <1>1, CommonCellConflicts
<1> QED BY <1>2 DEF PlanInv, EpochsIndependent

(* A commit: the iterations that have committed before it and come after   *)
(* it in program order are of the same epoch, so they neither wrote what   *)
(* it observed nor observed what it writes.                                *)
LEMMA CommitStep ==
  ASSUME IInv, NEW k \in DOMAIN txn, commit(k)
  PROVE  IInv'
<1>1. /\ phase = "running" /\ ~aborted /\ k \in active
      /\ NextStep(k).kind = "commit"
      /\ bank' = [c \in Cells |-> Observed(txn[k], c, bank)]
      /\ active' = active \ {k}
      /\ trace' = [j \in completed \cup {k} |-> IF j = k THEN Fragment(k) ELSE trace[j]]
      /\ txn' = [j \in DOMAIN txn \ {k} |-> txn[j]]
      /\ UNCHANGED <<program, manifest, epochs, phase, current_epoch, aborted>>
  BY DEF commit, Live, Committed, planVars
<1>2. PlanInv'
  BY PlanUnchanged DEF IInv, commit
<1>3. /\ k \in DOMAIN manifest /\ manifest[k].epoch = current_epoch /\ k \notin completed
      /\ completed \subseteq DOMAIN manifest /\ active \subseteq DOMAIN manifest
      /\ DOMAIN txn \subseteq active
  BY <1>1 DEF IInv, RuntimeShape, EpochInv
<1>4. PICK N \in Nat : DOMAIN manifest \subseteq 0..N
  <2>1. PICK n \in 0..Len(program) : DOMAIN manifest = 0..(n - 1)
    BY DEF IInv, PlanInv, PlanShape
  <2>2. Len(program) \in Nat
    BY ProgramsAssumption DEF IInv, PlanInv, PlanShape
  <2> QED BY <2>1, <2>2
<1>5. /\ completed' = completed \cup {k}
      /\ trace'[k] = Fragment(k)
      /\ \A j \in completed : trace'[j] = trace[j] /\ j # k
  BY <1>1, <1>3 DEF completed
<1>6. Fragment(k).epoch = current_epoch /\ Fragment(k).log = txn[k]
  BY DEF Fragment
<1>7. RuntimeShape'
  BY <1>1, <1>3, <1>5 DEF IInv, RuntimeShape
<1>8. EpochInv'
  <2>1. current_epoch \in Nat
    BY DEF IInv, RuntimeShape, PlanInv, PlanShape
  <2> QED BY <1>1, <1>3, <1>5, <1>6, <2>1 DEF IInv, EpochInv
<1> DEFINE step(i) == manifest[i].logical_step
           claims(i) == manifest[i].claims
           L == Logs'
           Upto(i) == {j \in completed' : j < i}
<1>9. /\ L[k] = txn[k]
      /\ \A j \in completed : L[j] = trace[j].log /\ L[j] = Logs[j]
  BY <1>5, <1>6 DEF Logs
<1>10. ASSUME NEW S \in SUBSET completed
       PROVE  Image(Logs, S) = Image(L, S)
  <2>1. S \subseteq 0..N /\ \A j \in S : Logs[j] = L[j]
    BY <1>3, <1>4, <1>9
  <2>2. Bounded(S)
    BY <2>1 DEF Bounded
  <2> HIDE DEF L
  <2> QED BY <2>1, <2>2, ImageOfLogs
<1>11. /\ IsLog(txn[k])
       /\ Follows(step(k), claims(k), txn[k], bank)
       /\ Step(step(k), txn[k]).kind = "commit"
  BY <1>1 DEF IInv, OpenInv, NextStep
<1>12. ASSUME NEW i \in completed
       PROVE  /\ IsLog(L[i])
              /\ Follows(step(i), claims(i), L[i], Image(Logs, {j \in completed : j < i}))
              /\ Step(step(i), L[i]).kind = "commit"
  BY <1>9 DEF IInv, CommittedInv
<1>13. ASSUME NEW i \in completed, k < i
       PROVE  manifest[i].epoch = manifest[k].epoch /\ i # k
  <2>1. /\ i \in DOMAIN manifest
        /\ manifest[i].epoch \in Nat /\ manifest[k].epoch \in Nat
        /\ manifest[i].epoch <= current_epoch
    BY <1>3 DEF IInv, PlanInv, PlanFaithful, EpochInv
  <2>2. manifest[k].epoch <= manifest[i].epoch
    BY <1>3, <1>13, <2>1 DEF IInv, PlanInv, PlanOrdered
  <2> QED BY <1>3, <2>1, <2>2
<1>14. \A i \in completed : i \in Nat /\ k \in Nat /\ (i < k \/ k < i)
  BY <1>3, <1>4, <1>5
<1> HIDE DEF L
<1>15. ASSUME NEW i \in completed, NEW c \in Cells, WritesTo(L[i], c) # {}, Covers(claims(k), c)
       PROVE  i < k
  <2>1. CoversWrite(claims(i), c)
    BY <1>12, <1>15, FollowsWrites
  <2>2. ASSUME k < i PROVE FALSE
    BY <1>3, <1>13, <1>15, <2>1, <2>2, Apart DEF IInv
  <2> QED BY <1>14, <2>2
<1>16. ASSUME NEW i \in DOMAIN manifest, i # k, manifest[i].epoch = manifest[k].epoch,
              NEW c \in Cells, Covers(claims(i), c)
       PROVE  WritesTo(txn[k], c) = {}
  <2>1. ASSUME WritesTo(txn[k], c) # {} PROVE FALSE
    <3>1. CoversWrite(claims(k), c)
      BY <1>11, <2>1, FollowsWrites
    <3> QED BY <1>3, <1>16, <3>1, Apart DEF IInv
  <2> QED BY <2>1
<1>17. bank' = Image(L, completed')
  <2>1. ASSUME NEW c \in Cells PROVE Observed(txn[k], c, bank) = Image(L, completed')[c]
    <3>1. CASE WritesTo(txn[k], c) = {}
      <4>1. Observed(txn[k], c, bank) = Image(L, completed)[c]
        BY <1>10, <3>1 DEF Observed, IInv, CommittedInv
      <4>2. Image(L, completed)[c] = Image(L, completed')[c]
        BY <1>5, <1>9, <3>1, ImageOfWriters
      <4> QED BY <4>1, <4>2
    <3>2. CASE WritesTo(txn[k], c) # {}
      <4>1. Covers(claims(k), c)
        BY <1>11, <3>2, FollowsWrites
      <4>2. completed' \in SUBSET Nat /\ k \in completed' /\ k \in Nat
        BY <1>3, <1>4, <1>5
      <4>3. \A i \in completed' : WritesTo(L[i], c) # {} => i <= k
        BY <1>5, <1>14, <1>15, <4>1, <4>2
      <4>4. WritesTo(L[k], c) # {}
        BY <1>9, <3>2
      <4>5. Image(L, completed')[c] = Observed(L[k], c, bank)
        <5> DEFINE S == completed'
        <5>1. S \in SUBSET Nat /\ k \in S /\ \A i \in S : WritesTo(L[i], c) # {} => i <= k
          BY <4>2, <4>3
        <5> HIDE DEF S
        <5>2. Image(L, S)[c] = Observed(L[k], c, bank)
          BY ZenonT(30), <4>4, <5>1, ImageOfLast
        <5> QED BY <5>2 DEF S
      <4> QED BY <1>9, <4>5
    <3> QED BY <3>1, <3>2
  <2>2. Image(L, completed') = [c \in Cells |-> Image(L, completed')[c]]
    BY DEF Image
  <2> QED BY <1>1, <2>1, <2>2
<1>18. ASSUME NEW i \in completed'
       PROVE  /\ IsLog(L[i])
              /\ Follows(step(i), claims(i), L[i], Image(L, Upto(i)))
              /\ Step(step(i), L[i]).kind = "commit"
  <2>1. CASE i = k
    <3>1. ASSUME NEW c \in Cells, Covers(claims(k), c)
          PROVE  bank[c] = Image(L, Upto(k))[c]
      <4>1. bank[c] = Image(L, completed)[c]
        BY <1>10 DEF IInv, CommittedInv
      <4>2. \A j \in completed : WritesTo(L[j], c) # {} => j \in Upto(k)
        BY <1>5, <1>15, <3>1
      <4>3. \A j \in Upto(k) : j \in completed
        BY <1>3, <1>4, <1>5
      <4> QED BY <4>1, <4>2, <4>3, ImageOfWriters
    <3>2. Follows(step(k), claims(k), txn[k], Image(L, Upto(k)))
      BY <1>11, <3>1, FollowsLocal
    <3> QED BY <1>9, <1>11, <2>1, <3>2
  <2>2. CASE i # k
    <3> DEFINE Before == {j \in completed : j < i}
    <3>1. i \in completed
      BY <1>5, <2>2
    <3>2. ASSUME NEW c \in Cells, Covers(claims(i), c)
          PROVE  Image(Logs, Before)[c] = Image(L, Upto(i))[c]
      <4>1. Image(Logs, Before)[c] = Image(L, Before)[c]
        BY <1>10
      <4>2. \A j \in Before : j \in Upto(i)
        BY <1>5
      <4>3. ASSUME NEW j \in Upto(i), WritesTo(L[j], c) # {}
            PROVE  j \in Before
        <5>1. CASE j = k
          <6>1. manifest[i].epoch = manifest[k].epoch
            BY <1>13, <3>1, <5>1
          <6>2. WritesTo(txn[k], c) = {}
            BY <1>3, <1>16, <2>2, <3>1, <3>2, <6>1
          <6> QED BY <1>9, <4>3, <5>1, <6>2
        <5>2. CASE j # k
          BY <1>5, <5>2
        <5> QED BY <5>1, <5>2
      <4>4. Image(L, Before)[c] = Image(L, Upto(i))[c]
        BY <4>2, <4>3, ImageOfWriters
      <4> QED BY <4>1, <4>4
    <3>3. Follows(step(i), claims(i), L[i], Image(L, Upto(i)))
      BY <1>12, <3>1, <3>2, FollowsLocal
    <3> QED BY <1>12, <3>1, <3>3
  <2> QED BY <2>1, <2>2
<1>19. CommittedInv'
  <2>1. \A i \in completed' : trace'[i].log = L[i]
    BY <1>5, <1>6, <1>9
  <2> QED BY <1>1, <1>17, <1>18, <2>1 DEF CommittedInv, L
<1>20. OpenInv'
  <2> SUFFICES ASSUME NEW j \in DOMAIN txn'
               PROVE  /\ IsLog(txn'[j])
                      /\ Follows(manifest'[j].logical_step, manifest'[j].claims, txn'[j], bank')
    BY DEF OpenInv
  <2>1. j \in DOMAIN txn /\ j # k /\ txn'[j] = txn[j]
    BY <1>1
  <2>2. IsLog(txn[j]) /\ Follows(step(j), claims(j), txn[j], bank)
    BY <1>1, <2>1 DEF IInv, OpenInv
  <2>3. j \in DOMAIN manifest /\ manifest[j].epoch = manifest[k].epoch
    BY <1>3, <2>1 DEF IInv, EpochInv
  <2>4. ASSUME NEW c \in Cells, Covers(claims(j), c)
        PROVE  bank[c] = bank'[c]
    <3>1. WritesTo(txn[k], c) = {}
      BY <1>16, <2>1, <2>3, <2>4
    <3> QED BY <1>1, <3>1 DEF Observed
  <2>5. Follows(step(j), claims(j), txn[j], bank')
    BY <2>2, <2>4, FollowsLocal
  <2> QED BY <1>1, <2>1, <2>2, <2>5
<1> QED BY <1>2, <1>7, <1>8, <1>19, <1>20 DEF IInv

-----------------------------------------------------------------------------
(* The invariant.                                                          *)

(* Nothing is planned and nothing has run.                                 *)
LEMMA InitInv ==
  ASSUME Init
  PROVE  IInv
<1>1. /\ program \in Programs /\ manifest = << >> /\ epochs = 0 /\ phase = "planning"
      /\ bank = InitialBank /\ current_epoch = 0 /\ active = {} /\ trace = << >>
      /\ aborted = FALSE /\ txn = << >>
  BY DEF Init, PlanInit, RuntimeInit
<1>2. DOMAIN manifest = {} /\ completed = {} /\ DOMAIN txn = {}
  BY <1>1 DEF completed
<1>3. PlanInv
  <2>1. Len(program) \in Nat
    BY <1>1, ProgramsAssumption
  <2>2. 0 \in 0..Len(program) /\ DOMAIN manifest = 0..(0 - 1)
    BY <1>2, <2>1
  <2> QED BY <1>1, <1>2, <2>2 DEF PlanInv, PlanShape, PlanFaithful, PlanOrdered, EpochsIndependent
<1>4. RuntimeShape /\ EpochInv /\ OpenInv
  <2>1. RuntimeShape
    <3>1. current_epoch \in 0..epochs
      BY <1>1
    <3>2. aborted \in BOOLEAN
      BY <1>1
    <3> QED BY <1>1, <1>2, <3>1, <3>2, Zenon DEF RuntimeShape
  <2>2. EpochInv
    BY <1>1, <1>2 DEF EpochInv
  <2>3. OpenInv
    BY <1>2 DEF OpenInv
  <2> QED BY <2>1, <2>2, <2>3
<1>5. bank = Image(Logs, completed)
  <2>1. Image(Logs, completed) = [c \in Cells |-> InitialBank[c]]
    BY <1>2 DEF Image
  <2> QED BY <1>1, <2>1, StorageLogAssumption
<1> QED BY <1>2, <1>3, <1>4, <1>5 DEF IInv, CommittedInv

(* Every step of the planner, the workers and the host keeps it.           *)
LEMMA NextInv ==
  ASSUME IInv, [Next]_vars
  PROVE  IInv'
<1>1. CASE plan_from_iterations /\ UNCHANGED runtimeVars
  BY <1>1, PlanStep
<1>2. CASE new \/ (\E i \in IterationIds : begin_refused(i)) \/ finish_refused
  BY <1>2, QuietStep
<1>3. CASE \E i \in IterationIds : begin(i)
  BY <1>3, BeginStep
<1>4. CASE \E i \in DOMAIN txn : access(i)
  BY <1>4, AccessStep
<1>5. CASE \E i \in DOMAIN txn : commit(i)
  BY <1>5, CommitStep
<1>6. CASE \E i \in DOMAIN txn : commit_refused(i) \/ abort(i)
  BY <1>6, DropStep
<1>7. CASE finish_epoch
  BY <1>7, FinishStep
<1>8. CASE UNCHANGED vars
  <2>1. PlanInv'
    BY <1>8, PlanUnchanged DEF IInv, vars
  <2>2. UNCHANGED <<program, manifest, epochs, phase, bank, current_epoch, active, trace, aborted, txn>>
    BY <1>8 DEF vars, planVars, runtimeVars
  <2>3. RuntimeShape' /\ EpochInv'
    BY <2>2 DEF IInv, RuntimeShape, EpochInv, completed
  <2>4. CommittedInv' /\ OpenInv'
    BY <2>2, CommittedUnchanged, OpenFewer DEF IInv
  <2> QED BY <2>1, <2>3, <2>4 DEF IInv
<1> QED BY <1>1, <1>2, <1>3, <1>4, <1>5, <1>6, <1>7, <1>8 DEF Next, RuntimeNext

(* The invariant holds in every reachable state.                           *)
LEMMA Invariance == Spec => []IInv
BY InitInv, NextInv, PTL DEF Spec

(* plan_from_iterations puts no two iterations into one epoch that         *)
(* conflict or depend on each other, for every program, epoch size and     *)
(* number of lanes.                                                        *)
THEOREM PlannedEpochs == Spec => []EpochsIndependent
<1>1. IInv => EpochsIndependent
  BY DEF IInv, PlanInv
<1> QED BY <1>1, Invariance, PTL

(* begin opens an iteration only when the earlier epochs and its           *)
(* dependencies have committed, and it stays so: abort, finish_epoch and   *)
(* refused calls never undo it.                                            *)
THEOREM Barrier == Spec => []EpochBarrier
<1>1. IInv => EpochBarrier
  <2> SUFFICES ASSUME IInv, NEW i \in active \cup completed
               PROVE  /\ \A j \in DOMAIN manifest :
                           manifest[j].epoch < manifest[i].epoch => j \in completed
                      /\ manifest[i].dependencies \subseteq completed
    BY DEF EpochBarrier
  <2>1. /\ current_epoch \in Nat
        /\ \A j \in DOMAIN manifest : manifest[j].epoch \in Nat
        /\ i \in DOMAIN manifest
    BY DEF IInv, PlanInv, PlanShape, PlanFaithful, RuntimeShape
  <2>2. manifest[i].epoch <= current_epoch
    BY <2>1 DEF IInv, EpochInv
  <2> QED BY <2>1, <2>2 DEF IInv, EpochInv
<1> QED BY <1>1, Invariance, PTL

(* The trace that commit keeps sorted by (epoch, iteration) is in program  *)
(* order whatever the order of the commits.                                *)
THEOREM Canonical == Spec => []TraceCanonical
<1>1. IInv => TraceCanonical
  BY DEF IInv, PlanInv, PlanOrdered, RuntimeShape, EpochInv, TraceCanonical
<1> QED BY <1>1, Invariance, PTL

(* A callback makes no accesses but those of the storage statements of its *)
(* block, which are of the kinds that its form has.                        *)
CallbacksRunBlocks ==
    \A step, log : LET op == Step(step, log)
                       block == BlockOf(step)
                   IN  op \in Accesses =>
                         \E s \in block.stmts : /\ s.op \in StorageStmts(block.form)
                                                /\ s.key = op.cell.key
                                                /\ op.kind = "write" => Writes(s)

(* The claims extracted from a block cover an access by one of its         *)
(* statements, unless it is typed and has an ActionStore.                  *)
LEMMA ExtractedClaims ==
  ASSUME NEW block, NEW RO, NEW s \in block.stmts, s.op \in StorageStmts(block.form),
         block.form = "ir" => s.op # "ActionStore",
         NEW c, c.key = s.key
  PROVE  /\ Covers(StorageAccessSummary(block, RO), c)
         /\ Writes(s) => CoversWrite(StorageAccessSummary(block, RO), c)
<1> DEFINE claim(x) == classify(x, RO)
           S == ClaimedStmts(block)
           A == {claim(x) : x \in S}
<1>1. StorageAccessSummary(block, RO) = canonicalize(A)
  BY DEF StorageAccessSummary
<1>2. s \in S
  <2>1. CASE block.form = "ir"
    BY <2>1 DEF ClaimedStmts, Claimed, StorageStmts
  <2>2. CASE block.form # "ir"
    BY <2>2 DEF ClaimedStmts, Claimed, StorageStmts
  <2> QED BY <2>1, <2>2
<1>3. /\ claim(s) \in A /\ claim(s).key = c.key /\ claim(s).scope = Whole
      /\ Writes(s) => claim(s).mode = "Write"
  BY <1>2 DEF classify
<1>4. \A x \in A : ClaimTyped(x)
  <2> SUFFICES ASSUME NEW x \in S
               PROVE  ClaimTyped(claim(x))
    OBVIOUS
  <2>1. /\ claim(x).mode \in {"Read", "Write", "Unknown"}
        /\ claim(x).scope = Whole
    BY DEF classify
  <2>2. Whole.whole \in BOOLEAN /\ Whole.start \in Nat /\ Whole.len \in Nat
    BY DEF Whole
  <2> HIDE DEF claim
  <2> QED BY <2>1, <2>2 DEF ClaimTyped
<1>5. scope_contains(Whole, c.address)
  BY DEF scope_contains, Whole
<1> HIDE DEF claim, A
<1>6. Covers(A, c) /\ (Writes(s) => CoversWrite(A, c))
  BY <1>3, <1>5 DEF Covers, CoversWrite, effective
<1> QED BY <1>1, <1>4, <1>6, CanonicalClaims

(* What the compiler extracts (StorageAccessSummary) is enough for the     *)
(* runtime: a callback that runs its block is refused no access for want   *)
(* of a claim, for all blocks but typed ones with an ActionStore, and      *)
(* whatever runs beside it.                                                *)
THEOREM ExtractionSuffices ==
  ASSUME CallbacksRunBlocks
  PROVE  Spec => []ExtractionCovers
<1>1. IInv => ExtractionCovers
  <2> SUFFICES ASSUME IInv, Live, NEW i \in DOMAIN txn, ClaimsExtracted(i),
                      ~StoresByTypedAction(i), NEW n \in DOMAIN txn[i], ~txn[i][n].ok
               PROVE  n - 1 > max_sequence
    BY DEF ExtractionCovers, Unrefused
  <2> DEFINE step == manifest[i].logical_step
             claims == manifest[i].claims
             before == Prefix(txn[i], n - 1)
             op == Step(step, before)
             block == BlockOf(step)
             A == StorageAccessSummary(block, read_only)
             taken == {k \in DOMAIN before : before[k].ok}
  <2>1. /\ IsLog(txn[i]) /\ Follows(step, claims, txn[i], bank)
        /\ i \in DOMAIN manifest
    BY DEF IInv, OpenInv, RuntimeShape, Live
  <2>2. op \in Accesses /\ txn[i][n] = Observation(op, Permitted(claims, op, before), before, bank)
    BY <2>1 DEF Follows
  <2>3. ~Permitted(claims, op, before)
    BY <2>2 DEF Observation
  <2>4. step = program[i + 1].logical_step /\ claims = canonicalize(program[i + 1].claims)
    BY <2>1 DEF IInv, PlanInv, PlanFaithful
  <2>5. program[i + 1].claims = A
    BY <2>4 DEF ClaimsExtracted
  <2>6. \A x \in A : ClaimTyped(x)
    <3>1. \E k \in 0..Len(program) : DOMAIN manifest = 0..(k - 1)
      BY DEF IInv, PlanInv, PlanShape
    <3>2. program \in Programs /\ Len(program) \in Nat
      BY ProgramsAssumption DEF IInv, PlanInv, PlanShape
    <3>3. i + 1 \in 1..Len(program)
      BY <2>1, <3>1, <3>2
    <3> QED BY <2>5, <3>2, <3>3, ProgramsAssumption
  <2>7. PICK s \in block.stmts : /\ s.op \in StorageStmts(block.form)
                                 /\ s.key = op.cell.key
                                 /\ op.kind = "write" => Writes(s)
    BY <2>2 DEF CallbacksRunBlocks
  <2>8. block.form = "ir" => s.op # "ActionStore"
    BY <2>4 DEF StoresByTypedAction
  <2> HIDE DEF op, A, before, block
  <2>9. Covers(A, op.cell) /\ (Writes(s) => CoversWrite(A, op.cell))
    BY <2>7, <2>8, ExtractedClaims, Zenon DEF A
  <2>10. op.kind = "write" => CoversWrite(A, op.cell)
    BY <2>7, <2>9, Zenon
  <2>11. Covers(claims, op.cell) /\ (op.kind = "write" => CoversWrite(claims, op.cell))
    BY <2>4, <2>5, <2>6, <2>9, <2>10, CanonicalClaims
  <2>12. ~(Cardinality(taken) <= max_sequence)
    BY <2>3, <2>11 DEF Permitted
  <2>13. n \in Nat \ {0} /\ taken \subseteq 1..(n - 1)
    BY <2>1 DEF IsLog, before, Prefix
  <2>14. IsFiniteSet(1..(n - 1)) /\ Cardinality(1..(n - 1)) = n - 1
    BY <2>13, FS_Interval
  <2>15. Cardinality(taken) \in Nat /\ Cardinality(taken) <= n - 1
    <3> HIDE DEF taken
    <3>1. IsFiniteSet(taken) /\ Cardinality(taken) <= Cardinality(1..(n - 1))
      BY <2>13, <2>14, FS_Subset
    <3> QED BY <2>14, <3>1, FS_CardinalityType
  <2> HIDE DEF taken
  <2> QED BY <2>12, <2>13, <2>15, StorageLogAssumption
<1> QED BY <1>1, Invariance, PTL

-----------------------------------------------------------------------------
(* Refinement.                                                             *)

(* The abstract log and outcome of a state.                                *)
SerialLog == [i \in CanonicalPrefix |-> trace[i].log]

SerialResult == IF phase = "running" /\ current_epoch = epochs THEN bank ELSE NoResult

(* The reference semantics reads logs and claims as the runtime does.      *)
LEMMA SameImage ==
  ASSUME NEW f, NEW S
  PROVE  Serial!Image(f, S) = Image(f, S)
BY DEF Serial!Image, Image, Serial!WritesTo, WritesTo, Serial!Observed, Observed,
       Serial!Latest, Latest

(* A run of the callback is a run of the reference semantics: what the     *)
(* joined claims permit, the claims of the program permit.                 *)
LEMMA SameRun ==
  ASSUME PlanInv, NEW i \in DOMAIN manifest, NEW l, NEW b,
         Follows(manifest[i].logical_step, manifest[i].claims, l, b),
         Step(manifest[i].logical_step, l).kind = "commit"
  PROVE  Serial!Runs(i, l, b)
<1> DEFINE step == program[i + 1].logical_step
           claims == program[i + 1].claims
<1>1. manifest[i].logical_step = step /\ manifest[i].claims = canonicalize(claims)
  BY DEF PlanInv, PlanFaithful
<1>2. \A x \in claims : ClaimTyped(x)
  <2>1. program \in Programs /\ Len(program) \in Nat /\ i + 1 \in 1..Len(program)
    BY ProgramsAssumption DEF PlanInv, PlanShape
  <2> QED BY <2>1, ProgramsAssumption
<1> HIDE DEF step, claims
<1>3. ASSUME NEW op, NEW before
      PROVE  Permitted(canonicalize(claims), op, before) = Permitted(claims, op, before)
  BY <1>2, CanonicalClaims DEF Permitted
<1>4. ASSUME NEW op, NEW before
      PROVE  Serial!Permitted(claims, op, before) = Permitted(claims, op, before)
  BY DEF Serial!Permitted, Permitted, Serial!Covers, Covers, Serial!CoversWrite, CoversWrite,
         Serial!scope_contains, scope_contains, Serial!Representable, Representable,
         Serial!effective, effective, Serial!Cardinality, Cardinality,
         Serial!IsFiniteSet, IsFiniteSet
<1>5. ASSUME NEW op, NEW ok, NEW before
      PROVE  Serial!Observation(op, ok, before, b) = Observation(op, ok, before, b)
  BY DEF Serial!Observation, Observation, Serial!Observed, Observed, Serial!WritesTo, WritesTo,
         Serial!Latest, Latest
<1>6. Serial!Accesses = Accesses /\ \A n : Serial!Prefix(l, n) = Prefix(l, n)
  BY DEF Serial!Accesses, Accesses, Serial!Prefix, Prefix
<1>7. ASSUME NEW n \in DOMAIN l
      PROVE  /\ Step(step, Prefix(l, n - 1)) \in Accesses
             /\ l[n] = Serial!Observation(Step(step, Prefix(l, n - 1)),
                         Serial!Permitted(claims, Step(step, Prefix(l, n - 1)), Prefix(l, n - 1)),
                         Prefix(l, n - 1), b)
  <2> DEFINE before == Prefix(l, n - 1)
             op == Step(step, before)
  <2>1. /\ op \in Accesses
        /\ l[n] = Observation(op, Permitted(canonicalize(claims), op, before), before, b)
    BY <1>1 DEF Follows
  <2> HIDE DEF before, op
  <2>2. l[n] = Serial!Observation(op, Serial!Permitted(claims, op, before), before, b)
    BY <1>3, <1>4, <1>5, <2>1
  <2> QED BY <2>1, <2>2 DEF before, op
<1> QED BY <1>1, <1>6, <1>7 DEF Serial!Runs, step, claims

Ended == phase = "running" /\ current_epoch = epochs

AllRan ==
    /\ \A i \in 1..Len(program) : i - 1 \in DOMAIN SerialLog
    /\ bank = Image(SerialLog, DOMAIN SerialLog)

(* When the last epoch has ended, every iteration has run and the bank is  *)
(* their image.                                                            *)
LEMMA AtTheEnd == IInv /\ Ended => AllRan
<1> SUFFICES ASSUME IInv, Ended PROVE AllRan
  OBVIOUS
<1>1. DOMAIN manifest = 0..(Len(program) - 1) /\ \A i \in DOMAIN manifest : manifest[i].epoch < epochs
  BY DEF IInv, PlanInv, PlanShape, Ended
<1>2. completed = DOMAIN manifest
  BY <1>1 DEF IInv, EpochInv, RuntimeShape, Ended
<1>3. CanonicalPrefix = completed
  BY <1>2 DEF CanonicalPrefix
<1>4. SerialLog = Logs /\ DOMAIN SerialLog = completed
  BY <1>3 DEF SerialLog, Logs
<1>5. Len(program) \in Nat
  BY ProgramsAssumption DEF IInv, PlanInv, PlanShape
<1> QED BY <1>1, <1>2, <1>4, <1>5 DEF IInv, CommittedInv, AllRan

(* A commit closes a gap or leaves one: the iterations that join the       *)
(* canonical prefix are runs of the reference semantics.                   *)
LEMMA CommitRefines ==
  ASSUME IInv, IInv', NEW k \in DOMAIN txn, commit(k)
  PROVE  Serial!RunIterations
<1>1. /\ phase = "running"
      /\ k \in active
      /\ trace' = [j \in completed \cup {k} |-> IF j = k THEN Fragment(k) ELSE trace[j]]
      /\ UNCHANGED <<program, manifest, epochs, phase, current_epoch>>
  BY DEF commit, planVars
<1>2. k \in DOMAIN manifest /\ k \notin completed /\ manifest[k].epoch = current_epoch
  BY <1>1 DEF IInv, RuntimeShape, EpochInv
<1>3. current_epoch # epochs
  BY <1>1, <1>2 DEF IInv, PlanInv, PlanShape, PlanFaithful
<1>4. SerialResult' = SerialResult
  BY <1>1, <1>3 DEF SerialResult
<1>5. completed' = completed \cup {k} /\ \A j \in completed : trace'[j] = trace[j]
  BY <1>1, <1>2 DEF completed
<1>6. PICK n \in Nat : DOMAIN manifest = 0..(n - 1) /\ n <= Len(program) /\ Len(program) \in Nat
  BY ProgramsAssumption DEF IInv, PlanInv, PlanShape
<1>7. /\ completed' \subseteq DOMAIN manifest
      /\ CanonicalPrefix' = {i \in completed' : \A j \in DOMAIN manifest : j < i => j \in completed'}
      /\ DOMAIN SerialLog = CanonicalPrefix
      /\ DOMAIN SerialLog' = CanonicalPrefix'
      /\ \A i \in CanonicalPrefix : SerialLog[i] = trace[i].log
      /\ \A i \in CanonicalPrefix' : SerialLog'[i] = trace'[i].log
  BY <1>1 DEF CanonicalPrefix, SerialLog, IInv, RuntimeShape
<1>8. \A i \in DOMAIN SerialLog' : i < Len(program) /\ \A j \in 0..i : j \in DOMAIN SerialLog'
  BY <1>6, <1>7
<1>9. \A i \in DOMAIN SerialLog : i \in DOMAIN SerialLog' /\ SerialLog'[i] = SerialLog[i]
  BY <1>5, <1>7 DEF CanonicalPrefix
<1>10. ASSUME NEW i \in DOMAIN SerialLog'
       PROVE  Serial!Runs(i, SerialLog'[i],
                          Serial!Image(SerialLog', {j \in DOMAIN SerialLog' : j < i}))
  <2> DEFINE Before == {j \in completed' : j < i}
  <2>1. {j \in DOMAIN SerialLog' : j < i} = Before
    BY <1>6, <1>7
  <2>2. i \in completed' /\ i \in DOMAIN manifest
    BY <1>7
  <2>3. /\ Follows(manifest[i].logical_step, manifest[i].claims, trace'[i].log,
                   Image(Logs', Before))
        /\ Step(manifest[i].logical_step, trace'[i].log).kind = "commit"
    BY <1>1, <2>2 DEF IInv, CommittedInv
  <2>4. \A j \in Before : Logs'[j] = SerialLog'[j]
    BY <1>7, <2>1 DEF Logs
  <2>5. Bounded(Before)
    <3>1. Before \subseteq 0..n
      BY <1>6, <1>7
    <3> QED BY <3>1 DEF Bounded
  <2>6. Image(Logs', Before) = Image(SerialLog', Before)
    <3> DEFINE f == Logs'
               g == SerialLog'
    <3>1. \A j \in Before : f[j] = g[j]
      BY <2>4
    <3> HIDE DEF f, g, Before
    <3>2. Image(f, Before) = Image(g, Before)
      BY <2>5, <3>1, ImageOfLogs
    <3> QED BY <3>2 DEF f, g
  <2>7. Serial!Image(SerialLog', Before) = Image(SerialLog', Before)
    BY SameImage
  <2>8. Serial!Runs(i, trace'[i].log, Image(Logs', Before))
    BY <2>2, <2>3, SameRun DEF IInv
  <2> QED BY <1>7, <2>1, <2>6, <2>7, <2>8
<1>11. UNCHANGED program
  BY <1>1
<1> QED BY <1>4, <1>8, <1>9, <1>10, <1>11 DEF Serial!RunIterations, SerialLog, SerialResult

(* Every other step either ends the last epoch or changes nothing that the *)
(* reference semantics speaks of.                                          *)
LEMMA OtherRefines ==
  ASSUME IInv, IInv', [Next]_vars, ~\E i \in DOMAIN txn : commit(i)
  PROVE  Serial!Finish \/ UNCHANGED <<program, SerialLog, SerialResult>>
<1>1. UNCHANGED program /\ UNCHANGED SerialLog
  <2>1. UNCHANGED <<program, trace>>
    BY DEF Next, RuntimeNext, vars, planVars, runtimeVars, plan_from_iterations, plan_iteration,
           plan_finish, plan_reject, new, begin, begin_refused, access, commit_refused, abort,
           finish_epoch, finish_refused
  <2>2. CASE UNCHANGED manifest
    BY <2>1, <2>2 DEF SerialLog, CanonicalPrefix, completed
  <2>3. CASE phase = "planning"
    <3>1. completed = {} /\ completed' = {}
      BY <2>1, <2>3 DEF IInv, RuntimeShape, completed
    <3>2. CanonicalPrefix = {} /\ CanonicalPrefix' = {}
      BY <3>1 DEF CanonicalPrefix
    <3> QED BY <2>1, <3>2 DEF SerialLog
  <2>4. UNCHANGED manifest \/ phase = "planning"
    BY DEF Next, RuntimeNext, vars, planVars, runtimeVars, plan_from_iterations, plan_iteration,
           plan_finish, plan_reject, new, begin, begin_refused, access, commit_refused, abort,
           finish_epoch, finish_refused
  <2> QED BY <2>1, <2>2, <2>3, <2>4
<1>2. CASE Ended' /\ UNCHANGED bank
  <2>1. AllRan'
    BY <1>2, AtTheEnd, PTL
  <2>2. SerialResult' = bank'
    BY <1>2 DEF SerialResult, Ended
  <2> QED BY <1>1, <2>1, <2>2, SameImage DEF AllRan, Serial!Finish, SerialLog, SerialResult
<1>3. CASE ~Ended'
  <2>1. \/ phase # "running"
        \/ UNCHANGED <<phase, epochs, current_epoch>>
        \/ current_epoch < epochs
    BY DEF Next, RuntimeNext, vars, planVars, runtimeVars, plan_from_iterations,
       plan_iteration, plan_finish, plan_reject, new, begin, begin_refused, access,
       commit_refused, abort, finish_epoch, finish_refused
  <2>2. epochs \in Nat
    BY DEF IInv, PlanInv, PlanShape
  <2>3. ~Ended
    BY <1>3, <2>1, <2>2 DEF Ended
  <2> QED BY <1>1, <1>3, <2>3 DEF SerialResult, Ended
<1>4. UNCHANGED bank
  BY DEF Next, RuntimeNext, vars, planVars, runtimeVars, plan_from_iterations, plan_iteration,
         plan_finish, plan_reject, new, begin, begin_refused, access, commit_refused, abort,
         finish_epoch, finish_refused
<1> QED BY <1>2, <1>3, <1>4

(* Serializability: for every program, callback, epoch size and number of  *)
(* workers, a planned schedule that runs in parallel with buffered writes  *)
(* and commits in completion order observes and leaves what the serial run *)
(* in program order does.                                                  *)
THEOREM ScheduleRefines == Spec => Refines
<1>1. Init => Serial!SerialInit
  <2> SUFFICES ASSUME Init PROVE Serial!SerialInit
    OBVIOUS
  <2>1. phase = "planning" /\ trace = << >>
    BY DEF Init, PlanInit, RuntimeInit
  <2>2. CanonicalPrefix = {}
    BY <2>1 DEF CanonicalPrefix, completed
  <2> QED BY <2>1, <2>2 DEF Serial!SerialInit
<1>2. IInv /\ IInv' /\ [Next]_vars => [Serial!SerialNext]_(Serial!serialVars)
  <2> SUFFICES ASSUME IInv, IInv', [Next]_vars
               PROVE  [Serial!SerialNext]_(Serial!serialVars)
    OBVIOUS
  <2>1. CASE \E i \in DOMAIN txn : commit(i)
    BY <2>1, CommitRefines DEF Serial!SerialNext
  <2>2. CASE ~\E i \in DOMAIN txn : commit(i)
    BY <2>2, OtherRefines DEF Serial!SerialNext, Serial!serialVars, SerialLog, SerialResult
  <2> QED BY <2>1, <2>2
<1> QED BY <1>1, <1>2, Invariance, PTL DEF Spec, Refines, Serial!SerialSpec
=============================================================================
