--------------------------- MODULE PoolAllocProofs ---------------------------
(***************************************************************************)
(* For every set of threads and every choice of the other constants: the   *)
(* spin lock of the pool allocator is a lock, so that what PoolAlloc's     *)
(* actions do to the pool they do one thread at a time, and the pool's     *)
(* accounts are exact.  Every slot in use is counted once, by the chunk it *)
(* lies in and in bytes_live, and a chunk is on one of the two lists at    *)
(* most, once.                                                             *)
(***************************************************************************)
EXTENDS PoolAlloc, FiniteSetTheorems, TLAPS

(* call maps every thread to the call it executes.                         *)
CallShape == call = [t \in Threads |-> call[t]]

LockInv == CallShape /\ LockOwner

(* One thread moves to another label, and the lock with it.                *)
Moves(t, from, to) ==
  /\ CallShape'
  /\ \A u \in Threads \ {t} : call'[u] = call[u]
  /\ call[t].at \in from /\ call'[t].at \in to

Labels == {"idle", "aborted", "alloc_lock", "dealloc", "dealloc_lock"}

(* Outside the lock, entering it, under it and leaving it: what each kind  *)
(* of step does to the lock keeps the invariant.                           *)
LEMMA Moved ==
  ASSUME LockInv, NEW t \in Threads,
         \/ Moves(t, Labels, Labels) /\ locked' = locked
         \/ Moves(t, Labels, Critical) /\ locked = NoThread /\ locked' = t
         \/ Moves(t, Critical, Critical) /\ locked' = locked
         \/ Moves(t, Critical, Labels) /\ locked' = NoThread
  PROVE  LockInv'
<1>1. \A l \in Labels : l \notin Critical
  BY DEF Labels, Critical
<1> QED BY <1>1, PoolAssumption DEF LockInv, LockOwner, Moves, PoolAssumption

Dies == call' = Dead /\ locked' = NoThread

(* The end of the process frees the lock and every thread.                 *)
LEMMA Died ==
  ASSUME LockInv, Dies
  PROVE  LockInv'
BY PoolAssumption DEF LockInv, CallShape, LockOwner, Dies, Dead, Critical, PoolAssumption

(* Every call starts outside the lock: routing of alloc and realloc.       *)
LEMMA Routed ==
  ASSUME LockInv, NEW t \in Threads, NEW id, NEW op, NEW req,
         call[t] = Idle, Route(t, id, op, req)
  PROVE  LockInv'
<1>1. PICK c : call' = [call EXCEPT ![t] = c] /\ c.at \in Labels /\ locked' = locked
  <2>1. ASSUME NEW new, Deliver(t, id, op, new), locked' = locked
        PROVE  \E c : call' = [call EXCEPT ![t] = c] /\ c.at \in Labels /\ locked' = locked
    <3>1. PICK c : c = IF op = "realloc" THEN [at |-> "dealloc", old |-> buf[id]] ELSE Idle
      OBVIOUS
    <3>2. call' = [call EXCEPT ![t] = c]
      BY <2>1, <3>1 DEF Deliver
    <3>3. c.at \in Labels
      BY <3>1 DEF Labels, Idle
    <3> QED BY <2>1, <3>2, <3>3
  <2>2. ASSUME AllocPooled(t, id, op, req)
        PROVE  \E c : call' = [call EXCEPT ![t] = c] /\ c.at \in Labels /\ locked' = locked
    BY <2>2 DEF AllocPooled, Labels
  <2> QED BY <2>1, <2>2 DEF Route, AllocSystem, AllocGated
<1>2. CallShape /\ call[t].at \in Labels
  BY DEF LockInv, Labels, Idle
<1>3. Moves(t, Labels, Labels)
  BY <1>1, <1>2 DEF CallShape, Moves
<1> QED BY <1>1, <1>3, Moved

(* The steps under the lock keep it or, at the end of the call, free it.   *)
LEMMA LockedStep ==
  ASSUME LockInv, NEW t \in Threads, Locked(t)
  PROVE  LockInv'
<1>1. CASE AllocPick(t)
  <2>1. Moves(t, Critical, Critical) /\ locked' = locked
    BY <1>1 DEF LockInv, CallShape, Moves, Labels, Critical, AllocPick
  <2> QED BY <2>1, Moved
<1>2. CASE AllocReuse(t)
  <2>1. CASE chunk[call[t].c].page_nodes[PageOf(call[t].p)] = 0
    <3>1. Dies
      BY <1>2, <2>1 DEF AllocReuse, Dies, pool_fatal
    <3> QED BY <3>1, Died
  <2>2. CASE chunk[call[t].c].page_nodes[PageOf(call[t].p)] # 0
    <3>1. Serve(t) /\ call[t].at \in Critical
      BY <1>2, <2>2 DEF AllocReuse, Critical
    <3>2. Moves(t, Critical, Critical) /\ locked' = locked
      BY <3>1 DEF LockInv, CallShape, Moves, Critical, Serve
    <3> QED BY <3>2, Moved
  <2> QED BY <2>1, <2>2
<1>3. CASE AllocBump(t)
  <2>1. Moves(t, Critical, Critical) /\ locked' = locked
    BY <1>3 DEF LockInv, CallShape, Moves, Labels, Critical, AllocBump, Serve
  <2> QED BY <2>1, Moved
<1>4. CASE RecycleChunk(t) \/ new_chunk(t)
  <2>1. UNCHANGED <<call, locked>> \/ Dies
    BY <1>4 DEF RecycleChunk, new_chunk, Link, Dies, pool_fatal
  <2> QED BY <2>1, Died DEF LockInv, CallShape, LockOwner
<1>5. CASE AllocNull(t)
  <2>1. Moves(t, Critical, Critical) /\ locked' = locked
    BY <1>5 DEF LockInv, CallShape, Moves, Labels, Critical, AllocNull, NeedsChunk
  <2> QED BY <2>1, Moved
<1>6. CASE AllocReturn(t)
  <2>1. Moves(t, Critical, Labels) /\ locked' = NoThread
    BY SMTT(30), <1>6 DEF LockInv, CallShape, Moves, Labels, Critical, AllocReturn, Deliver, Idle
  <2> QED BY <2>1, Moved
<1>7. CASE DeallocSlot(t)
  <2>1. CASE SlotFault(call[t].old.c, call[t].old.p) # "none"
    <3>1. Dies
      BY <1>7, <2>1 DEF DeallocSlot, Dies, pool_fatal
    <3> QED BY <3>1, Died
  <2>2. CASE SlotFault(call[t].old.c, call[t].old.p) = "none"
    <3>1. Moves(t, Critical, Critical) /\ locked' = locked
      BY <1>7, <2>2 DEF LockInv, CallShape, Moves, Critical, DeallocSlot
    <3> QED BY <3>1, Moved
  <2> QED BY <2>1, <2>2
<1>8. CASE PushNode(t)
  <2>1. CASE PushFault(call[t].old.c, call[t].old.p, CapOf(call[t].old.c, call[t].old.p))
             # "none"
    <3>1. Dies
      BY <1>8, <2>1 DEF PushNode, Dies, pool_fatal
    <3> QED BY <3>1, Died
  <2>2. CASE PushFault(call[t].old.c, call[t].old.p, CapOf(call[t].old.c, call[t].old.p))
             = "none"
    <3>1. Freed(t) /\ call[t].at \in Critical
      BY <1>8, <2>2 DEF PushNode, Critical
    <3>2. Moves(t, Critical, Critical) /\ locked' = locked
      BY <3>1 DEF LockInv, CallShape, Moves, Critical, Freed
    <3> QED BY <3>2, Moved
  <2> QED BY <2>1, <2>2
<1>9. CASE ReleaseSlot(t)
  <2>1. Moves(t, Critical, Critical) /\ locked' = locked
    BY <1>9 DEF LockInv, CallShape, Moves, Labels, Critical, ReleaseSlot, Freed
  <2> QED BY <2>1, Moved
<1>10. CASE drop_chunk(t)
  <2>1. CASE \E i \in DOMAIN free_chunks : free_chunks[i] = call[t].c
    <3>1. Dies
      BY <1>10, <2>1 DEF drop_chunk, Dies, pool_fatal
    <3> QED BY <3>1, Died
  <2>2. CASE ~\E i \in DOMAIN free_chunks : free_chunks[i] = call[t].c
    <3>1. Moves(t, Critical, Critical) /\ locked' = locked
      BY <1>10, <2>2 DEF LockInv, CallShape, Moves, Critical, drop_chunk
    <3> QED BY <3>1, Moved
  <2> QED BY <2>1, <2>2
<1>11. CASE maybe_sweep(t)
  <2>1. Moves(t, Critical, Critical) /\ locked' = locked
    BY <1>11 DEF LockInv, CallShape, Moves, Labels, Critical, maybe_sweep
  <2> QED BY <2>1, Moved
<1>12. CASE DeallocGated(t)
  <2>1. CASE call[t].old.org = "gated"
    <3>1. Moves(t, Critical, Critical) /\ locked' = locked
      BY <1>12, <2>1 DEF LockInv, CallShape, Moves, Critical, DeallocGated
    <3> QED BY <3>1, Moved
  <2>2. CASE call[t].old.org # "gated"
    <3>1. Dies
      BY <1>12, <2>2 DEF DeallocGated, Dies, pool_fatal
    <3> QED BY <3>1, Died
  <2> QED BY <2>1, <2>2
<1>13. CASE unlock(t)
  <2>1. Moves(t, Critical, Labels) /\ locked' = NoThread
    BY <1>13 DEF LockInv, CallShape, Moves, Labels, Critical, unlock, Idle
  <2> QED BY <2>1, Moved
<1> QED
  BY <1>1, <1>2, <1>3, <1>4, <1>5, <1>6, <1>7, <1>8, <1>9, <1>10, <1>11, <1>12, <1>13
  DEF Locked

(* The lock invariant is inductive.                                        *)
LEMMA LockStep ==
  ASSUME LockInv, [Next]_vars
  PROVE  LockInv'
<1>u. CASE UNCHANGED <<call, locked>>
  BY <1>u DEF LockInv, CallShape, LockOwner
<1>1. CASE \/ \E m \in FreeModes : set_free_mode(m)
           \/ \E on \in PoolingModes : set_pooling(on)
           \/ \E on \in BOOLEAN : set_pass_through(on)
  BY <1>1, <1>u DEF set_free_mode, set_pooling, set_pass_through
<1>2. ASSUME NEW t \in Threads, alloc(t) \/ realloc(t) PROVE LockInv'
  <2>1. call[t] = Idle /\ \E id \in Ids, r \in Requests, op \in {"alloc", "realloc"} :
                              Route(t, id, op, r)
    BY <1>2 DEF alloc, realloc
  <2> QED BY <2>1, Routed
<1>3. ASSUME NEW t \in Threads, dealloc(t) \/ DeallocPooled(t) PROVE LockInv'
  <2>1. Moves(t, Labels, Labels) /\ locked' = locked
    BY <1>3 DEF LockInv, CallShape, Moves, Labels, dealloc, DeallocPooled, Idle
  <2> QED BY <2>1, Moved
<1>4. ASSUME NEW t \in Threads, DeallocSystem(t) PROVE LockInv'
  <2>1. CASE call[t].old.org = "system"
    <3>1. Moves(t, Labels, Labels) /\ locked' = locked
      BY <1>4, <2>1 DEF LockInv, CallShape, Moves, Labels, DeallocSystem, Idle
    <3> QED BY <3>1, Moved
  <2>2. CASE call[t].old.org # "system"
    <3>1. Dies
      BY <1>4, <2>2 DEF DeallocSystem, Dies, pool_fatal
    <3> QED BY <3>1, Died
  <2> QED BY <2>1, <2>2
<1>5. ASSUME NEW t \in Threads, lock(t) PROVE LockInv'
  <2>1. Moves(t, Labels, Critical) /\ locked = NoThread /\ locked' = t
    BY <1>5 DEF LockInv, CallShape, Moves, Labels, Critical, lock
  <2> QED BY <2>1, Moved
<1> QED
  BY <1>u, <1>1, <1>2, <1>3, <1>4, <1>5, LockedStep DEF Next, vars

(* Mutual exclusion: in every reachable state, whatever the threads, the   *)
(* requests and the layout of the chunks, only the thread that won the     *)
(* compare-exchange in lock is between lock and unlock.                    *)
THEOREM MutualExclusion == Spec => []LockOwner
<1>1. Init => LockInv
  BY PoolAssumption DEF Init, LockInv, CallShape, LockOwner, Idle, Critical, PoolAssumption
<1>2. LockInv /\ [Next]_vars => LockInv'
  BY LockStep
<1>3. LockInv => LockOwner
  BY DEF LockInv
<1> QED BY <1>1, <1>2, <1>3, PTL DEF Spec

-----------------------------------------------------------------------------
(* Sums over finite sets.  An integer that 0 reaches: UpTo of FoldTheorems. *)

Plus(a, b) == a + b
Nums == INSTANCE FoldTheorems WITH op <- Plus

(* Subsets of a finite set, with one member less.                          *)
LEMMA OneLess ==
  ASSUME NEW S, IsFiniteSet(S), NEW n \in Nat
  PROVE  /\ \A s \in SUBSET S : IsFiniteSet(s) /\ Cardinality(s) \in Nat /\ Cardinality(s) <= Cardinality(S)
         /\ \A s \in SUBSET S : Cardinality(s) <= 0 => s = {}
         /\ \A s \in SUBSET S : Cardinality(s) <= n + 1 =>
              \A x \in s : s \ {x} \in SUBSET S /\ Cardinality(s \ {x}) <= n
<1>1. \A s \in SUBSET S : IsFiniteSet(s) /\ Cardinality(s) \in Nat /\ Cardinality(s) <= Cardinality(S)
  BY FS_Subset, FS_CardinalityType
<1>2. \A s \in SUBSET S : Cardinality(s) <= 0 => s = {}
  BY <1>1, FS_EmptySet
<1>3. ASSUME NEW s \in SUBSET S, Cardinality(s) <= n + 1, NEW x \in s
      PROVE  Cardinality(s \ {x}) <= n
  <2>1. IsFiniteSet(s) /\ Cardinality(s) \in Nat
    BY <1>1
  <2>2. Cardinality(s \ {x}) = Cardinality(s) - 1
    BY <2>1, FS_RemoveElement
  <2> QED BY <1>3, <2>1, <2>2
<1> QED BY <1>1, <1>2, <1>3

(* The member of a set that is added next.                                 *)
NextOf(s) == CHOOSE x \in s : TRUE

(* The sum of f over a finite set, as MapThenSumSet computes it.           *)
Sums(f, S) ==
  CHOOSE g : g = [s \in SUBSET S |-> IF s = {} THEN 0 ELSE f[NextOf(s)] + g[s \ {NextOf(s)}]]
Total(f, S) == Sums(f, S)[S]

(* There are such sums.                                                    *)
LEMMA SumsAre ==
  ASSUME NEW S, IsFiniteSet(S), NEW f
  PROVE  \A s \in SUBSET S :
           Sums(f, S)[s] = IF s = {} THEN 0 ELSE f[NextOf(s)] + Sums(f, S)[s \ {NextOf(s)}]
<1> DEFINE Body(g, s) == IF s = {} THEN 0 ELSE f[NextOf(s)] + g[s \ {NextOf(s)}]
           Good(n) == \E g : g = [s \in SUBSET S |-> g[s]] /\ \A s \in SUBSET S : Cardinality(s) <= n => g[s] = Body(g, s)
<1>1. \A s \in SUBSET S : IsFiniteSet(s) /\ Cardinality(s) \in Nat /\ Cardinality(s) <= Cardinality(S)
  BY FS_Subset, FS_CardinalityType
<1>2. PICK N \in Nat : N = Cardinality(S)
  BY FS_CardinalityType
<1>3. Good(N)
  <2> DEFINE T == {n \in 0 .. N : Good(n)}
  <2>1. 0 \in T
    <3>1. PICK g : g = [s \in SUBSET S |-> 0]
      OBVIOUS
    <3>2. \A s \in SUBSET S : Cardinality(s) <= 0 => s = {}
      BY <1>1, FS_EmptySet
    <3>3. g = [s \in SUBSET S |-> g[s]] /\ \A s \in SUBSET S : Cardinality(s) <= 0 => g[s] = Body(g, s)
      BY <3>1, <3>2
    <3>4. Good(0)
      BY <3>3
    <3> HIDE DEF Good
    <3> QED BY <3>4
  <2>2. ASSUME NEW n \in 0 .. N - 1, n \in T PROVE n + 1 \in T
    <3>1. PICK g : g = [s \in SUBSET S |-> g[s]] /\ \A s \in SUBSET S : Cardinality(s) <= n => g[s] = Body(g, s)
      BY <2>2
    <3>2. PICK h : h = [s \in SUBSET S |-> Body(g, s)]
      OBVIOUS
    <3>3. \A s \in SUBSET S : Cardinality(s) <= n => h[s] = g[s]
      BY <3>1, <3>2
    <3>4. ASSUME NEW s \in SUBSET S, Cardinality(s) <= n + 1 PROVE h[s] = Body(h, s)
      <4>1. CASE s = {}
        BY <3>2, <4>1
      <4>2. CASE s # {}
        <5>1. PICK x \in s : x = NextOf(s)
          BY <4>2 DEF NextOf
        <5>2. s \ {x} \in SUBSET S /\ Cardinality(s \ {x}) <= n
          BY <3>4, OneLess
        <5>3. h[s \ {x}] = g[s \ {x}]
          BY <3>3, <5>2
        <5> QED BY <3>2, <4>2, <5>1, <5>3
      <4> QED BY <4>1, <4>2
    <3>5. h = [s \in SUBSET S |-> h[s]]
      BY <3>2
    <3> HIDE DEF Body
    <3>6. Good(n + 1)
      BY <3>4, <3>5
    <3> HIDE DEF Good
    <3> QED BY <3>6
  <2> HIDE DEF T
  <2>3. \A k \in 0 .. N - 1 : k \in T => k + 1 \in T
    BY <2>2
  <2>4. \A k \in 0 .. N : k \in T
    BY <2>1, <2>3, Nums!UpTo, Zenon
  <2>5. N \in T
    BY <2>4
  <2> QED BY <2>5 DEF T
<1>4. PICK g : g = [s \in SUBSET S |-> g[s]] /\ \A s \in SUBSET S : Cardinality(s) <= N => g[s] = Body(g, s)
  BY <1>3
<1>5. g = [s \in SUBSET S |-> Body(g, s)]
  <2> HIDE DEF Body
  <2>1. \A s \in SUBSET S : g[s] = Body(g, s)
    BY <1>1, <1>2, <1>4
  <2> QED BY <1>4, <2>1
<1>6. PICK h : h = Sums(f, S)
  OBVIOUS
<1>7. h = [s \in SUBSET S |-> Body(h, s)]
  BY <1>5, <1>6 DEF Sums
<1>8. \A s \in SUBSET S : h[s] = Body(h, s)
  <2> HIDE DEF Body
  <2> QED BY <1>7
<1> QED BY <1>6, <1>8

(* Sums over the subsets of finite sets depend on the values only.         *)
LEMMA SumsAgree ==
  ASSUME NEW F, IsFiniteSet(F), NEW S \in SUBSET F, NEW f, NEW g, \A x \in S : f[x] = g[x]
  PROVE  \A s \in SUBSET S : Sums(f, S)[s] = Sums(g, F)[s]
<1>1. \A s \in SUBSET S : IsFiniteSet(s) /\ Cardinality(s) \in Nat /\ Cardinality(s) <= Cardinality(S)
  BY FS_Subset, FS_CardinalityType
<1>2. PICK N \in Nat : N = Cardinality(S)
  BY <1>1
<1>3. PICK a, b : a = Sums(f, S) /\ b = Sums(g, F)
  OBVIOUS
<1>4. \A s \in SUBSET S : a[s] = IF s = {} THEN 0 ELSE f[NextOf(s)] + a[s \ {NextOf(s)}]
  BY <1>1, <1>3, SumsAre
<1>5. \A s \in SUBSET S : b[s] = IF s = {} THEN 0 ELSE g[NextOf(s)] + b[s \ {NextOf(s)}]
  <2>1. \A s \in SUBSET F : b[s] = IF s = {} THEN 0 ELSE g[NextOf(s)] + b[s \ {NextOf(s)}]
    BY <1>3, SumsAre
  <2>2. \A s \in SUBSET S : s \in SUBSET F
    OBVIOUS
  <2> QED BY <2>1, <2>2
<1> DEFINE T == {n \in 0 .. N : \A s \in SUBSET S : Cardinality(s) <= n => a[s] = b[s]}
<1>6. 0 \in T
  <2>1. \A s \in SUBSET S : Cardinality(s) <= 0 => s = {}
    BY <1>1, FS_EmptySet
  <2>2. a[{}] = 0 /\ b[{}] = 0
    BY <1>4, <1>5
  <2> QED BY <2>1, <2>2
<1>7. ASSUME NEW n \in 0 .. N - 1, n \in T PROVE n + 1 \in T
  <2>1. ASSUME NEW s \in SUBSET S, Cardinality(s) <= n + 1 PROVE a[s] = b[s]
    <3>1. CASE s = {}
      BY <1>4, <1>5, <3>1
    <3>2. CASE s # {}
      <4>1. PICK x \in s : x = NextOf(s)
        BY <3>2 DEF NextOf
      <4>2. s \ {x} \in SUBSET S /\ Cardinality(s \ {x}) <= n
        BY <2>1, OneLess
      <4>3. a[s \ {x}] = b[s \ {x}] /\ f[x] = g[x]
        BY <1>7, <4>2
      <4>4. a[s] = f[x] + a[s \ {x}] /\ b[s] = g[x] + b[s \ {x}]
        BY <1>4, <1>5, <3>2, <4>1
      <4> QED BY <4>3, <4>4
    <3> QED BY <3>1, <3>2
  <2> QED BY <2>1
<1> HIDE DEF T
<1>8. \A k \in 0 .. N - 1 : k \in T => k + 1 \in T
  BY <1>7
<1>9. \A k \in 0 .. N : k \in T
  BY <1>6, <1>8, Nums!UpTo, Zenon
<1>10. N \in T
  BY <1>9
<1> QED BY <1>1, <1>2, <1>3, <1>10 DEF T

(* A sum is that of a member and of the rest.                              *)
LEMMA TotalSplit ==
  ASSUME NEW S, IsFiniteSet(S), NEW f, \A x \in S : f[x] \in Nat
  PROVE  /\ Total(f, {}) = 0
         /\ Total(f, S) \in Nat
         /\ \A x \in S : Total(f, S) = f[x] + Total(f, S \ {x})
<1>1. \A s \in SUBSET S : IsFiniteSet(s) /\ Cardinality(s) \in Nat /\ Cardinality(s) <= Cardinality(S)
  BY FS_Subset, FS_CardinalityType
<1>2. PICK N \in Nat : N = Cardinality(S)
  BY <1>1
<1>3. PICK a : a = Sums(f, S)
  OBVIOUS
<1>4. \A s \in SUBSET S : a[s] = IF s = {} THEN 0 ELSE f[NextOf(s)] + a[s \ {NextOf(s)}]
  BY <1>3, SumsAre
<1>5. \A s \in SUBSET S : a[s] = Total(f, s)
  <2>1. ASSUME NEW s \in SUBSET S PROVE Sums(f, s)[s] = a[s]
    <3>1. PICK g : g = f
      OBVIOUS
    <3>2. \A x \in s : f[x] = g[x]
      BY <3>1
    <3>3. \A r \in SUBSET s : Sums(f, s)[r] = Sums(g, S)[r]
      BY <3>2, SumsAgree
    <3>4. s \in SUBSET s
      OBVIOUS
    <3> QED BY <1>3, <3>1, <3>3, <3>4
  <2> QED BY <2>1 DEF Total
<1> DEFINE T == {n \in 0 .. N : \A s \in SUBSET S : Cardinality(s) <= n =>
                     a[s] \in Nat /\ \A x \in s : a[s] = f[x] + a[s \ {x}]}
<1>6. 0 \in T
  <2>1. \A s \in SUBSET S : Cardinality(s) <= 0 => s = {}
    BY <1>1, FS_EmptySet
  <2>2. a[{}] = 0
    BY <1>4
  <2> QED BY <2>1, <2>2
<1>7. ASSUME NEW n \in 0 .. N - 1, n \in T PROVE n + 1 \in T
  <2>1. ASSUME NEW s \in SUBSET S, Cardinality(s) <= n + 1
        PROVE  a[s] \in Nat /\ \A x \in s : a[s] = f[x] + a[s \ {x}]
    <3>1. CASE s = {}
      <4>1. a[s] = 0
        BY <1>4, <3>1
      <4> QED BY <3>1, <4>1
    <3>2. CASE s # {}
      <4>1. PICK y \in s : y = NextOf(s)
        BY <3>2 DEF NextOf
      <4>2. \A x \in s : s \ {x} \in SUBSET S /\ Cardinality(s \ {x}) <= n
        BY <2>1, OneLess
      <4>3. a[s] = f[y] + a[s \ {y}] /\ a[s \ {y}] \in Nat /\ f[y] \in Nat
        BY <1>4, <1>7, <3>2, <4>1, <4>2
      <4>4. ASSUME NEW x \in s, x # y PROVE a[s] = f[x] + a[s \ {x}]
        <5>1. PICK t : t = (s \ {x}) \ {y}
          OBVIOUS
        <5>2. t = (s \ {y}) \ {x} /\ t \in SUBSET S
          BY <5>1
        <5>3. a[s \ {y}] = f[x] + a[t]
          BY <1>7, <4>2, <4>4, <5>2
        <5>4. a[s \ {x}] = f[y] + a[t]
          BY <1>7, <4>2, <4>4, <5>1
        <5>5. a[t] \in Nat
          <6>1. t \subseteq s \ {x}
            BY <5>1
          <6>2. Cardinality(t) <= Cardinality(s \ {x})
            BY <1>1, <4>2, <6>1, FS_Subset
          <6>3. Cardinality(t) <= n
            BY <1>1, <4>2, <5>2, <6>2
          <6> QED BY <1>7, <5>2, <6>3
        <5> QED BY <4>3, <5>3, <5>4, <5>5
      <4>5. a[s] \in Nat
        BY <4>3
      <4>6. \A x \in s : a[s] = f[x] + a[s \ {x}]
        BY <4>3, <4>4
      <4> QED BY <4>5, <4>6
    <3> QED BY <3>1, <3>2
  <2> QED BY <2>1
<1> HIDE DEF T
<1>8. \A k \in 0 .. N - 1 : k \in T => k + 1 \in T
  BY <1>7
<1>9. \A k \in 0 .. N : k \in T
  BY <1>6, <1>8, Nums!UpTo, Zenon
<1>10. N \in T
  BY <1>9
<1>11. a[S] \in Nat /\ \A x \in S : a[S] = f[x] + a[S \ {x}]
  BY <1>1, <1>2, <1>10 DEF T
<1>12. a[{}] = 0
  BY <1>4
<1> QED BY <1>5, <1>11, <1>12

-----------------------------------------------------------------------------
(* Slots in use, by who holds them: s maps holders to slots.               *)

In(s, c) == {h \in DOMAIN s : s[h].c = c}
Sizes(s) == [h \in DOMAIN s |-> s[h].size]
Sum(s) == Total(Sizes(s), DOMAIN s)

(* One more slot in use.                                                   *)
Finite(s) == IsFiniteSet(DOMAIN s) /\ \A h \in DOMAIN s : s[h].size \in Nat
Extra(s, z, x) ==
  /\ x \notin DOMAIN s /\ DOMAIN z = DOMAIN s \cup {x}
  /\ (\A h \in DOMAIN s : z[h] = s[h]) /\ z[x].size \in Nat

(* A slot that comes into use adds its size to the sum, and one to the     *)
(* count of its chunk.                                                     *)
LEMMA OneMore ==
  ASSUME NEW s, NEW z, NEW x, Finite(s), Extra(s, z, x)
  PROVE  /\ Finite(z) /\ Sum(z) = Sum(s) + z[x].size /\ Sum(s) \in Nat
         /\ \A c : /\ Cardinality(In(z, c)) = IF c = z[x].c THEN Cardinality(In(s, c)) + 1 ELSE Cardinality(In(s, c))
                   /\ Cardinality(In(s, c)) \in Nat
<1>0. /\ IsFiniteSet(DOMAIN s) /\ \A h \in DOMAIN s : s[h].size \in Nat
      /\ x \notin DOMAIN s /\ DOMAIN z = DOMAIN s \cup {x}
      /\ (\A h \in DOMAIN s : z[h] = s[h]) /\ z[x].size \in Nat
  BY DEF Finite, Extra
<1>1. IsFiniteSet(DOMAIN z) /\ \A h \in DOMAIN z : z[h].size \in Nat
  BY <1>0, FS_AddElement
<1>2. Sum(z) = Sum(s) + z[x].size /\ Sum(s) \in Nat
  <2>1. PICK f, g : f = Sizes(s) /\ g = Sizes(z)
    OBVIOUS
  <2>2. (\A h \in DOMAIN s : f[h] \in Nat /\ g[h] = f[h]) /\ (\A h \in DOMAIN z : g[h] \in Nat) /\ g[x] = z[x].size
    BY <1>0, <1>1, <2>1 DEF Sizes
  <2>3. Total(g, DOMAIN z) = g[x] + Total(g, DOMAIN z \ {x})
    BY <1>0, <1>1, <2>2, TotalSplit
  <2>4. DOMAIN z \ {x} = DOMAIN s
    BY <1>0
  <2>5. Total(g, DOMAIN s) = Total(f, DOMAIN s)
    <3>1. \A t \in SUBSET DOMAIN s : Sums(g, DOMAIN s)[t] = Sums(f, DOMAIN s)[t]
      BY <1>0, <2>2, SumsAgree
    <3> QED BY <3>1 DEF Total
  <2>6. Total(f, DOMAIN s) \in Nat
    BY <1>0, <2>2, TotalSplit
  <2> QED BY <1>0, <2>1, <2>2, <2>3, <2>4, <2>5, <2>6 DEF Sum
<1>3. ASSUME NEW c
      PROVE  /\ Cardinality(In(z, c)) = IF c = z[x].c THEN Cardinality(In(s, c)) + 1 ELSE Cardinality(In(s, c))
             /\ Cardinality(In(s, c)) \in Nat
  <2>1. IsFiniteSet(In(s, c))
    BY <1>0, FS_Subset DEF In
  <2>2. In(z, c) = IF c = z[x].c THEN In(s, c) \cup {x} ELSE In(s, c)
    BY <1>0 DEF In
  <2>3. x \notin In(s, c)
    BY <1>0 DEF In
  <2> QED BY <2>1, <2>2, <2>3, FS_AddElement, FS_CardinalityType
<1> QED BY <1>1, <1>2, <1>3 DEF Finite

Slots == [h \in HeldBy |-> SlotOf(h)]

(* The slots counted by ChunkAccounting.                                   *)
LEMMA SlotsCounted ==
  ASSUME IsFiniteSet(HeldBy)
  PROVE  /\ \A c : HeldIn(c) = In(Slots, c)
         /\ MapThenSumSet(LAMBDA h : SlotOf(h).size, HeldBy) = Sum(Slots)
<1>1. \A c : HeldIn(c) = In(Slots, c)
  BY DEF HeldIn, In, Slots
<1>2. MapThenSumSet(LAMBDA h : SlotOf(h).size, HeldBy) = Sum(Slots)
  <2>1. PICK H : H = HeldBy
    OBVIOUS
  <2>2. PICK f : f = [h \in H |-> SlotOf(h).size]
    OBVIOUS
  <2>3. Sum(Slots) = Total(f, H)
    BY <2>1, <2>2 DEF Sum, Sizes, Slots
  <2> DEFINE Step(g, s) == IF s = {} THEN 0 ELSE f[NextOf(s)] + g[s \ {NextOf(s)}]
             Fold(g, s) == IF s = {} THEN 0 ELSE SlotOf(NextOf(s)).size + g[s \ {NextOf(s)}]
  <2>4. \A g : [s \in SUBSET H |-> Step(g, s)] = [s \in SUBSET H |-> Fold(g, s)]
    <3>1. ASSUME NEW g, NEW s \in SUBSET H PROVE Step(g, s) = Fold(g, s)
      <4>1. CASE s # {}
        <5>1. NextOf(s) \in H
          BY <4>1 DEF NextOf
        <5> QED BY <2>2, <5>1
      <4> QED BY <4>1
    <3> HIDE DEF Step, Fold
    <3> QED BY <3>1
  <2>5. Sums(f, H) = CHOOSE g : g = [s \in SUBSET H |-> Fold(g, s)]
    <3> HIDE DEF Step, Fold
    <3>1. Sums(f, H) = CHOOSE g : g = [s \in SUBSET H |-> Step(g, s)]
      BY Zenon DEF Sums, Step
    <3>2. \A g : (g = [s \in SUBSET H |-> Step(g, s)]) <=> (g = [s \in SUBSET H |-> Fold(g, s)])
      BY <2>4
    <3> QED BY <3>1, <3>2, Zenon
  <2>6. MapThenSumSet(LAMBDA h : SlotOf(h).size, H) = (CHOOSE g : g = [s \in SUBSET H |-> Fold(g, s)])[H]
    BY Zenon DEF MapThenSumSet, MapThenFoldSet, NextOf
  <2> QED BY <2>1, <2>3, <2>5, <2>6 DEF Total
<1> QED BY <1>1, <1>2

(* A slot that passes from holder x to holder y stays counted.             *)
Alike(s, z) ==
  /\ Finite(z) /\ Sum(z) = Sum(s)
  /\ \A c : Cardinality(In(z, c)) = Cardinality(In(s, c))

(* Only who holds the slot has changed.                                    *)
LEMMA OneMoved ==
  ASSUME NEW s, NEW z, Finite(s), NEW x, x \in DOMAIN s, NEW y, y \notin DOMAIN s,
         DOMAIN z = (DOMAIN s \ {x}) \cup {y}, \A h \in DOMAIN s \ {x} : z[h] = s[h], z[y] = s[x]
  PROVE  Alike(s, z)
<1>1. PICK r, p : r = [h \in DOMAIN s \ {x} |-> s[h]] /\ p = s[x]
  OBVIOUS
<1>2. p.size \in Nat /\ s[x] = p /\ z[y] = p
  BY <1>1 DEF Finite
<1>3. Finite(r)
  BY <1>1, FS_Subset DEF Finite
<1>4. Extra(r, s, x)
  BY <1>1, <1>2 DEF Extra
<1>5. Extra(r, z, y)
  BY <1>1, <1>2 DEF Extra
<1>6. /\ Sum(s) = Sum(r) + p.size
      /\ \A c : Cardinality(In(s, c)) = IF c = p.c THEN Cardinality(In(r, c)) + 1 ELSE Cardinality(In(r, c))
  <2>1. /\ Sum(s) = Sum(r) + s[x].size
        /\ \A c : Cardinality(In(s, c)) = IF c = s[x].c THEN Cardinality(In(r, c)) + 1 ELSE Cardinality(In(r, c))
    BY <1>3, <1>4, OneMore
  <2> QED BY <1>2, <2>1
<1>7. /\ Finite(z) /\ Sum(z) = Sum(r) + p.size
      /\ \A c : Cardinality(In(z, c)) = IF c = p.c THEN Cardinality(In(r, c)) + 1 ELSE Cardinality(In(r, c))
  <2>1. /\ Finite(z) /\ Sum(z) = Sum(r) + z[y].size
        /\ \A c : Cardinality(In(z, c)) = IF c = z[y].c THEN Cardinality(In(r, c)) + 1 ELSE Cardinality(In(r, c))
    BY <1>3, <1>5, OneMore
  <2> QED BY <1>2, <2>1
<1> QED BY <1>6, <1>7 DEF Alike

-----------------------------------------------------------------------------
(* The live list and the recycle stack as sets of chunks.                  *)

(* What pushing a new element does to a list without repetitions.          *)
LEMMA Pushed ==
  ASSUME NEW S, NEW s \in Seq(S), IsInjective(s), NEW c \in S, c \notin ToSet(s)
  PROVE  /\ <<c>> \o s \in Seq(S) /\ IsInjective(<<c>> \o s) /\ ToSet(<<c>> \o s) = ToSet(s) \cup {c}
         /\ 1 \in DOMAIN (<<c>> \o s) /\ (<<c>> \o s)[1] = c
<1>1. PICK t : t = <<c>> \o s
  OBVIOUS
<1>2. /\ t \in Seq(S) /\ Len(t) = Len(s) + 1 /\ t[1] = c /\ \A i \in 1 .. Len(s) : t[i + 1] = s[i]
      /\ DOMAIN t = 1 .. Len(t) /\ DOMAIN s = 1 .. Len(s) /\ Len(s) \in Nat
  BY <1>1
<1>3. \A i \in 2 .. Len(t) : i - 1 \in 1 .. Len(s) /\ t[i] = s[i - 1]
  <2>1. ASSUME NEW i \in 2 .. Len(t) PROVE i - 1 \in 1 .. Len(s) /\ t[i] = s[i - 1]
    <3>1. i - 1 \in 1 .. Len(s) /\ (i - 1) + 1 = i
      BY <1>2
    <3> QED BY <1>2, <3>1
  <2> QED BY <2>1
<1>4. IsInjective(t)
  <2>1. ASSUME NEW i \in DOMAIN t, NEW j \in DOMAIN t, t[i] = t[j] PROVE i = j
    <3>1. CASE i = 1 /\ j # 1
      <4>1. t[j] \in ToSet(s)
        BY <1>2, <1>3, <3>1 DEF ToSet
      <4> QED BY <1>2, <2>1, <3>1, <4>1
    <3>2. CASE i # 1 /\ j = 1
      <4>1. t[i] \in ToSet(s)
        BY <1>2, <1>3, <3>2 DEF ToSet
      <4> QED BY <1>2, <2>1, <3>2, <4>1
    <3>3. CASE i # 1 /\ j # 1
      <4>1. i \in 2 .. Len(t) /\ j \in 2 .. Len(t)
        BY <1>2, <3>3
      <4>2. i - 1 \in DOMAIN s /\ j - 1 \in DOMAIN s /\ s[i - 1] = s[j - 1]
        BY <1>2, <1>3, <2>1, <4>1
      <4>3. i - 1 = j - 1
        BY <4>2 DEF IsInjective
      <4> QED BY <4>1, <4>3
    <3> QED BY <3>1, <3>2, <3>3
  <2> QED BY <2>1 DEF IsInjective
<1>5. ToSet(t) = ToSet(s) \cup {c}
  <2>1. ASSUME NEW i \in DOMAIN t PROVE t[i] \in ToSet(s) \cup {c}
    <3>1. CASE i = 1
      BY <1>2, <3>1
    <3>2. CASE i # 1
      <4>1. i \in 2 .. Len(t)
        BY <1>2, <3>2
      <4> QED BY <1>2, <1>3, <4>1 DEF ToSet
    <3> QED BY <3>1, <3>2
  <2>2. ASSUME NEW i \in DOMAIN s PROVE s[i] \in ToSet(t)
    <3>1. i + 1 \in DOMAIN t /\ t[i + 1] = s[i]
      BY <1>2
    <3> QED BY <3>1 DEF ToSet
  <2>3. c \in ToSet(t)
    BY <1>2 DEF ToSet
  <2> QED BY <2>1, <2>2, <2>3 DEF ToSet
<1> QED BY <1>1, <1>2, <1>4, <1>5

(* What popping the first element does to it.                              *)
LEMMA Popped ==
  ASSUME NEW S, NEW s \in Seq(S), IsInjective(s), s # << >>
  PROVE  /\ Head(s) \in ToSet(s) /\ Head(s) \in S /\ Tail(s) \in Seq(S) /\ IsInjective(Tail(s))
         /\ ToSet(Tail(s)) = ToSet(s) \ {Head(s)}
<1>1. PICK t : t = Tail(s)
  OBVIOUS
<1>2. /\ t \in Seq(S) /\ Len(t) = Len(s) - 1 /\ \A i \in 1 .. Len(t) : t[i] = s[i + 1]
      /\ DOMAIN t = 1 .. Len(t) /\ DOMAIN s = 1 .. Len(s) /\ Len(t) \in Nat /\ Len(s) \in Nat
      /\ Head(s) = s[1] /\ 1 \in DOMAIN s
  BY <1>1
<1>3. \A i \in 1 .. Len(t) : i + 1 \in DOMAIN s /\ i + 1 # 1
  BY <1>2
<1>4. IsInjective(t)
  <2>1. ASSUME NEW i \in DOMAIN t, NEW j \in DOMAIN t, t[i] = t[j] PROVE i = j
    <3>1. i + 1 = j + 1
      BY <1>2, <1>3, <2>1 DEF IsInjective
    <3> QED BY <1>2, <3>1
  <2> QED BY <2>1 DEF IsInjective
<1>5. ToSet(t) = ToSet(s) \ {s[1]}
  <2>1. ASSUME NEW i \in DOMAIN t PROVE t[i] \in ToSet(s) \ {s[1]}
    BY <1>2, <1>3 DEF ToSet, IsInjective
  <2>2. ASSUME NEW i \in DOMAIN s, s[i] # s[1] PROVE s[i] \in ToSet(t)
    <3>1. i - 1 \in DOMAIN t /\ (i - 1) + 1 = i
      BY <1>2, <2>2
    <3>2. t[i - 1] = s[i]
      BY <1>2, <3>1
    <3> QED BY <3>1, <3>2 DEF ToSet
  <2> QED BY <2>1, <2>2 DEF ToSet
<1>6. s[1] \in ToSet(s) /\ s[1] \in S
  BY <1>2 DEF ToSet
<1> QED BY <1>1, <1>2, <1>4, <1>5, <1>6

(* What unlinking an element does to it.                                   *)
LEMMA Removed ==
  ASSUME NEW S, NEW s \in Seq(S), IsInjective(s), NEW c, c \in ToSet(s)
  PROVE  /\ RemoveFirst(s, c) \in Seq(S) /\ IsInjective(RemoveFirst(s, c))
         /\ ToSet(RemoveFirst(s, c)) = ToSet(s) \ {c}
<1>1. PICK k \in 1 .. Len(s) : s[k] = c
  BY DEF ToSet
<1>2. RemoveFirst(s, c) = SubSeq(s, 1, k - 1) \o SubSeq(s, k + 1, Len(s))
  <2>1. {i \in 1 .. Len(s) : s[i] = c} = {k}
    BY <1>1 DEF IsInjective
  <2>2. Min({k}) = k
    BY DEF Min
  <2>3. SelectInSeq(s, LAMBDA v : v = c) = k
    BY <2>1, <2>2 DEF SelectInSeq
  <2> QED BY <1>1, <2>3 DEF RemoveFirst, RemoveAt
<1>3. PICK t : t = RemoveFirst(s, c)
  OBVIOUS
<1>4. PICK l, r : l = SubSeq(s, 1, k - 1) /\ r = SubSeq(s, k + 1, Len(s))
  OBVIOUS
<1>5. /\ l \in Seq(S) /\ Len(l) = k - 1 /\ \A i \in 1 .. k - 1 : l[i] = s[i]
  BY <1>4
<1>6. /\ r \in Seq(S) /\ Len(r) = Len(s) - k /\ \A i \in 1 .. Len(s) - k : r[i] = s[k + i]
  BY <1>4
<1>7. t \in Seq(S) /\ Len(t) = Len(s) - 1 /\ DOMAIN t = 1 .. Len(s) - 1 /\ t = l \o r
  <2>1. t = l \o r
    BY <1>2, <1>3, <1>4
  <2>2. l \o r \in Seq(S) /\ Len(l \o r) = Len(l) + Len(r)
    <3>1. l \in Seq(S) /\ r \in Seq(S)
      BY <1>5, <1>6
    <3> QED BY <3>1
  <2> QED BY <1>5, <1>6, <2>1, <2>2
<1>8. \A i \in 1 .. Len(s) - 1 : t[i] = IF i < k THEN s[i] ELSE s[i + 1]
  <2>1. ASSUME NEW i \in 1 .. Len(s) - 1 PROVE t[i] = IF i < k THEN s[i] ELSE s[i + 1]
    <3>1. CASE i < k
      BY <1>5, <1>6, <1>7, <3>1
    <3>2. CASE ~(i < k)
      <4>1. t[i] = r[i - (k - 1)]
        BY <1>5, <1>6, <1>7, <3>2
      <4>2. i - (k - 1) \in 1 .. Len(s) - k /\ k + (i - (k - 1)) = i + 1
        BY <3>2
      <4>3. r[i - (k - 1)] = s[k + (i - (k - 1))]
        BY <1>6, <4>2
      <4> QED BY <3>2, <4>1, <4>2, <4>3
    <3> QED BY <3>1, <3>2
  <2> QED BY <2>1
<1>9. IsInjective(t)
  <2>1. ASSUME NEW i \in DOMAIN t, NEW j \in DOMAIN t, t[i] = t[j] PROVE i = j
    <3>1. PICK a, b : a = (IF i < k THEN i ELSE i + 1) /\ b = (IF j < k THEN j ELSE j + 1)
      OBVIOUS
    <3>2. a \in 1 .. Len(s) /\ b \in 1 .. Len(s)
      BY <1>7, <3>1
    <3>3. t[i] = s[a] /\ t[j] = s[b]
      BY <1>7, <1>8, <3>1
    <3>4. a \in DOMAIN s /\ b \in DOMAIN s /\ s[a] = s[b]
      <4>1. DOMAIN s = 1 .. Len(s)
        OBVIOUS
      <4>2. s[a] = s[b]
        BY <2>1, <3>3, Zenon
      <4> QED BY <3>2, <4>1, <4>2, Zenon
    <3>5. a = b
      BY <3>4 DEF IsInjective
    <3> QED BY <1>7, <3>1, <3>5
  <2> QED BY <2>1 DEF IsInjective
<1>10. ToSet(t) = ToSet(s) \ {c}
  <2>1. ASSUME NEW i \in DOMAIN t PROVE t[i] \in ToSet(s) \ {c}
    <3>1. PICK a : a = (IF i < k THEN i ELSE i + 1)
      OBVIOUS
    <3>2. a \in 1 .. Len(s) /\ a # k
      BY <1>7, <3>1
    <3>3. t[i] = s[a]
      BY <1>7, <1>8, <3>1
    <3> QED BY <1>1, <3>2, <3>3 DEF ToSet, IsInjective
  <2>2. ASSUME NEW i \in DOMAIN s, s[i] # c PROVE s[i] \in ToSet(t)
    <3>1. PICK a : a = (IF i < k THEN i ELSE i - 1)
      OBVIOUS
    <3>2. i # k /\ i \in 1 .. Len(s)
      BY <1>1, <2>2
    <3>3. a \in 1 .. Len(s) - 1
      BY <3>1, <3>2
    <3>4. t[a] = s[i]
      BY <1>8, <3>1, <3>2, <3>3
    <3> QED BY <1>7, <3>3, <3>4 DEF ToSet
  <2> QED BY <2>1, <2>2 DEF ToSet
<1> QED BY <1>3, <1>7, <1>9, <1>10

-----------------------------------------------------------------------------
(* Who holds a slot, case by case.                                         *)

Owing == {"dealloc", "dealloc_lock", "dealloc_locked"}
ResAt(t) == call[t].at = "alloc_unlock" /\ call[t].res.org = "pool"
OldAt(t) == call[t].at \in Owing /\ call[t].old.org = "pool"
InBuf(id) == id \in Ids /\ buf[id].org = "pool"

(* The slots in use are those of the buffers, of the calls that have been  *)
(* served and of the calls that owe a free.                                *)
LEMMA Holders ==
  /\ \A id : (<<"buf", id>> \in HeldBy <=> InBuf(id)) /\ SlotOf(<<"buf", id>>) = buf[id]
  /\ \A t \in Threads : /\ <<"res", t>> \in HeldBy <=> ResAt(t)
                        /\ <<"old", t>> \in HeldBy <=> OldAt(t)
                        /\ SlotOf(<<"res", t>>) = call[t].res /\ SlotOf(<<"old", t>>) = call[t].old
  /\ \A h \in HeldBy : \/ \E id \in Ids : h = <<"buf", id>>
                       \/ \E t \in Threads : h = <<"res", t>> \/ h = <<"old", t>>
<1>1. \A id : SlotOf(<<"buf", id>>) = buf[id]
  BY DEF SlotOf
<1>2. \A t : SlotOf(<<"res", t>>) = call[t].res /\ SlotOf(<<"old", t>>) = call[t].old
  BY DEF SlotOf
<1>3. \A id : <<"buf", id>> \in HeldBy <=> InBuf(id)
  BY DEF HeldBy, InBuf
<1>4. \A t \in Threads : (<<"res", t>> \in HeldBy <=> ResAt(t)) /\ (<<"old", t>> \in HeldBy <=> OldAt(t))
  BY DEF HeldBy, ResAt, OldAt, Owing
<1>5. \A h \in HeldBy : \/ \E id \in Ids : h = <<"buf", id>>
                        \/ \E t \in Threads : h = <<"res", t>> \/ h = <<"old", t>>
  BY DEF HeldBy
<1> QED BY <1>1, <1>2, <1>3, <1>4, <1>5

(* Only the call of t and the buffer of id change: so do only their slots. *)
Only(t) == \A u \in Threads \ {t} : call'[u] = call[u]
OnlyBuf(id) == \A i \in Ids \ {id} : buf'[i] = buf[i]

Mine(t, id) == {<<"buf", id>>, <<"res", t>>, <<"old", t>>}

(* Every other holder keeps its slot.                                      *)
LEMMA Around ==
  ASSUME NEW t \in Threads, NEW id, Only(t), OnlyBuf(id), NEW h, h \notin Mine(t, id)
  PROVE  (h \in HeldBy' <=> h \in HeldBy) /\ (h \in HeldBy => SlotOf(h)' = SlotOf(h))
<1>1. ASSUME NEW i \in Ids, h = <<"buf", i>>
      PROVE  (h \in HeldBy' <=> h \in HeldBy) /\ SlotOf(h)' = SlotOf(h)
  <2>1. buf'[i] = buf[i]
    BY <1>1 DEF OnlyBuf, Mine
  <2> QED BY <1>1, <2>1 DEF HeldBy, SlotOf
<1>2. ASSUME NEW u \in Threads, h = <<"res", u>> \/ h = <<"old", u>>
      PROVE  (h \in HeldBy' <=> h \in HeldBy) /\ SlotOf(h)' = SlotOf(h)
  <2>1. call'[u] = call[u]
    BY <1>2 DEF Only, Mine
  <2> QED BY <1>2, <2>1 DEF HeldBy, SlotOf
<1>3. h \in HeldBy \/ h \in HeldBy' => \/ \E i \in Ids : h = <<"buf", i>>
                                       \/ \E u \in Threads : h = <<"res", u>> \/ h = <<"old", u>>
  BY DEF HeldBy
<1> QED BY <1>1, <1>2, <1>3

Elsewhere(t, id, s, z) ==
  \A h : h \notin Mine(t, id) => (h \in DOMAIN z <=> h \in DOMAIN s) /\ (h \in DOMAIN s => z[h] = s[h])

(* What holds the slots before and after such a step.                      *)
LEMMA SlotsAfter ==
  ASSUME NEW t \in Threads, NEW id, Only(t), OnlyBuf(id),
         NEW s, s = Slots, NEW z, z = Slots'
  PROVE  /\ Elsewhere(t, id, s, z)
         /\ (<<"buf", id>> \in DOMAIN s <=> InBuf(id)) /\ (InBuf(id) => s[<<"buf", id>>] = buf[id])
         /\ (<<"buf", id>> \in DOMAIN z <=> InBuf(id)') /\ (InBuf(id)' => z[<<"buf", id>>] = buf'[id])
         /\ (<<"res", t>> \in DOMAIN s <=> ResAt(t)) /\ (ResAt(t) => s[<<"res", t>>] = call[t].res)
         /\ (<<"res", t>> \in DOMAIN z <=> ResAt(t)') /\ (ResAt(t)' => z[<<"res", t>>] = call'[t].res)
         /\ (<<"old", t>> \in DOMAIN s <=> OldAt(t)) /\ (OldAt(t) => s[<<"old", t>>] = call[t].old)
         /\ (<<"old", t>> \in DOMAIN z <=> OldAt(t)') /\ (OldAt(t)' => z[<<"old", t>>] = call'[t].old)
<1>1. DOMAIN s = HeldBy /\ \A h \in HeldBy : s[h] = SlotOf(h)
  BY DEF Slots
<1>2. DOMAIN z = HeldBy' /\ \A h \in HeldBy' : z[h] = SlotOf(h)'
  BY DEF Slots
<1>3. Elsewhere(t, id, s, z)
  BY <1>1, <1>2, Around DEF Elsewhere
<1>4. \A i : (<<"buf", i>> \in HeldBy' <=> InBuf(i)') /\ SlotOf(<<"buf", i>>)' = buf'[i]
  BY DEF HeldBy, InBuf, SlotOf
<1>5. /\ (<<"res", t>> \in HeldBy' <=> ResAt(t)') /\ (<<"old", t>> \in HeldBy' <=> OldAt(t)')
      /\ SlotOf(<<"res", t>>)' = call'[t].res /\ SlotOf(<<"old", t>>)' = call'[t].old
  BY DEF HeldBy, ResAt, OldAt, Owing, SlotOf
<1> QED BY <1>1, <1>2, <1>3, <1>4, <1>5, Holders

-----------------------------------------------------------------------------
(* The invariant of the accounting.                                        *)

ChunkShape ==
  /\ chunk = [c \in Chunks |-> chunk[c]]
  /\ \A c \in Chunks : "outstanding" \in DOMAIN chunk[c] /\ chunk[c].outstanding \in Nat
BufShape == buf = [id \in Ids |-> buf[id]]

SlotOK(b) == b.c \in Chunks /\ b.size \in Nat
Servable(r) == r \in Requests /\ r.size # 0 /\ r.size < DirectThreshold
Pendings == {"alloc_lock", "alloc", "alloc_take", "alloc_unlock"}
Linking == {"alloc_take", "dealloc_sweep"}

CallOK(k) ==
  /\ k.at \in Pendings => k.id \in Ids /\ k.op \in {"alloc", "realloc"}
  /\ k.at \in {"alloc_lock", "alloc", "alloc_take"} => Servable(k.req)
  /\ k.at = "alloc_unlock" => k.res = NoBuf \/ (k.res.org = "pool" /\ SlotOK(k.res))
  /\ k.at \in Owing /\ k.old.org = "pool" => SlotOK(k.old)
  /\ k.at \in Linking => k.c \in Linked
  /\ k.at = "dealloc_slot" => k.old.c \in Linked

Shapes ==
  /\ CallShape /\ BufShape /\ ChunkShape
  /\ \A t \in Threads : CallOK(call[t])
  /\ \A id \in Ids : buf[id].org = "pool" => SlotOK(buf[id])

(* A name a call in progress will give a buffer is that call's alone, and  *)
(* denotes no pool buffer that the new one would displace unnoticed.       *)
Names ==
  \A t \in Threads : call[t].at \in Pendings =>
    /\ \A u \in Threads \ {t} : call[u].at \in Pendings => call[u].id # call[t].id
    /\ call[t].op = "alloc" => buf[call[t].id].org # "pool"

Lists ==
  /\ head \in Seq(Chunks) /\ IsInjective(head)
  /\ free_chunks \in Seq(Chunks) /\ IsInjective(free_chunks)
  /\ ToSet(head) \cap ToSet(free_chunks) = {}

Counted ==
  /\ Finite(Slots) /\ bytes_live = Sum(Slots)
  /\ \A c \in Chunks : Cardinality(In(Slots, c)) = IF c \in Linked THEN chunk[c].outstanding ELSE 0

(* A linked chunk without a slot in use is being worked on: it was just    *)
(* linked for a request it will serve, or just lost its last slot.         *)
Working(t, c) ==
  \/ call[t].at = "alloc" /\ 1 \in DOMAIN head /\ head[1] = c /\ CanBump(c, call[t].req)
  \/ call[t].at \in Linking /\ call[t].c = c
  \/ call[t].at = "dealloc_slot" /\ call[t].old.c = c
Occupied ==
  \A c \in Linked : chunk[c].outstanding = 0 => \E t \in Threads : Working(t, c)

Accounted == Shapes /\ Names /\ Lists /\ Counted /\ Occupied

(* The linked chunks are those on the live list.                           *)
LEMMA LinkedElems == Linked = ToSet(head) /\ Linked' = ToSet(head')
BY DEF Linked, ToSet

(* Under the lock there is one thread, and it works on any such chunk.     *)
LEMMA Alone ==
  ASSUME Accounted, LockInv, NEW t \in Threads, call[t].at \in Critical
  PROVE  /\ \A u \in Threads : call[u].at \in Critical => u = t
         /\ \A c \in Linked : chunk[c].outstanding = 0 => Working(t, c)
<1>1. \A u \in Threads : call[u].at \in Critical => u = t
  BY DEF LockInv, LockOwner
<1>2. \A u \in Threads : \A c : Working(u, c) => call[u].at \in Critical
  BY DEF Working, Critical, Linking
<1> QED BY <1>1, <1>2 DEF Accounted, Occupied

(* The invariant and what it is for.                                       *)
LEMMA Accounts ==
  ASSUME Accounted, LockInv
  PROVE  ChunkAccounting
<1>1. \A c \in Chunks : Cardinality(HeldIn(c)) = IF c \in Linked THEN chunk[c].outstanding ELSE 0
  BY SlotsCounted DEF Accounted, Counted, Finite, Slots
<1>2. ASSUME locked = NoThread, NEW c \in Linked PROVE chunk[c].outstanding > 0
  <2>1. \A u \in Threads : call[u].at \notin Critical
    BY <1>2, PoolAssumption DEF LockInv, LockOwner, PoolAssumption
  <2>2. \A u \in Threads : ~Working(u, c)
    BY <2>1 DEF Working, Critical, Linking
  <2>3. chunk[c].outstanding # 0
    BY <2>2 DEF Accounted, Occupied
  <2>4. c \in Chunks
    BY LinkedElems DEF Accounted, Lists, ToSet
  <2> QED BY <2>3, <2>4 DEF Accounted, Shapes, ChunkShape
<1>3. bytes_live = MapThenSumSet(LAMBDA h : SlotOf(h).size, HeldBy)
  BY SlotsCounted DEF Accounted, Counted, Finite, Slots
<1>4. ASSUME NEW i \in DOMAIN (head \o free_chunks), NEW j \in DOMAIN (head \o free_chunks),
             (head \o free_chunks)[i] = (head \o free_chunks)[j]
      PROVE  i = j
  <2>1. PICK s, f, m : s = head /\ f = free_chunks /\ m = Len(s)
    OBVIOUS
  <2>2. s \in Seq(Chunks) /\ f \in Seq(Chunks) /\ m \in Nat /\ IsInjective(s) /\ IsInjective(f) /\ ToSet(s) \cap ToSet(f) = {}
    BY <2>1 DEF Accounted, Lists
  <2>3. DOMAIN (s \o f) = 1 .. m + Len(f) /\ DOMAIN s = 1 .. m /\ DOMAIN f = 1 .. Len(f) /\ Len(f) \in Nat
    BY <2>1, <2>2
  <2>4. \A k \in 1 .. m + Len(f) : (s \o f)[k] = IF k <= m THEN s[k] ELSE f[k - m]
    BY <2>1, <2>2
  <2>5. \A k \in 1 .. m + Len(f) : IF k <= m THEN k \in DOMAIN s ELSE k - m \in DOMAIN f
    BY <2>2, <2>3
  <2>6. i \in 1 .. m + Len(f) /\ j \in 1 .. m + Len(f) /\ (s \o f)[i] = (s \o f)[j]
    BY <1>4, <2>1, <2>3
  <2>7. CASE i <= m /\ j <= m
    <3>1. s[i] = s[j]
      BY <2>4, <2>6, <2>7
    <3> QED BY <2>2, <2>5, <2>6, <2>7, <3>1 DEF IsInjective
  <2>8. CASE ~(i <= m) /\ ~(j <= m)
    <3>1. f[i - m] = f[j - m]
      BY <2>4, <2>6, <2>8
    <3>2. i - m = j - m
      BY <2>2, <2>5, <2>6, <2>8, <3>1 DEF IsInjective
    <3> QED BY <2>2, <2>6, <3>2
  <2>9. ASSUME NEW k \in 1 .. m + Len(f), NEW l \in 1 .. m + Len(f), k <= m, ~(l <= m)
        PROVE  (s \o f)[k] # (s \o f)[l]
    <3>1. (s \o f)[k] \in ToSet(s)
      BY <2>4, <2>5, <2>9 DEF ToSet
    <3>2. (s \o f)[l] \in ToSet(f)
      BY <2>4, <2>5, <2>9 DEF ToSet
    <3> QED BY <2>2, <3>1, <3>2
  <2> QED BY <2>6, <2>7, <2>8, <2>9
<1> QED BY <1>1, <1>2, <1>3, <1>4 DEF ChunkAccounting

-----------------------------------------------------------------------------
(* Kinds of steps.                                                         *)

(* The slots in use and the counters that count them stay as they are.     *)
LEMMA CountedAlike ==
  ASSUME Counted, NEW s, s = Slots, NEW z, z = Slots', Alike(s, z) \/ z = s,
         bytes_live' = bytes_live,
         \A c \in Chunks : (c \in Linked' <=> c \in Linked) /\ chunk'[c].outstanding = chunk[c].outstanding
  PROVE  Counted'
<1>1. Finite(s) /\ bytes_live = Sum(s) /\ \A c \in Chunks : Cardinality(In(s, c)) = IF c \in Linked THEN chunk[c].outstanding ELSE 0
  BY DEF Counted
<1>2. Finite(z) /\ Sum(z) = Sum(s) /\ \A c : Cardinality(In(z, c)) = Cardinality(In(s, c))
  BY <1>1 DEF Alike
<1>3. bytes_live' = Sum(z) /\ \A c \in Chunks : Cardinality(In(z, c)) = IF c \in Linked' THEN chunk'[c].outstanding ELSE 0
  BY <1>1, <1>2
<1> QED BY <1>2, <1>3 DEF Counted

(* A step of t changes no slot when those of t stay.                       *)
LEMMA SlotsStay ==
  ASSUME NEW t \in Threads, Only(t), buf' = buf, ResAt(t)' <=> ResAt(t), OldAt(t)' <=> OldAt(t),
         ResAt(t) => call'[t].res = call[t].res, OldAt(t) => call'[t].old = call[t].old
  PROVE  Slots' = Slots
<1>1. PICK s, z : s = Slots /\ z = Slots'
  OBVIOUS
<1>2. PICK id : id = NoThread
  OBVIOUS
<1>3. OnlyBuf(id)
  BY DEF OnlyBuf
<1>4. InBuf(id)' <=> InBuf(id)
  BY DEF InBuf
<1>5. \A h : (h \in DOMAIN z <=> h \in DOMAIN s) /\ (h \in DOMAIN s => z[h] = s[h])
  <2>1. /\ Elsewhere(t, id, s, z)
        /\ (<<"buf", id>> \in DOMAIN s <=> InBuf(id)) /\ (InBuf(id) => s[<<"buf", id>>] = buf[id])
        /\ (<<"buf", id>> \in DOMAIN z <=> InBuf(id)') /\ (InBuf(id)' => z[<<"buf", id>>] = buf'[id])
    BY <1>1, <1>3, SlotsAfter
  <2>2. (<<"buf", id>> \in DOMAIN z <=> <<"buf", id>> \in DOMAIN s) /\ (<<"buf", id>> \in DOMAIN s => z[<<"buf", id>>] = s[<<"buf", id>>])
    BY <1>4, <2>1
  <2>3. (<<"res", t>> \in DOMAIN z <=> <<"res", t>> \in DOMAIN s) /\ (<<"res", t>> \in DOMAIN s => z[<<"res", t>>] = s[<<"res", t>>])
    BY <1>1, <1>3, SlotsAfter
  <2>4. (<<"old", t>> \in DOMAIN z <=> <<"old", t>> \in DOMAIN s) /\ (<<"old", t>> \in DOMAIN s => z[<<"old", t>>] = s[<<"old", t>>])
    BY <1>1, <1>3, SlotsAfter
  <2> QED BY <2>1, <2>2, <2>3, <2>4 DEF Elsewhere, Mine
<1>6. s = [h \in DOMAIN s |-> s[h]] /\ z = [h \in DOMAIN z |-> z[h]]
  BY <1>1 DEF Slots
<1> QED BY <1>1, <1>5, <1>6

(* The counters of the chunks stay, whatever else of them changes.         *)
SameCounts ==
  /\ ChunkShape'
  /\ \A c \in Chunks : chunk'[c].outstanding = chunk[c].outstanding

(* A call keeps the name it has taken.                                     *)
LEMMA NamesStay ==
  ASSUME Accounted, NEW t \in Threads, Only(t), buf' = buf,
         call'[t].at \in Pendings => call[t].at \in Pendings /\ call'[t].id = call[t].id /\ call'[t].op = call[t].op
  PROVE  Names'
BY DEF Accounted, Names, Only

(* A step that only moves the call of t.                                   *)
Steps(t) == CallShape' /\ Only(t)

(* It keeps all that is said of the chunks and of the slots in use.        *)
LEMMA CallMoves ==
  ASSUME Accounted, NEW t \in Threads, Steps(t), buf' = buf, head' = head, free_chunks' = free_chunks,
         bytes_live' = bytes_live, SameCounts, CallOK(call'[t]),
         ResAt(t)' <=> ResAt(t), OldAt(t)' <=> OldAt(t),
         ResAt(t) => call'[t].res = call[t].res, OldAt(t) => call'[t].old = call[t].old
  PROVE  Shapes' /\ Lists' /\ Counted'
<1>1. Linked' = Linked
  BY DEF Linked
<1>2. Shapes'
  <2>1. ASSUME NEW u \in Threads PROVE CallOK(call[u])'
    <3>1. CallOK(call'[u])
      BY DEF Accounted, Shapes, Steps, Only
    <3> QED BY <1>1, <3>1 DEF CallOK, SlotOK, Servable
  <2>2. \A id \in Ids : (buf[id].org = "pool" => SlotOK(buf[id]))'
    BY DEF Accounted, Shapes, SlotOK
  <2> QED BY <2>1, <2>2 DEF Accounted, Shapes, Steps, SameCounts, BufShape
<1>3. Lists'
  BY DEF Accounted, Lists
<1>4. Counted'
  <2>1. Slots' = Slots
    BY SlotsStay DEF Steps
  <2> QED BY <1>1, <2>1, CountedAlike DEF Accounted, SameCounts
<1> QED BY <1>2, <1>3, <1>4

(* Outside the lock, such a step leaves every chunk to whoever works on it. *)
LEMMA OccupiedStays ==
  ASSUME Accounted, NEW t \in Threads, Only(t), call[t].at \notin Critical,
         head' = head, chunk' = chunk
  PROVE  Occupied'
<1>1. ASSUME NEW c \in Linked', chunk'[c].outstanding = 0 PROVE \E u \in Threads : Working(u, c)'
  <2>1. c \in Linked /\ chunk[c].outstanding = 0
    BY <1>1 DEF Linked
  <2>2. PICK u \in Threads : Working(u, c)
    BY <2>1 DEF Accounted, Occupied
  <2>3. u # t
    BY <2>2 DEF Working, Linking, Critical
  <2>4. call'[u] = call[u]
    BY <2>3 DEF Only
  <2>5. CanBump(c, call[u].req)' = CanBump(c, call[u].req)
    BY <2>4 DEF CanBump, BumpOffset
  <2> QED BY <2>2, <2>4, <2>5 DEF Working
<1> QED BY <1>1 DEF Occupied

(* Nothing of the pool changes.                                            *)
LEMMA NothingMoves ==
  ASSUME Accounted, UNCHANGED <<call, buf, head, free_chunks, chunk, bytes_live>>
  PROVE  Accounted'
<1>1. Slots' = Slots /\ Linked' = Linked
  BY DEF Slots, HeldBy, SlotOf, Linked
<1>2. Shapes' /\ Names' /\ Lists'
  BY <1>1 DEF Accounted, Shapes, CallShape, BufShape, ChunkShape, CallOK, SlotOK, Servable, Names, Lists
<1>3. Counted'
  BY <1>1, CountedAlike DEF Accounted
<1>4. Occupied'
  BY <1>1 DEF Accounted, Occupied, Working, CanBump, BumpOffset
<1> QED BY <1>2, <1>3, <1>4 DEF Accounted

-----------------------------------------------------------------------------
(* Steps outside the lock.                                                 *)

(* Of the slots of t and id, one passes from x to y.                       *)
LEMMA SlotMoves ==
  ASSUME NEW t, NEW id, NEW s, NEW z, Finite(s), Elsewhere(t, id, s, z),
         NEW x, NEW y, x \in Mine(t, id), y \in Mine(t, id),
         x \in DOMAIN s, y \notin DOMAIN s, x \notin DOMAIN z, y \in DOMAIN z, z[y] = s[x],
         \A h \in Mine(t, id) \ {x, y} : (h \in DOMAIN z <=> h \in DOMAIN s) /\ (h \in DOMAIN s => z[h] = s[h])
  PROVE  Alike(s, z)
<1>1. \A h : h # x /\ h # y => (h \in DOMAIN z <=> h \in DOMAIN s) /\ (h \in DOMAIN s => z[h] = s[h])
  BY DEF Elsewhere
<1>2. DOMAIN z = (DOMAIN s \ {x}) \cup {y} /\ \A h \in DOMAIN s \ {x} : z[h] = s[h]
  BY <1>1
<1> QED BY <1>2, OneMoved

(* A name loses its buffer: a pool buffer goes to the call that frees it.  *)
LEMMA BufGoes ==
  ASSUME Accounted, NEW t \in Threads, call[t] = Idle, NEW id \in Ids,
         NEW new, new.org # "pool", buf' = [buf EXCEPT ![id] = new],
         NEW k, call' = [call EXCEPT ![t] = k],
         k = [at |-> "dealloc", old |-> buf[id]] \/ (k = Idle /\ buf[id].org # "pool"),
         UNCHANGED <<head, free_chunks, chunk, bytes_live>>
  PROVE  Accounted'
<1>1. /\ Steps(t) /\ call'[t] = k /\ BufShape' /\ OnlyBuf(id) /\ buf'[id] = new
  BY DEF Accounted, Shapes, CallShape, BufShape, Steps, Only, OnlyBuf
<1>2. call[t].at = "idle" /\ k.at \in {"idle", "dealloc"}
  BY DEF Idle
<1>3. Linked' = Linked
  BY DEF Linked
<1>4. Shapes'
  <2>1. ASSUME NEW u \in Threads PROVE CallOK(call[u])'
    <3>1. CASE u = t
      <4>1. call'[u] = k /\ (k.at = "dealloc" => k.old = buf[id])
        BY <1>1, <3>1 DEF Idle
      <4> QED BY <1>2, <4>1 DEF CallOK, Pendings, Owing, Linking, Accounted, Shapes, SlotOK
    <3>2. CASE u # t
      <4>1. CallOK(call[u]) /\ call'[u] = call[u]
        BY <1>1, <3>2 DEF Accounted, Shapes, Steps, Only
      <4> QED BY <1>3, <4>1 DEF CallOK, SlotOK, Servable
    <3> QED BY <3>1, <3>2
  <2>2. \A i \in Ids : (buf[i].org = "pool" => SlotOK(buf[i]))'
    BY <1>1 DEF Accounted, Shapes, SlotOK, OnlyBuf
  <2>3. ChunkShape'
    BY DEF Accounted, Shapes, ChunkShape
  <2> QED BY <1>1, <2>1, <2>2, <2>3 DEF Shapes, Steps
<1>5. Names'
  <2>1. \A u \in Threads \ {t} : call'[u] = call[u]
    BY <1>1 DEF Steps, Only
  <2>2. call'[t].at \notin Pendings
    BY <1>1, <1>2 DEF Pendings
  <2>3. \A i \in Ids : buf'[i].org = "pool" => buf'[i] = buf[i]
    BY <1>1 DEF OnlyBuf
  <2>4. \A u \in Threads : call[u].at \in Pendings => call[u].id \in Ids
    BY DEF Accounted, Shapes, CallOK
  <2> QED BY <2>1, <2>2, <2>3, <2>4 DEF Accounted, Names
<1>6. Lists'
  BY DEF Accounted, Lists
<1>7. Counted'
  <2>1. PICK s, z : s = Slots /\ z = Slots'
    OBVIOUS
  <2>2. /\ ~ResAt(t) /\ ~ResAt(t)' /\ ~OldAt(t) /\ ~InBuf(id)'
    BY <1>1, <1>2 DEF ResAt, OldAt, InBuf, Owing
  <2>3. OldAt(t)' <=> InBuf(id)
    BY <1>1, <1>2 DEF OldAt, InBuf, Owing, Idle
  <2>4. OldAt(t)' => call'[t].old = buf[id]
    BY <1>1, <1>2 DEF OldAt, Owing, Idle
  <2>5. /\ Elsewhere(t, id, s, z)
        /\ (<<"buf", id>> \in DOMAIN s <=> InBuf(id)) /\ (InBuf(id) => s[<<"buf", id>>] = buf[id])
        /\ <<"buf", id>> \notin DOMAIN z
        /\ <<"res", t>> \notin DOMAIN s /\ <<"res", t>> \notin DOMAIN z /\ <<"old", t>> \notin DOMAIN s
        /\ (<<"old", t>> \in DOMAIN z <=> OldAt(t)') /\ (OldAt(t)' => z[<<"old", t>>] = call'[t].old)
    BY <1>1, <2>1, <2>2, SlotsAfter DEF Steps
  <2>6. Finite(s)
    BY <2>1 DEF Accounted, Counted
  <2>7. CASE InBuf(id)
    <3>1. PICK x, y : x = <<"buf", id>> /\ y = <<"old", t>>
      OBVIOUS
    <3>2. /\ x \in DOMAIN s /\ y \notin DOMAIN s /\ x \notin DOMAIN z /\ y \in DOMAIN z /\ z[y] = s[x]
      BY <2>3, <2>4, <2>5, <2>7, <3>1
    <3>3. /\ x \in Mine(t, id) /\ y \in Mine(t, id)
          /\ \A h \in Mine(t, id) \ {x, y} : h \notin DOMAIN z /\ h \notin DOMAIN s
      BY <2>5, <3>1 DEF Mine
    <3>4. Alike(s, z)
      BY <2>5, <2>6, <3>2, <3>3, SlotMoves
    <3> QED BY <1>3, <2>1, <3>4, CountedAlike DEF Accounted
  <2>8. CASE ~InBuf(id)
    <3>1. \A h : (h \in DOMAIN z <=> h \in DOMAIN s) /\ (h \in DOMAIN s => z[h] = s[h])
      BY <2>3, <2>5, <2>8 DEF Elsewhere, Mine
    <3>2. s = [h \in DOMAIN s |-> s[h]] /\ z = [h \in DOMAIN z |-> z[h]]
      BY <2>1 DEF Slots
    <3>3. z = s
      BY <3>1, <3>2
    <3> QED BY <1>3, <2>1, <3>3, CountedAlike DEF Accounted
  <2> QED BY <2>7, <2>8
<1>8. Occupied'
  BY <1>1, <1>2, OccupiedStays DEF Steps, Critical
<1> QED BY <1>4, <1>5, <1>6, <1>7, <1>8 DEF Accounted

(* Routing of a request; realloc keeps the old buffer for its dealloc.     *)
LEMMA RouteAccounts ==
  ASSUME Accounted, NEW t \in Threads, call[t] = Idle, NEW id \in Ids, ~Busy(id), NEW op, NEW r \in Requests,
         (op = "alloc" /\ buf[id] = NoBuf) \/ op = "realloc", Route(t, id, op, r)
  PROVE  Accounted'
<1>1. ASSUME NEW new, new.org # "pool", Deliver(t, id, op, new), UNCHANGED <<head, free_chunks, chunk, bytes_live>>
      PROVE  Accounted'
  <2>1. PICK k : k = IF op = "realloc" THEN [at |-> "dealloc", old |-> buf[id]] ELSE Idle
    OBVIOUS
  <2>2. /\ call' = [call EXCEPT ![t] = k] /\ buf' = [buf EXCEPT ![id] = new]
    BY <1>1, <2>1 DEF Deliver
  <2>3. k = [at |-> "dealloc", old |-> buf[id]] \/ (k = Idle /\ buf[id].org # "pool")
    BY <2>1 DEF NoBuf
  <2> QED BY <1>1, <2>2, <2>3, BufGoes
<1>2. CASE AllocSystem(t, id, op, r)
  <2>1. SystemBuf("system", r).org # "pool"
    BY DEF SystemBuf
  <2> QED BY <1>1, <1>2, <2>1 DEF AllocSystem
<1>3. CASE AllocGated(t, id, op, r)
  <2>1. PICK new : /\ new = GatedBuf(r, [size |-> r.size + HEADER + AlignOf(r), align |-> AlignOf(r)])
                   /\ Deliver(t, id, op, new) /\ UNCHANGED <<head, free_chunks, chunk, bytes_live>>
    BY <1>3 DEF AllocGated
  <2>2. new.org # "pool"
    BY <2>1 DEF GatedBuf
  <2> QED BY <1>1, <2>1, <2>2
<1>4. CASE AllocPooled(t, id, op, r)
  <2>1. /\ call' = [call EXCEPT ![t] = [at |-> "alloc_lock", id |-> id, op |-> op, req |-> r]]
        /\ UNCHANGED <<head, free_chunks, chunk, bytes_live, buf>> /\ ~SystemRouted(r.size)
    BY <1>4 DEF AllocPooled, pool
  <2>2. /\ Steps(t) /\ call'[t] = [at |-> "alloc_lock", id |-> id, op |-> op, req |-> r] /\ call[t].at = "idle"
    BY <2>1 DEF Accounted, Shapes, CallShape, Steps, Only, Idle
  <2>3. Servable(r)
    BY <2>1, PoolAssumption DEF Servable, SystemRouted, PoolAssumption
  <2>4. CallOK(call'[t])
    BY <2>2, <2>3 DEF CallOK, Pendings, Owing, Linking
  <2>5. SameCounts
    BY <2>1 DEF SameCounts, Accounted, Shapes, ChunkShape
  <2>6. ~ResAt(t) /\ ~ResAt(t)' /\ ~OldAt(t) /\ ~OldAt(t)'
    BY <2>2 DEF ResAt, OldAt, Owing
  <2>7. Shapes' /\ Lists' /\ Counted'
    BY <2>1, <2>2, <2>4, <2>5, <2>6, CallMoves
  <2>8. Names'
    <3>1. \A u \in Threads : call[u].at \in Pendings => call[u].id # id
      BY DEF Busy, Pendings
    <3>2. op = "alloc" => buf[id].org # "pool"
      BY DEF NoBuf
    <3> QED BY <2>1, <2>2, <3>1, <3>2 DEF Accounted, Names, Steps, Only
  <2>9. Occupied'
    BY <2>1, <2>2, OccupiedStays DEF Steps, Critical
  <2> QED BY <2>7, <2>8, <2>9 DEF Accounted
<1> QED BY <1>2, <1>3, <1>4 DEF Route

(* The calls' own steps before the lock.                                   *)
LEMMA UnlockedAccounts ==
  ASSUME Accounted, LockInv, NEW t \in Threads, fault' = "none", fault = "none",
         \/ alloc(t) \/ realloc(t) \/ dealloc(t) \/ DeallocSystem(t) \/ DeallocPooled(t) \/ lock(t)
  PROVE  Accounted'
<1>1. CASE alloc(t)
  <2>1. PICK id \in Ids, r \in Requests : buf[id] = NoBuf /\ ~Busy(id) /\ Route(t, id, "alloc", r)
    BY <1>1 DEF alloc
  <2> QED BY <1>1, <2>1, RouteAccounts DEF alloc
<1>2. CASE realloc(t)
  <2>1. PICK id \in Ids, r \in Requests : ~Busy(id) /\ Route(t, id, "realloc", r)
    BY <1>2 DEF realloc
  <2> QED BY <1>2, <2>1, RouteAccounts DEF realloc
<1>3. CASE dealloc(t)
  <2>1. PICK id \in Ids : /\ call' = [call EXCEPT ![t] = [at |-> "dealloc", old |-> buf[id]]]
                          /\ buf' = [buf EXCEPT ![id] = NoBuf]
    BY <1>3 DEF dealloc
  <2>2. call[t] = Idle /\ UNCHANGED <<head, free_chunks, chunk, bytes_live>> /\ NoBuf.org # "pool"
    BY <1>3 DEF dealloc, pool, NoBuf
  <2> QED BY <2>1, <2>2, BufGoes
<1>4. CASE DeallocSystem(t)
  <2>1. /\ call' = [call EXCEPT ![t] = Idle] /\ UNCHANGED <<head, free_chunks, chunk, bytes_live, buf>>
        /\ call[t].at = "dealloc" /\ call[t].old.org = "system"
    BY <1>4 DEF DeallocSystem, pool_fatal, pool
  <2>2. /\ Steps(t) /\ call'[t] = Idle
    BY <2>1 DEF Accounted, Shapes, CallShape, Steps, Only
  <2>3. CallOK(call'[t]) /\ ~ResAt(t) /\ ~ResAt(t)' /\ ~OldAt(t) /\ ~OldAt(t)' /\ call'[t].at \notin Pendings
    BY <2>1, <2>2 DEF CallOK, Pendings, Owing, Linking, ResAt, OldAt, Idle
  <2>4. SameCounts
    BY <2>1 DEF SameCounts, Accounted, Shapes, ChunkShape
  <2>5. Shapes' /\ Lists' /\ Counted'
    BY <2>1, <2>2, <2>3, <2>4, CallMoves
  <2>6. Names' /\ Occupied'
    BY <2>1, <2>2, <2>3, NamesStay, OccupiedStays DEF Steps, Critical
  <2> QED BY <2>5, <2>6 DEF Accounted
<1>5. CASE DeallocPooled(t)
  <2>1. /\ call' = [call EXCEPT ![t] = [at |-> "dealloc_lock", old |-> call[t].old]]
        /\ UNCHANGED <<head, free_chunks, chunk, bytes_live, buf>> /\ call[t].at = "dealloc"
    BY <1>5 DEF DeallocPooled, pool
  <2>2. /\ Steps(t) /\ call'[t] = [at |-> "dealloc_lock", old |-> call[t].old]
    BY <2>1 DEF Accounted, Shapes, CallShape, Steps, Only
  <2>3. /\ CallOK(call'[t]) /\ ~ResAt(t) /\ ~ResAt(t)' /\ (OldAt(t)' <=> OldAt(t))
        /\ call'[t].old = call[t].old /\ call'[t].at \notin Pendings
    BY <2>1, <2>2 DEF CallOK, Pendings, Owing, Linking, ResAt, OldAt, Accounted, Shapes
  <2>4. SameCounts
    BY <2>1 DEF SameCounts, Accounted, Shapes, ChunkShape
  <2>5. Shapes' /\ Lists' /\ Counted'
    BY <2>1, <2>2, <2>3, <2>4, CallMoves
  <2>6. Names' /\ Occupied'
    BY <2>1, <2>2, <2>3, NamesStay, OccupiedStays DEF Steps, Critical
  <2> QED BY <2>5, <2>6 DEF Accounted
<1>6. CASE lock(t)
  <2>1. PICK k : /\ call' = [call EXCEPT ![t] = k]
                 /\ \/ /\ call[t].at = "alloc_lock"
                       /\ k = [at |-> "alloc", id |-> call[t].id, op |-> call[t].op, req |-> call[t].req]
                    \/ call[t].at = "dealloc_lock" /\ k = [at |-> "dealloc_locked", old |-> call[t].old]
    BY <1>6 DEF lock
  <2>2. /\ Steps(t) /\ call'[t] = k
    BY <2>1 DEF Accounted, Shapes, CallShape, Steps, Only
  <2>3. /\ CallOK(call'[t]) /\ ~ResAt(t) /\ ~ResAt(t)' /\ (OldAt(t)' <=> OldAt(t))
        /\ (OldAt(t) => call'[t].old = call[t].old)
    BY <2>1, <2>2 DEF CallOK, Pendings, Owing, Linking, ResAt, OldAt, Accounted, Shapes
  <2>4. call'[t].at \in Pendings => call[t].at \in Pendings /\ call'[t].id = call[t].id /\ call'[t].op = call[t].op
    BY <2>1, <2>2 DEF Pendings
  <2>5. UNCHANGED <<head, free_chunks, chunk, bytes_live, buf>> /\ call[t].at \notin Critical
    BY <1>6, <2>1 DEF lock, pool, Critical
  <2>6. SameCounts
    BY <2>5 DEF SameCounts, Accounted, Shapes, ChunkShape
  <2>7. Shapes' /\ Lists' /\ Counted'
    BY <2>2, <2>3, <2>5, <2>6, CallMoves
  <2>8. Names' /\ Occupied'
    BY <2>2, <2>4, <2>5, NamesStay, OccupiedStays DEF Steps
  <2> QED BY <2>7, <2>8 DEF Accounted
<1> QED BY <1>1, <1>2, <1>3, <1>4, <1>5, <1>6

-----------------------------------------------------------------------------
(* Steps under the lock.                                                   *)

(* A payload behind the first header starts at its alignment.              *)
LEMMA AlignedFirst ==
  ASSUME NEW a \in Nat, a >= 2
  PROVE  AlignUp(2, a) = a
<1>1. (2 + a - 1) \div a = 1
  <2>1. 2 + a - 1 = 1 * a + 1 /\ 1 < a
    OBVIOUS
  <2> QED BY <2>1, SMTT(30)
<1> QED BY <1>1 DEF AlignUp

(* A chunk just linked can serve the request it was linked for.            *)
LEMMA FreshServes ==
  ASSUME NEW r, Servable(r)
  PROVE  BumpOffset(0, r) + SlotCap(r) <= CHUNK_SIZE
<1>1. /\ r.size \in Nat /\ r.size # 0 /\ r.align \in Nat \ {0} /\ HEADER + r.size + r.align <= CHUNK_SIZE
      /\ PageSize \in Nat /\ NPages \in Nat
  BY PoolAssumption DEF Servable, PoolAssumption
<1>2. PICK a : a = AlignOf(r)
  OBVIOUS
<1>3. a \in Nat /\ a >= 2 /\ a <= r.align + 1 /\ (r.align >= 2 => a = r.align)
  BY <1>1, <1>2 DEF AlignOf, MIN_BUCKET_SIZE
<1>4. BumpOffset(0, r) = a
  BY <1>2, <1>3, AlignedFirst DEF BumpOffset, HEADER
<1>5. SlotCap(r) \in Nat /\ SlotCap(r) <= r.size + 1 /\ (r.size >= 2 => SlotCap(r) = r.size)
  BY <1>1 DEF SlotCap, MIN_BUCKET_SIZE
<1>6. CHUNK_SIZE \in Nat
  BY <1>1 DEF CHUNK_SIZE
<1>7. PICK size, cap, align, m : size = r.size /\ cap = SlotCap(r) /\ align = r.align /\ m = CHUNK_SIZE
  OBVIOUS
<1>8. a + cap <= m
  <2>1. /\ size \in Nat /\ size # 0 /\ align \in Nat \ {0} /\ 2 + size + align <= m /\ m \in Nat
        /\ a \in Nat /\ a <= align + 1 /\ cap \in Nat /\ cap <= size + 1
    BY <1>1, <1>3, <1>5, <1>6, <1>7 DEF HEADER
  <2> QED BY <2>1
<1> QED BY <1>4, <1>7, <1>8

(* When no linked chunk serves the request, all of them are in use.        *)
LEMMA NoneServes ==
  ASSUME Accounted, LockInv, NEW t \in Threads, NeedsChunk(t), NEW c \in Linked
  PROVE  chunk[c].outstanding # 0
<1>1. call[t].at = "alloc" /\ \A i \in DOMAIN head : ~FirstServing(i, call[t].req)
  BY DEF NeedsChunk
<1>2. ASSUME chunk[c].outstanding = 0 PROVE FALSE
  <2>1. Working(t, c)
    BY <1>1, <1>2, Alone DEF Critical
  <2>2. 1 \in DOMAIN head /\ head[1] = c /\ CanBump(c, call[t].req)
    BY <1>1, <2>1 DEF Working, Linking
  <2>3. FirstServing(1, call[t].req)
    BY <2>2 DEF FirstServing
  <2> QED BY <1>1, <2>2, <2>3
<1> QED BY <1>2

(* The walk over the live chunks: a chunk linked for this request is the   *)
(* one picked, being the first.                                            *)
LEMMA PickAccounts ==
  ASSUME Accounted, LockInv, NEW t \in Threads, AllocPick(t)
  PROVE  Accounted'
<1>0. PICK i \in DOMAIN head :
        \E p, n :
          /\ call[t].at = "alloc" /\ FirstServing(i, call[t].req)
          /\ call' = [call EXCEPT ![t] = [at |-> "alloc_take", id |-> call[t].id, op |-> call[t].op,
                                          req |-> call[t].req, c |-> head[i], p |-> p, n |-> n]]
          /\ UNCHANGED <<head, free_chunks, chunk, bytes_live, buf>>
  BY DEF AllocPick, pool
<1>1. PICK p, n :
        /\ call[t].at = "alloc" /\ FirstServing(i, call[t].req)
        /\ call' = [call EXCEPT ![t] = [at |-> "alloc_take", id |-> call[t].id, op |-> call[t].op,
                                        req |-> call[t].req, c |-> head[i], p |-> p, n |-> n]]
        /\ UNCHANGED <<head, free_chunks, chunk, bytes_live, buf>>
  BY <1>0
<1>2. PICK k : k = [at |-> "alloc_take", id |-> call[t].id, op |-> call[t].op,
                    req |-> call[t].req, c |-> head[i], p |-> p, n |-> n]
  OBVIOUS
<1>3. Steps(t) /\ call'[t] = k
  BY <1>1, <1>2 DEF Accounted, Shapes, CallShape, Steps, Only
<1>4. CallOK(k)
  <2>1. head[i] \in Linked
    BY DEF Linked
  <2> QED BY <1>1, <1>2, <2>1 DEF Accounted, Shapes, CallOK, Pendings, Owing, Linking
<1>5. ~ResAt(t) /\ ~ResAt(t)' /\ ~OldAt(t) /\ ~OldAt(t)'
  BY <1>1, <1>2, <1>3 DEF ResAt, OldAt, Owing
<1>6. SameCounts
  BY <1>1 DEF SameCounts, Accounted, Shapes, ChunkShape
<1>7. Shapes' /\ Lists' /\ Counted'
  BY <1>1, <1>3, <1>4, <1>5, <1>6, CallMoves
<1>8. Names'
  BY <1>1, <1>2, <1>3, NamesStay DEF Steps, Pendings
<1>9. Occupied'
  <2>1. ASSUME NEW c \in Linked', chunk'[c].outstanding = 0 PROVE Working(t, c)'
    <3>1. c \in Linked /\ chunk[c].outstanding = 0
      BY <1>1, <2>1 DEF Linked
    <3>2. Working(t, c)
      BY <1>1, <3>1, Alone DEF Critical
    <3>3. 1 \in DOMAIN head /\ head[1] = c /\ CanBump(c, call[t].req)
      BY <1>1, <3>2 DEF Working, Linking
    <3>4. i = 1
      <4>1. head \in Seq(Chunks)
        BY DEF Accounted, Lists
      <4>2. i # 1 => 1 \in 1 .. i - 1
        BY <4>1
      <4> QED BY <1>1, <3>3, <4>2 DEF FirstServing
    <3>5. call'[t].c = c
      BY <1>2, <1>3, <3>3, <3>4
    <3> QED BY <1>2, <1>3, <3>5 DEF Working, Linking
  <2> QED BY <2>1 DEF Occupied
<1> QED BY <1>7, <1>8, <1>9 DEF Accounted

(* One more slot of the chunk picked is in use.                            *)
LEMMA ServeAccounts ==
  ASSUME Accounted, LockInv, NEW t \in Threads, call[t].at = "alloc_take", Serve(t),
         ChunkShape', chunk'[call[t].c].outstanding = chunk[call[t].c].outstanding + 1,
         \A d \in Chunks \ {call[t].c} : chunk'[d] = chunk[d]
  PROVE  Accounted'
<1>1. PICK k, r, c, new : /\ k = [at |-> "alloc_unlock", id |-> call[t].id, op |-> call[t].op, res |-> new]
                          /\ r = call[t].req /\ c = call[t].c
                          /\ new = PoolBuf(c, call[t].p, r)
  OBVIOUS
<1>2. /\ call' = [call EXCEPT ![t] = k] /\ bytes_live' = bytes_live + r.size
      /\ UNCHANGED <<head, free_chunks, buf>>
  BY <1>1 DEF Serve
<1>3. Steps(t) /\ call'[t] = k
  BY <1>2 DEF Accounted, Shapes, CallShape, Steps, Only
<1>4. c \in Linked /\ c \in Chunks /\ chunk[c].outstanding \in Nat /\ Servable(r) /\ r.size \in Nat
  <2>1. c \in Linked /\ Servable(r)
    BY <1>1 DEF Accounted, Shapes, CallOK, Linking
  <2>2. c \in Chunks
    BY <2>1, LinkedElems DEF Accounted, Lists, ToSet
  <2> QED BY <2>1, <2>2, PoolAssumption DEF Accounted, Shapes, ChunkShape, Servable, PoolAssumption
<1>5. new.org = "pool" /\ new.c = c /\ new.size = r.size
  BY <1>1 DEF PoolBuf
<1>6. Linked' = Linked
  BY <1>2 DEF Linked
<1>7. Shapes'
  <2>1. ASSUME NEW u \in Threads PROVE CallOK(call[u])'
    <3>1. CASE u = t
      <4>1. call'[u] = k /\ SlotOK(new)
        BY <1>3, <1>4, <1>5, <3>1 DEF SlotOK
      <4>2. call[t].id \in Ids /\ call[t].op \in {"alloc", "realloc"}
        BY DEF Accounted, Shapes, CallOK, Pendings
      <4> QED BY <1>1, <1>5, <4>1, <4>2 DEF CallOK, Pendings, Owing, Linking, SlotOK
    <3>2. CASE u # t
      <4>1. CallOK(call[u]) /\ call'[u] = call[u]
        BY <1>3, <3>2 DEF Accounted, Shapes, Steps, Only
      <4> QED BY <1>6, <4>1 DEF CallOK, SlotOK, Servable
    <3> QED BY <3>1, <3>2
  <2>2. \A i \in Ids : (buf[i].org = "pool" => SlotOK(buf[i]))'
    BY <1>2 DEF Accounted, Shapes, SlotOK
  <2> QED BY <1>2, <1>3, <2>1, <2>2 DEF Accounted, Shapes, Steps, BufShape
<1>8. Names'
  BY <1>1, <1>2, <1>3, NamesStay DEF Steps, Pendings
<1>9. Lists'
  BY <1>2 DEF Accounted, Lists
<1>10. Counted'
  <2>1. PICK s, z, x, id : s = Slots /\ z = Slots' /\ x = <<"res", t>> /\ id = NoThread
    OBVIOUS
  <2>2. OnlyBuf(id) /\ (InBuf(id)' <=> InBuf(id)) /\ buf' = buf
    BY <1>2 DEF OnlyBuf, InBuf
  <2>3. ~ResAt(t) /\ ResAt(t)' /\ call'[t].res = new /\ ~OldAt(t) /\ ~OldAt(t)'
    BY <1>1, <1>3, <1>5 DEF ResAt, OldAt, Owing
  <2>4. /\ Elsewhere(t, id, s, z)
        /\ (<<"buf", id>> \in DOMAIN s <=> InBuf(id)) /\ (InBuf(id) => s[<<"buf", id>>] = buf[id])
        /\ (<<"buf", id>> \in DOMAIN z <=> InBuf(id)') /\ (InBuf(id)' => z[<<"buf", id>>] = buf'[id])
        /\ x \notin DOMAIN s /\ x \in DOMAIN z /\ z[x] = new
        /\ <<"old", t>> \notin DOMAIN s /\ <<"old", t>> \notin DOMAIN z
    BY <1>3, <2>1, <2>2, <2>3, SlotsAfter DEF Steps
  <2>5. \A h : h # x => (h \in DOMAIN z <=> h \in DOMAIN s) /\ (h \in DOMAIN s => z[h] = s[h])
    BY <2>1, <2>2, <2>4 DEF Elsewhere, Mine
  <2>6. Extra(s, z, x)
    BY <1>4, <1>5, <2>4, <2>5 DEF Extra
  <2>7. /\ Finite(s) /\ bytes_live = Sum(s)
        /\ \A d \in Chunks : Cardinality(In(s, d)) = IF d \in Linked THEN chunk[d].outstanding ELSE 0
    BY <2>1 DEF Accounted, Counted
  <2>8. /\ Finite(z) /\ Sum(z) = Sum(s) + r.size
        /\ \A d : Cardinality(In(z, d)) = IF d = c THEN Cardinality(In(s, d)) + 1 ELSE Cardinality(In(s, d))
    <3>1. /\ Finite(z) /\ Sum(z) = Sum(s) + z[x].size
          /\ \A d : Cardinality(In(z, d)) = IF d = z[x].c THEN Cardinality(In(s, d)) + 1 ELSE Cardinality(In(s, d))
      BY <2>6, <2>7, OneMore
    <3> QED BY <1>5, <2>4, <3>1
  <2>9. bytes_live' = Sum(z)
    BY <1>2, <2>7, <2>8
  <2>10. \A d \in Chunks : Cardinality(In(z, d)) = IF d \in Linked' THEN chunk'[d].outstanding ELSE 0
    <3>1. ASSUME NEW d \in Chunks PROVE Cardinality(In(z, d)) = IF d \in Linked' THEN chunk'[d].outstanding ELSE 0
      <4>1. CASE d = c
        BY <1>1, <1>4, <1>6, <2>7, <2>8, <4>1
      <4>2. CASE d # c
        <5>1. chunk'[d] = chunk[d]
          BY <1>1, <4>2
        <5> QED BY <1>6, <2>7, <2>8, <4>2, <5>1
      <4> QED BY <4>1, <4>2
    <3> QED BY <3>1
  <2> QED BY <2>1, <2>8, <2>9, <2>10 DEF Counted
<1>11. Occupied'
  <2>1. ASSUME NEW d \in Linked', chunk'[d].outstanding = 0 PROVE FALSE
    <3>1. d \in Linked /\ d \in Chunks
      BY <1>6, <2>1, LinkedElems DEF Accounted, Lists, ToSet
    <3>2. d # c
      BY <1>1, <1>4, <2>1
    <3>3. chunk[d].outstanding = 0
      BY <1>1, <2>1, <3>1, <3>2
    <3>4. Working(t, d)
      BY <3>1, <3>3, Alone DEF Critical
    <3> QED BY <1>1, <3>2, <3>4 DEF Working
  <2> QED BY <2>1 DEF Occupied
<1> QED BY <1>7, <1>8, <1>9, <1>10, <1>11 DEF Accounted

(* A slot is taken from a free list or from the bump offset.               *)
LEMMA TakeAccounts ==
  ASSUME Accounted, LockInv, NEW t \in Threads, AllocReuse(t) \/ AllocBump(t), fault = "none", fault' = "none"
  PROVE  Accounted'
<1>1. PICK c : c = call[t].c
  OBVIOUS
<1>2. call[t].at = "alloc_take"
  BY DEF AllocReuse, AllocBump
<1>3. c \in Chunks
  <2>1. c \in Linked
    BY <1>1, <1>2 DEF Accounted, Shapes, CallOK, Linking
  <2> QED BY <2>1, LinkedElems DEF Accounted, Lists, ToSet
<1>4. ChunkShape /\ "outstanding" \in DOMAIN chunk[c] /\ chunk[c].outstanding \in Nat
  BY <1>3 DEF Accounted, Shapes, ChunkShape
<1>5. \E new : /\ Serve(t) /\ chunk' = [chunk EXCEPT ![c] = new]
               /\ "outstanding" \in DOMAIN new /\ new.outstanding = chunk[c].outstanding + 1
  <2>1. CASE AllocReuse(t)
    <3>1. Serve(t)
      BY <2>1 DEF AllocReuse, pool_fatal
    <3>2. PICK n, b, next, pg : /\ n = call[t].n /\ b = bucket_of(call[t].req.size)
                                /\ next = mem[c][call[t].p] /\ pg = PageOf(call[t].p)
      OBVIOUS
    <3>3. chunk' = [chunk EXCEPT ![c].free_heads[b] = IF n = 0 THEN next.v ELSE @,
                                 ![c].page_nodes[pg] = @ - 1, ![c].outstanding = @ + 1]
      BY <1>1, <2>1, <3>2 DEF AllocReuse, pool_fatal
    <3>4. PICK lists, pages :
            /\ lists = [chunk EXCEPT ![c].free_heads[b] = IF n = 0 THEN next.v ELSE @]
            /\ pages = [lists EXCEPT ![c].page_nodes[pg] = @ - 1]
      OBVIOUS
    <3>5. chunk' = [pages EXCEPT ![c].outstanding = @ + 1]
      BY <3>3, <3>4
    <3>6. PICK x, y, new : /\ x = [chunk[c] EXCEPT !.free_heads[b] = IF n = 0 THEN next.v ELSE @]
                           /\ y = [x EXCEPT !.page_nodes[pg] = @ - 1]
                           /\ new = [y EXCEPT !.outstanding = @ + 1]
      OBVIOUS
    <3>7. chunk' = [chunk EXCEPT ![c] = new]
      <4>1. c \in DOMAIN chunk
        BY <1>3, <1>4 DEF ChunkShape
      <4>2. lists = [chunk EXCEPT ![c] = x]
        BY <3>4, <3>6
      <4>3. pages = [chunk EXCEPT ![c] = y]
        BY <3>4, <3>6, <4>1, <4>2
      <4> QED BY <3>5, <3>6, <4>1, <4>3
    <3>8. "outstanding" \in DOMAIN new /\ new.outstanding = chunk[c].outstanding + 1
      BY <1>4, <3>6
    <3> QED BY <3>1, <3>7, <3>8
  <2>2. CASE AllocBump(t)
    <3>1. PICK new : /\ Serve(t) /\ chunk' = [chunk EXCEPT ![c] = new]
                     /\ new = Bumped(chunk[c], call[t].p, call[t].req)
      BY <1>1, <2>2 DEF AllocBump
    <3>2. "outstanding" \in DOMAIN new /\ new.outstanding = chunk[c].outstanding + 1
      BY <1>4, <3>1 DEF Bumped, on_alloc_pages
    <3> QED BY <3>1, <3>2
  <2> QED BY <2>1, <2>2
<1>6. PICK new : /\ Serve(t) /\ chunk' = [chunk EXCEPT ![c] = new]
                 /\ "outstanding" \in DOMAIN new /\ new.outstanding = chunk[c].outstanding + 1
  BY <1>5
<1>7. ChunkShape' /\ chunk'[c].outstanding = chunk[c].outstanding + 1 /\ \A d \in Chunks \ {c} : chunk'[d] = chunk[d]
  BY <1>3, <1>4, <1>6 DEF ChunkShape
<1> QED BY <1>1, <1>2, <1>6, <1>7, ServeAccounts

(* A chunk is linked: a recycled one leaves the stack for the list.        *)
LEMMA LinkAccounts ==
  ASSUME Accounted, LockInv, NEW t \in Threads, NeedsChunk(t),
         NEW c \in Chunks, c \notin Linked, NEW m, Link(c, m),
         free_chunks' \in Seq(Chunks), IsInjective(free_chunks'), ToSet(free_chunks') \subseteq ToSet(free_chunks) \ {c}
  PROVE  Accounted'
<1>1. /\ head' = <<c>> \o head /\ chunk' = [chunk EXCEPT ![c] = FreshChunk]
      /\ UNCHANGED <<bytes_live, buf, call>>
  BY DEF Link
<1>2. call[t].at = "alloc"
  BY DEF NeedsChunk
<1>3. ChunkShape /\ head \in Seq(Chunks) /\ IsInjective(head) /\ c \notin ToSet(head) /\ ToSet(head) \cap ToSet(free_chunks) = {}
  BY LinkedElems DEF Accounted, Shapes, Lists
<1>4. /\ head' \in Seq(Chunks) /\ IsInjective(head') /\ ToSet(head') = ToSet(head) \cup {c}
      /\ 1 \in DOMAIN head' /\ head'[1] = c
  BY <1>1, <1>3, Pushed
<1>5. Linked' = Linked \cup {c}
  BY <1>4, LinkedElems
<1>6. /\ chunk'[c] = FreshChunk /\ FreshChunk.outstanding = 0 /\ FreshChunk.fill = 0 /\ "outstanding" \in DOMAIN FreshChunk
      /\ \A d \in Chunks \ {c} : chunk'[d] = chunk[d]
  BY <1>1, <1>3 DEF ChunkShape, FreshChunk
<1>7. ChunkShape'
  BY <1>1, <1>3, <1>6 DEF ChunkShape
<1>8. Shapes'
  <2>1. ASSUME NEW u \in Threads PROVE CallOK(call[u])'
    <3>1. CallOK(call[u]) /\ call' = call
      BY <1>1 DEF Accounted, Shapes
    <3> QED BY <1>5, <3>1 DEF CallOK, SlotOK, Servable
  <2>2. CallShape' /\ BufShape'
    BY <1>1 DEF Accounted, Shapes, CallShape, BufShape
  <2>3. \A i \in Ids : (buf[i].org = "pool" => SlotOK(buf[i]))'
    BY <1>1 DEF Accounted, Shapes, SlotOK
  <2> QED BY <1>7, <2>1, <2>2, <2>3 DEF Shapes
<1>9. Names'
  BY <1>1 DEF Accounted, Names
<1>10. Lists'
  BY <1>3, <1>4 DEF Lists
<1>11. Counted'
  <2>1. Slots' = Slots
    BY <1>1 DEF Slots, HeldBy, SlotOf
  <2>2. /\ Finite(Slots) /\ bytes_live = Sum(Slots)
        /\ \A d \in Chunks : Cardinality(In(Slots, d)) = IF d \in Linked THEN chunk[d].outstanding ELSE 0
    BY DEF Accounted, Counted
  <2>3. \A d \in Chunks : Cardinality(In(Slots, d)) = IF d \in Linked' THEN chunk'[d].outstanding ELSE 0
    BY <1>5, <1>6, <2>2
  <2> QED BY <1>1, <2>1, <2>2, <2>3 DEF Counted
<1>12. Occupied'
  <2>1. ASSUME NEW d \in Linked', chunk'[d].outstanding = 0 PROVE Working(t, d)'
    <3>1. d = c
      <4>1. CASE d # c
        <5>1. d \in Linked /\ d \in Chunks
          BY <1>5, <4>1, LinkedElems DEF Accounted, Lists, ToSet
        <5>2. chunk[d].outstanding = 0
          BY <1>6, <2>1, <4>1, <5>1
        <5> QED BY <5>1, <5>2, NoneServes
      <4> QED BY <4>1
    <3>2. Servable(call[t].req)
      BY <1>2 DEF Accounted, Shapes, CallOK
    <3>3. CanBump(c, call[t].req)'
      <4>1. BumpOffset(0, call[t].req) + SlotCap(call[t].req) <= CHUNK_SIZE
        BY <3>2, FreshServes
      <4> QED BY <1>1, <1>6, <4>1 DEF CanBump, BumpOffset
    <3> QED BY <1>1, <1>2, <1>4, <3>1, <3>3 DEF Working
  <2> QED BY <2>1 DEF Occupied
<1> QED BY <1>8, <1>9, <1>10, <1>11, <1>12 DEF Accounted

(* A set of chunks has a lowest one.                                       *)
LEMMA Lowest ==
  ASSUME NEW N \in Nat, NEW S \in SUBSET (1 .. N), S # {}
  PROVE  Min(S) \in S
<1>1. ASSUME \A x \in S : \E y \in S : ~(x <= y) PROVE FALSE
  <2>1. PICK T : T = {n \in 0 .. N : \A y \in S : n < y}
    OBVIOUS
  <2>2. 0 \in T
    BY <2>1
  <2>3. \A n \in 0 .. N - 1 : n \in T => n + 1 \in T
    BY <1>1, <2>1
  <2>4. \A n \in 0 .. N : n \in T
    BY <2>2, <2>3, Nums!UpTo, Zenon
  <2>5. PICK y : y \in S
    OBVIOUS
  <2>6. y \in 0 .. N /\ ~(y < y)
    BY <2>5
  <2> QED BY <2>1, <2>4, <2>5, <2>6
<1> QED BY <1>1 DEF Min

(* A chunk from the recycle stack or from the system.                      *)
LEMMA ChunkAccounts ==
  ASSUME Accounted, LockInv, NEW t \in Threads, RecycleChunk(t) \/ new_chunk(t), fault = "none", fault' = "none"
  PROVE  Accounted'
<1>1. /\ NeedsChunk(t) /\ free_chunks \in Seq(Chunks) /\ IsInjective(free_chunks)
      /\ ToSet(head) \cap ToSet(free_chunks) = {} /\ Linked = ToSet(head)
  BY LinkedElems DEF RecycleChunk, new_chunk, Accounted, Lists
<1>2. CASE RecycleChunk(t)
  <2>1. /\ free_chunks # << >> /\ Link(Head(free_chunks), mem) /\ free_chunks' = Tail(free_chunks)
    BY <1>2 DEF RecycleChunk, pool_fatal
  <2>2. /\ Head(free_chunks) \in ToSet(free_chunks) /\ Head(free_chunks) \in Chunks
        /\ Tail(free_chunks) \in Seq(Chunks) /\ IsInjective(Tail(free_chunks))
        /\ ToSet(Tail(free_chunks)) = ToSet(free_chunks) \ {Head(free_chunks)}
    BY <1>1, <2>1, Popped
  <2>3. PICK c : c = Head(free_chunks)
    OBVIOUS
  <2>4. /\ c \in Chunks /\ c \notin Linked /\ Link(c, mem)
        /\ free_chunks' \in Seq(Chunks) /\ IsInjective(free_chunks') /\ ToSet(free_chunks') \subseteq ToSet(free_chunks) \ {c}
    BY <1>1, <2>1, <2>2, <2>3
  <2> QED BY <1>1, <2>4, LinkAccounts
<1>3. CASE new_chunk(t)
  <2>1. PICK c, m : /\ c = Min(SystemChunks) /\ Link(c, m) /\ free_chunks = << >> /\ free_chunks' = free_chunks
                    /\ SystemChunks # {}
    BY <1>3 DEF new_chunk
  <2>2. c \in SystemChunks
    <3>1. MaxChunks \in Nat /\ SystemChunks \in SUBSET (1 .. MaxChunks)
      BY PoolAssumption DEF SystemChunks, Chunks, PoolAssumption
    <3> QED BY <2>1, <3>1, Lowest
  <2>3. /\ c \in Chunks /\ c \notin Linked
    BY <2>2 DEF SystemChunks, Linked
  <2>4. ToSet(free_chunks') \subseteq ToSet(free_chunks) \ {c}
    BY <2>1 DEF ToSet
  <2> QED BY <1>1, <2>1, <2>3, <2>4, LinkAccounts
<1> QED BY <1>2, <1>3

(* The system refuses a chunk.                                             *)
LEMMA NullAccounts ==
  ASSUME Accounted, LockInv, NEW t \in Threads, AllocNull(t)
  PROVE  Accounted'
<1>1. PICK k : /\ k = [at |-> "alloc_unlock", id |-> call[t].id, op |-> call[t].op, res |-> NoBuf]
               /\ call' = [call EXCEPT ![t] = k]
  BY DEF AllocNull
<1>2. NeedsChunk(t) /\ call[t].at = "alloc" /\ UNCHANGED <<head, free_chunks, chunk, bytes_live, buf>>
  BY DEF AllocNull, NeedsChunk, pool
<1>3. Steps(t) /\ call'[t] = k
  BY <1>1 DEF Accounted, Shapes, CallShape, Steps, Only
<1>4. CallOK(k)
  BY <1>1, <1>2 DEF Accounted, Shapes, CallOK, Pendings, Owing, Linking
<1>5. ~ResAt(t) /\ ~ResAt(t)' /\ ~OldAt(t) /\ ~OldAt(t)'
  BY <1>1, <1>2, <1>3 DEF ResAt, OldAt, Owing, NoBuf
<1>6. SameCounts
  BY <1>2 DEF SameCounts, Accounted, Shapes, ChunkShape
<1>7. Shapes' /\ Lists' /\ Counted'
  BY <1>2, <1>3, <1>4, <1>5, <1>6, CallMoves
<1>8. Names'
  BY <1>1, <1>2, <1>3, NamesStay DEF Steps, Pendings
<1>9. Occupied'
  BY <1>2, NoneServes DEF Occupied, Linked
<1> QED BY <1>7, <1>8, <1>9 DEF Accounted

(* alloc returns: the slot passes to the name, and for realloc the buffer  *)
(* that the name denoted to the dealloc that follows.                      *)
LEMMA ReturnAccounts ==
  ASSUME Accounted, LockInv, NEW t \in Threads, AllocReturn(t)
  PROVE  Accounted'
<1>1. call[t].at = "alloc_unlock" /\ UNCHANGED <<head, free_chunks, chunk, bytes_live>>
  BY DEF AllocReturn
<1>2. PICK id, op, res : id = call[t].id /\ op = call[t].op /\ res = call[t].res
  OBVIOUS
<1>3. id \in Ids /\ op \in {"alloc", "realloc"} /\ (res = NoBuf \/ (res.org = "pool" /\ SlotOK(res)))
  BY <1>1, <1>2 DEF Accounted, Shapes, CallOK, Pendings
<1>4. SameCounts /\ Linked' = Linked
  BY <1>1 DEF SameCounts, Accounted, Shapes, ChunkShape, Linked
<1>5. Occupied'
  <2>1. ASSUME NEW c \in Linked', chunk'[c].outstanding = 0 PROVE FALSE
    <3>1. Working(t, c)
      BY <1>1, <1>4, <2>1, Alone DEF Critical
    <3> QED BY <1>1, <3>1 DEF Working, Linking
  <2> QED BY <2>1 DEF Occupied
<1>6. CASE res = NoBuf
  <2>1. call' = [call EXCEPT ![t] = Idle] /\ buf' = buf
    BY <1>2, <1>6 DEF AllocReturn
  <2>2. Steps(t) /\ call'[t] = Idle
    BY <2>1 DEF Accounted, Shapes, CallShape, Steps, Only
  <2>3. CallOK(call'[t]) /\ ~ResAt(t) /\ ~ResAt(t)' /\ ~OldAt(t) /\ ~OldAt(t)' /\ call'[t].at \notin Pendings
    BY <1>1, <1>2, <1>6, <2>2 DEF CallOK, Pendings, Owing, Linking, ResAt, OldAt, Idle, NoBuf
  <2>4. Shapes' /\ Lists' /\ Counted'
    BY <1>1, <1>4, <2>1, <2>2, <2>3, CallMoves
  <2>5. Names'
    BY <2>1, <2>2, <2>3, NamesStay DEF Steps
  <2> QED BY <1>5, <2>4, <2>5 DEF Accounted
<1>7. CASE res # NoBuf
  <2>1. Deliver(t, id, op, res) /\ res.org = "pool" /\ SlotOK(res)
    BY <1>2, <1>3, <1>7 DEF AllocReturn
  <2>2. PICK k, old : old = buf[id] /\ k = IF op = "realloc" THEN [at |-> "dealloc", old |-> old] ELSE Idle
    OBVIOUS
  <2>3. call' = [call EXCEPT ![t] = k] /\ buf' = [buf EXCEPT ![id] = res]
    BY <2>1, <2>2 DEF Deliver
  <2>4. /\ Steps(t) /\ call'[t] = k /\ BufShape' /\ OnlyBuf(id) /\ buf'[id] = res
    BY <1>3, <2>3 DEF Accounted, Shapes, CallShape, BufShape, Steps, Only, OnlyBuf
  <2>5. k.at \in {"idle", "dealloc"} /\ (k.at = "dealloc" <=> op = "realloc") /\ (k.at = "dealloc" => k.old = old)
    BY <2>2 DEF Idle
  <2>6. op = "alloc" => old.org # "pool"
    BY <1>1, <1>2, <2>2 DEF Accounted, Names, Pendings
  <2>7. Shapes'
    <3>1. ASSUME NEW u \in Threads PROVE CallOK(call[u])'
      <4>1. CASE u = t
        BY <1>3, <2>2, <2>4, <2>5, <4>1 DEF CallOK, Pendings, Owing, Linking, Accounted, Shapes, SlotOK
      <4>2. CASE u # t
        <5>1. CallOK(call[u]) /\ call'[u] = call[u]
          BY <2>4, <4>2 DEF Accounted, Shapes, Steps, Only
        <5> QED BY <1>4, <5>1 DEF CallOK, SlotOK, Servable
      <4> QED BY <4>1, <4>2
    <3>2. \A i \in Ids : (buf[i].org = "pool" => SlotOK(buf[i]))'
      BY <2>1, <2>4 DEF Accounted, Shapes, SlotOK, OnlyBuf
    <3> QED BY <1>4, <2>4, <3>1, <3>2 DEF Shapes, Steps, SameCounts
  <2>8. Names'
    <3>1. \A u \in Threads \ {t} : call'[u] = call[u]
      BY <2>4 DEF Steps, Only
    <3>2. call'[t].at \notin Pendings
      BY <2>4, <2>5 DEF Pendings
    <3>3. \A u \in Threads \ {t} : call[u].at \in Pendings => call[u].id \in Ids \ {id}
      BY <1>1, <1>2 DEF Accounted, Shapes, CallOK, Names, Pendings
    <3>4. \A i \in Ids \ {id} : buf'[i] = buf[i]
      BY <2>4 DEF OnlyBuf
    <3> QED BY <3>1, <3>2, <3>3, <3>4 DEF Accounted, Names
  <2>9. Lists'
    BY <1>1 DEF Accounted, Lists
  <2>10. Counted'
    <3>1. PICK s, z, x, y, w : s = Slots /\ z = Slots' /\ x = <<"res", t>> /\ y = <<"buf", id>> /\ w = <<"old", t>>
      OBVIOUS
    <3>2. /\ ResAt(t) /\ ~OldAt(t) /\ ~ResAt(t)' /\ InBuf(id)'
          /\ call[t].res = res
      BY <1>1, <1>2, <1>3, <2>1, <2>4, <2>5 DEF ResAt, OldAt, InBuf, Owing
    <3>3. OldAt(t)' <=> InBuf(id)
      BY <1>3, <2>2, <2>4, <2>5, <2>6 DEF OldAt, InBuf, Owing
    <3>4. OldAt(t)' => call'[t].old = old
      BY <2>4, <2>5 DEF OldAt, Owing
    <3>5. /\ Elsewhere(t, id, s, z)
          /\ (y \in DOMAIN s <=> InBuf(id)) /\ (InBuf(id) => s[y] = buf[id])
          /\ y \in DOMAIN z /\ z[y] = buf'[id]
          /\ x \in DOMAIN s /\ s[x] = call[t].res /\ x \notin DOMAIN z /\ w \notin DOMAIN s
          /\ (w \in DOMAIN z <=> OldAt(t)') /\ (OldAt(t)' => z[w] = call'[t].old)
      BY <2>4, <3>1, <3>2, SlotsAfter DEF Steps
    <3>6. Finite(s)
      BY <3>1 DEF Accounted, Counted
    <3>7. z[y] = s[x]
      BY <2>4, <3>2, <3>5
    <3>8. x # y /\ x # w /\ y # w /\ Mine(t, id) = {x, y, w}
      BY <3>1 DEF Mine
    <3>9. CASE InBuf(id)
      <4>1. w \in DOMAIN z /\ z[w] = s[y] /\ y \in DOMAIN s
        BY <2>2, <3>3, <3>4, <3>5, <3>9
      <4>2. PICK m : m = [h \in (DOMAIN s \ {y}) \cup {w} |-> IF h = w THEN s[y] ELSE s[h]]
        OBVIOUS
      <4>3. DOMAIN m = (DOMAIN s \ {y}) \cup {w} /\ (\A h \in DOMAIN s \ {y} : m[h] = s[h]) /\ m[w] = s[y]
        BY <3>5, <4>2
      <4>4. Alike(s, m)
        BY <3>5, <3>6, <4>1, <4>3, OneMoved
      <4>5. Finite(m) /\ x \in DOMAIN m /\ y \notin DOMAIN m
        BY <3>5, <3>8, <4>3, <4>4 DEF Alike
      <4>6. DOMAIN z = (DOMAIN m \ {x}) \cup {y}
        BY <3>5, <3>8, <4>1, <4>3 DEF Elsewhere
      <4>7. \A h \in DOMAIN m \ {x} : z[h] = m[h]
        BY <3>5, <3>8, <4>1, <4>3 DEF Elsewhere
      <4>8. z[y] = m[x]
        BY <3>5, <3>7, <3>8, <4>3
      <4>9. Alike(m, z)
        BY <4>5, <4>6, <4>7, <4>8, OneMoved
      <4>10. Alike(s, z)
        BY <4>4, <4>9 DEF Alike
      <4> QED BY <1>1, <1>4, <3>1, <4>10, CountedAlike DEF Accounted, SameCounts
    <3>10. CASE ~InBuf(id)
      <4>1. \A h \in Mine(t, id) \ {x, y} : h \notin DOMAIN z /\ h \notin DOMAIN s
        BY <3>3, <3>5, <3>8, <3>10
      <4>2. x \in Mine(t, id) /\ y \in Mine(t, id) /\ y \notin DOMAIN s
        BY <3>5, <3>8, <3>10
      <4>3. Alike(s, z)
        BY <3>5, <3>6, <3>7, <4>1, <4>2, SlotMoves
      <4> QED BY <1>1, <1>4, <3>1, <4>3, CountedAlike DEF Accounted, SameCounts
    <3> QED BY <3>9, <3>10
  <2> QED BY <1>5, <2>7, <2>8, <2>9, <2>10 DEF Accounted
<1> QED BY <1>6, <1>7

(* A slot that is freed was counted in its chunk.                          *)
LEMMA OwedIsCounted ==
  ASSUME Accounted, NEW t \in Threads, OldAt(t)
  PROVE  /\ call[t].old.c \in Linked /\ call[t].old.c \in Chunks
         /\ chunk[call[t].old.c].outstanding \in Nat \ {0}
<1>1. PICK s, x, c : s = Slots /\ x = <<"old", t>> /\ c = call[t].old.c
  OBVIOUS
<1>2. x \in DOMAIN s /\ s[x].c = c
  BY <1>1, Holders DEF Slots
<1>3. c \in Chunks
  BY <1>1 DEF Accounted, Shapes, CallOK, OldAt, SlotOK
<1>4. x \in In(s, c) /\ IsFiniteSet(In(s, c))
  BY <1>1, <1>2, FS_Subset DEF In, Accounted, Counted, Finite
<1>5. Cardinality(In(s, c)) # 0
  BY <1>4, FS_EmptySet
<1>6. Cardinality(In(s, c)) = IF c \in Linked THEN chunk[c].outstanding ELSE 0
  BY <1>1, <1>3 DEF Accounted, Counted
<1> QED BY <1>1, <1>3, <1>5, <1>6 DEF Accounted, Shapes, ChunkShape

(* One slot less is in use.                                                *)
LEMMA SlotAccounts ==
  ASSUME Accounted, LockInv, NEW t \in Threads, DeallocSlot(t), fault = "none", fault' = "none"
  PROVE  Accounted'
<1>1. PICK old, c, k : /\ old = call[t].old /\ c = old.c /\ k = [at |-> "dealloc_slot", old |-> old]
  OBVIOUS
<1>2. /\ call[t].at = "dealloc_locked" /\ old.org = "pool"
      /\ chunk' = [chunk EXCEPT ![c].outstanding = @ - 1]
      /\ bytes_live' = bytes_live - old.size
      /\ call' = [call EXCEPT ![t] = k]
      /\ UNCHANGED <<head, free_chunks, buf>>
  BY <1>1 DEF DeallocSlot, pool_fatal
<1>3. Steps(t) /\ call'[t] = k
  BY <1>2 DEF Accounted, Shapes, CallShape, Steps, Only
<1>4. OldAt(t)
  BY <1>1, <1>2 DEF OldAt, Owing
<1>5. c \in Linked /\ c \in Chunks /\ chunk[c].outstanding \in Nat \ {0} /\ ChunkShape /\ "outstanding" \in DOMAIN chunk[c]
  BY <1>1, <1>4, OwedIsCounted DEF Accounted, Shapes, ChunkShape
<1>6. chunk'[c].outstanding = chunk[c].outstanding - 1 /\ ChunkShape' /\ \A d \in Chunks \ {c} : chunk'[d] = chunk[d]
  BY <1>2, <1>5 DEF ChunkShape
<1>7. old.size \in Nat
  BY <1>1, <1>4 DEF Accounted, Shapes, CallOK, OldAt, SlotOK
<1>8. Linked' = Linked
  BY <1>2 DEF Linked
<1>9. Shapes'
  <2>1. ASSUME NEW u \in Threads PROVE CallOK(call[u])'
    <3>1. CASE u = t
      BY <1>1, <1>3, <1>5, <1>8, <3>1 DEF CallOK, Pendings, Owing, Linking
    <3>2. CASE u # t
      <4>1. CallOK(call[u]) /\ call'[u] = call[u]
        BY <1>3, <3>2 DEF Accounted, Shapes, Steps, Only
      <4> QED BY <1>8, <4>1 DEF CallOK, SlotOK, Servable
    <3> QED BY <3>1, <3>2
  <2>2. \A i \in Ids : (buf[i].org = "pool" => SlotOK(buf[i]))'
    BY <1>2 DEF Accounted, Shapes, SlotOK
  <2> QED BY <1>2, <1>3, <1>6, <2>1, <2>2 DEF Accounted, Shapes, Steps, BufShape
<1>10. Names'
  BY <1>1, <1>2, <1>3, NamesStay DEF Steps, Pendings
<1>11. Lists'
  BY <1>2 DEF Accounted, Lists
<1>12. Counted'
  <2>1. PICK s, z, x, id : s = Slots /\ z = Slots' /\ x = <<"old", t>> /\ id = NoThread
    OBVIOUS
  <2>2. OnlyBuf(id) /\ (InBuf(id)' <=> InBuf(id)) /\ buf' = buf
    BY <1>2 DEF OnlyBuf, InBuf
  <2>3. ~ResAt(t) /\ ~ResAt(t)' /\ ~OldAt(t)'
    BY <1>1, <1>2, <1>3 DEF ResAt, OldAt, Owing
  <2>4. /\ Elsewhere(t, id, s, z)
        /\ (<<"buf", id>> \in DOMAIN s <=> InBuf(id)) /\ (InBuf(id) => s[<<"buf", id>>] = buf[id])
        /\ (<<"buf", id>> \in DOMAIN z <=> InBuf(id)') /\ (InBuf(id)' => z[<<"buf", id>>] = buf'[id])
        /\ x \in DOMAIN s /\ x \notin DOMAIN z /\ s[x] = old
        /\ <<"res", t>> \notin DOMAIN s /\ <<"res", t>> \notin DOMAIN z
    BY <1>1, <1>3, <1>4, <2>1, <2>2, <2>3, SlotsAfter DEF Steps
  <2>5. \A h : h # x => (h \in DOMAIN z <=> h \in DOMAIN s) /\ (h \in DOMAIN s => z[h] = s[h])
    BY <2>1, <2>2, <2>4 DEF Elsewhere, Mine
  <2>6. /\ Finite(s) /\ bytes_live = Sum(s)
        /\ \A d \in Chunks : Cardinality(In(s, d)) = IF d \in Linked THEN chunk[d].outstanding ELSE 0
    BY <2>1 DEF Accounted, Counted
  <2>7. Extra(z, s, x)
    BY <1>7, <2>4, <2>5 DEF Extra
  <2>8. Finite(z)
    <3>1. DOMAIN z \subseteq DOMAIN s /\ \A h \in DOMAIN z : z[h] = s[h]
      BY <2>4, <2>5
    <3> QED BY <2>6, <3>1, FS_Subset DEF Finite
  <2>9. /\ Sum(s) = Sum(z) + old.size /\ Sum(z) \in Nat
        /\ \A d : /\ Cardinality(In(s, d)) = IF d = c THEN Cardinality(In(z, d)) + 1 ELSE Cardinality(In(z, d))
                  /\ Cardinality(In(z, d)) \in Nat
    <3>1. /\ Sum(s) = Sum(z) + s[x].size /\ Sum(z) \in Nat
          /\ \A d : /\ Cardinality(In(s, d)) = IF d = s[x].c THEN Cardinality(In(z, d)) + 1 ELSE Cardinality(In(z, d))
                    /\ Cardinality(In(z, d)) \in Nat
      BY <2>7, <2>8, OneMore
    <3> QED BY <1>1, <2>4, <3>1
  <2>10. bytes_live' = Sum(z)
    BY <1>2, <1>7, <2>6, <2>9
  <2>11. \A d \in Chunks : Cardinality(In(z, d)) = IF d \in Linked' THEN chunk'[d].outstanding ELSE 0
    <3>1. ASSUME NEW d \in Chunks PROVE Cardinality(In(z, d)) = IF d \in Linked' THEN chunk'[d].outstanding ELSE 0
      <4>1. CASE d = c
        BY <1>5, <1>6, <1>8, <2>6, <2>9, <4>1
      <4>2. CASE d # c
        <5>1. chunk'[d] = chunk[d]
          BY <1>6, <4>2
        <5> QED BY <1>8, <2>6, <2>9, <4>2, <5>1
      <4> QED BY <4>1, <4>2
    <3> QED BY <3>1
  <2> QED BY <2>1, <2>8, <2>10, <2>11 DEF Counted
<1>13. Occupied'
  <2>1. ASSUME NEW d \in Linked', chunk'[d].outstanding = 0 PROVE Working(t, d)'
    <3>1. CASE d = c
      BY <1>1, <1>3, <3>1 DEF Working
    <3>2. CASE d # c
      <4>1. d \in Linked /\ d \in Chunks
        BY <1>8, <2>1, LinkedElems DEF Accounted, Lists, ToSet
      <4>2. chunk[d].outstanding = 0
        BY <1>6, <2>1, <3>2, <4>1
      <4>3. Working(t, d)
        BY <1>2, <4>1, <4>2, Alone DEF Critical
      <4> QED BY <1>2, <4>3 DEF Working, Linking
    <3> QED BY <3>1, <3>2
  <2> QED BY <2>1 DEF Occupied
<1> QED BY <1>9, <1>10, <1>11, <1>12, <1>13 DEF Accounted

(* The freed slot becomes a node or is forgotten.                          *)
LEMMA FreedAccounts ==
  ASSUME Accounted, LockInv, NEW t \in Threads, PushNode(t) \/ ReleaseSlot(t), fault = "none", fault' = "none"
  PROVE  Accounted'
<1>1. PICK c, k : c = call[t].old.c /\ k = [at |-> "dealloc_sweep", c |-> c]
  OBVIOUS
<1>2. call[t].at = "dealloc_slot" /\ Freed(t)
  BY DEF PushNode, ReleaseSlot, pool_fatal
<1>3. /\ call' = [call EXCEPT ![t] = k] /\ UNCHANGED <<head, free_chunks, bytes_live, buf>>
  BY <1>1, <1>2 DEF Freed
<1>4. Steps(t) /\ call'[t] = k
  BY <1>3 DEF Accounted, Shapes, CallShape, Steps, Only
<1>5. c \in Linked
  BY <1>1, <1>2 DEF Accounted, Shapes, CallOK
<1>6. c \in Chunks
  BY <1>5, LinkedElems DEF Accounted, Lists, ToSet
<1>7. ChunkShape /\ "outstanding" \in DOMAIN chunk[c] /\ chunk[c].outstanding \in Nat
  BY <1>6 DEF Accounted, Shapes, ChunkShape
<1>8. \E new : /\ chunk' = [chunk EXCEPT ![c] = new]
               /\ "outstanding" \in DOMAIN new /\ new.outstanding = chunk[c].outstanding
  <2>1. CASE PushNode(t)
    <3>1. PICK node, b, pg : node = call[t].old.p /\ b = bucket_of(CapOf(c, node)) /\ pg = PageOf(node)
      OBVIOUS
    <3>2. chunk' = [chunk EXCEPT ![c].free_heads[b] = node, ![c].page_nodes[pg] = @ + 1]
      BY <1>1, <2>1, <3>1 DEF PushNode, pool_fatal
    <3>3. PICK h, p : /\ h = [chunk[c].free_heads EXCEPT ![b] = node]
                      /\ p = [chunk[c].page_nodes EXCEPT ![pg] = @ + 1]
      OBVIOUS
    <3>4. PICK new : new = [chunk[c] EXCEPT !.free_heads = h, !.page_nodes = p]
      OBVIOUS
    <3>5. "outstanding" \in DOMAIN new /\ new.outstanding = chunk[c].outstanding
      BY <1>7, <3>4
    <3>6. chunk' = [chunk EXCEPT ![c] = new]
      BY <1>6, <1>7, <3>2, <3>3, <3>4 DEF ChunkShape
    <3> QED BY <3>5, <3>6
  <2>2. CASE ReleaseSlot(t)
    <3>1. PICK start, end, new : /\ start = call[t].old.p - HEADER /\ end = call[t].old.p + CapOf(c, call[t].old.p)
                                 /\ new = on_free_pages(chunk[c], start, end)
      OBVIOUS
    <3>2. chunk' = [chunk EXCEPT ![c] = new]
      BY <1>1, <2>2, <3>1 DEF ReleaseSlot
    <3>3. "outstanding" \in DOMAIN new /\ new.outstanding = chunk[c].outstanding
      BY <1>7, <3>1 DEF on_free_pages
    <3> QED BY <3>2, <3>3
  <2> QED BY <2>1, <2>2
<1>9. SameCounts
  BY <1>6, <1>7, <1>8 DEF SameCounts, ChunkShape
<1>10. CallOK(k) /\ ~ResAt(t) /\ ~ResAt(t)' /\ ~OldAt(t) /\ ~OldAt(t)' /\ call'[t].at \notin Pendings
  BY <1>1, <1>2, <1>4, <1>5 DEF CallOK, Pendings, Owing, Linking, ResAt, OldAt
<1>11. Shapes' /\ Lists' /\ Counted'
  BY <1>3, <1>4, <1>9, <1>10, CallMoves
<1>12. Names'
  BY <1>3, <1>4, <1>10, NamesStay DEF Steps
<1>13. Occupied'
  <2>1. ASSUME NEW d \in Linked', chunk'[d].outstanding = 0 PROVE Working(t, d)'
    <3>1. d \in Linked /\ d \in Chunks
      BY <1>3, <2>1, LinkedElems DEF Accounted, Lists, ToSet
    <3>2. chunk[d].outstanding = 0
      BY <1>9, <2>1, <3>1 DEF SameCounts
    <3>3. Working(t, d)
      BY <1>2, <3>1, <3>2, Alone DEF Critical
    <3>4. d = c
      BY <1>1, <1>2, <3>3 DEF Working, Linking
    <3> QED BY <1>1, <1>4, <3>4 DEF Working, Linking
  <2> QED BY <2>1 DEF Occupied
<1> QED BY <1>11, <1>12, <1>13 DEF Accounted

(* The end of a dealloc: only a chunk without slots leaves the list.       *)
LEMMA DropAccounts ==
  ASSUME Accounted, LockInv, NEW t \in Threads, drop_chunk(t), fault = "none", fault' = "none"
  PROVE  Accounted'
<1>1. PICK c, k : c = call[t].c /\ k = [at |-> "dealloc_unlock"]
  OBVIOUS
<1>2. /\ call[t].at = "dealloc_sweep" /\ chunk[c].outstanding = 0
      /\ c \notin ToSet(free_chunks)
      /\ head' = RemoveFirst(head, c) /\ free_chunks' = <<c>> \o free_chunks
      /\ call' = [call EXCEPT ![t] = k] /\ UNCHANGED <<chunk, bytes_live, buf>>
  BY <1>1 DEF drop_chunk, pool_fatal, ToSet
<1>3. Steps(t) /\ call'[t] = k
  BY <1>2 DEF Accounted, Shapes, CallShape, Steps, Only
<1>4. c \in Linked /\ Linked = ToSet(head) /\ c \in ToSet(head)
  BY <1>1, <1>2, LinkedElems DEF Accounted, Shapes, CallOK, Linking
<1>5. /\ c \in Chunks /\ head \in Seq(Chunks) /\ IsInjective(head)
      /\ free_chunks \in Seq(Chunks) /\ IsInjective(free_chunks)
      /\ ToSet(head) \cap ToSet(free_chunks) = {}
  <2>1. Lists
    BY DEF Accounted
  <2>2. c \in Chunks
    BY <1>4, <2>1 DEF Lists, ToSet
  <2> QED BY <2>1, <2>2 DEF Lists
<1>6. head' \in Seq(Chunks) /\ IsInjective(head') /\ ToSet(head') = ToSet(head) \ {c}
  BY <1>2, <1>4, <1>5, Removed
<1>7. free_chunks' \in Seq(Chunks) /\ IsInjective(free_chunks') /\ ToSet(free_chunks') = ToSet(free_chunks) \cup {c}
  BY <1>2, <1>5, Pushed
<1>8. Linked' = Linked \ {c}
  BY <1>4, <1>6, LinkedElems
<1>9. \A u \in Threads : call[u].at \in Critical => u = t
  BY <1>2, Alone DEF Critical
<1>10. Shapes'
  <2>1. ASSUME NEW u \in Threads PROVE CallOK(call[u])'
    <3>1. CASE u = t
      BY <1>1, <1>3, <3>1 DEF CallOK, Pendings, Owing, Linking
    <3>2. CASE u # t
      <4>1. CallOK(call[u]) /\ call'[u] = call[u]
        BY <1>3, <3>2 DEF Accounted, Shapes, Steps, Only
      <4>2. call[u].at \notin Linking /\ call[u].at # "dealloc_slot"
        BY <1>9, <3>2 DEF Linking, Critical
      <4> QED BY <4>1, <4>2 DEF CallOK, SlotOK, Servable
    <3> QED BY <3>1, <3>2
  <2>2. \A i \in Ids : (buf[i].org = "pool" => SlotOK(buf[i]))'
    BY <1>2 DEF Accounted, Shapes, SlotOK
  <2> QED BY <1>2, <1>3, <2>1, <2>2 DEF Accounted, Shapes, Steps, BufShape, ChunkShape
<1>11. Names'
  BY <1>1, <1>2, <1>3, NamesStay DEF Steps, Pendings
<1>12. Lists'
  BY <1>5, <1>6, <1>7 DEF Lists
<1>13. Counted'
  <2>1. Slots' = Slots
    <3>1. ~ResAt(t) /\ ~ResAt(t)' /\ ~OldAt(t) /\ ~OldAt(t)'
      BY <1>1, <1>2, <1>3 DEF ResAt, OldAt, Owing
    <3> QED BY <1>2, <1>3, <3>1, SlotsStay DEF Steps
  <2>2. /\ Finite(Slots) /\ bytes_live = Sum(Slots)
        /\ \A d \in Chunks : Cardinality(In(Slots, d)) = IF d \in Linked THEN chunk[d].outstanding ELSE 0
    BY DEF Accounted, Counted
  <2>3. \A d \in Chunks : Cardinality(In(Slots, d)) = IF d \in Linked' THEN chunk'[d].outstanding ELSE 0
    BY <1>2, <1>8, <2>2
  <2> QED BY <1>2, <2>1, <2>2, <2>3 DEF Counted
<1>14. Occupied'
  <2>1. ASSUME NEW d \in Linked', chunk'[d].outstanding = 0 PROVE FALSE
    <3>1. d \in Linked /\ d # c /\ chunk[d].outstanding = 0
      BY <1>2, <1>8, <2>1
    <3>2. Working(t, d)
      BY <1>2, <3>1, Alone DEF Critical
    <3> QED BY <1>1, <1>2, <3>1, <3>2 DEF Working
  <2> QED BY <2>1 DEF Occupied
<1> QED BY <1>10, <1>11, <1>12, <1>13, <1>14 DEF Accounted

(* A sweep, a gated block on its way out, and the unlock.                  *)
LEMMA EndAccounts ==
  ASSUME Accounted, LockInv, NEW t \in Threads, maybe_sweep(t) \/ DeallocGated(t) \/ unlock(t), fault = "none", fault' = "none"
  PROVE  Accounted'
<1>1. PICK k : call' = [call EXCEPT ![t] = k] /\ k.at \in {"dealloc_unlock", "idle"}
  <2>1. CASE maybe_sweep(t)
    <3>1. PICK k : k = [at |-> "dealloc_unlock"]
      OBVIOUS
    <3>2. call' = [call EXCEPT ![t] = k] /\ k.at = "dealloc_unlock"
      BY <2>1, <3>1 DEF maybe_sweep
    <3> QED BY <3>2
  <2>2. CASE DeallocGated(t)
    <3>1. PICK k : k = [at |-> "dealloc_unlock", was |-> call[t].old.sys,
                        sys |-> [size |-> call[t].old.size + HEADER, align |-> AlignOf(call[t].old)]]
      OBVIOUS
    <3>2. call' = [call EXCEPT ![t] = k] /\ k.at = "dealloc_unlock"
      BY <2>2, <3>1 DEF DeallocGated, pool_fatal
    <3> QED BY <3>2
  <2>3. CASE unlock(t)
    <3>1. PICK k : k = Idle
      OBVIOUS
    <3>2. call' = [call EXCEPT ![t] = k] /\ k.at = "idle"
      BY <2>3, <3>1 DEF unlock, Idle
    <3> QED BY <3>2
  <2> QED BY <2>1, <2>2, <2>3
<1>2. UNCHANGED <<head, free_chunks, bytes_live, buf>>
  BY DEF maybe_sweep, DeallocGated, pool_fatal, unlock, pool
<1>3. /\ call[t].at \in {"dealloc_sweep", "dealloc_locked", "dealloc_unlock"}
      /\ (call[t].at = "dealloc_locked" => call[t].old.org # "pool")
      /\ (call[t].at = "dealloc_sweep" => chunk[call[t].c].outstanding > 0 /\ call[t].c \in Linked)
  BY DEF maybe_sweep, DeallocGated, unlock, Accounted, Shapes, CallOK, Linking
<1>4. SameCounts
  <2>1. chunk' = chunk \/ (maybe_sweep(t) /\ chunk' = [chunk EXCEPT ![call[t].c].dead = {}])
    BY DEF maybe_sweep, DeallocGated, pool_fatal, unlock, pool, sweep_dead_pages
  <2>2. ChunkShape
    BY DEF Accounted, Shapes
  <2>3. CASE chunk' = chunk
    BY <2>2, <2>3 DEF SameCounts, ChunkShape
  <2>4. CASE maybe_sweep(t) /\ chunk' = [chunk EXCEPT ![call[t].c].dead = {}]
    <3>1. PICK c, new : c = call[t].c /\ new = [chunk[c] EXCEPT !.dead = {}]
      OBVIOUS
    <3>2. c \in Chunks
      <4>1. c \in Linked
        BY <2>4, <3>1 DEF maybe_sweep, Accounted, Shapes, CallOK, Linking
      <4> QED BY <4>1, LinkedElems DEF Accounted, Lists, ToSet
    <3>3. "outstanding" \in DOMAIN new /\ new.outstanding = chunk[c].outstanding
      BY <2>2, <3>1, <3>2 DEF ChunkShape
    <3>4. chunk' = [chunk EXCEPT ![c] = new]
      BY <2>4, <3>1
    <3> QED BY <2>2, <3>2, <3>3, <3>4 DEF SameCounts, ChunkShape
  <2> QED BY <2>1, <2>3, <2>4
<1>5. Steps(t) /\ call'[t] = k
  BY <1>1 DEF Accounted, Shapes, CallShape, Steps, Only
<1>6. CallOK(k) /\ ~ResAt(t) /\ ~ResAt(t)' /\ ~OldAt(t) /\ ~OldAt(t)' /\ call'[t].at \notin Pendings
  BY <1>1, <1>3, <1>5 DEF CallOK, Pendings, Owing, Linking, ResAt, OldAt
<1>7. Shapes' /\ Lists' /\ Counted'
  BY <1>2, <1>4, <1>5, <1>6, CallMoves
<1>8. Names'
  BY <1>2, <1>5, <1>6, NamesStay DEF Steps
<1>9. Occupied'
  <2>1. ASSUME NEW d \in Linked', chunk'[d].outstanding = 0 PROVE FALSE
    <3>1. d \in Linked /\ d \in Chunks
      BY <1>2, <2>1, LinkedElems DEF Accounted, Lists, ToSet
    <3>2. chunk[d].outstanding = 0
      BY <1>4, <2>1, <3>1 DEF SameCounts
    <3>3. Working(t, d)
      BY <1>3, <3>1, <3>2, Alone DEF Critical
    <3> QED BY <1>3, <3>2, <3>3 DEF Working, Linking
  <2> QED BY <2>1 DEF Occupied
<1> QED BY <1>7, <1>8, <1>9 DEF Accounted

-----------------------------------------------------------------------------
(* While the process lives, every step keeps the accounts.                 *)
LEMMA AccStep ==
  ASSUME Accounted, LockInv, [Next]_vars, fault = "none", fault' = "none"
  PROVE  Accounted'
<1>1. ASSUME NEW t \in Threads, Locked(t) PROVE Accounted'
  BY <1>1, PickAccounts, TakeAccounts, ChunkAccounts, NullAccounts, ReturnAccounts,
     SlotAccounts, FreedAccounts, DropAccounts, EndAccounts DEF Locked
<1>2. CASE \/ \E m \in FreeModes : set_free_mode(m)
           \/ \E on \in PoolingModes : set_pooling(on)
           \/ \E on \in BOOLEAN : set_pass_through(on)
           \/ UNCHANGED vars
  <2>1. UNCHANGED <<call, buf, head, free_chunks, chunk, bytes_live>>
    BY <1>2 DEF set_free_mode, set_pooling, set_pass_through, vars, pool
  <2> QED BY <2>1, NothingMoves
<1> QED BY <1>1, <1>2, UnlockedAccounts DEF Next

(* The empty pool.                                                         *)
LEMMA AccInit ==
  ASSUME Init
  PROVE  Accounted
<1>1. HeldBy = {}
  BY DEF Init, HeldBy, NoBuf, Idle
<1>2. DOMAIN Slots = {} /\ Finite(Slots) /\ \A c : In(Slots, c) = {}
  BY <1>1, FS_EmptySet DEF Slots, Finite, In
<1>3. Sum(Slots) = 0
  <2>1. PICK f : f = Sizes(Slots)
    OBVIOUS
  <2>2. Total(f, {}) = 0
    BY FS_EmptySet, TotalSplit
  <2> QED BY <1>2, <2>1, <2>2 DEF Sum
<1>4. Linked = {}
  BY DEF Init, Linked
<1>5. Shapes
  BY DEF Init, Shapes, CallShape, BufShape, ChunkShape, FreshChunk, CallOK, Idle, NoBuf, Pendings, Owing, Linking
<1>6. Names
  BY DEF Init, Names, Idle, Pendings
<1>7. Lists
  BY DEF Init, Lists, IsInjective, ToSet
<1>8. Counted
  BY <1>2, <1>3, <1>4, FS_EmptySet DEF Init, Counted
<1>9. Occupied
  BY <1>4 DEF Occupied
<1> QED BY <1>5, <1>6, <1>7, <1>8, <1>9 DEF Accounted

(* dealloc's underflow check and the aliasing guards of drop_chunk and     *)
(* new_chunk never fire.                                                   *)
CountingFaults == {"outstanding underflow", "recycled chunk still linked live", "chunk already on recycle stack"}

(* With the accounts in order, none of these checks fires.                 *)
LEMMA NoCountingFault ==
  ASSUME Accounted, LockInv, fault = "none", [Next]_vars
  PROVE  fault' \notin CountingFaults
<1>1. ASSUME NEW t \in Threads, NEW id, NEW op, NEW r, Route(t, id, op, r) PROVE fault' = fault
  BY <1>1 DEF Route, AllocSystem, AllocGated, AllocPooled
<1>2. ASSUME NEW t \in Threads, Locked(t) PROVE fault' \notin CountingFaults
  <2>1. CASE AllocReuse(t) \/ AllocBump(t)
    BY <2>1 DEF AllocReuse, AllocBump, pool_fatal, Serve, CountingFaults
  <2>2. CASE RecycleChunk(t)
    <3>1. free_chunks # << >> /\ free_chunks \in Seq(Chunks) /\ IsInjective(free_chunks)
      BY <2>2 DEF RecycleChunk, Accounted, Lists
    <3>2. Head(free_chunks) \notin ToSet(head)
      BY <3>1, Popped DEF Accounted, Lists
    <3>3. ~ \E i \in DOMAIN head : head[i] = Head(free_chunks)
      BY <3>2 DEF ToSet
    <3> QED BY <2>2, <3>3 DEF RecycleChunk, Link, CountingFaults
  <2>3. CASE new_chunk(t)
    BY <2>3 DEF new_chunk, Link, CountingFaults
  <2>4. CASE DeallocSlot(t)
    <3>1. OldAt(t)
      BY <2>4 DEF DeallocSlot, OldAt, Owing
    <3>2. chunk[call[t].old.c].outstanding # 0
      BY <3>1, OwedIsCounted
    <3>3. SlotFault(call[t].old.c, call[t].old.p) \in {"corrupt header", "slot outside its chunk", "none"}
      BY <3>2 DEF SlotFault
    <3> QED BY <2>4, <3>3 DEF DeallocSlot, pool_fatal, CountingFaults
  <2>5. CASE PushNode(t)
    <3>1. \A c, node, cap : PushFault(c, node, cap) \in {"double push", "page_nodes exceeds slots-per-page", "none"}
      BY DEF PushFault
    <3> QED BY <2>5, <3>1 DEF PushNode, pool_fatal, Freed, CountingFaults
  <2>6. CASE ReleaseSlot(t) \/ maybe_sweep(t) \/ unlock(t)
    BY <2>6 DEF ReleaseSlot, Freed, maybe_sweep, unlock, CountingFaults
  <2>7. CASE drop_chunk(t)
    <3>1. call[t].c \in ToSet(head)
      BY <2>7, LinkedElems DEF drop_chunk, Accounted, Shapes, CallOK, Linking
    <3>2. ~ \E i \in DOMAIN free_chunks : free_chunks[i] = call[t].c
      BY <3>1 DEF Accounted, Lists, ToSet
    <3> QED BY <2>7, <3>2 DEF drop_chunk, CountingFaults
  <2>8. CASE DeallocGated(t)
    BY <2>8 DEF DeallocGated, pool_fatal, CountingFaults
  <2>9. CASE AllocPick(t) \/ AllocNull(t) \/ AllocReturn(t)
    BY <2>9 DEF AllocPick, AllocNull, AllocReturn, CountingFaults
  <2> QED BY <1>2, <2>1, <2>2, <2>3, <2>4, <2>5, <2>6, <2>7, <2>8, <2>9 DEF Locked
<1>3. ASSUME NEW t \in Threads, alloc(t) \/ realloc(t) PROVE fault' \notin CountingFaults
  BY <1>1, <1>3 DEF alloc, realloc, CountingFaults
<1>4. ASSUME NEW t \in Threads, dealloc(t) \/ DeallocSystem(t) \/ DeallocPooled(t) \/ lock(t) PROVE fault' \notin CountingFaults
  BY <1>4 DEF dealloc, DeallocSystem, DeallocPooled, lock, pool_fatal, CountingFaults
<1>5. CASE \/ \E m \in FreeModes : set_free_mode(m)
           \/ \E on \in PoolingModes : set_pooling(on)
           \/ \E on \in BOOLEAN : set_pass_through(on)
  BY <1>5 DEF set_free_mode, set_pooling, set_pass_through, CountingFaults
<1>6. CASE UNCHANGED vars
  BY <1>6 DEF vars, CountingFaults
<1> QED BY <1>2, <1>3, <1>4, <1>5, <1>6 DEF Next

(* A dead process takes no step.                                           *)
LEMMA DeadStays ==
  ASSUME call = Dead, [Next]_vars
  PROVE  call' = Dead /\ fault' = fault
<1>1. \A t \in Threads : call[t].at = "aborted" /\ call[t] # Idle
  BY DEF Dead, Idle
<1>2. ASSUME NEW t \in Threads, Locked(t) PROVE FALSE
  BY <1>1, <1>2 DEF Locked, AllocPick, AllocReuse, AllocBump, RecycleChunk, new_chunk, NeedsChunk, AllocNull, AllocReturn,
     DeallocSlot, PushNode, ReleaseSlot, drop_chunk, maybe_sweep, DeallocGated, unlock
<1>3. ASSUME NEW t \in Threads, alloc(t) \/ realloc(t) \/ dealloc(t) \/ DeallocSystem(t) \/ DeallocPooled(t) \/ lock(t)
      PROVE  FALSE
  BY <1>1, <1>3 DEF alloc, realloc, dealloc, DeallocSystem, DeallocPooled, lock
<1>4. ~SomeIdle
  BY <1>1 DEF SomeIdle
<1>5. CASE UNCHANGED vars
  BY <1>5 DEF vars
<1> QED BY <1>2, <1>3, <1>4, <1>5 DEF Next, set_free_mode, set_pooling, set_pass_through

(* A fatal check ends the process.                                         *)
LEMMA DiesDead ==
  ASSUME fault = "none", [Next]_vars
  PROVE  fault' = "none" \/ call' = Dead
<1>1. ASSUME NEW t \in Threads, NEW id, NEW op, NEW r, Route(t, id, op, r) PROVE fault' = fault
  BY <1>1 DEF Route, AllocSystem, AllocGated, AllocPooled
<1>2. ASSUME NEW t \in Threads, Locked(t) PROVE fault' = fault \/ call' = Dead
  <2>1. CASE AllocReuse(t) \/ AllocBump(t)
    BY <2>1 DEF AllocReuse, AllocBump, pool_fatal, Serve
  <2>2. CASE RecycleChunk(t) \/ new_chunk(t)
    BY <2>2 DEF RecycleChunk, new_chunk, pool_fatal, Link
  <2>3. CASE DeallocSlot(t)
    BY <2>3 DEF DeallocSlot, pool_fatal
  <2>4. CASE PushNode(t) \/ ReleaseSlot(t)
    BY <2>4 DEF PushNode, ReleaseSlot, pool_fatal, Freed
  <2>5. CASE drop_chunk(t) \/ maybe_sweep(t) \/ DeallocGated(t) \/ unlock(t)
    BY <2>5 DEF drop_chunk, maybe_sweep, DeallocGated, unlock, pool_fatal
  <2>6. CASE AllocPick(t) \/ AllocNull(t) \/ AllocReturn(t)
    BY <2>6 DEF AllocPick, AllocNull, AllocReturn
  <2> QED BY <1>2, <2>1, <2>2, <2>3, <2>4, <2>5, <2>6 DEF Locked
<1>3. ASSUME NEW t \in Threads, alloc(t) \/ realloc(t) PROVE fault' = fault
  BY <1>1, <1>3 DEF alloc, realloc
<1>4. ASSUME NEW t \in Threads, dealloc(t) \/ DeallocSystem(t) \/ DeallocPooled(t) \/ lock(t)
      PROVE  fault' = fault \/ call' = Dead
  BY <1>4 DEF dealloc, DeallocSystem, DeallocPooled, lock, pool_fatal
<1>5. CASE \/ \E m \in FreeModes : set_free_mode(m)
           \/ \E on \in PoolingModes : set_pooling(on)
           \/ \E on \in BOOLEAN : set_pass_through(on)
  BY <1>5 DEF set_free_mode, set_pooling, set_pass_through
<1>6. CASE UNCHANGED vars
  BY <1>6 DEF vars
<1> QED BY <1>2, <1>3, <1>4, <1>5, <1>6 DEF Next

(* Alive, with its accounts in order, or dead of another check.            *)
PoolInv ==
  /\ LockInv
  /\ \/ fault = "none" /\ Accounted
     \/ fault \notin CountingFaults \cup {"none"} /\ call = Dead

(* It holds of the empty pool.                                             *)
LEMMA PoolInit ==
  ASSUME Init
  PROVE  PoolInv
<1>1. LockInv
  BY PoolAssumption DEF Init, LockInv, CallShape, LockOwner, Idle, Critical, PoolAssumption
<1>2. fault = "none"
  BY DEF Init
<1> QED BY <1>1, <1>2, AccInit DEF PoolInv

(* Every step keeps it.                                                    *)
LEMMA PoolStep ==
  ASSUME PoolInv, [Next]_vars
  PROVE  PoolInv'
<1>1. LockInv'
  BY LockStep DEF PoolInv
<1>2. CASE fault = "none" /\ Accounted
  <2>1. CASE fault' = "none"
    BY <1>1, <1>2, <2>1, AccStep DEF PoolInv
  <2>2. CASE fault' # "none"
    <3>1. fault' \notin CountingFaults /\ call' = Dead
      BY <1>2, <2>2, NoCountingFault, DiesDead DEF PoolInv
    <3>2. Dead' = Dead /\ CountingFaults' = CountingFaults
      BY DEF Dead, CountingFaults
    <3> QED BY <1>1, <2>2, <3>1, <3>2 DEF PoolInv
  <2> QED BY <2>1, <2>2
<1>3. CASE fault \notin CountingFaults \cup {"none"} /\ call = Dead
  <2>1. call' = Dead /\ fault' = fault
    BY <1>3, DeadStays
  <2>2. Dead' = Dead /\ CountingFaults' = CountingFaults
    BY DEF Dead, CountingFaults
  <2> QED BY <1>1, <1>3, <2>1, <2>2 DEF PoolInv
<1> QED BY <1>2, <1>3 DEF PoolInv

(* As long as the process lives, every chunk knows exactly how many of its *)
(* slots are in use and is linked exactly while there are some, and the    *)
(* running total is the sum of their sizes: for every set of threads and   *)
(* requests, whatever is or is not in the payloads.                        *)
THEOREM Accounting == Spec => [](fault = "none" => ChunkAccounting)
<1>1. Init => PoolInv
  BY PoolInit
<1>2. PoolInv /\ [Next]_vars => PoolInv'
  BY PoolStep
<1>3. PoolInv => (fault = "none" => ChunkAccounting)
  BY Accounts DEF PoolInv
<1> QED BY <1>1, <1>2, <1>3, PTL DEF Spec

(* dealloc's underflow check and the aliasing guards of new_chunk and      *)
(* drop_chunk never fire: the process can only die of what it finds in the *)
(* memory of the slots, or of an invalid free.                             *)
THEOREM NoCountingFaults == Spec => [](fault \notin CountingFaults)
<1>1. Init => PoolInv
  BY PoolInit
<1>2. PoolInv /\ [Next]_vars => PoolInv'
  BY PoolStep
<1>3. PoolInv => fault \notin CountingFaults
  BY DEF PoolInv, CountingFaults
<1> QED BY <1>1, <1>2, <1>3, PTL DEF Spec
=============================================================================
