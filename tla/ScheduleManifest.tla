-------------------------- MODULE ScheduleManifest --------------------------
(***************************************************************************)
(* The data of the shared-storage schedule: address scopes, storage claims *)
(* and ordinal ranges, how the compiler extracts the claims of a block,    *)
(* and what ScheduleManifest::validate accepts                             *)
(* (volar-ir-common/src/schedule.rs, volar-ir-passes/src/schedule.rs).     *)
(*                                                                         *)
(* A list of claims or dependencies that canonicalize has sorted and       *)
(* deduplicated is a set here.  The ordinals of epochs and iterations are  *)
(* keys: a manifest is a function from iteration ordinals to descriptors   *)
(* that carry their epoch, so that "ordinals count up from zero" says that *)
(* the domain is an initial segment and that epochs never decrease.        *)
(***************************************************************************)
EXTENDS Naturals, Sequences, FiniteSets

CONSTANTS
    U64Max,             \* u64::MAX
    epoch_size,         \* the manifest's cap on iterations per epoch
    worker_lane_count,
    max_epochs,         \* ScheduleLimits
    max_iterations,
    max_dependencies,
    max_claims

ASSUME ScheduleNaturals ==
    /\ U64Max \in Nat
    /\ epoch_size \in Nat
    /\ worker_lane_count \in Nat
    /\ {max_epochs, max_iterations, max_dependencies, max_claims} \subseteq Nat

\* What the types of the code say of a claim.
ClaimTyped(claim) ==
    /\ claim.mode \in {"Read", "Write", "Unknown"}
    /\ claim.scope.whole \in BOOLEAN
    /\ claim.scope.start \in Nat
    /\ claim.scope.len \in Nat

----------------------------------------------------------------------------
(* Scopes and claims.  A cell is a pair of a typed storage key and an      *)
(* address.                                                                *)

Whole == [whole |-> TRUE, start |-> 0, len |-> 0]

PublicRange(start, len) == [whole |-> FALSE, start |-> start, len |-> len]

\* start.checked_add(len)
Representable(range) == range.start + range.len <= U64Max

overlaps(left, right) ==
    \/ left.whole
    \/ right.whole
    \/ ~Representable(left)
    \/ ~Representable(right)
    \/ /\ left.start < right.start + right.len
       /\ right.start < left.start + left.len

scope_contains(scope, address) ==
    \/ scope.whole
    \/ /\ Representable(scope)
       /\ scope.start <= address
       /\ address < scope.start + scope.len

ScopeValid(scope) == scope.whole \/ (scope.len # 0 /\ Representable(scope))

effective(mode) == IF mode = "Unknown" THEN "Write" ELSE mode

conflicts_with(left, right) ==
    /\ left.key = right.key
    /\ overlaps(left.scope, right.scope)
    /\ ~(effective(left.mode) = "Read" /\ effective(right.mode) = "Read")

\* Some claim of one iteration conflicts with some claim of the other.
Conflict(left, right) == \E l \in left, r \in right : conflicts_with(l, r)

\* What StorageClaimMode::join makes of the modes of equal claims.
join(modes) ==
    IF "Unknown" \in modes THEN "Unknown"
    ELSE IF "Write" \in modes THEN "Write" ELSE "Read"

\* Claims with the same key and scope become one.
canonicalize(claims) ==
    {[key |-> c.key, scope |-> c.scope,
      mode |-> join({d.mode : d \in {e \in claims : e.key = c.key /\ e.scope = c.scope}})] :
        c \in claims}

\* A block is [form, stmts]: typed Volar IR ("ir") or Boolar ("biir"), and the
\* statements in it that touch storage, each [op, key].  A typed ActionStore is
\* one of these for each of its targets.
StorageStmts(form) ==
    {"StorageRead", "StorageWrite"}
        \cup (IF form = "ir" THEN {"ActionStore"} ELSE {"ActionStoreBit"})

Writes(s) == s.op # "StorageRead"

classify(s, read_only) ==
    [key |-> s.key, scope |-> Whole,
     mode |-> IF Writes(s) THEN "Write"
              ELSE IF s.key.storage \in read_only THEN "Read" ELSE "Unknown"]

\* Mutant: the Boolar form, too, has no case for its action stores.
ClaimedReadsWrites(form) == {"StorageRead", "StorageWrite"}

\* The statements from_ir_block and from_biir_block have a case for.  The typed
\* form has none for ActionStore and passes over it.
Claimed(form) ==
    {"StorageRead", "StorageWrite"} \cup (IF form = "ir" THEN {} ELSE {"ActionStoreBit"})

ClaimedStmts(block) == {s \in block.stmts : s.op \in Claimed(block.form)}

\* classify fails at a claimed write to a storage declared read-only.
ReadOnlyViolation(block, read_only) ==
    \E s \in ClaimedStmts(block) : Writes(s) /\ s.key.storage \in read_only

StorageAccessSummary(block, read_only) ==
    canonicalize({classify(s, read_only) : s \in ClaimedStmts(block)})

\* Some claim covers the cell, and some covering claim is not a Read.
Covers(claims, cell) ==
    \E c \in claims : c.key = cell.key /\ scope_contains(c.scope, cell.address)

CoversWrite(claims, cell) ==
    \E c \in claims : /\ c.key = cell.key
                      /\ scope_contains(c.scope, cell.address)
                      /\ effective(c.mode) # "Read"

----------------------------------------------------------------------------
(* Manifests.                                                              *)

NoRange == [start |-> 0, len |-> 0]

RangesOverlap(left, right) ==
    /\ left.start < right.start + right.len
    /\ right.start < left.start + left.len

\* add_range, for one of the two ordinal spaces: an iteration's range against
\* the nonempty ranges of the iterations before it.
RangesReserved(m, space) ==
    \A i \in DOMAIN m :
        /\ Representable(m[i][space])
        /\ \A j \in DOMAIN m :
             j < i /\ m[j][space].len # 0 => ~RangesOverlap(m[i][space], m[j][space])

\* The checks of validate; epochs is the number of epochs, and some of them
\* may hold no iteration.
validate(m, epochs) ==
    /\ epoch_size # 0
    /\ worker_lane_count # 0
    /\ epochs <= max_epochs
    /\ Cardinality(DOMAIN m) <= max_iterations
    /\ \A i \in DOMAIN m :
         /\ m[i].epoch < epochs
         /\ \A j \in DOMAIN m : j < i => m[j].epoch <= m[i].epoch
         /\ Cardinality({j \in DOMAIN m : m[j].epoch = m[i].epoch}) <= epoch_size
         /\ m[i].worker_lane < worker_lane_count
         /\ Cardinality(m[i].dependencies) <= max_dependencies
         /\ Cardinality(m[i].claims) <= max_claims
         /\ \A d \in m[i].dependencies : d < i
         /\ \A c \in m[i].claims : ScopeValid(c.scope)
    /\ RangesReserved(m, "correlation_range")
    /\ RangesReserved(m, "communication_range")
=============================================================================
