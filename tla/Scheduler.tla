------------------------------ MODULE Scheduler ------------------------------
(***************************************************************************)
(* ScheduleRuntime (volar-ir-common/src/scheduler.rs): workers run the     *)
(* iterations of the current epoch as transactions with buffered writes,   *)
(* interleaved in any way, and commit in any order.  Errors of begin and   *)
(* finish_epoch and every abort poison the runtime for good; errors of     *)
(* read and write are only reported to the callback.                       *)
(***************************************************************************)
EXTENDS SchedulePlan, StorageLog

CONSTANTS
    NoResult,
    IterationIds,   \* what begin may be called with, unknown ids included
    BlockOf(_),     \* the block a logical step runs, its storage statements
    read_only       \* the storages declared read-only to the extraction

VARIABLES
    bank,           \* the committed storage image
    current_epoch,
    active,         \* the iterations with a reservation
    trace,          \* committed iteration -> [epoch, log], kept in key order
    aborted,
    txn             \* transactions held by workers: iteration -> observations

runtimeVars == <<bank, current_epoch, active, trace, aborted, txn>>

vars == <<planVars, runtimeVars>>

completed == DOMAIN trace

\* ensure_live
Live == phase = "running" /\ ~aborted

is_complete == Live /\ current_epoch = epochs

new ==
    /\ phase = "built"
    /\ phase' = IF validate(manifest, epochs) THEN "running" ELSE "rejected"
    /\ UNCHANGED <<program, manifest, epochs, runtimeVars>>

\* The checks of begin, in the order of the code.
MayBegin(i) ==
    /\ i \in DOMAIN manifest
    /\ manifest[i].epoch = current_epoch
    /\ i \notin completed
    /\ i \notin active
    /\ manifest[i].dependencies \subseteq completed
    /\ \A j \in active : ~Conflict(manifest[j].claims, manifest[i].claims)

begin(i) ==
    /\ Live
    /\ MayBegin(i)
    /\ active' = active \cup {i}
    /\ txn' = [j \in DOMAIN txn \cup {i} |-> IF j = i THEN << >> ELSE txn[j]]
    /\ UNCHANGED <<planVars, bank, current_epoch, trace, aborted>>

\* A known iteration asked for after the last epoch is an error that leaves
\* the runtime as it is; every other refusal poisons it.
begin_refused(i) ==
    /\ Live
    /\ ~MayBegin(i)
    /\ i \in DOMAIN manifest => current_epoch < epochs
    /\ aborted' = TRUE
    /\ UNCHANGED <<planVars, bank, current_epoch, active, trace, txn>>

\* What the callback of a held transaction does next.
NextStep(i) == Step(manifest[i].logical_step, txn[i])

\* read and write: recorded, or refused with an error the callback sees.
access(i) ==
    /\ phase = "running"
    /\ i \in DOMAIN txn
    /\ LET op == NextStep(i)
           ok == Live /\ i \in active /\ Permitted(manifest[i].claims, op, txn[i])
       IN  /\ op \in Accesses
           /\ txn' = [txn EXCEPT ![i] = Append(@, Observation(op, ok, @, bank))]
    /\ UNCHANGED <<planVars, bank, current_epoch, active, trace, aborted>>

\* Mutant: the writes are sorted by cell only, and the first one stays.
CommittedFirst(i) ==
    [c \in Cells |->
        IF WritesTo(txn[i], c) = {} THEN bank[c]
        ELSE txn[i][CHOOSE n \in WritesTo(txn[i], c) :
                      \A m \in WritesTo(txn[i], c) : n <= m].value]

\* The buffered writes reach the bank in order of cell and sequence, so the
\* last one to a cell stays; the fragment is sorted into the trace.
Committed(i) == [c \in Cells |-> Observed(txn[i], c, bank)]

\* Mutant: the stamp is the number of the epoch that comes next.
FragmentNext(i) == [epoch |-> current_epoch + 1, log |-> txn[i]]

Fragment(i) == [epoch |-> current_epoch, log |-> txn[i]]

commit(i) ==
    /\ phase = "running"
    /\ i \in DOMAIN txn
    /\ NextStep(i).kind = "commit"
    /\ Live /\ i \in active
    /\ bank' = Committed(i)
    /\ active' = active \ {i}
    /\ trace' = [j \in completed \cup {i} |->
                    IF j = i THEN Fragment(i) ELSE trace[j]]
    /\ txn' = [j \in DOMAIN txn \ {i} |-> txn[j]]
    /\ UNCHANGED <<planVars, current_epoch, aborted>>

\* On a poisoned runtime the transaction is consumed and nothing is written.
commit_refused(i) ==
    /\ phase = "running"
    /\ i \in DOMAIN txn
    /\ NextStep(i).kind = "commit"
    /\ ~(Live /\ i \in active)
    /\ txn' = [j \in DOMAIN txn \ {i} |-> txn[j]]
    /\ UNCHANGED <<planVars, bank, current_epoch, active, trace, aborted>>

\* The callback failed, or its worker gives up at any other time.
abort(i) ==
    /\ phase = "running"
    /\ i \in DOMAIN txn
    /\ active' = active \ {i}
    /\ txn' = [j \in DOMAIN txn \ {i} |-> txn[j]]
    /\ aborted' = TRUE
    /\ UNCHANGED <<planVars, bank, current_epoch, trace>>

\* Mutants: an epoch ends when nothing runs, or only with the last one.
EpochDoneIdle == active = {}

EpochDoneAll ==
    /\ active = {}
    /\ \A i \in DOMAIN manifest : i \in completed

\* Nothing runs and every iteration of the epoch has committed.
EpochDone ==
    /\ active = {}
    /\ \A i \in DOMAIN manifest : manifest[i].epoch = current_epoch => i \in completed

finish_epoch ==
    /\ Live
    /\ current_epoch < epochs
    /\ EpochDone
    /\ current_epoch' = current_epoch + 1
    /\ UNCHANGED <<planVars, bank, active, trace, aborted, txn>>

\* finish_epoch too early, or execute_epoch with an order of another length.
finish_refused ==
    /\ Live
    /\ current_epoch < epochs
    /\ aborted' = TRUE
    /\ UNCHANGED <<planVars, bank, current_epoch, active, trace, txn>>

RuntimeNext ==
    \/ new
    \/ \E i \in IterationIds : begin(i) \/ begin_refused(i)
    \/ \E i \in DOMAIN txn : access(i) \/ commit(i) \/ commit_refused(i) \/ abort(i)
    \/ finish_epoch
    \/ finish_refused

RuntimeInit ==
    /\ bank = InitialBank
    /\ current_epoch = 0
    /\ active = {}
    /\ trace = << >>
    /\ aborted = FALSE
    /\ txn = << >>

Init == PlanInit /\ RuntimeInit

Next ==
    \/ plan_from_iterations /\ UNCHANGED runtimeVars
    \/ RuntimeNext

Spec == Init /\ [][Next]_vars

\* Manifests that did not come from the planner.
BuiltSpec == BuiltInit /\ RuntimeInit /\ [][Next]_vars

\* The host goes on: it plans, opens the transactions of the current epoch,
\* lets each callback take its next step, and closes the epoch when done.
Fairness ==
    /\ WF_vars(plan_from_iterations /\ UNCHANGED runtimeVars)
    /\ WF_vars(new)
    /\ \A i \in IterationIds : /\ WF_vars(begin(i))
                               /\ WF_vars(access(i))
                               /\ WF_vars(commit(i))
                               /\ WF_vars(commit_refused(i))
                               /\ WF_vars(abort(i) /\ NextStep(i).kind = "fail")
    /\ WF_vars(finish_epoch)

FairSpec == Spec /\ Fairness

----------------------------------------------------------------------------
(* Properties.                                                             *)

\* plan_from_iterations never puts two iterations in one epoch that conflict
\* or of which one depends on the other (schedule.rs, "conflict-free
\* consistency epochs").
EpochsIndependent ==
    \A i, j \in DOMAIN manifest :
        i # j /\ manifest[i].epoch = manifest[j].epoch =>
            /\ ~Conflict(manifest[i].claims, manifest[j].claims)
            /\ j \notin manifest[i].dependencies

\* An iteration is open or committed only once every iteration of the earlier
\* epochs and every dependency has committed, whatever begin, abort and
\* finish_epoch calls came before.
EpochBarrier ==
    \A i \in active \cup completed :
        /\ \A j \in DOMAIN manifest : manifest[j].epoch < manifest[i].epoch => j \in completed
        /\ manifest[i].dependencies \subseteq completed

\* commit stamps a fragment with the current epoch, and the trace is sorted by
\* (epoch, iteration): that is the canonical order, whatever the order of the
\* commits, because the stamp is always the epoch of the manifest.
TraceCanonical ==
    \A i \in completed :
        /\ trace[i].epoch = manifest[i].epoch
        /\ \A j \in completed : j < i => trace[j].epoch <= trace[i].epoch

\* The claims of an iteration are those extracted from its block.
ClaimsExtracted(i) ==
    LET block == BlockOf(program[i + 1].logical_step)
    IN  /\ ~ReadOnlyViolation(block, read_only)
        /\ program[i + 1].claims = StorageAccessSummary(block, read_only)

\* No access of iteration i is refused before the sequence numbers run out.
Unrefused(i) == \A n \in DOMAIN txn[i] : txn[i][n].ok \/ n - 1 > max_sequence

\* The block of iteration i is typed and stores the results of an action.
StoresByTypedAction(i) ==
    LET block == BlockOf(program[i + 1].logical_step)
    IN  block.form = "ir" /\ \E s \in block.stmts : s.op = "ActionStore"

\* The claims that extraction gives a block cover each of its accesses, action
\* stores of the Boolar form included, unless it is a typed block with an
\* ActionStore: on a live runtime no read or write of it is refused
\* (volar-ir-passes/src/schedule.rs, from_ir_block and from_biir_block).
ExtractionCovers ==
    Live => \A i \in DOMAIN txn :
              ClaimsExtracted(i) /\ ~StoresByTypedAction(i) => Unrefused(i)

\* What the module says of every block: the extraction is conservative, for
\* typed Volar IR and for Boolar (volar-ir-passes/src/schedule.rs, head).
SummaryConservative ==
    Live => \A i \in DOMAIN txn : ClaimsExtracted(i) => Unrefused(i)

\* The iterations committed without a gap from the first one.
CanonicalPrefix == {i \in completed : \A j \in DOMAIN manifest : j < i => j \in completed}

Serial == INSTANCE SerialSchedule WITH
    log <- [i \in CanonicalPrefix |-> trace[i].log],
    result <- IF phase = "running" /\ current_epoch = epochs THEN bank ELSE NoResult

\* However workers interleave and in whatever order they commit, every
\* committed iteration observed what it would have in the serial run in
\* program order, and the final bank is the one of that run.
Refines == Serial!SerialSpec

\* The schedule is rejected, poisoned or run to its end: no order of begins
\* and commits leaves workers waiting for each other.
Completes == <>(phase = "rejected" \/ aborted \/ is_complete)
=============================================================================
