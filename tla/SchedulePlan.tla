---------------------------- MODULE SchedulePlan ----------------------------
(***************************************************************************)
(* The planner, ScheduleManifest::plan_from_iterations: it takes the       *)
(* iterations in program order and closes the current epoch before one     *)
(* that conflicts with it, depends on it or does not fit.  One step is one *)
(* turn of its loop.  A manifest can also be built by hand; either way     *)
(* ScheduleRuntime::new validates it before it runs.                       *)
(***************************************************************************)
EXTENDS ScheduleManifest

CONSTANTS
    Programs,   \* what plan_from_iterations is called with
    HandBuilt   \* manifests built without it, as [iterations, epochs]

ASSUME ProgramsAssumption ==
    \A p \in Programs :
        /\ Len(p) \in Nat
        /\ \A n \in 1..Len(p) : /\ p[n].dependencies \subseteq Nat
                                 /\ \A c \in p[n].claims : ClaimTyped(c)

VARIABLES
    program,    \* the iterations given to the planner, in program order
    manifest,   \* iteration ordinal -> descriptor, for those placed so far
    epochs,     \* the number of epochs of the finished manifest
    phase       \* "planning", "built", "running" or "rejected"

planVars == <<program, manifest, epochs, phase>>

\* The number of iterations placed so far, and the ordinal of the next.
Placed == Cardinality(DOMAIN manifest)

\* The epoch being filled, and the iterations in it.
CurrentOrdinal == IF Placed = 0 THEN 0 ELSE manifest[Placed - 1].epoch

Current == {i \in DOMAIN manifest : manifest[i].epoch = CurrentOrdinal}

\* Mutant: the claims of the epoch are not looked at.
ClosesEpochUnclaimed(iteration) ==
    /\ Current # {}
    /\ \/ Cardinality(Current) >= epoch_size
       \/ Current \cap iteration.dependencies # {}

\* The iteration cannot join the epoch being filled.
ClosesEpoch(iteration) ==
    /\ Current # {}
    /\ \/ Cardinality(Current) >= epoch_size
       \/ Current \cap iteration.dependencies # {}
       \/ \E i \in Current : Conflict(manifest[i].claims, canonicalize(iteration.claims))

\* next_lane
Lane == IF Placed = 0 THEN 0
        ELSE IF manifest[Placed - 1].worker_lane + 1 = worker_lane_count THEN 0
        ELSE manifest[Placed - 1].worker_lane + 1

Descriptor(iteration) ==
    [logical_step |-> iteration.logical_step,
     dependencies |-> iteration.dependencies,
     claims |-> canonicalize(iteration.claims),
     correlation_range |-> iteration.correlation_range,
     communication_range |-> iteration.communication_range,
     worker_lane |-> Lane,
     epoch |-> IF ClosesEpoch(iteration) THEN CurrentOrdinal + 1 ELSE CurrentOrdinal]

\* The errors of the loop body: NonCanonicalIteration, ForwardDependency, and
\* a claim with a bad range.
IterationAccepted(iteration) ==
    /\ iteration.ordinal = Placed
    /\ \A d \in iteration.dependencies : d < Placed
    /\ \A c \in canonicalize(iteration.claims) : ScopeValid(c.scope)

plan_iteration ==
    /\ phase = "planning"
    /\ epoch_size # 0 /\ worker_lane_count # 0
    /\ Placed < Len(program)
    /\ LET iteration == program[Placed + 1] IN
         /\ IterationAccepted(iteration)
         /\ manifest' = [i \in DOMAIN manifest \cup {Placed} |->
                            IF i = Placed THEN Descriptor(iteration) ELSE manifest[i]]
    /\ UNCHANGED <<program, epochs, phase>>

plan_finish ==
    /\ phase = "planning"
    /\ epoch_size # 0 /\ worker_lane_count # 0
    /\ Placed = Len(program)
    /\ epochs' = IF Placed = 0 THEN 0 ELSE CurrentOrdinal + 1
    /\ phase' = IF validate(manifest, epochs') THEN "built" ELSE "rejected"
    /\ UNCHANGED <<program, manifest>>

plan_reject ==
    /\ phase = "planning"
    /\ \/ epoch_size = 0
       \/ worker_lane_count = 0
       \/ Placed < Len(program) /\ ~IterationAccepted(program[Placed + 1])
    /\ phase' = "rejected"
    /\ UNCHANGED <<program, manifest, epochs>>

plan_from_iterations == plan_iteration \/ plan_finish \/ plan_reject

PlanInit ==
    /\ program \in Programs
    /\ manifest = << >>
    /\ epochs = 0
    /\ phase = "planning"

\* A manifest built by hand stands for the program of its own descriptors.
BuiltInit ==
    /\ \E b \in HandBuilt :
         /\ manifest = b.iterations
         /\ epochs = b.epochs
         /\ program = [n \in 1..Cardinality(DOMAIN b.iterations) |-> b.iterations[n - 1]]
    /\ phase = "built"
=============================================================================
