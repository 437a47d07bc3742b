--------------------------- MODULE SerialSchedule ---------------------------
(***************************************************************************)
(* The reference semantics of a schedule: the iterations run one after the *)
(* other in canonical order, each against the storage that the ones before *)
(* it left, and commit at once                                             *)
(* (docs/vole-mpc-shared-storage-scheduling-plan.md, section 3.4).  Only   *)
(* the claims decide which accesses fail.                                  *)
(***************************************************************************)
EXTENDS StorageLog

CONSTANT NoResult

VARIABLES
    program,    \* the iterations in program order, with their claims
    log,        \* what each iteration that has run observed
    result      \* the final storage, or NoResult

serialVars == <<program, log, result>>

\* l is the run of iteration i on the bank, up to its commit.
Runs(i, l, bank) ==
    /\ \A n \in DOMAIN l :
         LET before == Prefix(l, n - 1)
             access == Step(program[i + 1].logical_step, before)
         IN  /\ access \in Accesses
             /\ l[n] = Observation(access, Permitted(program[i + 1].claims, access, before),
                                   before, bank)
    /\ Step(program[i + 1].logical_step, l).kind = "commit"

SerialInit ==
    /\ DOMAIN log = {}
    /\ result = NoResult

\* One or more further iterations run, in order.
RunIterations ==
    /\ \A i \in DOMAIN log' : i < Len(program) /\ \A j \in 0..i : j \in DOMAIN log'
    /\ \A i \in DOMAIN log : i \in DOMAIN log' /\ log'[i] = log[i]
    /\ \A i \in DOMAIN log' \ DOMAIN log :
         Runs(i, log'[i], Image(log', {j \in DOMAIN log' : j < i}))
    /\ UNCHANGED <<program, result>>

\* All have run, and what they left is the outcome.
Finish ==
    /\ \A i \in 1..Len(program) : i - 1 \in DOMAIN log
    /\ result' = Image(log, DOMAIN log)
    /\ UNCHANGED <<program, log>>

SerialNext == RunIterations \/ Finish

SerialSpec == SerialInit /\ [][SerialNext]_serialVars
=============================================================================
