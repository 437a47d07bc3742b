---------------------------- MODULE MCScheduler ----------------------------
(***************************************************************************)
(* Instances of Scheduler: three storage keys with two addresses, three or *)
(* four iterations of a dozen kinds, and the odd programs that the         *)
(* planner or validate must reject.                                        *)
(***************************************************************************)
EXTENDS Scheduler

K(s) == [storage |-> s, type_id |-> 0]
C(s, a) == [key |-> K(s), address |-> a]

MCValues == Nat
MCCells == {C(1, 0), C(1, 1), C(2, 0), C(3, 0)}
MCInitialBank == [c \in MCCells |-> IF c.key.storage = 2 THEN 7 ELSE Absent]

(* A logical step is [id, form, ops, stubborn]: the form of its block, a    *)
(* list of accesses, and whether the callback goes on after an error.  A    *)
(* write, of a statement or of an action, stores its id after the digits of *)
(* the last value read.                                                    *)
R(s, a) == [kind |-> "read", cell |-> C(s, a)]
W(s, a) == [kind |-> "write", cell |-> C(s, a)]
A(s, a) == [kind |-> "action", cell |-> C(s, a)]

LastRead(log) ==
    LET reads == {n \in DOMAIN log : log[n].kind = "read" /\ log[n].ok}
        value == log[Latest(reads)].value
    IN  IF reads = {} \/ value = Absent THEN 0 ELSE value

MCStep(step, log) ==
    LET n == Len(log) + 1 IN
    IF ~step.stubborn /\ \E m \in DOMAIN log : ~log[m].ok THEN [kind |-> "fail"]
    ELSE IF n > Len(step.ops) THEN [kind |-> "commit"]
    ELSE IF step.ops[n].kind = "read" THEN step.ops[n]
    ELSE [kind |-> "write", cell |-> step.ops[n].cell,
          value |-> 100 * LastRead(log) + 10 * step.id + n]

(* Iterations: an access list with the claims extracted for it (storage 2  *)
(* is declared read-only), or with claims stated by hand.                  *)
StmtOp(form, kind) ==
    CASE kind = "read" -> "StorageRead"
      [] kind = "write" -> "StorageWrite"
      [] kind = "action" -> IF form = "ir" THEN "ActionStore" ELSE "ActionStoreBit"
MCBlockOf(step) ==
    [form |-> step.form,
     stmts |-> {[op |-> StmtOp(step.form, step.ops[n].kind), key |-> step.ops[n].cell.key] :
                   n \in DOMAIN step.ops}]
Extracted(form, ops) ==
    [form |-> form, ops |-> ops, stubborn |-> FALSE, deps |-> {},
     claims |-> StorageAccessSummary(MCBlockOf([form |-> form, ops |-> ops]), {2})]
Claim(s, scope, mode) == [key |-> K(s), scope |-> scope, mode |-> mode]
Declared(ops, claims) == [form |-> "ir", ops |-> ops, stubborn |-> FALSE, deps |-> {},
                          claims |-> claims]

Kinds ==
    {Extracted("ir", <<R(1, 0), W(1, 0)>>),
     Extracted("biir", <<R(2, 0), A(1, 1)>>),
     Extracted("ir", <<R(2, 0), W(3, 0)>>),
     Extracted("biir", <<W(1, 0), R(1, 0), A(1, 0)>>),
     Declared(<<R(1, 0), W(3, 0)>>,
              {Claim(1, PublicRange(0, 1), "Read"), Claim(3, Whole, "Write")}),
     Declared(<<R(1, 0), W(1, 1)>>,
              {Claim(1, PublicRange(0, 2), "Read"), Claim(1, PublicRange(1, 1), "Unknown")}),
     Declared(<<W(1, 0)>>,
              {Claim(1, PublicRange(0, 1), "Read"), Claim(1, PublicRange(0, 1), "Write")})}

\* A write through a read-only claim, an access nothing covers, and one past
\* the last sequence number, ignored or reported by the callback; and the store
\* of a typed action, which extraction passes over.
Faulty ==
    {[Declared(<<W(1, 0), R(2, 0), R(1, 0), W(3, 0)>>,
               {Claim(1, Whole, "Read"), Claim(3, Whole, "Write")})
        EXCEPT !.stubborn = b] : b \in BOOLEAN}
    \cup {[Extracted("ir", <<W(3, 0), W(3, 0), W(3, 0), W(3, 0)>>)
            EXCEPT !.stubborn = TRUE]}
    \cup {[Extracted("ir", <<R(1, 0), A(3, 0)>>) EXCEPT !.stubborn = b] : b \in BOOLEAN}

Dependent == {[k EXCEPT !.deps = {0}] : k \in {Extracted("ir", <<R(2, 0), W(3, 0)>>)}}

\* The n-th iteration of a program.
Iteration(kind, n) ==
    [ordinal |-> n - 1, logical_step |-> [id |-> n, form |-> kind.form, ops |-> kind.ops,
                                           stubborn |-> kind.stubborn],
     dependencies |-> kind.deps \cap 0..(n - 2), claims |-> kind.claims,
     correlation_range |-> [start |-> n - 1, len |-> 1], communication_range |-> NoRange]

Program(kinds) == [n \in DOMAIN kinds |-> Iteration(kinds[n], n)]

AnyKind == Kinds \cup Faulty \cup Dependent

ThreeIterations == {Program(<<a, b, c>>) : a \in Kinds, b \in AnyKind, c \in Kinds \cup Dependent}

\* Readers that fill an epoch, and one that no longer fits.
FourReaders ==
    {Program([n \in 1..4 |-> Extracted("ir", IF n = writer THEN <<R(2, 0), W(3, 0)>> ELSE <<R(2, 0)>>)]) :
        writer \in 1..4}

\* Programs the planner or validate must turn away, and the empty one.
Base == Program(<<Extracted("ir", <<R(1, 0), W(1, 0)>>), Extracted("ir", <<R(2, 0), W(3, 0)>>)>>)
Odd ==
    {<< >>,
     [Base EXCEPT ![2].ordinal = 5],
     [Base EXCEPT ![1].dependencies = {0}],
     [Base EXCEPT ![2].claims = {Claim(1, PublicRange(1, 0), "Read")}],
     [Base EXCEPT ![2].claims = {Claim(1, PublicRange(3, 2), "Read")}],
     [Base EXCEPT ![2].correlation_range = [start |-> 0, len |-> 2]],
     [Base EXCEPT ![2].communication_range = [start |-> 3, len |-> 2]]}

MCPrograms == ThreeIterations \cup FourReaders \cup Odd

\* A manifest that validate accepts: both iterations in the first epoch.
Built(p) ==
    [iterations |-> [i \in 0..(Len(p) - 1) |->
        [logical_step |-> p[i + 1].logical_step, dependencies |-> p[i + 1].dependencies,
         claims |-> canonicalize(p[i + 1].claims), worker_lane |-> i,
         correlation_range |-> p[i + 1].correlation_range,
         communication_range |-> p[i + 1].communication_range, epoch |-> 0]],
     epochs |-> 1]

MCHandBuilt == {Built(Program(<<a, b>>)) : a \in Kinds, b \in Kinds}
=============================================================================
