----------------------------- MODULE StorageLog -----------------------------
(***************************************************************************)
(* What one iteration does to the storage bank, as its callback sees it: a *)
(* sequence of observations [kind, cell, ok, value], one per call of read  *)
(* or write, in order.  A call that returned an error has ok = FALSE.  The *)
(* callback is any function Step of the iteration's logical step and of    *)
(* what it observed so far: the next access, a commit or a failure.        *)
(***************************************************************************)
EXTENDS ScheduleManifest

CONSTANTS
    Cells,          \* records [key, address]
    Values,         \* what the cells hold
    Absent,         \* the cell is not in the bank
    InitialBank,
    max_sequence,   \* u32::MAX, the last sequence number of a trace event
    Step(_, _)

ASSUME StorageLogAssumption ==
    /\ InitialBank \in [Cells -> Values \cup {Absent}]
    /\ \A c \in Cells : c.address \in Nat
    /\ max_sequence \in Nat

Accesses == [kind : {"read"}, cell : Cells] \cup [kind : {"write"}, cell : Cells, value : Values]

\* The largest element of a nonempty finite set of numbers.
Latest(numbers) == CHOOSE n \in numbers : \A m \in numbers : m <= n

Prefix(log, n) == [m \in 1..n |-> log[m]]

WritesTo(log, cell) ==
    {n \in DOMAIN log : log[n].ok /\ log[n].kind = "write" /\ log[n].cell = cell}

\* A read sees the transaction's own last write, or else the bank.
Observed(log, cell, bank) ==
    IF WritesTo(log, cell) = {} THEN bank[cell] ELSE log[Latest(WritesTo(log, cell))].value

\* Whether the iteration with these claims may make the access now.
Permitted(claims, access, log) ==
    /\ Covers(claims, access.cell)
    /\ access.kind = "write" => CoversWrite(claims, access.cell)
    /\ Cardinality({n \in DOMAIN log : log[n].ok}) <= max_sequence

\* What the callback observes of an access.
Observation(access, ok, log, bank) ==
    [kind |-> access.kind, cell |-> access.cell, ok |-> ok,
     value |-> IF ~ok THEN Absent
               ELSE IF access.kind = "write" THEN access.value
               ELSE Observed(log, access.cell, bank)]

\* The bank after the iterations in S have committed, the later ordinal
\* winning, whatever the order they committed in.
Image(logs, S) ==
    [c \in Cells |->
        LET writers == {i \in S : WritesTo(logs[i], c) # {}} IN
        IF writers = {} THEN InitialBank[c]
        ELSE Observed(logs[Latest(writers)], c, InitialBank)]
=============================================================================
