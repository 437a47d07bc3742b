------------------------------- MODULE VolarIR -------------------------------
(***************************************************************************)
(* What a Volar IR program means: the reference interpreter                *)
(* (eval_ir_with_storage in crates/fuzz/volar-fuzz/src/interpreter/ir.rs), *)
(* which runs it one statement at a time.                                  *)
(***************************************************************************)
EXTENDS VolarProgram

VARIABLES
  prog,     \* the program
  status,   \* "run", "return", or "panic"
  pc,       \* index of the current block
  vals,     \* values computed so far in the current block
  stor,     \* contents of the storage cells
  ret,      \* values returned
  log       \* actions performed, in order

vars == <<prog, status, pc, vals, stor, ret, log>>

Block == prog.blocks[pc]
Target == Branch(Block.term, vals)

(* The interpreter starts in block 0 with the inputs as its parameters and *)
(* the storage the module's pre_init segments describe.                    *)
Init ==
  /\ prog \in Programs
  /\ status = "run"
  /\ pc = 0
  /\ vals \in InputsFor(prog.blocks[0].params)
  /\ stor = prog.pre_init
  /\ ret = << >>
  /\ log = << >>

eval_ir_stmt ==
  /\ status = "run"
  /\ Len(vals) < NumVars(Block)
  /\ LET s == StmtAt(Block, vals)
     IN  /\ vals' = Append(vals, StmtValue(s, vals, stor))
         /\ stor' = IF s.op = "StorageWrite"
                    THEN [stor EXCEPT ![Cell(s, vals)] = vals[s.src]] ELSE stor
         /\ log' = log \o Performed(s, vals)
  /\ UNCHANGED <<prog, status, pc, ret>>

AtTerminator == status = "run" /\ Len(vals) = NumVars(Block)

Return ==
  /\ AtTerminator
  /\ Defined(prog, Block.term, vals)
  /\ Target.dest = "Return"
  /\ status' = "return"
  /\ ret' = Args(Target.args, vals)
  /\ UNCHANGED <<prog, pc, vals, stor, log>>

Jump ==
  /\ AtTerminator
  /\ Defined(prog, Block.term, vals)
  /\ Target.dest # "Return"
  /\ pc' = TargetBlock(Target, vals)
  /\ vals' = Args(Target.args, vals)
  /\ UNCHANGED <<prog, status, stor, ret, log>>

(* A panic ends what the program means: whatever follows implements it.    *)
Panic ==
  /\ AtTerminator
  /\ ~Defined(prog, Block.term, vals)
  /\ status' = "panic"

Undefined == status = "panic" /\ status' = "panic"

Next == eval_ir_stmt \/ Return \/ Jump \/ Panic \/ Undefined

Spec == Init /\ [][Next]_vars
=============================================================================
