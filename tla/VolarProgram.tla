---------------------------- MODULE VolarProgram ----------------------------
(***************************************************************************)
(* Volar IR programs.  A program is a control-flow graph of blocks with    *)
(* typed parameters, SSA statements and a terminator:                      *)
(*                                                                         *)
(*   [n, blocks : 0 .. n - 1 -> [params, stmts, term], pre_init]           *)
(*                                                                         *)
(* Values are the members of Val, natural numbers standing for their bit   *)
(* vectors; a Bit is 0 or 1, and a block reference is the index of its     *)
(* block (the interpreter pads it to 32 bits, which is not modelled).  A   *)
(* variable is its position in the block's table of values, parameters     *)
(* first, counted from 1.  A pure statement carries the function it        *)
(* computes: no pass modelled here looks inside it.                        *)
(***************************************************************************)
EXTENDS Integers, Sequences

CONSTANTS
  Val,          \* values
  Types,        \* names of the types in use
  ValuesOf(_),  \* the values of a type
  BlockTypes,   \* those that are IRType::Block
  SigOf(_),     \* the parameter types a Block type promises
  Storages,     \* storage ids
  Programs      \* programs to run

(* A storage cell is keyed by storage, type and address.                   *)
Cells == Storages \X Types \X Val

(* Values for a list of parameters.                                        *)
InputsFor(params) ==
  {v \in [1 .. Len(params) -> Val] : \A k \in 1 .. Len(params) : v[k] \in ValuesOf(params[k])}

NumVars(block) == Len(block.params) + Len(block.stmts)

(* The statement that computes the next value of a table.                  *)
StmtAt(block, tbl) == block.stmts[Len(tbl) - Len(block.params) + 1]

Args(args, tbl) == [k \in 1 .. Len(args) |-> tbl[args[k]]]

-----------------------------------------------------------------------------
(* Statements.                                                             *)

Cell(s, tbl) == <<s.storage, s.ty, tbl[s.addr]>>

(* A storage write has no result; an action that is not invoked yields its *)
(* fallback.                                                               *)
StmtValue(s, tbl, cells) ==
  CASE s.op = "Const" -> s.value
    [] s.op = "Pure" -> s.f[Args(s.args, tbl)]
    [] s.op = "StorageRead" -> cells[Cell(s, tbl)]
    [] s.op = "StorageWrite" -> 0
    [] s.op = "ActionCall" -> IF tbl[s.guard] # 0 THEN s.f[Args(s.args, tbl)]
                              ELSE tbl[s.fallback]

Performed(s, tbl) ==
  IF s.op = "ActionCall" /\ tbl[s.guard] # 0 THEN <<s.name>> ELSE << >>

-----------------------------------------------------------------------------
(* Terminators.  A JumpCond takes its first target when the condition bit  *)
(* is set, a JumpTable the case of the index.                              *)

HasBranch(term, tbl) == term.kind = "JumpTable" => tbl[term.index] \in DOMAIN term.cases

Branch(term, tbl) ==
  CASE term.kind = "Jmp" -> term.target
    [] term.kind = "JumpCond" -> IF tbl[term.condition] = 1 THEN term.then ELSE term.else
    [] term.kind = "JumpTable" -> term.cases[tbl[term.index]]

(* The block a branch leads to; a Dyn target is a reference held in a      *)
(* variable.                                                               *)
TargetBlock(target, tbl) == IF target.dest = "Block" THEN target.block ELSE tbl[target.var]

(* The interpreter panics when no case matches, when a reference is no     *)
(* block of the program, and when the block it leads to takes another      *)
(* number of parameters; a reference whose type promises other parameters  *)
(* than its block takes is ill-typed and has no meaning either.            *)
Defined(P, term, tbl) ==
  /\ HasBranch(term, tbl)
  /\ LET target == Branch(term, tbl)
     IN  target.dest = "Dyn" =>
           /\ tbl[target.var] \in 0 .. P.n - 1
           /\ P.blocks[tbl[target.var]].params = SigOf(target.sig)

-----------------------------------------------------------------------------
(* Well-formed programs: every variable is defined before it is used and   *)
(* every jump supplies what its target takes.                              *)

FunctionOf(f, arity) == f \in [[1 .. arity -> Val] -> Val]

(* v variables are defined where the statement stands.                     *)
StmtWellFormed(s, v) ==
  CASE s.op = "Const" -> s.value \in Val
    [] s.op = "Pure" -> s.args \in Seq(1 .. v) /\ FunctionOf(s.f, Len(s.args))
    [] s.op = "StorageRead" -> s.storage \in Storages /\ s.ty \in Types /\ s.addr \in 1 .. v
    [] s.op = "StorageWrite" -> /\ s.storage \in Storages /\ s.ty \in Types
                                /\ s.addr \in 1 .. v /\ s.src \in 1 .. v
    [] s.op = "ActionCall" -> /\ s.args \in Seq(1 .. v) /\ FunctionOf(s.f, Len(s.args))
                              /\ s.guard \in 1 .. v /\ s.fallback \in 1 .. v
    [] OTHER -> FALSE

TargetWellFormed(P, target, v) ==
  /\ target.args \in Seq(1 .. v)
  /\ CASE target.dest = "Return" -> TRUE
       [] target.dest = "Block" -> /\ target.block \in 0 .. P.n - 1
                                   /\ Len(target.args) = Len(P.blocks[target.block].params)
       [] target.dest = "Dyn" -> /\ target.var \in 1 .. v /\ target.sig \in BlockTypes
                                 /\ Len(target.args) = Len(SigOf(target.sig))
       [] OTHER -> FALSE

TermWellFormed(P, term, v) ==
  CASE term.kind = "Jmp" -> TargetWellFormed(P, term.target, v)
    [] term.kind = "JumpCond" -> /\ term.condition \in 1 .. v
                                 /\ TargetWellFormed(P, term.then, v)
                                 /\ TargetWellFormed(P, term.else, v)
    [] term.kind = "JumpTable" -> /\ term.index \in 1 .. v
                                  /\ \A c \in DOMAIN term.cases :
                                       TargetWellFormed(P, term.cases[c], v)
    [] OTHER -> FALSE

BlockWellFormed(P, block) ==
  /\ block.params \in Seq(Types)
  /\ Len(block.stmts) \in Nat
  /\ \A j \in 1 .. Len(block.stmts) :
       StmtWellFormed(block.stmts[j], Len(block.params) + j - 1)
  /\ TermWellFormed(P, block.term, NumVars(block))

WellFormed(P) ==
  /\ P.n \in Nat \ {0}
  /\ \A i \in 0 .. P.n - 1 : BlockWellFormed(P, P.blocks[i])
  /\ P.pre_init \in [Cells -> Val]

ASSUME ProgramAssumption ==
  /\ Val \subseteq Nat /\ {0, 1} \subseteq Val
  /\ Storages \subseteq Nat
  /\ BlockTypes \subseteq Types
  /\ \A t \in BlockTypes : SigOf(t) \in Seq(Types)
  /\ \A P \in Programs : WellFormed(P)
=============================================================================
