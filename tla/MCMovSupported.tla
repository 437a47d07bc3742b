--------------------------- MODULE MCMovSupported ---------------------------
(***************************************************************************)
(* The programs of MCMovfuscate are supported by the pass and well-typed,  *)
(* and program counters are coded unambiguously for more block counts than *)
(* they have.                                                              *)
(***************************************************************************)
EXTENDS MCMovfuscate

ASSUME FamiliesSupported == ProgramsSupported

ASSUME FamiliesTyped == ProgramsTyped

ASSUME PcWidths ==
  /\ pc_bits_needed(1) = 0
  /\ \A n \in 2 .. 40 :
       LET w == pc_bits_needed(n)
       IN  /\ 2^(w - 1) < n
           /\ \A i, j \in 0 .. n - 1 : emit_is_block(encode_pc_bits(j, w), i, w) <=> i = j
=============================================================================
