--------------------------- MODULE MCRepairImages ---------------------------
(***************************************************************************)
(* Small instances of RepairImages under different faults.                 *)
(***************************************************************************)
EXTENDS RepairImages, TLC

Symmetry == Permutations(Submissions)

=============================================================================
