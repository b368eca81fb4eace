--------------------------- MODULE MCCodeSequence ---------------------------
(***************************************************************************)
(* Small instances of CodeSequence: codes in base 2 with two digits, so a  *)
(* year offers 1, 10 and 11 (Full = 3) and the next code is 100.           *)
(***************************************************************************)
EXTENDS CodeSequence, TLC

Symmetry == Permutations(Callers)

=============================================================================
