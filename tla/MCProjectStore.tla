--------------------------- MODULE MCProjectStore ---------------------------
(***************************************************************************)
(* ProjectStore for TLC: one project (projects share nothing), two tasks.  *)
(***************************************************************************)
EXTENDS ProjectStore, TLC

MCHolderSymmetry == Permutations(Holders)
=============================================================================
