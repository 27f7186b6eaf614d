------------------------------ MODULE MCScout -------------------------------
(***************************************************************************)
(* Scout for TLC.  Processes of the same number of workers are alike, and  *)
(* so are users.                                                          *)
(***************************************************************************)
EXTENDS Scout, TLC

MCSymmetry == {f \in Permutations(Holders) :
                 /\ \A u \in Users : f[u] \in Users
                 /\ \A P \in Processes : {f[w] : w \in P} \in Processes}
=============================================================================
