------------------------ MODULE MCDelegatedExecution ------------------------
(***************************************************************************)
(* Instances of DelegatedExecution for TLC.                                *)
(***************************************************************************)
EXTENDS DelegatedExecution, TLC

OpSymmetry == Permutations(Ops)
=============================================================================
