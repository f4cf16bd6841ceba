--------------------------- MODULE MCCmrLifecycle ---------------------------
(***************************************************************************)
(* Instances of CmrLifecycle for TLC.                                      *)
(***************************************************************************)
EXTENDS CmrLifecycle, TLC

CONSTANT i1  \* the one intent of the instances

\* Every session executes i1; it expires at ExpiresAt.
CONSTANT ExpiresAt
AllOnOne == [s \in Sessions |-> i1]
SessionSymmetry == Permutations(Sessions)
MCExpiry == [i \in Intents |-> ExpiresAt]
=============================================================================
