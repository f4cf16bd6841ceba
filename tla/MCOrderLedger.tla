--------------------------- MODULE MCOrderLedger ---------------------------
(***************************************************************************)
(* Instances of OrderLedger for TLC: one order of three units; a fill of   *)
(* one and, in some, a fill of two.                                        *)
(***************************************************************************)
EXTENDS OrderLedger, TLC

CONSTANTS o1, f1, f2

MCSize == [o \in Orders |-> 3]
AllPlace == [p \in Placements |-> o1]
AllWithdraw == [c \in Cancels |-> o1]
AllTake == [f \in Fills |-> o1]
MCFillSize == [f \in Fills |-> IF f = f2 THEN 2 ELSE 1]

\* The watcher, whose fills come again after a restart, applies the larger one.
MCHandler == [f \in Fills |-> IF f = f2 THEN "watcher" ELSE "reconciler"]
Symmetry == Permutations(Placements)
=============================================================================
