-------------------------------- MODULE Sums --------------------------------
(***************************************************************************)
(* Sums of amounts, in the integers' base units: what OrderLedger adds up  *)
(* over the fills of an order and MarketOrder over those of a plan.        *)
(***************************************************************************)
EXTENDS Integers, FiniteSets

\* The sum of the amounts of F, counted unit by unit.
Sum(F, amount) == Cardinality(UNION {{f} \X (1..amount[f]) : f \in F})
=============================================================================
