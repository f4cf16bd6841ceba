----------------------------- MODULE MCWatchers -----------------------------
(***************************************************************************)
(* An instance of Watchers for TLC: three blocks with two fills, a         *)
(* reverted fill, two pair cancels and a single cancel, and two orders.    *)
(***************************************************************************)
EXTENDS Watchers, TLC

CONSTANTS f1, f2, r1, p1, p2, c1, o1, o2

MCChain == << <<f1, p2>>, <<p1, f2>>, <<r1, c1>> >>
MCKind == [t \in {f1, f2} |-> "fill"] @@ (r1 :> "reverted") @@ (c1 :> "single")
          @@ [t \in {p1, p2} |-> "pair"]
MCSalt == (p1 :> 2) @@ (p2 :> 3) @@ (o1 :> 1) @@ (o2 :> 2) @@ [t \in {f1, f2, r1, c1} |-> 0]
MCCancels == c1 :> o2
=============================================================================
