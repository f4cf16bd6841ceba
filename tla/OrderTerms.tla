----------------------------- MODULE OrderTerms -----------------------------
(***************************************************************************)
(* The arithmetic of a limit order, once per place the code does it: the   *)
(* browser derives the amounts of a 0x order from what the user typed, the *)
(* intent validator and the placement service derive size and price back   *)
(* from the amounts.  All of it is bigint arithmetic: \div truncates as    *)
(* `/` does, amounts are atomic units, a price is quote units per base.    *)
(*                                                                         *)
(* A 0x order stands for its hash: two orders are one iff they are equal.  *)
(***************************************************************************)
EXTENDS Integers

CONSTANT Unit      \* 10^baseDecimals
ASSUME UnitAssumption == Unit \in Nat \ {0}

\* The columns of Market: quote units per tick, and the two minima.
MarketRules == [tick : Nat \ {0}, minSize : Nat \ {0}, minNotional : Nat]

Tokens(side) == IF side = "SELL" THEN <<"base", "quote">> ELSE <<"quote", "base">>

-----------------------------------------------------------------------------
\* The browser.  A form is [maker, side, size, price, trigger, ttl, salt].

QuoteFor(size, price) == (size * price) \div Unit
PriceTicks(price, rules) == price \div rules.tick

\* What a trigger field is checked against, and what a CL form is.
TickAligned(price, rules) == price > 0 /\ price % rules.tick = 0
FormAccepted(f, rules) ==
  /\ f.size >= rules.minSize
  /\ QuoteFor(f.size, f.price) >= rules.minNotional
  /\ f.price % rules.tick = 0 /\ TickAligned(f.trigger, rules)

\* createCL signs an order that outlives the intent by a fixed buffer.
Buffer == 2
BuiltOrder(f, fee) ==
  LET quote == QuoteFor(f.size, f.price) IN
    [maker |-> f.maker, tokens |-> Tokens(f.side), salt |-> f.salt, expiry |-> f.ttl + Buffer,
     makerAmount |-> IF f.side = "SELL" THEN f.size ELSE quote,
     takerAmount |-> IF f.side = "SELL" THEN quote ELSE f.size, feeMeetsPolicy |-> fee]
\* The browser's triggers are the natural ones: buy when the ask has come down
\* to the price, sell when the bid has gone up to it.
NaturalReference(side) == IF side = "BUY" THEN "BEST_ASK" ELSE "BEST_BID"
NaturalType(side) == IF side = "BUY" THEN "PRICE_BELOW" ELSE "PRICE_ABOVE"
BuiltBody(f, fee, rules) ==
  LET o == BuiltOrder(f, fee) IN
    [owner |-> f.maker, signer |-> f.maker, side |-> f.side, size |-> f.size, ticks |-> PriceTicks(f.price, rules),
     trigger |-> PriceTicks(f.trigger, rules),
     reference |-> NaturalReference(f.side), type |-> NaturalType(f.side), expiresAt |-> f.ttl, order |-> o, hash |-> o]

-----------------------------------------------------------------------------
\* The validator, at create and again at fire.

\* Size and price from the amounts; no price where the division is not exact.
\* Mutant of Derived: base and quote are taken the same way for both sides.
DerivedOneWay(o, side, rules) ==
  LET den == o.takerAmount * rules.tick IN
    [size |-> o.takerAmount, exact |-> den # 0 /\ (o.makerAmount * Unit) % den = 0,
     ticks |-> IF den = 0 THEN 0 ELSE (o.makerAmount * Unit) \div den]
Derived(o, side, rules) ==
  LET base == IF side = "SELL" THEN o.makerAmount ELSE o.takerAmount
      num  == (IF side = "SELL" THEN o.takerAmount ELSE o.makerAmount) * Unit
      den  == base * rules.tick
  IN  [size |-> base, exact |-> den # 0 /\ num % den = 0, ticks |-> IF den = 0 THEN 0 ELSE num \div den]

\* min_size_violation, min_notional_violation.
LargeEnough(b, rules) ==
  b.size >= rules.minSize /\ b.ticks * rules.tick * b.size >= rules.minNotional * Unit
\* The signature's signer, the hash and the order's maker are who they say.
Authentic(b) == b.signer = b.owner /\ b.hash = b.order /\ b.order.maker = b.owner
\* zeroex_order_expiry_too_close.
Outlives(b, grace) == b.order.expiry >= b.expiresAt + grace

Integrity(b, rules, grace) ==
  LET d == Derived(b.order, b.side, rules) IN
    /\ LargeEnough(b, rules) /\ Authentic(b) /\ Outlives(b, grace)
    /\ b.order.tokens = Tokens(b.side)
    /\ d.exact /\ d.size = b.size /\ d.ticks = b.ticks

-----------------------------------------------------------------------------
\* The placement service and the book: the side comes from the tokens.

\* Mutant of PlacementTerms: the size is the maker's amount on either side.
TermsOfMaker(o, rules) ==
  LET side == IF o.tokens = Tokens("SELL") THEN "SELL" ELSE "BUY"
  IN  [side |-> side, size |-> o.makerAmount, exact |-> TRUE, ticks |-> Derived(o, side, rules).ticks]
PlacementTerms(o, rules) ==
  LET side == IF o.tokens = Tokens("SELL") THEN "SELL" ELSE "BUY"
      d    == Derived(o, side, rules)
  IN  [side |-> side, size |-> d.size, exact |-> d.exact, ticks |-> d.ticks]

BookAccepts(t, rules) ==
  t.size > 0 /\ t.ticks > 0 /\ t.size >= rules.minSize
  /\ (t.ticks * rules.tick * t.size) \div Unit >= rules.minNotional
=============================================================================
