----------------------- MODULE ConditionalLimit_proofs -----------------------
(***************************************************************************)
(* Proofs about ConditionalLimit, for any intents, ticks, desks, forms,    *)
(* bodies and any history of the market's rules.                           *)
(***************************************************************************)
EXTENDS ConditionalLimit, SequenceTheorems, FiniteSetTheorems, TLAPS

-----------------------------------------------------------------------------
\* What the derivations of OrderTerms owe each other, for every size, price and
\* market.

\* What a user can type.
Positive(f) == {f.size, f.price, f.trigger, f.ttl} \subseteq Nat /\ f.side \in {"BUY", "SELL"}

\* Division that leaves no remainder is undone by multiplication.
LEMMA ExactDivision ==
  ASSUME NEW a \in Nat, NEW b \in Nat \ {0}
  PROVE  /\ a \div b \in Nat /\ a % b \in 0..(b - 1)
         /\ a = b * (a \div b) + (a % b)
  <1>1. a \div b \in Int /\ a % b \in 0..(b - 1) /\ a = b * (a \div b) + (a % b)
    OBVIOUS
  <1>2. a \div b >= 0
    <2> DEFINE q == a \div b
    <2>1. q \in Int /\ b * q > -b
      BY <1>1
    <2> HIDE DEF q
    <2>2. q <= -1 => b * q <= -b
      BY <2>1
    <2>3. QED
      BY <2>1, <2>2 DEF q
  <1>3. QED
    BY <1>1, <1>2

\* A multiple divides exactly, into its factor.
LEMMA MultipleDivides ==
  ASSUME NEW b \in Nat \ {0}, NEW k \in Nat
  PROVE  (b * k) \div b = k /\ (b * k) % b = 0
  <1> DEFINE a == b * k
             q == a \div b
             r == a % b
  <1>1. a \in Nat
    OBVIOUS
  <1>2. q \in Nat /\ r \in 0..(b - 1) /\ a = b * q + r
    <2> HIDE DEF a
    <2>1. QED
      BY <1>1, ExactDivision
  <1> HIDE DEF q, r
  <1>3. r = b * (k - q)
    BY <1>2
  <1>4. k - q = 0
    <2>1. CASE k - q >= 1
      <3>1. b * (k - q) >= b
        BY <1>2, <2>1
      <3>2. QED
        BY <1>2, <1>3, <3>1
    <2>2. CASE k - q <= -1
      <3>1. b * (k - q) <= -b
        BY <1>2, <2>2
      <3>2. QED
        BY <1>2, <1>3, <3>1
    <2>3. QED
      BY <1>2, <2>1, <2>2
  <1>5. q = k /\ r = 0
    BY <1>2, <1>3, <1>4
  <1>6. QED
    BY <1>5 DEF q, r

\* The floor of a quotient reaches a bound that the dividend reaches.
LEMMA FloorReaches ==
  ASSUME NEW a \in Nat, NEW b \in Nat \ {0}, NEW m \in Nat
  PROVE  a \div b >= m <=> a >= m * b
  <1> DEFINE q == a \div b
             r == a % b
  <1>1. q \in Nat /\ r \in 0..(b - 1) /\ a = b * q + r
    BY ExactDivision
  <1> HIDE DEF q, r
  <1>2. q >= m => a >= m * b
    <2> SUFFICES ASSUME q >= m PROVE a >= m * b
      OBVIOUS
    <2>1. b * q >= b * m
      BY <1>1
    <2>2. QED
      BY <1>1, <2>1
  <1>3. q < m => a < m * b
    <2> SUFFICES ASSUME q < m PROVE a < m * b
      OBVIOUS
    <2>1. b * (q + 1) <= b * m
      BY <1>1
    <2>2. b * (q + 1) = b * q + b
      BY <1>1
    <2>3. QED
      BY <1>1, <2>1, <2>2
  <1>4. QED
    BY <1>1, <1>2, <1>3 DEF q
-----------------------------------------------------------------------------
\* The validator takes back from the amounts of a 0x order the size and the
\* ticks it was built from, if the quote amount was not truncated
\* (computeAmounts against the cross-check of validateAtCreate).
LEMMA TermsTakenBack ==
  ASSUME NEW rules \in MarketRules, NEW f, Positive(f), f.size > 0, f.price % rules.tick = 0,
         (f.size * f.price) % Unit = 0, NEW fee
  PROVE  LET o == BuiltOrder(f, fee)
             t == PriceTicks(f.price, rules)
         IN  /\ Derived(o, f.side, rules) = [size |-> f.size, exact |-> TRUE, ticks |-> t]
             /\ t * rules.tick * f.size = QuoteFor(f.size, f.price) * Unit
  <1> DEFINE size  == f.size
             price == f.price
             tick  == rules.tick
             ticks == price \div tick
             quote == (size * price) \div Unit
             den   == size * tick
             num   == quote * Unit
  <1>1. /\ size \in Nat \ {0} /\ price \in Nat /\ tick \in Nat \ {0} /\ Unit \in Nat \ {0}
        /\ price % tick = 0 /\ (size * price) % Unit = 0
    BY UnitAssumption DEF Positive, MarketRules
  <1>2. ticks \in Nat /\ price = tick * ticks
    <2> HIDE DEF price, tick
    <2>1. QED
      BY <1>1, ExactDivision
  <1>3. quote \in Nat /\ size * price = Unit * quote
    <2> DEFINE product == size * price
    <2>1. product \in Nat /\ product % Unit = 0
      BY <1>1
    <2> HIDE DEF product
    <2>2. product \div Unit \in Nat /\ product = Unit * (product \div Unit) + (product % Unit)
      BY <1>1, <2>1, ExactDivision
    <2>3. product = Unit * (product \div Unit)
      BY <1>1, <2>1, <2>2
    <2>4. QED
      BY <2>2, <2>3 DEF product
  <1>4. den \in Nat \ {0} /\ num = den * ticks
    <2> HIDE DEF size, price, tick, ticks, quote
    <2>1. size * tick \in Nat \ {0}
      BY <1>1
    <2>2. quote * Unit = size * (tick * ticks)
      BY <1>1, <1>2, <1>3
    <2>3. size * (tick * ticks) = (size * tick) * ticks
      BY <1>1, <1>2
    <2>4. QED
      BY <2>1, <2>2, <2>3
  <1>5. den # 0 /\ num % den = 0 /\ num \div den = ticks
    <2> HIDE DEF den, num, ticks
    <2>1. QED
      BY <1>2, <1>4, MultipleDivides
  <1>6. ticks * tick * size = quote * Unit
    <2> HIDE DEF size, price, tick, ticks, quote
    <2>1. QED
      BY <1>1, <1>2, <1>3
  <1>7. Derived(BuiltOrder(f, fee), f.side, rules) = [size |-> size, exact |-> TRUE, ticks |-> ticks]
    BY <1>5 DEF Derived, BuiltOrder, QuoteFor, Positive
  <1>8. QED
    BY <1>6, <1>7 DEF PriceTicks, QuoteFor

\* What the form accepts the validator accepts, in any market, with any grace
\* within the browser's buffer, if the quote amount is not truncated.
THEOREM FormPassesValidator ==
  ASSUME NEW rules \in MarketRules, NEW f, Positive(f), FormAccepted(f, rules),
         (f.size * f.price) % Unit = 0, NEW fee, NEW grace \in 0..Buffer
  PROVE  Integrity(BuiltBody(f, fee, rules), rules, grace)
  <1> DEFINE b == BuiltBody(f, fee, rules)
             o == BuiltOrder(f, fee)
             t == PriceTicks(f.price, rules)
  <1>1. f.size \in Nat /\ f.size > 0 /\ f.price % rules.tick = 0
    BY DEF FormAccepted, Positive, MarketRules
  <1>2. /\ Derived(o, f.side, rules) = [size |-> f.size, exact |-> TRUE, ticks |-> t]
        /\ t * rules.tick * f.size = QuoteFor(f.size, f.price) * Unit
    BY <1>1, TermsTakenBack
  <1>3. LargeEnough(b, rules)
    <2> DEFINE quote == QuoteFor(f.size, f.price)
               minimum == rules.minNotional
    <2>1. quote \in Nat
      <3> DEFINE product == f.size * f.price
      <3>1. product \in Nat
        BY DEF Positive
      <3> HIDE DEF product
      <3>2. product \div Unit \in Nat
        BY <3>1, UnitAssumption, ExactDivision
      <3>3. QED
        BY <3>2 DEF QuoteFor, product
    <2>2. quote >= minimum /\ minimum \in Nat /\ f.size >= rules.minSize
      BY DEF FormAccepted, MarketRules
    <2>3. quote * Unit >= minimum * Unit
      <3> HIDE DEF quote, minimum
      <3>1. QED
        BY <2>1, <2>2, UnitAssumption
    <2>4. QED
      BY <1>2, <2>2, <2>3 DEF LargeEnough, BuiltBody
  <1>4. Authentic(b)
    BY DEF Authentic, BuiltBody, BuiltOrder
  <1>5. Outlives(b, grace)
    BY DEF Outlives, BuiltBody, BuiltOrder, Buffer, Positive
  <1>6. o.tokens = Tokens(f.side) /\ b.order = o /\ b.side = f.side /\ b.size = f.size /\ b.ticks = t
    BY DEF BuiltOrder, BuiltBody
  <1>7. QED
    BY <1>2, <1>3, <1>4, <1>5, <1>6 DEF Integrity

\* Placement tells the side by the tokens, which fits the declared one.
LEMMA PlacementExact ==
  ASSUME NEW rules, NEW grace, NEW b, Integrity(b, rules, grace)
  PROVE  LET terms == PlacementTerms(b.order, rules)
         IN  terms.exact /\ terms.size = b.size /\ terms.ticks = b.ticks
  <1>1. /\ b.order.tokens = Tokens(b.side)
        /\ Derived(b.order, b.side, rules).exact
        /\ Derived(b.order, b.side, rules).size = b.size
        /\ Derived(b.order, b.side, rules).ticks = b.ticks
    BY DEF Integrity
  <1>2. (b.order.tokens = Tokens("SELL")) <=> (b.side = "SELL")
    BY <1>1 DEF Tokens
  <1>3. b.side # "SELL" => Derived(b.order, "BUY", rules) = Derived(b.order, b.side, rules)
    BY DEF Derived
  <1>4. QED
    BY <1>1, <1>2, <1>3 DEF PlacementTerms

\* Placement derives from an order that passes the integrity checks the very
\* side, size and ticks its intent declares (validateAtFire against place).
THEOREM PlacementAgrees ==
  ASSUME NEW rules, NEW grace, NEW b, b.side \in {"BUY", "SELL"}, Integrity(b, rules, grace)
  PROVE  PlacementTerms(b.order, rules) = [side |-> b.side, size |-> b.size, exact |-> TRUE, ticks |-> b.ticks]
  <1> DEFINE terms == PlacementTerms(b.order, rules)
  <1>1. b.order.tokens = Tokens(b.side)
    BY DEF Integrity
  <1>2. terms.side = b.side
    BY <1>1 DEF Tokens, PlacementTerms
  <1>3. terms.exact = TRUE
    BY PlacementExact DEF PlacementTerms, Derived
  <1>4. terms = [side |-> terms.side, size |-> terms.size, exact |-> terms.exact, ticks |-> terms.ticks]
    BY DEF PlacementTerms
  <1>5. QED
    BY <1>2, <1>3, <1>4, PlacementExact

\* Where the division is exact, an order is placed at exactly the price of its
\* amounts, for the side of its tokens.
LEMMA PlacementPrices ==
  ASSUME NEW rules \in MarketRules, NEW o, o.makerAmount \in Nat, o.takerAmount \in Nat,
         NEW side \in {"BUY", "SELL"}, o.tokens = Tokens(side), PlacementTerms(o, rules).exact
  PROVE  LET terms == PlacementTerms(o, rules)
             quote == IF side = "SELL" THEN o.takerAmount ELSE o.makerAmount
         IN  /\ terms.side = side /\ terms.size = (IF side = "SELL" THEN o.makerAmount ELSE o.takerAmount)
             /\ terms.ticks * rules.tick * terms.size = quote * Unit
  <1> DEFINE terms == PlacementTerms(o, rules)
             base  == IF side = "SELL" THEN o.makerAmount ELSE o.takerAmount
             quote == IF side = "SELL" THEN o.takerAmount ELSE o.makerAmount
             tick  == rules.tick
             num   == quote * Unit
             den   == base * tick
  <1>1. terms.side = side
    BY DEF PlacementTerms, Tokens
  <1>2. terms.size = base /\ den # 0 /\ num % den = 0 /\ terms.ticks = num \div den
    BY <1>1 DEF PlacementTerms, Derived
  <1>3. base \in Nat /\ quote \in Nat /\ tick \in Nat \ {0} /\ Unit \in Nat \ {0}
    BY UnitAssumption DEF MarketRules
  <1> HIDE DEF base, quote, tick
  <1>4. num \in Nat /\ den \in Nat \ {0}
    BY <1>2, <1>3
  <1> HIDE DEF num, den
  <1>5. num \div den \in Nat /\ num = den * (num \div den) + (num % den)
    BY <1>4, ExactDivision
  <1>6. num = den * terms.ticks /\ terms.ticks \in Nat
    BY <1>2, <1>4, <1>5
  <1>7. terms.ticks * tick * base = quote * Unit
    BY <1>3, <1>6 DEF num, den
  <1>8. QED
    BY <1>1, <1>2, <1>7 DEF base, quote, tick

\* The book's own rules, which divide, refuse nothing that the validator's,
\* which multiply, let pass under the same market.
THEOREM BookAgrees ==
  ASSUME NEW rules \in MarketRules, NEW b, b.size \in Nat, b.ticks \in Nat \ {0}, LargeEnough(b, rules)
  PROVE  BookAccepts(b, rules)
  <1> DEFINE product == b.ticks * rules.tick * b.size
             minimum == rules.minNotional
  <1>1. product \in Nat /\ minimum \in Nat /\ product >= minimum * Unit /\ b.size >= rules.minSize /\ b.size > 0
    BY DEF LargeEnough, MarketRules
  <1>2. product \div Unit >= minimum
    <2> HIDE DEF product, minimum
    <2>1. QED
      BY <1>1, UnitAssumption, FloorReaches
  <1>3. QED
    BY <1>1, <1>2 DEF BookAccepts

-----------------------------------------------------------------------------
\* The handlers.

\* The market in force is one of its history.
VersionInv == version \in 1..Len(Rules)

\* Only ChangeRules moves on, and not beyond the last.
LEMMA VersionInvariant == Spec => []VersionInv
  <1>1. Init => VersionInv
    BY RulesAssumption DEF Init, VersionInv
  <1>2. VersionInv /\ [Next]_vars => VersionInv'
    <2> SUFFICES ASSUME VersionInv, [Next]_vars PROVE VersionInv'
      OBVIOUS
    <2>1. CASE ChangeRules
      BY <2>1, RulesAssumption DEF ChangeRules, VersionInv
    <2>2. CASE ~ChangeRules
      <3>1. ASSUME NEW p, Place(p) PROVE version' = version
        BY <3>1 DEF Place, SumOpen, Guard, Push, Upsert, UpsertFails, Attach, AttachFails, market
      <3>2. ASSUME NEW t, Load(t) \/ Quiet(t) \/ Latch(t) \/ ContextFails(t) \/ Validate(t) \/ CheckFloor(t)
                            \/ MarkPlaced(t) \/ MarkFails(t)
            PROVE  version' = version
        BY <3>2 DEF Load, Quiet, Latch, ContextFails, Validate, CheckFloor, MarkPlaced, MarkFails, market
      <3>3. ASSUME NEW i, Intake(i) PROVE version' = version
        BY <3>3 DEF Intake, Check, Insert, Cancel, PassExpiry, Sweep, market
      <3>4. ASSUME NEW d, Post(d) PROVE version' = version
        BY <3>4 DEF Post, market
      <3>5. RaiseFloor \/ (\E o \in Orders : Withdraw(o)) \/ UNCHANGED vars => version' = version
        BY DEF RaiseFloor, Withdraw, vars, market
      <3>6. version' = version
        BY <2>2, <3>1, <3>2, <3>3, <3>4, <3>5 DEF Next, Tick, Fire, Desk
      <3>7. QED
        BY <3>6 DEF VersionInv
    <2>3. QED
      BY <2>1, <2>2
  <1>3. QED
    BY <1>1, <1>2, PTL DEF Spec

\* The validator accepts what the form accepts, under any rules the market has
\* had, if the deployment's grace is within the browser's buffer.
THEOREM FormsAgree == Grace <= Buffer => (Spec => []ExactFormsPass)
  <1> SUFFICES ASSUME Grace <= Buffer PROVE Spec => []ExactFormsPass
    OBVIOUS
  <1>1. VersionInv => ExactFormsPass
    <2> SUFFICES ASSUME VersionInv, NEW f \in Forms,
                        FormAccepted(f, Rules[version]), (f.size * f.price) % Unit = 0
                 PROVE  Integrity(BuiltBody(f, TRUE, Rules[version]), Rules[version], Grace)
      BY DEF ExactFormsPass, FormsPass, VersionInv
    <2>1. Rules[version] \in MarketRules
      BY RulesAssumption DEF VersionInv
    <2>2. Positive(f)
      BY FormsAssumption DEF Positive
    <2>3. Grace \in 0..Buffer
      BY NumbersAssumption DEF Buffer
    <2>4. QED
      BY <2>1, <2>2, <2>3, FormPassesValidator
  <1>2. QED
    BY <1>1, VersionInvariant, PTL
-----------------------------------------------------------------------------
\* A row that passed the checks of create, and one that was inserted.
Entered == {"ACTIVE", "TRIGGERED", "PLACED", "CANCELLED", "EXPIRED", "FAILED"}
Checked == Entered \cup {"new"}
Firing  == {"latched", "validated", "placing", "summed", "checked", "pushed", "stored", "placed"}

IsSlot(r) ==
  r = [phase |-> r.phase, todo |-> r.todo, order |-> r.order, passive |-> r.passive, open |-> r.open,
       terms |-> r.terms, raced |-> r.raced, unguarded |-> r.unguarded]

\* A tick has rows in hand; the one it fires was inserted, and until placement
\* has read the order it is that row's.
TickInv(t) ==
  /\ at[t].todo \in Seq(Intents) /\ (at[t].phase # "off" => at[t].todo # <<>>)
  /\ at[t].phase \in Firing => status[Row(t)] \in Entered
  /\ at[t].phase \in {"validated", "placing"} => at[t].order = body[Row(t)].order
SlotsInv ==
  /\ at = [p \in Slots |-> at[p]] /\ \A p \in Slots : IsSlot(at[p])
  /\ \A t \in Ticks : TickInv(t)

\* What was checked passed under the rules it was checked with; what drifted
\* was accepted under older ones.
RowsInv ==
  /\ status \in [Intents -> Statuses] /\ accepted \in [Intents -> Nat]
  /\ body = [i \in Intents |-> body[i]]
  /\ \A i \in Intents : status[i] \in Checked =>
       accepted[i] \in 1..version /\ Integrity(body[i], Rules[accepted[i]], Grace)
  /\ \A i \in drifted : i \in Intents /\ status[i] \in Entered /\ version > accepted[i]
DriftInv == VersionInv /\ SlotsInv /\ RowsInv

LEMMA InitDrift == Init => DriftInv
  <1> SUFFICES ASSUME Init PROVE DriftInv
    OBVIOUS
  <1>1. VersionInv
    BY RulesAssumption DEF Init, VersionInv
  <1>2. IsSlot(Off) /\ Off.phase = "off" /\ Off.todo = <<>>
    BY DEF IsSlot, Off
  <1>3. SlotsInv
    <2>1. at = [p \in Slots |-> Off]
      BY DEF Init
    <2>2. \A p \in Slots : at[p] = Off
      BY <2>1
    <2> HIDE DEF Off
    <2>3. \A t \in Ticks : TickInv(t)
      <3>1. ASSUME NEW t \in Ticks PROVE TickInv(t)
        <4>1. at[t] = Off
          BY <2>2 DEF Slots
        <4>2. <<>> \in Seq(Intents)
          OBVIOUS
        <4>3. QED
          BY <1>2, <4>1, <4>2 DEF TickInv, Firing
      <3>2. QED
        BY <3>1
    <2>4. QED
      BY <1>2, <2>1, <2>2, <2>3 DEF SlotsInv
  <1>4. RowsInv
    BY DEF Init, RowsInv, Statuses, Checked, Entered
  <1>5. QED
    BY <1>1, <1>3, <1>4 DEF DriftInv

\* Rows that only move on, under rules that only move on, keep what was
\* checked of them.
LEMMA RowsKept ==
  ASSUME DriftInv, VersionInv', version' >= version, UNCHANGED <<body, accepted, drifted>>,
         status' \in [Intents -> Statuses],
         \A i \in Intents : status'[i] = status[i] \/ (status[i] \in Checked /\ status'[i] \in Entered)
  PROVE  RowsInv' /\ \A i \in Intents : status[i] \in Entered => status'[i] \in Entered
  <1> USE RulesAssumption DEF DriftInv, VersionInv, RowsInv, Checked
  <1>1. \A i \in Intents : status'[i] \in Checked => status[i] \in Checked
    OBVIOUS
  <1>2. \A i \in Intents : status[i] \in Entered => status'[i] \in Entered
    OBVIOUS
  <1>3. QED
    BY <1>1, <1>2

\* A step that neither gives a tick another row nor starts a placement keeps
\* what is known of the ticks.
LEMMA SlotsKept ==
  ASSUME SlotsInv, at' = [p \in Slots |-> at'[p]], \A p \in Slots : IsSlot(at'[p]),
         \A i \in Intents : status[i] \in Entered => status'[i] \in Entered /\ body'[i] = body[i],
         \A t \in Ticks :
           \/ at'[t] = at[t]
           \/ at'[t].phase = at[t].phase /\ at'[t].todo = at[t].todo /\ at'[t].order = at[t].order
           \/ at[t].phase \in Firing /\ at'[t].phase \in Firing \ {"validated", "placing"} /\ at'[t].todo = at[t].todo
           \/ at'[t].phase \in {"off", "scanning"} /\ at'[t].todo \in Seq(Intents)
                /\ (at'[t].phase = "scanning" => at'[t].todo # <<>>)
  PROVE  SlotsInv'
  <1>1. ASSUME NEW t \in Ticks PROVE TickInv(t)'
    <2>1. TickInv(t)
      BY <1>1 DEF SlotsInv
    <2>2. at[t].phase \in Firing => Row(t) \in Intents
      BY <2>1 DEF TickInv, Firing, Row
    <2>3. QED
      BY <2>1, <2>2 DEF TickInv, Firing, Row
  <1>2. QED
    BY <1>1 DEF SlotsInv

\* Of a sequence that is neither empty nor single something is left.
LEMMA RestOfMany ==
  ASSUME NEW S, NEW s \in Seq(S), s # <<>>, Len(s) # 1
  PROVE  Tail(s) \in Seq(S) /\ Tail(s) # <<>>
  <1>1. Len(s) \in Nat \ {0} /\ Tail(s) \in Seq(S) /\ Len(Tail(s)) = Len(s) - 1
    BY EmptySeq, HeadTailProperties
  <1>2. Len(Tail(s)) # 0
    BY <1>1
  <1>3. Tail(s) = <<>> => Len(Tail(s)) = 0
    BY EmptySeq, Zenon
  <1>4. QED
    BY <1>1, <1>2, <1>3

\* The next row of a tick, or its end.
LEMMA NextSlot ==
  ASSUME NEW t \in Ticks, at[t].todo \in Seq(Intents), at[t].todo # <<>>
  PROVE  /\ IsSlot(Next1(t)) /\ Next1(t).phase \in {"off", "scanning"} /\ Next1(t).todo \in Seq(Intents)
         /\ Next1(t).phase = "scanning" => Next1(t).todo # <<>>
  <1>1. CASE Len(at[t].todo) = 1
    BY <1>1 DEF Next1, Off, IsSlot
  <1>2. CASE Len(at[t].todo) # 1
    <2>1. Tail(at[t].todo) \in Seq(Intents) /\ Tail(at[t].todo) # <<>>
      BY <1>2, RestOfMany
    <2>2. QED
      BY <1>2, <2>1 DEF Next1, Off, IsSlot
  <1>3. QED
    BY <1>1, <1>2

\* A failed fire drifted only if the rules have changed since it was accepted.
LEMMA FailedKeeps ==
  ASSUME DriftInv, NEW t \in Ticks, NEW reason, Failed(t, reason), at[t].phase \in Firing,
         UNCHANGED <<version, accepted>>,
         reason \in {"integrity", "price"} => version > accepted[Row(t)]
  PROVE  DriftInv'
  <1> DEFINE i == Row(t)
  <1>1. TickInv(t) /\ t \in Slots
    BY DEF DriftInv, SlotsInv, Slots
  <1>2. i \in Intents /\ status[i] \in Entered /\ at[t].todo \in Seq(Intents) /\ at[t].todo # <<>>
    BY <1>1 DEF TickInv, Firing, Row
  <1>3. VersionInv'
    BY DEF DriftInv, VersionInv
  <1>4. status' \in [Intents -> Statuses] /\ \A j \in Intents : status'[j] = status[j] \/ (j = i /\ status'[j] = "FAILED")
    BY <1>2 DEF Failed, DriftInv, RowsInv, Statuses
  <1>5. at' = [at EXCEPT ![t] = Next1(t)] /\ body' = body
    BY DEF Failed
  <1>6. SlotsInv'
    <2>1. at' = [p \in Slots |-> at'[p]] /\ \A p \in Slots : IsSlot(at'[p])
      BY <1>1, <1>2, <1>5, NextSlot DEF DriftInv, SlotsInv
    <2>2. \A j \in Intents : status[j] \in Entered => status'[j] \in Entered /\ body'[j] = body[j]
      BY <1>4, <1>5 DEF Entered
    <2>3. \A u \in Ticks : u # t => at'[u] = at[u]
      BY <1>5 DEF DriftInv, SlotsInv, Slots
    <2>4. at'[t] = Next1(t)
      BY <1>1, <1>5 DEF DriftInv, SlotsInv
    <2>5. QED
      BY <1>2, <2>1, <2>2, <2>3, <2>4, NextSlot, SlotsKept DEF DriftInv
  <1>7. RowsInv'
    <2>1. drifted' \subseteq drifted \cup {i}
      BY DEF Failed
    <2>2. i \in drifted' => version > accepted[i]
      BY DEF Failed, DriftInv, RowsInv
    <2>3. \A j \in Intents : (status[j] \in Entered => status'[j] \in Entered) /\ (status'[j] \in Checked => status[j] \in Checked)
      BY <1>2, <1>4 DEF Entered, Checked
    <2>4. QED
      BY <1>2, <1>4, <1>5, <2>1, <2>2, <2>3 DEF DriftInv, RowsInv
  <1>8. QED
    BY <1>3, <1>6, <1>7 DEF DriftInv

\* What the rest of a step may do to a tick's slot for TickInv to survive it.
Harmless(t, r) ==
  \/ at[t].phase \in Firing /\ r.phase \in Firing \ {"validated", "placing"} /\ r.todo = at[t].todo
  \/ r.phase \in {"off", "scanning"} /\ r.todo \in Seq(Intents) /\ (r.phase = "scanning" => r.todo # <<>>)

\* A step of one slot that keeps the rows keeps the invariant.
LEMMA StepKeeps ==
  ASSUME DriftInv, NEW p \in Slots, NEW r, IsSlot(r), at' = [at EXCEPT ![p] = r],
         UNCHANGED <<version, body, accepted, drifted>>, status' \in [Intents -> Statuses],
         \A i \in Intents : status'[i] = status[i] \/ (status[i] \in Checked /\ status'[i] \in Entered),
         p \in Ticks => Harmless(p, r)
  PROVE  DriftInv'
  <1>1. VersionInv' /\ version' >= version
    BY RulesAssumption DEF DriftInv, VersionInv
  <1>2. RowsInv' /\ \A i \in Intents : status[i] \in Entered => status'[i] \in Entered
    BY <1>1, RowsKept
  <1>3. SlotsInv'
    <2>1. at' = [q \in Slots |-> at'[q]] /\ at'[p] = r /\ \A q \in Slots : q # p => at'[q] = at[q]
      BY DEF DriftInv, SlotsInv
    <2>2. \A q \in Slots : IsSlot(at'[q])
      BY <2>1 DEF DriftInv, SlotsInv
    <2>3. \A t \in Ticks : t \in Slots
      BY DEF Slots
    <2>4. QED
      BY <1>2, <2>1, <2>2, <2>3, SlotsKept DEF DriftInv, Harmless
  <1>4. QED
    BY <1>1, <1>2, <1>3 DEF DriftInv

\* What is known of the tick that fires a row.
LEMMA FiringRow ==
  ASSUME DriftInv, NEW t \in Ticks, at[t].phase \in Firing \cup {"scanning"}
  PROVE  /\ t \in Slots /\ at[t].todo \in Seq(Intents) /\ at[t].todo # <<>> /\ Row(t) \in Intents /\ IsSlot(at[t])
         /\ at[t].phase \in Firing => status[Row(t)] \in Entered
  <1>1. TickInv(t) /\ t \in Slots /\ IsSlot(at[t])
    BY DEF DriftInv, SlotsInv, Slots
  <1>2. QED
    BY <1>1 DEF TickInv, Firing, Row

\* A phase of a placement follows another.
LEMMA ToKeeps ==
  ASSUME DriftInv, NEW p \in Slots, NEW r, IsSlot(r), r.todo = at[p].todo,
         at[p].phase \in Firing, r.phase \in Firing \ {"validated", "placing"},
         at' = [at EXCEPT ![p] = r], UNCHANGED <<version, status, body, accepted, drifted>>
  PROVE  DriftInv'
  <1>1. status' \in [Intents -> Statuses]
    BY DEF DriftInv, RowsInv
  <1>2. p \in Ticks => Harmless(p, r)
    BY DEF Harmless
  <1>3. QED
    BY <1>1, <1>2, StepKeeps

\* A slot at rest is a slot.
LEMMA OffIsSlot == IsSlot(Off)
  BY DEF IsSlot, Off

\* A rejection: of a tick, a failed fire; of a desk, an answer.
LEMMA RejectKeeps ==
  ASSUME DriftInv, NEW p \in Slots, NEW reason, Reject(p, reason), at[p].phase \in Firing,
         UNCHANGED <<version, accepted>>,
         p \in Ticks /\ reason \in {"integrity", "price"} => version > accepted[Row(p)]
  PROVE  DriftInv'
  <1>1. CASE p \in Ticks
    <2>1. Failed(p, reason)
      BY <1>1 DEF Reject
    <2>2. QED
      BY <1>1, <2>1, FailedKeeps
  <1>2. CASE p \notin Ticks
    <2>1. at' = [at EXCEPT ![p] = Answered] /\ UNCHANGED <<status, body, drifted>>
      BY <1>2 DEF Reject, intents
    <2>2. IsSlot(Answered)
      BY OffIsSlot DEF IsSlot, Answered
    <2>3. status' \in [Intents -> Statuses]
      BY <2>1 DEF DriftInv, RowsInv
    <2>4. QED
      BY <1>2, <2>1, <2>2, <2>3, StepKeeps
  <1>3. QED
    BY <1>1, <1>2

\* Other slots learn that they were raced, one moves to its next phase.
LEMMA DisturbKeeps ==
  ASSUME DriftInv, NEW p \in Slots, NEW phase \in {"pushed", "stored"}, at[p].phase \in Firing, Disturb(p, phase),
         UNCHANGED <<version, status, body, accepted, drifted>>
  PROVE  DriftInv'
  <1>1. VersionInv' /\ version' >= version
    BY RulesAssumption DEF DriftInv, VersionInv
  <1>2. RowsInv'
    BY <1>1, RowsKept DEF DriftInv, RowsInv
  <1>3. SlotsInv'
    <2>1. at' = [q \in Slots |-> at'[q]]
      BY DEF Disturb
    <2>2. /\ \A q \in Slots : q # p => at'[q] = [at[q] EXCEPT !.raced = @ \/ at[q].phase \in {"summed", "checked", "pushed"}]
          /\ at'[p] = [at[p] EXCEPT !.phase = phase]
      BY DEF Disturb
    <2>3. \A q \in Slots : IsSlot(at[q])
      BY DEF DriftInv, SlotsInv
    <2>4. IsSlot(at'[p]) /\ at'[p].phase = phase /\ at'[p].todo = at[p].todo
      BY <2>2, <2>3 DEF IsSlot
    <2>5. ASSUME NEW q \in Slots, q # p
          PROVE  IsSlot(at'[q]) /\ at'[q].phase = at[q].phase /\ at'[q].todo = at[q].todo /\ at'[q].order = at[q].order
      <3> DEFINE raced == at[q].raced \/ at[q].phase \in {"summed", "checked", "pushed"}
      <3>1. at'[q] = [at[q] EXCEPT !.raced = raced] /\ IsSlot(at[q])
        BY <2>2, <2>3, <2>5
      <3> HIDE DEF raced
      <3>2. QED
        BY <3>1 DEF IsSlot
    <2>6. \A q \in Slots : IsSlot(at'[q])
      BY <2>4, <2>5
    <2>7. \A i \in Intents : status[i] \in Entered => status'[i] \in Entered /\ body'[i] = body[i]
      OBVIOUS
    <2>8. \A t \in Ticks :
           \/ at'[t].phase = at[t].phase /\ at'[t].todo = at[t].todo /\ at'[t].order = at[t].order
           \/ at[t].phase \in Firing /\ at'[t].phase \in Firing \ {"validated", "placing"} /\ at'[t].todo = at[t].todo
      <3>1. ASSUME NEW t \in Ticks
            PROVE  \/ at'[t].phase = at[t].phase /\ at'[t].todo = at[t].todo /\ at'[t].order = at[t].order
                   \/ at[t].phase \in Firing /\ at'[t].phase \in Firing \ {"validated", "placing"} /\ at'[t].todo = at[t].todo
        BY <2>4, <2>5 DEF Slots, Firing
      <3>2. QED
        BY <3>1
    <2>9. QED
      BY <2>1, <2>6, <2>7, <2>8, SlotsKept DEF DriftInv
  <1>4. QED
    BY <1>1, <1>2, <1>3 DEF DriftInv

\* A step that leaves the ticks alone keeps the invariant.
LEMMA RowStepKeeps ==
  ASSUME DriftInv, VersionInv', version' >= version, UNCHANGED <<at, body, accepted, drifted>>,
         status' \in [Intents -> Statuses],
         \A i \in Intents : status'[i] = status[i] \/ (status[i] \in Checked /\ status'[i] \in Entered)
  PROVE  DriftInv'
  <1>1. RowsInv' /\ \A i \in Intents : status[i] \in Entered => status'[i] \in Entered
    BY RowsKept
  <1>2. SlotsInv'
    BY <1>1, SlotsKept DEF DriftInv, SlotsInv
  <1>3. QED
    BY <1>1, <1>2 DEF DriftInv

\* Create validates under the rules in force, before the row is anyone's.
LEMMA CheckKeeps ==
  ASSUME DriftInv, NEW i \in Intents, Check(i)
  PROVE  DriftInv'
  <1>1. VersionInv' /\ version' = version /\ at' = at /\ drifted' = drifted
    BY DEF Check, market, DriftInv, VersionInv
  <1>2. status[i] = "none" /\ status' \in [Intents -> Statuses] /\ (\A j \in Intents \ {i} : status'[j] = status[j])
        /\ status'[i] \in {"new", "refused"}
    BY DEF Check, DriftInv, RowsInv, Statuses
  <1>3. body' = [j \in Intents |-> body'[j]] /\ \A j \in Intents \ {i} : body'[j] = body[j] /\ accepted'[j] = accepted[j]
    BY DEF Check, DriftInv, RowsInv
  <1>4. accepted' \in [Intents -> Nat]
    <2>1. version \in Nat /\ accepted \in [Intents -> Nat]
      BY RulesAssumption DEF DriftInv, RowsInv, VersionInv
    <2>2. accepted' = accepted \/ accepted' = [accepted EXCEPT ![i] = version]
      BY DEF Check
    <2>3. QED
      BY <2>1, <2>2
  <1>5. status'[i] \in Checked => accepted'[i] = version /\ Integrity(body'[i], Rules[version], Grace)
    <2>1. CASE status'[i] = "new"
      <3>1. PICK b \in Bodies : ValidAtCreate(b) /\ body' = [body EXCEPT ![i] = b] /\ accepted' = [accepted EXCEPT ![i] = version]
        BY <1>2, <2>1 DEF Check, DriftInv, RowsInv
      <3>2. body'[i] = b /\ accepted'[i] = version
        BY <3>1 DEF DriftInv, RowsInv
      <3>3. QED
        BY <3>1, <3>2 DEF ValidAtCreate, Now
    <2>2. QED
      BY <1>2, <2>1 DEF Checked, Entered
  <1>6. RowsInv'
    <2>1. \A j \in Intents : status'[j] \in Checked =>
            accepted'[j] \in 1..version /\ Integrity(body'[j], Rules[accepted'[j]], Grace)
      <3>1. ASSUME NEW j \in Intents \ {i}, status'[j] \in Checked
            PROVE  accepted'[j] \in 1..version /\ Integrity(body'[j], Rules[accepted'[j]], Grace)
        BY <1>2, <1>3, <3>1 DEF DriftInv, RowsInv
      <3>2. version \in 1..version
        BY RulesAssumption DEF DriftInv, VersionInv
      <3>3. QED
        BY <1>5, <3>1, <3>2
    <2>2. \A j \in drifted : j \in Intents /\ status[j] \in Entered /\ j # i /\ version > accepted[j]
      BY <1>2 DEF DriftInv, RowsInv, Entered
    <2>3. QED
      BY <1>1, <1>2, <1>3, <1>4, <2>1, <2>2 DEF RowsInv
  <1>7. SlotsInv'
    <2>1. \A j \in Intents : status[j] \in Entered => status'[j] \in Entered /\ body'[j] = body[j]
      BY <1>2, <1>3 DEF Entered
    <2>2. QED
      BY <1>1, <2>1, SlotsKept DEF DriftInv, SlotsInv
  <1>8. QED
    BY <1>1, <1>6, <1>7 DEF DriftInv

\* The steps of an intent's row, and of the market.
LEMMA RowActionsKeep ==
  ASSUME DriftInv,
         \/ \E i \in Intents : Intake(i)
         \/ ChangeRules \/ RaiseFloor \/ \E o \in Orders : Withdraw(o)
         \/ UNCHANGED vars
  PROVE  DriftInv'
  <1>1. version \in Nat /\ VersionInv /\ status \in [Intents -> Statuses]
    BY RulesAssumption DEF DriftInv, VersionInv, RowsInv
  <1>2. ASSUME NEW i \in Intents, Insert(i) \/ Cancel(i) \/ PassExpiry(i) \/ Sweep(i) PROVE DriftInv'
    <2>1. UNCHANGED <<version, at, body, accepted, drifted>>
      BY <1>2 DEF Insert, Cancel, PassExpiry, Sweep, market, notes
    <2>2. status' \in [Intents -> Statuses]
      BY <1>1, <1>2 DEF Insert, Cancel, PassExpiry, Sweep, Statuses
    <2>3. \A j \in Intents : status'[j] = status[j] \/ (status[j] \in Checked /\ status'[j] \in Entered)
      BY <1>1, <1>2 DEF Insert, Cancel, PassExpiry, Sweep, Checked, Entered
    <2>4. QED
      BY <1>1, <2>1, <2>2, <2>3, RowStepKeeps DEF VersionInv
  <1>3. ASSUME NEW i \in Intents, Check(i) PROVE DriftInv'
    BY <1>3, CheckKeeps
  <1>4. CASE ChangeRules
    <2>1. version' = version + 1 /\ version < Len(Rules) /\ UNCHANGED <<status, at, body, accepted, drifted>>
      BY <1>4 DEF ChangeRules, intents, notes
    <2>2. VersionInv' /\ version' >= version
      BY <1>1, <2>1, RulesAssumption DEF VersionInv
    <2>3. QED
      BY <1>1, <2>1, <2>2, RowStepKeeps
  <1>5. CASE RaiseFloor \/ (\E o \in Orders : Withdraw(o)) \/ UNCHANGED vars
    <2>1. UNCHANGED <<version, status, at, body, accepted, drifted>>
      BY <1>5 DEF RaiseFloor, Withdraw, intents, market, notes, vars
    <2>2. QED
      BY <1>1, <2>1, RowStepKeeps DEF VersionInv
  <1>6. QED
    BY <1>2, <1>3, <1>4, <1>5 DEF Intake

\* A slot that takes up rows is a slot.
LEMMA ScanIsSlot ==
  ASSUME NEW q, IsSlot(q), NEW s
  PROVE  LET slot == [q EXCEPT !.phase = "scanning", !.todo = s]
         IN  IsSlot(slot) /\ slot.phase = "scanning" /\ slot.todo = s
  <1> DEFINE scan == [q EXCEPT !.phase = "scanning"]
             slot == [scan EXCEPT !.todo = s]
  <1>1. IsSlot(scan) /\ scan.phase = "scanning"
    BY DEF IsSlot
  <1>2. [q EXCEPT !.phase = "scanning", !.todo = s] = slot
    BY DEF IsSlot
  <1> HIDE DEF scan
  <1>3. IsSlot(slot) /\ slot.phase = "scanning" /\ slot.todo = s
    BY <1>1 DEF IsSlot
  <1>4. QED
    BY <1>2, <1>3

\* The steps of a tick before placement.
LEMMA TickActionsKeep ==
  ASSUME DriftInv, NEW t \in Ticks,
         Load(t) \/ Quiet(t) \/ Latch(t) \/ ContextFails(t) \/ MarkPlaced(t)
  PROVE  DriftInv'
  <1>1. t \in Slots /\ status \in [Intents -> Statuses]
    BY DEF Slots, DriftInv, RowsInv
  <1>2. CASE Load(t)
    <2>1. PICK s \in BoundedSeq(Live, Limit) :
            s # <<>> /\ at' = [at EXCEPT ![t] = [Off EXCEPT !.phase = "scanning", !.todo = s]]
      BY <1>2 DEF Load
    <2> DEFINE r == [Off EXCEPT !.phase = "scanning", !.todo = s]
    <2>2. s \in Seq(Intents)
      <3>1. PICK n \in 0..Limit : s \in [1..n -> Live]
        BY <2>1 DEF BoundedSeq, SeqOf
      <3>2. n \in Nat /\ s \in [1..n -> Intents]
        BY <3>1, NumbersAssumption DEF Live
      <3>3. QED
        BY <3>2, SeqDef
    <2>3. IsSlot(r) /\ r.phase = "scanning" /\ r.todo = s
      BY OffIsSlot, ScanIsSlot
    <2>4. Harmless(t, r)
      BY <2>1, <2>2, <2>3 DEF Harmless
    <2>5. UNCHANGED <<version, status, body, accepted, drifted>>
      BY <1>2 DEF Load, intents, market, notes
    <2> HIDE DEF r
    <2>6. at' = [at EXCEPT ![t] = r]
      BY <2>1 DEF r
    <2>7. QED
      BY <1>1, <2>3, <2>4, <2>5, <2>6, StepKeeps
  <1>3. CASE Quiet(t) \/ MarkPlaced(t) \/ ContextFails(t) \/ (Latch(t) /\ at' = [at EXCEPT ![t] = Next1(t)] /\ status' = status)
    <2>1. at[t].phase \in Firing \cup {"scanning"}
      BY <1>3 DEF Quiet, MarkPlaced, ContextFails, Latch, Firing
    <2>2. at[t].todo \in Seq(Intents) /\ at[t].todo # <<>> /\ Row(t) \in Intents
      BY <2>1, FiringRow
    <2>3. at' = [at EXCEPT ![t] = Next1(t)] /\ UNCHANGED <<version, body, accepted, drifted>>
      BY <1>3 DEF Quiet, MarkPlaced, ContextFails, Latch, intents, market, notes
    <2>4. IsSlot(Next1(t)) /\ Harmless(t, Next1(t))
      BY <2>2, NextSlot DEF Harmless
    <2>5. /\ status' \in [Intents -> Statuses]
          /\ \A i \in Intents : status'[i] = status[i] \/ (status[i] \in Checked /\ status'[i] \in Entered)
      BY <1>1, <1>3 DEF Quiet, MarkPlaced, ContextFails, Latch, intents, Statuses, Checked, Entered
    <2>6. QED
      BY <1>1, <2>3, <2>4, <2>5, StepKeeps
  <1>4. CASE Latch(t) /\ status[Row(t)] \in LatchFrom
    <2>1. Row(t) \in Intents /\ IsSlot(at[t]) /\ at[t].todo \in Seq(Intents) /\ at[t].todo # <<>>
      BY <1>4, FiringRow DEF Latch
    <2>2. status' = [status EXCEPT ![Row(t)] = "TRIGGERED"] /\ status[Row(t)] = "ACTIVE" /\ To(t, "latched")
          /\ UNCHANGED <<version, body, accepted, drifted>>
      BY <1>4 DEF Latch, LatchFrom, market, notes
    <2> DEFINE r == [at[t] EXCEPT !.phase = "latched"]
    <2>3. IsSlot(r) /\ r.phase = "latched" /\ r.todo = at[t].todo
      BY <2>1 DEF IsSlot
    <2>4. at' = [at EXCEPT ![t] = r]
      BY <2>2 DEF To
    <2> HIDE DEF r
    <2>5. at' = [p \in Slots |-> at'[p]] /\ at'[t] = r /\ \A p \in Slots \ {t} : at'[p] = at[p]
      BY <1>1, <2>4 DEF DriftInv, SlotsInv
    <2>6. status' \in [Intents -> Statuses]
          /\ \A i \in Intents : status'[i] = status[i] \/ (i = Row(t) /\ status[i] = "ACTIVE" /\ status'[i] = "TRIGGERED")
      BY <1>1, <2>2 DEF Statuses
    <2>7. VersionInv' /\ version' >= version
      BY <2>2, RulesAssumption DEF DriftInv, VersionInv
    <2>8. \A i \in Intents : status'[i] = status[i] \/ (status[i] \in Checked /\ status'[i] \in Entered)
      BY <2>6 DEF Checked, Entered
    <2>9. RowsInv' /\ \A i \in Intents : status[i] \in Entered => status'[i] \in Entered
      BY <2>2, <2>6, <2>7, <2>8, RowsKept
    <2>10. SlotsInv'
      <3>1. TickInv(t)'
        BY <2>1, <2>2, <2>3, <2>5, <2>6 DEF TickInv, Row, Firing, Entered
      <3>2. ASSUME NEW u \in Ticks, u # t PROVE TickInv(u)'
        <4>1. at'[u] = at[u] /\ TickInv(u)
          BY <2>5, <3>2 DEF DriftInv, SlotsInv, Slots
        <4>2. at[u].phase \in Firing => Row(u) \in Intents
          BY <4>1 DEF TickInv, Firing, Row
        <4>3. QED
          BY <2>2, <2>9, <4>1, <4>2 DEF TickInv, Row, Firing
      <3>3. \A p \in Slots : IsSlot(at'[p])
        BY <2>3, <2>5 DEF DriftInv, SlotsInv
      <3>4. QED
        BY <2>5, <3>1, <3>2, <3>3 DEF SlotsInv
    <2>11. QED
      BY <2>7, <2>9, <2>10 DEF DriftInv
  <1>5. QED
    BY <1>2, <1>3, <1>4 DEF Latch

\* The rules the firing row was accepted under are today's or older ones.
LEMMA AcceptedThen ==
  ASSUME DriftInv, NEW i \in Intents, status[i] \in Entered
  PROVE  version > accepted[i] \/ Integrity(body[i], Now, Grace)
  <1>1. accepted[i] \in 1..version /\ Integrity(body[i], Rules[accepted[i]], Grace) /\ version \in Nat
    BY RulesAssumption DEF DriftInv, VersionInv, RowsInv, Checked
  <1>2. CASE accepted[i] = version
    BY <1>1, <1>2 DEF Now
  <1>3. CASE accepted[i] # version
    BY <1>1, <1>3
  <1>4. QED
    BY <1>2, <1>3

\* The checks of a fire before it places.
LEMMA ValidateKeeps ==
  ASSUME DriftInv, NEW t \in Ticks, Validate(t) \/ CheckFloor(t)
  PROVE  DriftInv'
  <1>1. /\ t \in Slots /\ at[t].phase \in Firing /\ Row(t) \in Intents /\ IsSlot(at[t]) /\ status[Row(t)] \in Entered
        /\ at[t].todo \in Seq(Intents) /\ at[t].todo # <<>>
    BY FiringRow DEF Validate, CheckFloor, Firing
  <1>2. UNCHANGED <<version, accepted>>
    BY DEF Validate, CheckFloor, market
  <1>3. CASE Validate(t) /\ Failed(t, "integrity") /\ ~Integrity(body[Row(t)], Now, Grace)
    BY <1>1, <1>2, <1>3, AcceptedThen, FailedKeeps
  <1>4. CASE Failed(t, "exists") \/ Failed(t, "floor")
    <2>1. ASSUME NEW reason \in {"exists", "floor"}, Failed(t, reason) PROVE DriftInv'
      BY <1>1, <1>2, <2>1, FailedKeeps
    <2>2. QED
      BY <1>4, <2>1
  <1>5. CASE Validate(t) /\ UNCHANGED <<intents, drifted>>
             /\ at' = [at EXCEPT ![t].phase = "validated", ![t].order = body[Row(t)].order, ![t].passive = TRUE]
    <2> DEFINE ahead == [at[t] EXCEPT !.phase = "validated"]
               named == [ahead EXCEPT !.order = body[Row(t)].order]
               yes   == TRUE
               r     == [named EXCEPT !.passive = yes]
    <2>1. /\ at' = [p \in Slots |-> at'[p]] /\ at'[t] = r /\ \A p \in Slots : p # t => at'[p] = at[p]
          /\ UNCHANGED <<status, body, drifted>>
      BY <1>1, <1>5 DEF DriftInv, SlotsInv, intents
    <2>2. IsSlot(ahead) /\ ahead.phase = "validated" /\ ahead.todo = at[t].todo
      BY <1>1 DEF IsSlot
    <2> HIDE DEF ahead
    <2>3. IsSlot(named) /\ named.phase = "validated" /\ named.todo = at[t].todo /\ named.order = body[Row(t)].order
      BY <2>2 DEF IsSlot
    <2> HIDE DEF named, yes
    <2>4. IsSlot(r) /\ r.phase = "validated" /\ r.todo = at[t].todo /\ r.order = body[Row(t)].order
      BY <2>3 DEF IsSlot
    <2> HIDE DEF r
    <2>5. SlotsInv'
      <3>1. TickInv(t)'
        BY <1>1, <2>1, <2>4 DEF TickInv, Row, Firing
      <3>2. ASSUME NEW u \in Ticks, u # t PROVE TickInv(u)'
        <4>1. at'[u] = at[u] /\ TickInv(u)
          BY <2>1, <3>2 DEF DriftInv, SlotsInv, Slots
        <4>2. QED
          BY <2>1, <4>1 DEF TickInv, Row
      <3>3. \A p \in Slots : IsSlot(at'[p])
        BY <2>1, <2>4 DEF DriftInv, SlotsInv
      <3>4. QED
        BY <2>1, <3>1, <3>2, <3>3 DEF SlotsInv
    <2>6. VersionInv' /\ version' >= version
      BY <1>2, RulesAssumption DEF DriftInv, VersionInv
    <2>7. RowsInv'
      BY <1>2, <2>1, <2>6, RowsKept DEF DriftInv, RowsInv
    <2>8. QED
      BY <2>5, <2>6, <2>7 DEF DriftInv
  <1>6. CASE CheckFloor(t) /\ To(t, "placing") /\ UNCHANGED <<intents, drifted>>
    <2> DEFINE r == [at[t] EXCEPT !.phase = "placing"]
    <2>1. IsSlot(r) /\ r.phase = "placing" /\ r.todo = at[t].todo /\ r.order = at[t].order /\ at[t].phase = "validated"
      BY <1>1, <1>6 DEF IsSlot, CheckFloor
    <2>2. /\ at' = [p \in Slots |-> at'[p]] /\ at'[t] = r /\ \A p \in Slots : p # t => at'[p] = at[p]
          /\ UNCHANGED <<status, body, drifted>>
      BY <1>1, <1>6 DEF DriftInv, SlotsInv, intents, To
    <2> HIDE DEF r
    <2>3. SlotsInv'
      <3>1. TickInv(t)'
        <4>1. at[t].order = body[Row(t)].order
          BY <2>1 DEF DriftInv, SlotsInv, TickInv
        <4>2. QED
          BY <1>1, <2>1, <2>2, <4>1 DEF TickInv, Row, Firing
      <3>2. ASSUME NEW u \in Ticks, u # t PROVE TickInv(u)'
        <4>1. at'[u] = at[u] /\ TickInv(u)
          BY <2>2, <3>2 DEF DriftInv, SlotsInv, Slots
        <4>2. QED
          BY <2>2, <4>1 DEF TickInv, Row
      <3>3. \A p \in Slots : IsSlot(at'[p])
        BY <2>1, <2>2 DEF DriftInv, SlotsInv
      <3>4. QED
        BY <2>2, <3>1, <3>2, <3>3 DEF SlotsInv
    <2>4. VersionInv' /\ version' >= version
      BY <1>2, RulesAssumption DEF DriftInv, VersionInv
    <2>5. RowsInv'
      BY <1>2, <2>2, <2>4, RowsKept DEF DriftInv, RowsInv
    <2>6. QED
      BY <2>3, <2>4, <2>5 DEF DriftInv
  <1>7. QED
    BY <1>3, <1>4, <1>5, <1>6 DEF Validate, CheckFloor

\* A placement derives the same terms the validator did, so it finds no exact
\* price only under rules that have changed.
LEMMA SumOpenKeeps ==
  ASSUME DriftInv, NEW p \in Slots, SumOpen(p)
  PROVE  DriftInv'
  <1> DEFINE o == at[p].order
             terms == PlacementTerms(o, Now)
  <1>1. at[p].phase = "placing" /\ at[p].phase \in Firing /\ IsSlot(at[p]) /\ UNCHANGED <<version, body, accepted>>
    BY DEF SumOpen, Firing, market, DriftInv, SlotsInv, intents, Reject, Failed
  <1>2. CASE Reject(p, "fee")
    BY <1>1, <1>2, RejectKeeps
  <1>3. CASE Reject(p, "price") /\ ~terms.exact
    <2>1. p \in Ticks => version > accepted[Row(p)]
      <3> SUFFICES ASSUME p \in Ticks PROVE version > accepted[Row(p)]
        OBVIOUS
      <3>1. Row(p) \in Intents /\ status[Row(p)] \in Entered
        BY <1>1, FiringRow
      <3>2. o = body[Row(p)].order
        BY <1>1 DEF DriftInv, SlotsInv, TickInv
      <3>3. ~Integrity(body[Row(p)], Now, Grace)
        BY <1>3, <3>2, PlacementExact
      <3>4. QED
        BY <3>1, <3>3, AcceptedThen
    <2>2. QED
      BY <1>1, <1>3, <2>1, RejectKeeps
  <1>4. CASE /\ at' = [at EXCEPT ![p].phase = "summed", ![p].terms = terms, ![p].open = OpenBase(o)]
             /\ UNCHANGED <<intents, drifted>>
    <2> DEFINE ahead == [at[p] EXCEPT !.phase = "summed"]
               named == [ahead EXCEPT !.terms = terms]
               r     == [named EXCEPT !.open = OpenBase(o)]
    <2>1. at' = [at EXCEPT ![p] = r] /\ UNCHANGED <<status, drifted>>
      BY <1>4 DEF DriftInv, SlotsInv, intents
    <2>2. IsSlot(ahead) /\ ahead.phase = "summed" /\ ahead.todo = at[p].todo
      BY <1>1 DEF IsSlot
    <2> HIDE DEF ahead
    <2>3. IsSlot(named) /\ named.phase = "summed" /\ named.todo = at[p].todo
      BY <2>2 DEF IsSlot
    <2> HIDE DEF named
    <2>4. IsSlot(r) /\ r.phase = "summed" /\ r.todo = at[p].todo
      BY <2>3 DEF IsSlot
    <2> HIDE DEF r
    <2>5. r.phase \in Firing \ {"validated", "placing"}
      BY <2>4 DEF Firing
    <2>6. QED
      BY <1>1, <2>1, <2>4, <2>5, ToKeeps
  <1>5. QED
    BY <1>2, <1>3, <1>4 DEF SumOpen

\* The rest of a placement, for a tick or a desk.
LEMMA PlaceKeeps ==
  ASSUME DriftInv, NEW p \in Slots,
         Guard(p) \/ Push(p) \/ Upsert(p) \/ UpsertFails(p) \/ Attach(p) \/ AttachFails(p)
  PROVE  DriftInv'
  <1>1. at[p].phase \in Firing /\ IsSlot(at[p]) /\ UNCHANGED <<version, accepted>>
    BY DEF Guard, Push, Upsert, UpsertFails, Attach, AttachFails, Firing, market, notes, DriftInv, SlotsInv
  <1>2. ASSUME NEW reason \in {"balance", "funds", "crosses", "rules", "upsert", "raw"}, Reject(p, reason) PROVE DriftInv'
    BY <1>1, <1>2, RejectKeeps
  <1>3. ASSUME NEW phase \in {"checked", "placed"}, To(p, phase), UNCHANGED <<intents, drifted>> PROVE DriftInv'
    <2> DEFINE r == [at[p] EXCEPT !.phase = phase]
    <2>1. IsSlot(r) /\ r.phase = phase /\ r.todo = at[p].todo
      BY <1>1 DEF IsSlot
    <2>2. at' = [at EXCEPT ![p] = r] /\ UNCHANGED <<status, body, drifted>>
      BY <1>3 DEF To, intents
    <2> HIDE DEF r
    <2>3. r.phase \in Firing \ {"validated", "placing"}
      BY <2>1 DEF Firing
    <2>4. QED
      BY <1>1, <2>1, <2>2, <2>3, ToKeeps
  <1>4. CASE at' = [at EXCEPT ![p].phase = "checked", ![p].unguarded = TRUE] /\ UNCHANGED <<intents, drifted>>
    <2> DEFINE ahead == [at[p] EXCEPT !.phase = "checked"]
               yes   == TRUE
               r     == [ahead EXCEPT !.unguarded = yes]
    <2>1. at' = [at EXCEPT ![p] = r] /\ UNCHANGED <<status, body, drifted>>
      BY <1>4 DEF DriftInv, SlotsInv, intents
    <2>2. IsSlot(ahead) /\ ahead.phase = "checked" /\ ahead.todo = at[p].todo
      BY <1>1 DEF IsSlot
    <2> HIDE DEF ahead, yes
    <2>3. IsSlot(r) /\ r.phase = "checked" /\ r.todo = at[p].todo
      BY <2>2 DEF IsSlot
    <2> HIDE DEF r
    <2>4. r.phase \in Firing \ {"validated", "placing"}
      BY <2>3 DEF Firing
    <2>5. QED
      BY <1>1, <2>1, <2>3, <2>4, ToKeeps
  <1>5. CASE Guard(p)
    BY <1>2, <1>3, <1>4, <1>5 DEF Guard
  <1>6. CASE Push(p)
    <2>1. Reject(p, "rules") \/ (Disturb(p, "pushed") /\ UNCHANGED <<intents, drifted>>)
      BY <1>6 DEF Push
    <2>2. QED
      BY <1>1, <1>2, <2>1, DisturbKeeps DEF intents
  <1>7. CASE Upsert(p)
    <2>1. Disturb(p, "stored") /\ UNCHANGED <<version, status, body, accepted, drifted>>
      BY <1>7 DEF Upsert, intents, market, notes
    <2>2. QED
      BY <1>1, <2>1, DisturbKeeps
  <1>8. CASE UpsertFails(p) \/ AttachFails(p)
    BY <1>2, <1>8 DEF UpsertFails, AttachFails
  <1>9. CASE Attach(p) /\ p \in Ticks
    BY <1>3, <1>9 DEF Attach
  <1>10. CASE Attach(p) /\ p \notin Ticks
    <2>1. at' = [at EXCEPT ![p] = Answered] /\ UNCHANGED <<status, body, drifted>>
      BY <1>10 DEF Attach, intents
    <2>2. IsSlot(Answered)
      BY OffIsSlot DEF IsSlot, Answered
    <2>3. status' \in [Intents -> Statuses]
      BY <2>1 DEF DriftInv, RowsInv
    <2>4. QED
      BY <1>1, <1>10, <2>1, <2>2, <2>3, StepKeeps
  <1>11. QED
    BY <1>5, <1>6, <1>7, <1>8, <1>9, <1>10

\* A request to POST /orders is no tick.
LEMMA PostKeeps ==
  ASSUME DriftInv, NEW d \in Desks, Post(d)
  PROVE  DriftInv'
  <1>1. PICK o \in DeskOrders \ Rested, passive \in BOOLEAN :
          at' = [at EXCEPT ![d] = [Off EXCEPT !.phase = "placing", !.order = o, !.passive = passive]]
    BY DEF Post
  <1> DEFINE ahead == [Off EXCEPT !.phase = "placing"]
             named == [ahead EXCEPT !.order = o]
             r     == [named EXCEPT !.passive = passive]
  <1>2. at' = [at EXCEPT ![d] = r]
    BY <1>1
  <1>3. IsSlot(ahead)
    BY OffIsSlot DEF IsSlot
  <1> HIDE DEF ahead
  <1>4. IsSlot(named)
    BY <1>3 DEF IsSlot
  <1> HIDE DEF named
  <1>5. IsSlot(r)
    BY <1>4 DEF IsSlot
  <1> HIDE DEF r
  <1>6. d \in Slots /\ d \notin Ticks /\ status \in [Intents -> Statuses]
    BY SlotsAssumption DEF Slots, DriftInv, RowsInv
  <1>7. UNCHANGED <<version, status, body, accepted, drifted>>
    BY DEF Post, intents, market, notes
  <1>8. QED
    BY <1>2, <1>5, <1>6, <1>7, StepKeeps

\* A marking that throws fails the intent, for no drift.
LEMMA MarkFailsKeeps ==
  ASSUME DriftInv, NEW t \in Ticks, MarkFails(t)
  PROVE  DriftInv'
  <1>1. at[t].phase \in Firing /\ Failed(t, "mark") /\ UNCHANGED <<version, accepted>>
    BY DEF MarkFails, Firing, market
  <1>2. QED
    BY <1>1, FailedKeeps

\* What drifted drifted under newer rules, whatever the rows, ticks and desks do.
LEMMA DriftInvariant == Spec => []DriftInv
  <1>1. Init => DriftInv
    BY InitDrift
  <1>2. DriftInv /\ [Next]_vars => DriftInv'
    <2> SUFFICES ASSUME DriftInv, [Next]_vars PROVE DriftInv'
      OBVIOUS
    <2>1. CASE (\E i \in Intents : Intake(i)) \/ ChangeRules \/ RaiseFloor \/ (\E o \in Orders : Withdraw(o)) \/ UNCHANGED vars
      BY <2>1, RowActionsKeep
    <2>2. ASSUME NEW p \in Slots, Place(p) PROVE DriftInv'
      BY <2>2, SumOpenKeeps, PlaceKeeps DEF Place
    <2>3. ASSUME NEW t \in Ticks, Load(t) \/ Tick(t) PROVE DriftInv'
      <3>1. t \in Slots
        BY DEF Slots
      <3>2. QED
        BY <2>2, <2>3, <3>1, TickActionsKeep, ValidateKeeps, MarkFailsKeeps DEF Tick, Fire
    <2>4. ASSUME NEW d \in Desks, Desk(d) PROVE DriftInv'
      <3>1. d \in Slots
        BY DEF Slots
      <3>2. QED
        BY <2>2, <2>4, <3>1, PostKeeps DEF Desk
    <2>5. QED
      BY <2>1, <2>3, <2>4 DEF Next
  <1>3. QED
    BY <1>1, <1>2, PTL DEF Spec

\* An intent is refused for its own terms at fire, or its order for its price
\* by the placement, only if the market's rules have changed since create
\* accepted it: the two validators and the placement agree.
THEOREM DriftNeedsNewRules == Spec => []DriftOnly
  <1>1. DriftInv => DriftOnly
    BY DEF DriftInv, RowsInv, DriftOnly
  <1>2. QED
    BY <1>1, DriftInvariant, PTL
-----------------------------------------------------------------------------
\* An intent's order differs from that of every intent live at its check.
OrdersInv ==
  /\ status \in [Intents -> Statuses] /\ body = [i \in Intents |-> body[i]] /\ known \in [Intents -> SUBSET Intents]
  /\ \A i \in Intents : status[i] \in Checked =>
       \A j \in known[i] : status[j] \in Checked /\ body[j].order # body[i].order

\* Outside create a row only moves on from where create had left it.
LEMMA StatusMoves ==
  ASSUME status \in [Intents -> Statuses], [Next]_vars, ~(\E i \in Intents : Check(i))
  PROVE  /\ UNCHANGED <<body, known>> /\ status' \in [Intents -> Statuses]
         /\ \A i \in Intents : status'[i] = status[i] \/ (status[i] \in Checked /\ status'[i] \in Entered)
  <1> DEFINE Moved == /\ UNCHANGED <<body, known>> /\ status' \in [Intents -> Statuses]
                      /\ \A i \in Intents : status'[i] = status[i] \/ (status[i] \in Checked /\ status'[i] \in Entered)
  <1>1. UNCHANGED <<body, known>> /\ UNCHANGED status => Moved
    OBVIOUS
  <1>2. ASSUME NEW i \in Intents, Intake(i) PROVE Moved
    BY <1>2 DEF Intake, Insert, Cancel, PassExpiry, Sweep, market, notes, Statuses, Checked, Entered
  <1>3. CASE ChangeRules \/ RaiseFloor \/ (\E o \in Orders : Withdraw(o)) \/ UNCHANGED vars
    BY <1>3 DEF ChangeRules, RaiseFloor, Withdraw, intents, notes, vars
  <1>4. ASSUME NEW t, NEW reason, Failed(t, reason), UNCHANGED known PROVE Moved
    BY <1>4 DEF Failed, FailFrom, Statuses, Checked, Entered
  <1>5. ASSUME NEW p, NEW reason, Reject(p, reason), UNCHANGED known PROVE Moved
    BY <1>1, <1>4, <1>5 DEF Reject, intents
  <1>6. ASSUME NEW p, Place(p) PROVE Moved
    <2>1. known' = known
      BY <1>6 DEF Place, SumOpen, Guard, Push, Upsert, UpsertFails, Attach, AttachFails, notes
    <2>2. UNCHANGED <<body, status>> \/ (\E reason \in {"fee", "price", "balance", "funds", "crosses", "rules", "upsert", "raw"} : Reject(p, reason))
      BY <1>6 DEF Place, SumOpen, Guard, Push, Upsert, UpsertFails, Attach, AttachFails, intents
    <2>3. QED
      BY <1>1, <1>5, <2>1, <2>2
  <1>7. ASSUME NEW t \in Ticks, Load(t) \/ Tick(t) PROVE Moved
    <2>1. CASE Load(t) \/ Quiet(t) \/ ContextFails(t)
      BY <1>1, <2>1 DEF Load, Quiet, ContextFails, intents, notes
    <2>2. CASE Latch(t) \/ MarkPlaced(t)
      BY <2>2 DEF Latch, LatchFrom, MarkPlaced, notes, Statuses, Checked, Entered
    <2>3. CASE Validate(t) \/ CheckFloor(t) \/ MarkFails(t)
      <3>1. known' = known
        BY <2>3 DEF Validate, CheckFloor, MarkFails
      <3>2. UNCHANGED <<body, status>> \/ (\E reason \in {"integrity", "exists", "floor", "mark"} : Failed(t, reason))
        BY <2>3 DEF Validate, CheckFloor, MarkFails, intents
      <3>3. QED
        BY <1>1, <1>4, <3>1, <3>2
    <2>4. QED
      BY <1>6, <1>7, <2>1, <2>2, <2>3 DEF Tick, Fire
  <1>8. ASSUME NEW d \in Desks, Desk(d) PROVE Moved
    <2>1. CASE Post(d)
      BY <1>1, <2>1 DEF Post, intents, notes
    <2>2. QED
      BY <1>6, <1>8, <2>1 DEF Desk
  <1>9. QED
    BY <1>2, <1>3, <1>7, <1>8 DEF Next

\* Create lets no intent in whose order a live one holds.
LEMMA CheckKeepsOrders ==
  ASSUME OrdersInv, NEW i \in Intents, Check(i)
  PROVE  OrdersInv'
  <1>1. CASE status' = [status EXCEPT ![i] = "refused"] /\ UNCHANGED <<body, known>>
    BY <1>1 DEF OrdersInv, Check, Checked, Entered, Statuses
  <1>2. CASE \E b \in Bodies : /\ ValidAtCreate(b) /\ status' = [status EXCEPT ![i] = "new"]
                               /\ body' = [body EXCEPT ![i] = b]
                               /\ known' = [known EXCEPT ![i] = {j \in Intents : status[j] \in {"ACTIVE", "TRIGGERED"}}]
    <2>1. PICK b \in Bodies : /\ ValidAtCreate(b) /\ status' = [status EXCEPT ![i] = "new"]
                              /\ body' = [body EXCEPT ![i] = b]
                              /\ known' = [known EXCEPT ![i] = {j \in Intents : status[j] \in {"ACTIVE", "TRIGGERED"}}]
      BY <1>2
    <2>2. status[i] = "none"
      BY DEF Check
    <2>3. body'[i] = b /\ known'[i] = {j \in Intents : status[j] \in {"ACTIVE", "TRIGGERED"}}
          /\ \A j \in Intents \ {i} : body'[j] = body[j] /\ known'[j] = known[j] /\ status'[j] = status[j]
      BY <2>1 DEF OrdersInv
    <2>4. status' \in [Intents -> Statuses] /\ known' \in [Intents -> SUBSET Intents] /\ body' = [j \in Intents |-> body'[j]]
      BY <2>1 DEF OrdersInv, Statuses
    <2>5. \A j \in known'[i] : j # i /\ status'[j] \in Checked /\ body'[j].order # b.order
      BY <2>1, <2>2, <2>3 DEF ValidAtCreate, LiveWith, LiveStatuses, Checked, Entered
    <2>6. ASSUME NEW k \in Intents \ {i}, status'[k] \in Checked, NEW j \in known'[k]
          PROVE  status'[j] \in Checked /\ body'[j].order # body'[k].order
      BY <2>2, <2>3, <2>6 DEF OrdersInv, Checked, Entered
    <2>7. QED
      BY <2>3, <2>4, <2>5, <2>6 DEF OrdersInv
  <1>3. QED
    BY <1>1, <1>2 DEF Check

\* Two live intents share a signed order only if both were checked before
\* either was inserted (findActiveByPreSignedHash, then the INSERT).
THEOREM NoOrderTwice == Spec => []OneLivePerOrder
  <1>1. Init => OrdersInv
    BY DEF Init, OrdersInv, Statuses, Checked, Entered
  <1>2. OrdersInv /\ [Next]_vars => OrdersInv'
    <2> SUFFICES ASSUME OrdersInv, [Next]_vars PROVE OrdersInv'
      OBVIOUS
    <2>1. CASE \E i \in Intents : Check(i)
      BY <2>1, CheckKeepsOrders
    <2>2. CASE ~(\E i \in Intents : Check(i))
      <3>1. UNCHANGED <<body, known>> /\ status' \in [Intents -> Statuses]
            /\ \A i \in Intents : status'[i] = status[i] \/ (status[i] \in Checked /\ status'[i] \in Entered)
        BY <2>2, StatusMoves DEF OrdersInv
      <3>2. \A i \in Intents : status'[i] \in Checked <=> status[i] \in Checked
        BY <3>1 DEF Checked
      <3>3. QED
        BY <3>1, <3>2 DEF OrdersInv
    <2>3. QED
      BY <2>1, <2>2
  <1>3. OrdersInv => OneLivePerOrder
    BY DEF OrdersInv, OneLivePerOrder, Checked, Entered
  <1>4. QED
    BY <1>1, <1>2, <1>3, PTL DEF Spec
-----------------------------------------------------------------------------
\* One field of a slot is set, the others stay.
Same(r, q) == r.todo = q.todo /\ r.order = q.order /\ r.terms = q.terms

LEMMA SetPhase ==
  ASSUME NEW q, IsSlot(q), NEW x, NEW r, r = [q EXCEPT !.phase = x]
  PROVE  IsSlot(r) /\ r.phase = x /\ Same(r, q)
  BY DEF IsSlot, Same

LEMMA SetOrder ==
  ASSUME NEW q, IsSlot(q), NEW x, NEW r, r = [q EXCEPT !.order = x]
  PROVE  IsSlot(r) /\ r.phase = q.phase /\ r.todo = q.todo /\ r.order = x /\ r.terms = q.terms
  BY DEF IsSlot

LEMMA SetTerms ==
  ASSUME NEW q, IsSlot(q), NEW x, NEW r, r = [q EXCEPT !.terms = x]
  PROVE  IsSlot(r) /\ r.phase = q.phase /\ r.todo = q.todo /\ r.order = q.order /\ r.terms = x
  BY DEF IsSlot

LEMMA SetOther ==
  ASSUME NEW q, IsSlot(q), NEW x, NEW r,
         \/ r = [q EXCEPT !.passive = x] \/ r = [q EXCEPT !.open = x]
         \/ r = [q EXCEPT !.raced = x] \/ r = [q EXCEPT !.unguarded = x]
  PROVE  IsSlot(r) /\ r.phase = q.phase /\ Same(r, q)
  <1>1. CASE r = [q EXCEPT !.passive = x]
    BY <1>1 DEF IsSlot, Same
  <1>2. CASE r = [q EXCEPT !.open = x]
    BY <1>2 DEF IsSlot, Same
  <1>3. CASE r = [q EXCEPT !.raced = x]
    BY <1>3 DEF IsSlot, Same
  <1>4. CASE r = [q EXCEPT !.unguarded = x]
    BY <1>4 DEF IsSlot, Same
  <1>5. QED
    BY <1>1, <1>2, <1>3, <1>4

\* What a step of slot p may do: to others nothing but race them, to its own
\* the next phase, or the end.
Over(p) == at'[p].phase \in {"off", "scanning", "answered"} /\ (at'[p].phase = "off" => at'[p].todo = <<>>)
Onward(p, from, to) == at[p].phase = from /\ at'[p].phase = to /\ at'[p].todo = at[p].todo
Alike(q) == at'[q].phase = at[q].phase /\ Same(at'[q], at[q])
Moved(p) ==
  /\ \A q \in Slots \ {p} : Alike(q)
  /\ \/ Over(p)
     \/ Onward(p, "scanning", "latched")
     \/ Onward(p, "latched", "validated") /\ at'[p].order = body[Row(p)].order
     \/ Onward(p, "validated", "placing") /\ at'[p].order = at[p].order
     \/ at[p].phase = "off" /\ at'[p].phase = "placing" /\ at'[p].order \in DeskOrders \ Rested /\ p \notin Ticks
     \/ Onward(p, "placing", "summed") /\ at'[p].order = at[p].order
          /\ at'[p].terms = PlacementTerms(at[p].order, Now) /\ at'[p].terms.exact
     \/ /\ Onward(p, "summed", "checked") \/ Onward(p, "checked", "pushed") \/ Onward(p, "pushed", "stored")
             \/ Onward(p, "stored", "placed")
        /\ Same(at'[p], at[p])

\* One slot is rewritten.
LEMMA OneSlot ==
  ASSUME DriftInv, NEW p \in Slots, NEW r, at' = [at EXCEPT ![p] = r]
  PROVE  at'[p] = r /\ \A q \in Slots \ {p} : Alike(q)
  BY DEF DriftInv, SlotsInv, Alike, Same

\* A tick's next row, a desk's answer.
LEMMA EndsOver ==
  ASSUME DriftInv, NEW p \in Slots, at' = [at EXCEPT ![p] = Answered] \/ (at' = [at EXCEPT ![p] = Next1(p)] /\ p \in Ticks)
  PROVE  Moved(p) /\ Over(p)
  <1>1. CASE at' = [at EXCEPT ![p] = Answered]
    <2>1. Answered.phase = "answered"
      BY SetPhase, OffIsSlot DEF Answered
    <2>2. at'[p] = Answered /\ \A q \in Slots \ {p} : Alike(q)
      BY <1>1, OneSlot
    <2>3. QED
      BY <2>1, <2>2 DEF Moved, Over
  <1>2. CASE at' = [at EXCEPT ![p] = Next1(p)] /\ p \in Ticks
    <2>1. Next1(p).phase \in {"off", "scanning"} /\ (Next1(p).phase = "off" => Next1(p).todo = <<>>)
      <3>1. Off.phase = "off" /\ Off.todo = <<>>
        BY DEF Off
      <3>2. [Off EXCEPT !.phase = "scanning", !.todo = Tail(at[p].todo)].phase = "scanning"
        BY OffIsSlot, ScanIsSlot
      <3>3. QED
        BY <3>1, <3>2 DEF Next1
    <2>2. at'[p] = Next1(p) /\ \A q \in Slots \ {p} : Alike(q)
      BY <1>2, OneSlot
    <2>3. QED
      BY <2>1, <2>2 DEF Moved, Over
  <1>3. QED
    BY <1>1, <1>2

LEMMA RejectsOver ==
  ASSUME DriftInv, NEW p \in Slots, NEW reason, Reject(p, reason) \/ (Failed(p, reason) /\ p \in Ticks)
  PROVE  Moved(p) /\ Over(p)
  BY EndsOver DEF Reject, Failed

\* A phase of a slot that changes nothing else.
LEMMA PhaseMoves ==
  ASSUME DriftInv, NEW p \in Slots, NEW phase, To(p, phase)
  PROVE  (\A q \in Slots \ {p} : Alike(q)) /\ at'[p].phase = phase /\ Same(at'[p], at[p])
  <1>1. PICK r : r = [at[p] EXCEPT !.phase = phase]
    OBVIOUS
  <1>2. at' = [at EXCEPT ![p] = r] /\ IsSlot(at[p])
    BY <1>1 DEF To, DriftInv, SlotsInv
  <1>3. at'[p] = r /\ \A q \in Slots \ {p} : Alike(q)
    BY <1>2, OneSlot
  <1>4. r.phase = phase /\ Same(r, at[p])
    BY <1>1, <1>2, SetPhase
  <1>5. QED
    BY <1>3, <1>4

\* The steps of a tick before placement.
LEMMA TickMoves ==
  ASSUME DriftInv, NEW t \in Ticks,
         Load(t) \/ Quiet(t) \/ Latch(t) \/ ContextFails(t) \/ Validate(t) \/ CheckFloor(t) \/ MarkPlaced(t) \/ MarkFails(t)
  PROVE  Moved(t)
  <1>1. t \in Slots /\ IsSlot(at[t])
    BY DEF Slots, DriftInv, SlotsInv
  <1>2. CASE Load(t)
    <2>1. PICK s, r : r = [Off EXCEPT !.phase = "scanning", !.todo = s] /\ at' = [at EXCEPT ![t] = r]
      BY <1>2 DEF Load
    <2>2. r.phase = "scanning"
      BY <2>1, OffIsSlot, ScanIsSlot
    <2>3. at'[t] = r /\ \A q \in Slots \ {t} : Alike(q)
      BY <1>1, <2>1, OneSlot
    <2>4. QED
      BY <2>2, <2>3 DEF Moved, Over
  <1>3. CASE Quiet(t) \/ ContextFails(t) \/ MarkPlaced(t) \/ (Latch(t) /\ status[Row(t)] \notin LatchFrom)
    <2>1. at' = [at EXCEPT ![t] = Next1(t)]
      BY <1>3 DEF Quiet, ContextFails, MarkPlaced, Latch
    <2>2. QED
      BY <1>1, <2>1, EndsOver
  <1>4. CASE \E reason : Failed(t, reason)
    BY <1>1, <1>4, RejectsOver
  <1>5. CASE Latch(t) /\ status[Row(t)] \in LatchFrom
    <2>1. To(t, "latched") /\ at[t].phase = "scanning"
      BY <1>5 DEF Latch
    <2>2. (\A q \in Slots \ {t} : Alike(q)) /\ at'[t].phase = "latched" /\ Same(at'[t], at[t])
      BY <1>1, <2>1, PhaseMoves
    <2>3. QED
      BY <2>1, <2>2 DEF Moved, Onward, Same
  <1>6. CASE at[t].phase = "validated" /\ To(t, "placing")
    <2>1. (\A q \in Slots \ {t} : Alike(q)) /\ at'[t].phase = "placing" /\ Same(at'[t], at[t])
      BY <1>1, <1>6, PhaseMoves
    <2>2. QED
      BY <1>6, <2>1 DEF Moved, Onward, Same
  <1>7. CASE at[t].phase = "latched" /\ at' = [at EXCEPT ![t].phase = "validated", ![t].order = body[Row(t)].order, ![t].passive = TRUE]
    <2>1. PICK o, a : o = body[Row(t)].order /\ a = [at[t] EXCEPT !.phase = "validated"]
      OBVIOUS
    <2>2. PICK n : n = [a EXCEPT !.order = o]
      OBVIOUS
    <2>3. PICK r : r = [n EXCEPT !.passive = TRUE]
      OBVIOUS
    <2>4. at' = [at EXCEPT ![t] = r]
      BY <1>1, <1>7, <2>1, <2>2, <2>3 DEF DriftInv, SlotsInv
    <2>5. IsSlot(a) /\ a.phase = "validated" /\ a.todo = at[t].todo
      BY <1>1, <2>1, SetPhase DEF Same
    <2>6. IsSlot(n) /\ n.phase = "validated" /\ n.todo = at[t].todo /\ n.order = o
      BY <2>2, <2>5, SetOrder
    <2>7. r.phase = "validated" /\ r.todo = at[t].todo /\ r.order = o
      BY <2>3, <2>6, SetOther DEF Same
    <2>8. at'[t] = r /\ \A q \in Slots \ {t} : Alike(q)
      BY <1>1, <2>4, OneSlot
    <2>9. QED
      BY <1>7, <2>1, <2>7, <2>8 DEF Moved, Onward
  <1>8. QED
    <2>1. CASE Validate(t)
      BY <2>1, <1>4, <1>7 DEF Validate
    <2>2. CASE CheckFloor(t)
      BY <2>2, <1>4, <1>6 DEF CheckFloor
    <2>3. CASE MarkFails(t)
      BY <2>3, <1>4 DEF MarkFails
    <2>4. QED
      BY <1>2, <1>3, <1>5, <2>1, <2>2, <2>3

\* A request to POST /orders.
LEMMA PostMoves ==
  ASSUME DriftInv, NEW d \in Desks, Post(d)
  PROVE  Moved(d)
  <1>1. PICK o \in DeskOrders \ Rested, passive \in BOOLEAN :
          at[d].phase = "off" /\ at' = [at EXCEPT ![d] = [Off EXCEPT !.phase = "placing", !.order = o, !.passive = passive]]
    BY DEF Post
  <1>2. PICK a : a = [Off EXCEPT !.phase = "placing"]
    OBVIOUS
  <1>3. PICK n : n = [a EXCEPT !.order = o]
    OBVIOUS
  <1>4. PICK r : r = [n EXCEPT !.passive = passive]
    OBVIOUS
  <1>5. at' = [at EXCEPT ![d] = r]
    BY <1>1, <1>2, <1>3, <1>4
  <1>6. IsSlot(a) /\ a.phase = "placing"
    BY <1>2, OffIsSlot, SetPhase
  <1>7. IsSlot(n) /\ n.phase = "placing" /\ n.order = o
    BY <1>3, <1>6, SetOrder
  <1>8. r.phase = "placing" /\ r.order = o
    BY <1>4, <1>7, SetOther DEF Same
  <1>9. d \in Slots /\ d \notin Ticks
    BY SlotsAssumption DEF Slots
  <1>10. at'[d] = r /\ \A q \in Slots \ {d} : Alike(q)
    BY <1>5, <1>9, OneSlot
  <1>11. QED
    BY <1>1, <1>8, <1>9, <1>10 DEF Moved

\* A level or a row of one slot races the others.
LEMMA DisturbMoves ==
  ASSUME DriftInv, NEW p \in Slots, NEW phase, Disturb(p, phase)
  PROVE  (\A q \in Slots \ {p} : Alike(q)) /\ at'[p].phase = phase /\ Same(at'[p], at[p])
  <1>1. \A q \in Slots : IsSlot(at[q])
    BY DEF DriftInv, SlotsInv
  <1>2. /\ \A q \in Slots : q # p => at'[q] = [at[q] EXCEPT !.raced = @ \/ at[q].phase \in {"summed", "checked", "pushed"}]
        /\ at'[p] = [at[p] EXCEPT !.phase = phase]
    BY DEF Disturb
  <1>3. ASSUME NEW q \in Slots \ {p} PROVE Alike(q)
    <2>1. PICK r, x : r = [at[q] EXCEPT !.raced = x] /\ at'[q] = r
      BY <1>2, <1>3
    <2>2. r.phase = at[q].phase /\ Same(r, at[q])
      BY <1>1, <2>1, SetOther
    <2>3. QED
      BY <2>1, <2>2 DEF Alike
  <1>4. at'[p].phase = phase /\ Same(at'[p], at[p])
    BY <1>1, <1>2, SetPhase
  <1>5. QED
    BY <1>3, <1>4

\* The steps of a placement.
LEMMA PlaceMoves ==
  ASSUME DriftInv, NEW p \in Slots, Place(p)
  PROVE  Moved(p)
  <1>1. IsSlot(at[p])
    BY DEF DriftInv, SlotsInv
  <1>2. CASE \E reason : Reject(p, reason)
    BY <1>2, RejectsOver
  <1>3. CASE SumOpen(p)
    <2> DEFINE o == at[p].order
               terms == PlacementTerms(o, Now)
    <2>1. CASE at[p].phase = "placing" /\ terms.exact
               /\ at' = [at EXCEPT ![p].phase = "summed", ![p].terms = terms, ![p].open = OpenBase(o)]
      <3>1. PICK k, y, a : k = terms /\ y = OpenBase(o) /\ a = [at[p] EXCEPT !.phase = "summed"]
        OBVIOUS
      <3>2. PICK n : n = [a EXCEPT !.terms = k]
        OBVIOUS
      <3>3. PICK r : r = [n EXCEPT !.open = y]
        OBVIOUS
      <3>4. at' = [at EXCEPT ![p] = r]
        BY <2>1, <3>1, <3>2, <3>3 DEF DriftInv, SlotsInv
      <3>5. IsSlot(a) /\ a.phase = "summed" /\ Same(a, at[p])
        BY <1>1, <3>1, SetPhase
      <3>6. IsSlot(n) /\ n.phase = "summed" /\ n.todo = at[p].todo /\ n.order = o /\ n.terms = k
        BY <3>2, <3>5, SetTerms DEF Same
      <3>7. r.phase = "summed" /\ r.todo = at[p].todo /\ r.order = o /\ r.terms = k
        BY <3>3, <3>6, SetOther DEF Same
      <3>8. at'[p] = r /\ \A q \in Slots \ {p} : Alike(q)
        BY <3>4, OneSlot
      <3>9. QED
        BY <2>1, <3>1, <3>7, <3>8 DEF Moved, Onward
    <2>2. QED
      BY <1>2, <1>3, <2>1 DEF SumOpen
  <1>4. CASE Guard(p)
    <2>1. CASE at[p].phase = "summed" /\ To(p, "checked")
      <3>1. (\A q \in Slots \ {p} : Alike(q)) /\ at'[p].phase = "checked" /\ Same(at'[p], at[p])
        BY <2>1, PhaseMoves
      <3>2. QED
        BY <2>1, <3>1 DEF Moved, Onward, Same
    <2>2. CASE at[p].phase = "summed" /\ at' = [at EXCEPT ![p].phase = "checked", ![p].unguarded = TRUE]
      <3>1. PICK a : a = [at[p] EXCEPT !.phase = "checked"]
        OBVIOUS
      <3>2. PICK r : r = [a EXCEPT !.unguarded = TRUE]
        OBVIOUS
      <3>3. at' = [at EXCEPT ![p] = r]
        BY <2>2, <3>1, <3>2 DEF DriftInv, SlotsInv
      <3>4. IsSlot(a) /\ a.phase = "checked" /\ Same(a, at[p])
        BY <1>1, <3>1, SetPhase
      <3>5. r.phase = "checked" /\ Same(r, a)
        BY <3>2, <3>4, SetOther
      <3>6. at'[p] = r /\ \A q \in Slots \ {p} : Alike(q)
        BY <3>3, OneSlot
      <3>7. QED
        BY <2>2, <3>4, <3>5, <3>6 DEF Moved, Onward, Same
    <2>3. QED
      BY <1>2, <1>4, <2>1, <2>2 DEF Guard
  <1>5. CASE Push(p) \/ Upsert(p)
    <2>1. CASE (at[p].phase = "checked" /\ Disturb(p, "pushed")) \/ (at[p].phase = "pushed" /\ Disturb(p, "stored"))
      <3>1. PICK phase \in {"pushed", "stored"} : Disturb(p, phase) /\ at[p].phase = (IF phase = "pushed" THEN "checked" ELSE "pushed")
        BY <2>1
      <3>2. (\A q \in Slots \ {p} : Alike(q)) /\ at'[p].phase = phase /\ Same(at'[p], at[p])
        BY <3>1, DisturbMoves
      <3>3. QED
        BY <3>1, <3>2 DEF Moved, Onward, Same
    <2>2. QED
      BY <1>2, <1>5, <2>1 DEF Push, Upsert
  <1>6. CASE Attach(p)
    <2>1. CASE p \in Ticks
      <3>1. at[p].phase = "stored" /\ To(p, "placed")
        BY <1>6, <2>1 DEF Attach
      <3>2. (\A q \in Slots \ {p} : Alike(q)) /\ at'[p].phase = "placed" /\ Same(at'[p], at[p])
        BY <3>1, PhaseMoves
      <3>3. QED
        BY <3>1, <3>2 DEF Moved, Onward, Same
    <2>2. CASE p \notin Ticks
      BY <1>6, <2>2, EndsOver DEF Attach
    <2>3. QED
      BY <2>1, <2>2
  <1>7. CASE UpsertFails(p) \/ AttachFails(p)
    BY <1>2, <1>7 DEF UpsertFails, AttachFails
  <1>8. QED
    BY <1>3, <1>4, <1>5, <1>6, <1>7 DEF Place
-----------------------------------------------------------------------------
\* A row in its fire is TRIGGERED and one tick's alone; it is in `placedBy` once
\* the tick has attached its order.
Before == Firing \ {"placed"}
OneTick(t) ==
  /\ at[t].phase \in Firing => status[Row(t)] = "TRIGGERED"
  /\ at[t].phase \in Before => Row(t) \notin placedBy
  /\ at[t].phase = "placed" => Row(t) \in placedBy
  /\ \A u \in Ticks \ {t} : at[t].phase \in Firing /\ at[u].phase \in Firing => Row(t) # Row(u)
\* What came of a fire that attached its order.
Outcome(i) ==
  /\ i \in placedBy => status[i] \in {"TRIGGERED", "PLACED", "FAILED"} /\ (status[i] = "FAILED" => i \in orphans)
  /\ status[i] = "PLACED" => i \in placedBy
FireInv == (\A t \in Ticks : OneTick(t)) /\ \A i \in Intents : Outcome(i)

\* Where a step leaves a tick that is not its own.
LEMMA OthersKeep ==
  ASSUME DriftInv, NEW p \in Slots, Moved(p), NEW u \in Ticks, u # p
  PROVE  at'[u].phase = at[u].phase /\ at'[u].todo = at[u].todo /\ Row(u)' = Row(u)
         /\ (at[u].phase \in Firing => Row(u) \in Intents)
  <1>1. Alike(u) /\ u \in Slots
    BY DEF Moved, Slots
  <1>2. at[u].phase \in Firing => Row(u) \in Intents
    BY FiringRow
  <1>3. QED
    BY <1>1, <1>2 DEF Alike, Same, Row

\* A fire ends, in whatever status.
LEMMA EndKeepsFire ==
  ASSUME DriftInv, FireInv, NEW p \in Slots, Moved(p), Over(p), placedBy' = placedBy, orphans \subseteq orphans',
         status' \in [Intents -> Statuses],
         \/ status' = status
         \/ /\ p \in Ticks /\ at[p].phase \in Firing
            /\ \A i \in Intents : i # Row(p) => status'[i] = status[i]
            /\ status'[Row(p)] \in {"FAILED", "PLACED"} /\ (status'[Row(p)] = "PLACED" => at[p].phase = "placed")
            /\ status'[Row(p)] = "FAILED" /\ at[p].phase = "placed" => Row(p) \in orphans'
  PROVE  FireInv'
  <1>1. at'[p].phase \notin Firing
    BY DEF Over, Firing
  <1>2. ASSUME NEW t \in Ticks PROVE OneTick(t)'
    <2>1. CASE t = p
      BY <1>1, <2>1 DEF OneTick, Before, Firing
    <2>2. CASE t # p
      <3>1. at'[t].phase = at[t].phase /\ Row(t)' = Row(t) /\ (at[t].phase \in Firing => Row(t) \in Intents) /\ OneTick(t)
        BY <2>2, OthersKeep DEF FireInv
      <3>2. p \in Ticks /\ at[p].phase \in Firing /\ at[t].phase \in Firing => Row(t) # Row(p)
        BY <3>1, <2>2 DEF OneTick
      <3>3. at[t].phase \in Firing => status'[Row(t)] = status[Row(t)]
        BY <3>1, <3>2
      <3>4. \A u \in Ticks \ {t} : at'[u].phase \in Firing => at[u].phase \in Firing /\ Row(u)' = Row(u)
        BY <1>1, OthersKeep
      <3>5. QED
        BY <3>1, <3>3, <3>4 DEF OneTick, Before
    <2>3. QED
      BY <2>1, <2>2
  <1>3. ASSUME NEW i \in Intents PROVE Outcome(i)'
    <2>1. Outcome(i)
      BY DEF FireInv
    <2>2. CASE status'[i] = status[i]
      BY <2>1, <2>2 DEF Outcome
    <2>3. CASE status'[i] # status[i]
      <3>1. p \in Ticks /\ at[p].phase \in Firing /\ i = Row(p) /\ status'[i] \in {"FAILED", "PLACED"} /\ OneTick(p)
        BY <2>3 DEF FireInv
      <3>2. (status'[i] = "PLACED" => at[p].phase = "placed") /\ (status'[i] = "FAILED" /\ at[p].phase = "placed" => i \in orphans')
        BY <2>3, <3>1
      <3>3. i \in placedBy <=> at[p].phase = "placed"
        BY <3>1 DEF OneTick, Before
      <3>4. QED
        BY <3>1, <3>2, <3>3 DEF Outcome
    <2>4. QED
      BY <2>2, <2>3
  <1>4. QED
    BY <1>2, <1>3 DEF FireInv

\* A fire goes on, or a desk's placement.
LEMMA GoesOnKeepsFire ==
  ASSUME DriftInv, FireInv, NEW p \in Slots, Moved(p), ~Over(p), UNCHANGED <<status, orphans>>,
         at[p].phase \in Firing \/ p \notin Ticks,
         placedBy' = IF p \in Ticks /\ at'[p].phase = "placed" THEN placedBy \cup {Row(p)} ELSE placedBy
  PROVE  FireInv'
  <1>1. p \in Ticks => at[p].phase \in Before /\ at'[p].phase \in Firing /\ Row(p)' = Row(p) /\ OneTick(p)
    BY DEF Moved, Onward, Firing, Before, Row, FireInv
  <1>2. ASSUME NEW t \in Ticks PROVE OneTick(t)'
    <2>1. \A u \in Ticks : u # p => at'[u].phase = at[u].phase /\ Row(u)' = Row(u)
      BY OthersKeep
    <2>2. \A u \in Ticks : at'[u].phase \in Firing => at[u].phase \in Firing /\ Row(u)' = Row(u)
      BY <1>1, <2>1 DEF Before
    <2>3. OneTick(t)
      BY DEF FireInv
    <2>4. CASE t = p
      BY <1>1, <2>2, <2>3, <2>4 DEF OneTick, Before
    <2>5. CASE t # p
      <3>1. p \in Ticks /\ at[t].phase \in Firing => Row(t) # Row(p)
        BY <1>1, <2>3, <2>5 DEF OneTick, Before
      <3>2. QED
        BY <2>1, <2>2, <2>3, <2>5, <3>1 DEF OneTick, Before
    <2>6. QED
      BY <2>4, <2>5
  <1>3. ASSUME NEW i \in Intents PROVE Outcome(i)'
    <2>1. Outcome(i)
      BY DEF FireInv
    <2>2. i \in placedBy' => i \in placedBy \/ status[i] = "TRIGGERED"
      BY <1>1 DEF OneTick, Before
    <2>3. QED
      BY <2>1, <2>2 DEF Outcome
  <1>4. QED
    BY <1>2, <1>3 DEF FireInv

\* Two ticks cannot latch one row.
LEMMA LatchKeepsFire ==
  ASSUME DriftInv, FireInv, NEW t \in Ticks, Latch(t)
  PROVE  FireInv'
  <1>1. t \in Slots /\ Moved(t) /\ UNCHANGED <<placedBy, orphans>>
    BY TickMoves DEF Slots, Latch, notes
  <1>2. CASE status[Row(t)] \notin LatchFrom
    <2>1. status' = status /\ at' = [at EXCEPT ![t] = Next1(t)]
      BY <1>2 DEF Latch
    <2>2. Over(t) /\ status' \in [Intents -> Statuses]
      BY <1>1, <2>1, EndsOver DEF DriftInv, RowsInv
    <2>3. QED
      BY <1>1, <2>1, <2>2, EndKeepsFire
  <1>3. CASE status[Row(t)] \in LatchFrom
    <2>1. /\ status[Row(t)] = "ACTIVE" /\ status' = [status EXCEPT ![Row(t)] = "TRIGGERED"] /\ To(t, "latched")
          /\ at[t].phase = "scanning"
      BY <1>3 DEF Latch, LatchFrom
    <2>2. Row(t) \in Intents /\ status \in [Intents -> Statuses]
      BY <2>1, FiringRow DEF DriftInv, RowsInv
    <2>3. at'[t].phase = "latched" /\ Row(t)' = Row(t)
      BY <1>1, <2>1, PhaseMoves DEF Same, Row
    <2>4. status'[Row(t)] = "TRIGGERED" /\ \A i \in Intents : i # Row(t) => status'[i] = status[i]
      BY <2>1, <2>2
    <2>5. \A i \in Intents : status'[i] # status[i] => i = Row(t) /\ i \notin placedBy
      BY <2>1, <2>2, <2>4 DEF FireInv, Outcome
    <2>6. Row(t) \notin placedBy
      BY <2>1, <2>2 DEF FireInv, Outcome
    <2>7. ASSUME NEW u \in Ticks, u # t
          PROVE  /\ at'[u].phase = at[u].phase /\ Row(u)' = Row(u)
                 /\ at[u].phase \in Firing => Row(u) # Row(t) /\ status'[Row(u)] = "TRIGGERED"
      <3>1. at'[u].phase = at[u].phase /\ Row(u)' = Row(u) /\ (at[u].phase \in Firing => Row(u) \in Intents) /\ OneTick(u)
        BY <1>1, <2>7, OthersKeep DEF FireInv
      <3>2. QED
        BY <2>1, <2>4, <3>1 DEF OneTick
    <2>8. ASSUME NEW u \in Ticks PROVE OneTick(u)'
      <3>1. OneTick(u)
        BY DEF FireInv
      <3>2. QED
        BY <1>1, <2>3, <2>4, <2>6, <2>7, <3>1 DEF OneTick, Before
    <2>9. \A i \in Intents : Outcome(i)'
      BY <1>1, <2>4, <2>5 DEF FireInv, Outcome
    <2>10. QED
      BY <2>8, <2>9 DEF FireInv
  <1>4. QED
    BY <1>2, <1>3

\* Rows that are in no fire, and what is not a tick's.
LEMMA RestKeepsFire ==
  ASSUME DriftInv, FireInv, UNCHANGED <<at, placedBy, orphans>>,
         \A i \in Intents : status'[i] = status[i] \/ (status[i] \in {"none", "new", "ACTIVE"} /\ status'[i] # "PLACED")
  PROVE  FireInv'
  <1>1. ASSUME NEW t \in Ticks PROVE OneTick(t)'
    <2>1. OneTick(t) /\ (at[t].phase \in Firing => Row(t) \in Intents)
      BY FiringRow DEF FireInv
    <2>2. \A u \in Ticks : Row(u)' = Row(u)
      BY DEF Row
    <2>3. QED
      BY <2>1, <2>2 DEF OneTick
  <1>2. \A i \in Intents : Outcome(i)'
    BY DEF FireInv, Outcome
  <1>3. QED
    BY <1>1, <1>2 DEF FireInv

\* A failed fire, a rejection: of a tick that had not attached, or that is an orphan.
LEMMA FailKeepsFire ==
  ASSUME DriftInv, FireInv, NEW p \in Slots, NEW reason, Reject(p, reason) \/ (Failed(p, reason) /\ p \in Ticks),
         at[p].phase \in Firing, placedBy' = placedBy, orphans \subseteq orphans',
         p \in Ticks /\ at[p].phase = "placed" => Row(p) \in orphans'
  PROVE  FireInv'
  <1>1. Moved(p) /\ Over(p)
    BY RejectsOver
  <1>2. status \in [Intents -> Statuses] /\ (p \in Ticks => Row(p) \in Intents /\ OneTick(p))
    BY FiringRow DEF DriftInv, RowsInv, FireInv
  <1>3. CASE p \in Ticks
    <2>1. Failed(p, reason) /\ status[Row(p)] = "TRIGGERED"
      BY <1>2, <1>3 DEF Reject, OneTick
    <2>2. status' = [status EXCEPT ![Row(p)] = "FAILED"]
      BY <2>1 DEF Failed, FailFrom
    <2>3. /\ status' \in [Intents -> Statuses] /\ \A i \in Intents : i # Row(p) => status'[i] = status[i]
          /\ status'[Row(p)] = "FAILED"
      BY <1>2, <1>3, <2>2 DEF Statuses
    <2>4. QED
      BY <1>1, <1>3, <2>3, EndKeepsFire
  <1>4. CASE p \notin Ticks
    BY <1>1, <1>2, <1>4, EndKeepsFire DEF Reject, intents
  <1>5. QED
    BY <1>3, <1>4

\* The steps of a placement.
LEMMA PlaceKeepsFire ==
  ASSUME DriftInv, FireInv, NEW p \in Slots, Place(p)
  PROVE  FireInv'
  <1>1. Moved(p) /\ at[p].phase \in Firing /\ orphans' = orphans /\ at[p].phase # "placed"
    BY PlaceMoves DEF Place, SumOpen, Guard, Push, Upsert, UpsertFails, Attach, AttachFails, notes, Firing
  <1>2. CASE \E reason : Reject(p, reason) /\ placedBy' = placedBy
    BY <1>1, <1>2, FailKeepsFire
  <1>3. CASE Attach(p)
    <2>1. UNCHANGED status
      BY <1>3 DEF Attach, intents
    <2>2. CASE p \in Ticks
      <3>1. at'[p].phase = "placed" /\ placedBy' = placedBy \cup {Row(p)}
        BY <1>3, <2>2, PhaseMoves DEF Attach
      <3>2. QED
        BY <1>1, <2>1, <2>2, <3>1, GoesOnKeepsFire DEF Over
    <2>3. CASE p \notin Ticks
      <3>1. Over(p) /\ placedBy' = placedBy /\ status' \in [Intents -> Statuses]
        BY <1>3, <2>1, <2>3, EndsOver DEF Attach, DriftInv, RowsInv
      <3>2. QED
        BY <1>1, <2>1, <3>1, EndKeepsFire
    <2>4. QED
      BY <2>2, <2>3
  <1>4. CASE UNCHANGED <<status, placedBy>> /\ ~Attach(p)
    <2>1. CASE Over(p)
      BY <1>1, <1>4, <2>1, EndKeepsFire DEF DriftInv, RowsInv
    <2>2. CASE ~Over(p)
      <3>1. at[p].phase # "stored"
        <4>1. SUFFICES ASSUME at[p].phase = "stored" PROVE FALSE
          OBVIOUS
        <4>2. AttachFails(p)
          BY <1>4, <4>1 DEF Place, SumOpen, Guard, Push, Upsert, UpsertFails
        <4>3. Over(p)
          BY <4>2, RejectsOver DEF AttachFails
        <4>4. QED
          BY <2>2, <4>3
      <3>2. at'[p].phase # "placed"
        BY <1>1, <2>2, <3>1 DEF Moved, Onward
      <3>3. QED
        BY <1>1, <1>4, <2>2, <3>2, GoesOnKeepsFire
    <2>3. QED
      BY <2>1, <2>2
  <1>5. CASE SumOpen(p) \/ Guard(p) \/ Push(p) \/ Upsert(p) \/ UpsertFails(p) \/ AttachFails(p)
    <2>1. placedBy' = placedBy
      BY <1>5 DEF SumOpen, Guard, Push, Upsert, UpsertFails, AttachFails, notes
    <2>2. (\E reason : Reject(p, reason)) \/ UNCHANGED status
      BY <1>5 DEF SumOpen, Guard, Push, Upsert, UpsertFails, AttachFails, intents
    <2>3. QED
      BY <1>2, <1>3, <1>4, <2>1, <2>2
  <1>6. QED
    BY <1>3, <1>5 DEF Place

\* The steps of a tick outside placement.
LEMMA TickKeepsFire ==
  ASSUME DriftInv, FireInv, NEW t \in Ticks,
         Load(t) \/ Quiet(t) \/ Latch(t) \/ ContextFails(t) \/ Validate(t) \/ CheckFloor(t) \/ MarkPlaced(t) \/ MarkFails(t)
  PROVE  FireInv'
  <1>1. t \in Slots /\ Moved(t) /\ status \in [Intents -> Statuses] /\ OneTick(t)
    BY TickMoves DEF Slots, DriftInv, RowsInv, FireInv
  <1>2. CASE Latch(t)
    BY <1>2, LatchKeepsFire
  <1>3. CASE Load(t) \/ Quiet(t) \/ ContextFails(t)
    <2>1. UNCHANGED <<status, placedBy, orphans>>
      BY <1>3 DEF Load, Quiet, ContextFails, intents, notes
    <2>2. Over(t)
      <3>1. CASE Load(t)
        <4>1. at'[t].phase = "scanning"
          <5>1. PICK s, r : r = [Off EXCEPT !.phase = "scanning", !.todo = s] /\ at' = [at EXCEPT ![t] = r]
            BY <3>1 DEF Load
          <5>2. r.phase = "scanning" /\ at'[t] = r
            BY <1>1, <5>1, OffIsSlot, ScanIsSlot, OneSlot
          <5>3. QED
            BY <5>2
        <4>2. QED
          BY <4>1 DEF Over
      <3>2. CASE Quiet(t) \/ ContextFails(t)
        BY <1>1, <3>2, EndsOver DEF Quiet, ContextFails
      <3>3. QED
        BY <1>3, <3>1, <3>2
    <2>3. QED
      BY <1>1, <2>1, <2>2, EndKeepsFire
  <1>4. CASE MarkPlaced(t)
    <2>1. at[t].phase = "placed" /\ at[t].phase \in Firing /\ at' = [at EXCEPT ![t] = Next1(t)] /\ UNCHANGED <<placedBy, orphans>>
      BY <1>4 DEF MarkPlaced, notes, Firing
    <2>2. Over(t) /\ Row(t) \in Intents /\ status[Row(t)] = "TRIGGERED"
      BY <1>1, <2>1, EndsOver, FiringRow DEF OneTick
    <2>3. status' = [status EXCEPT ![Row(t)] = "PLACED"]
      BY <1>4, <2>2 DEF MarkPlaced
    <2>4. /\ status' \in [Intents -> Statuses] /\ \A i \in Intents : i # Row(t) => status'[i] = status[i]
          /\ status'[Row(t)] = "PLACED"
      BY <1>1, <2>2, <2>3 DEF Statuses
    <2>5. QED
      BY <1>1, <2>1, <2>2, <2>4, EndKeepsFire
  <1>5. CASE Validate(t) \/ CheckFloor(t) \/ MarkFails(t)
    <2>1. at[t].phase \in Firing /\ placedBy' = placedBy /\ orphans \subseteq orphans'
          /\ (at[t].phase = "placed" => Row(t) \in orphans')
      BY <1>5 DEF Validate, CheckFloor, MarkFails, Firing
    <2>2. CASE \E reason : Failed(t, reason)
      BY <1>1, <2>1, <2>2, FailKeepsFire
    <2>3. CASE ~\E reason : Failed(t, reason)
      <3>1. UNCHANGED <<status, orphans>> /\ (Validate(t) \/ CheckFloor(t))
        BY <1>5, <2>3 DEF Validate, CheckFloor, MarkFails, intents
      <3>2. at[t].phase \in {"latched", "validated"}
        BY <3>1 DEF Validate, CheckFloor
      <3>3. CASE Over(t)
        BY <1>1, <2>1, <3>1, <3>3, EndKeepsFire
      <3>4. CASE ~Over(t)
        <4>1. at'[t].phase # "placed"
          BY <1>1, <3>2, <3>4 DEF Moved, Onward
        <4>2. QED
          BY <1>1, <2>1, <3>1, <3>4, <4>1, GoesOnKeepsFire
      <3>5. QED
        BY <3>3, <3>4
    <2>4. QED
      BY <2>2, <2>3
  <1>6. QED
    BY <1>2, <1>3, <1>4, <1>5

\* A fire is one tick's, whatever else the rows, the market and the desks do.
LEMMA FireKept == DriftInv /\ FireInv /\ [Next]_vars => FireInv'
  <1> SUFFICES ASSUME DriftInv, FireInv, [Next]_vars PROVE FireInv'
    OBVIOUS
  <1>1. ASSUME NEW i \in Intents, Intake(i) PROVE FireInv'
    <2>1. UNCHANGED <<at, placedBy, orphans>>
      BY <1>1 DEF Intake, Check, Insert, Cancel, PassExpiry, Sweep, notes
    <2>2. \A j \in Intents : status'[j] = status[j] \/ (status[j] \in {"none", "new", "ACTIVE"} /\ status'[j] # "PLACED")
      BY <1>1 DEF Intake, Check, Insert, Cancel, PassExpiry, Sweep, DriftInv, RowsInv
    <2>3. QED
      BY <2>1, <2>2, RestKeepsFire
  <1>2. CASE ChangeRules \/ RaiseFloor \/ (\E o \in Orders : Withdraw(o)) \/ UNCHANGED vars
    <2>1. UNCHANGED <<status, at, placedBy, orphans>>
      BY <1>2 DEF ChangeRules, RaiseFloor, Withdraw, intents, notes, vars
    <2>2. QED
      BY <2>1, RestKeepsFire
  <1>3. ASSUME NEW t \in Ticks, Load(t) \/ Tick(t) PROVE FireInv'
    <2>1. t \in Slots
      BY DEF Slots
    <2>2. QED
      BY <1>3, <2>1, TickKeepsFire, PlaceKeepsFire DEF Tick, Fire
  <1>4. ASSUME NEW d \in Desks, Desk(d) PROVE FireInv'
    <2>1. d \in Slots /\ d \notin Ticks
      BY SlotsAssumption DEF Slots
    <2>2. CASE Post(d)
      <3>1. Moved(d) /\ UNCHANGED <<status, placedBy, orphans>> /\ status' \in [Intents -> Statuses]
        BY <2>2, PostMoves DEF Post, intents, notes, DriftInv, RowsInv
      <3>2. CASE Over(d)
        BY <2>1, <3>1, <3>2, EndKeepsFire
      <3>3. CASE ~Over(d)
        BY <2>1, <3>1, <3>3, GoesOnKeepsFire
      <3>4. QED
        BY <3>2, <3>3
    <2>3. QED
      BY <1>4, <2>1, <2>2, PlaceKeepsFire DEF Desk
  <1>5. QED
    BY <1>1, <1>2, <1>3, <1>4 DEF Next
-----------------------------------------------------------------------------
\* The terms of a placement are what the order's amounts come to, exactly, under
\* rules the market has had; the order is not one that rests already.
FromRules(o, terms) == \E v \in 1..version : terms = PlacementTerms(o, Rules[v]) /\ terms.exact
Fresh == Orders \ Rested
TermsOK(p) ==
  /\ at[p].phase \in {"summed", "checked"} => FromRules(at[p].order, at[p].terms)
  /\ at[p].phase \in Before \ {"latched"} => at[p].order \in Fresh
  /\ p \in Ticks /\ at[p].phase \in Firing \ {"latched"} => body[Row(p)].order \in Fresh
\* What was checked is a body; what was attached is an order that had not rested.
OwnersInv ==
  /\ \A i \in Intents : status[i] \in Checked => body[i] \in Bodies
  /\ placedBy \subseteq Intents /\ \A i \in placedBy : body[i].order \in Fresh
\* Levels are the terms of placements, and have rows once they are stored.
BookInv ==
  /\ level = [o \in Orders |-> level[o]] /\ row = [o \in Orders |-> row[o]]
  /\ \A o \in Orders : row[o] \in {"none", "PLACED", "CANCELLED"} /\ (o \in Rested => row[o] # "none")
  /\ \A o \in Fresh : level[o] = Empty \/ \E terms : FromRules(o, terms) /\ level[o] = LevelOf(terms)
  /\ LevelsHaveRows
PlacingInv == (\A p \in Slots : TermsOK(p)) /\ OwnersInv /\ BookInv

LEMMA FromRulesStays ==
  ASSUME DriftInv, version' >= version, VersionInv', NEW o, NEW terms, FromRules(o, terms)
  PROVE  FromRules(o, terms)'
  BY RulesAssumption DEF FromRules, VersionInv, DriftInv

\* Rested orders are orders, and so are those of bodies and of the desk.
LEMMA OrdersFacts ==
  /\ Rested \subseteq Orders /\ DeskOrders \ Rested \subseteq Fresh
  /\ \A b \in Bodies : b.order \in Orders
  BY SlotsAssumption DEF Orders, Fresh

\* A step of one slot.
LEMMA MovedKeepsTerms ==
  ASSUME DriftInv, PlacingInv, NEW p \in Slots, Moved(p), UNCHANGED <<version, body>>,
         Onward(p, "latched", "validated") => body[Row(p)].order \in Fresh
  PROVE  \A q \in Slots : TermsOK(q)'
  <1>1. \A o, terms : FromRules(o, terms)' <=> FromRules(o, terms)
    BY DEF FromRules
  <1>2. ASSUME NEW q \in Slots, q # p PROVE TermsOK(q)'
    <2>1. TermsOK(q) /\ Alike(q)
      BY <1>2 DEF PlacingInv, Moved
    <2>2. at'[q].phase = at[q].phase /\ at'[q].order = at[q].order /\ at'[q].terms = at[q].terms /\ Row(q)' = Row(q)
      BY <2>1 DEF Alike, Same, Row
    <2>3. QED
      BY <1>1, <2>1, <2>2 DEF TermsOK
  <1>3. TermsOK(p)'
    <2>1. TermsOK(p) /\ \A from, to : Onward(p, from, to) => Row(p)' = Row(p)
      BY DEF PlacingInv, Onward, Row
    <2>2. CASE Over(p) \/ Onward(p, "scanning", "latched")
      BY <2>2 DEF TermsOK, Over, Onward, Before, Firing
    <2>3. CASE Onward(p, "latched", "validated") /\ at'[p].order = body[Row(p)].order
      BY <2>1, <2>3 DEF TermsOK, Onward, Before, Firing
    <2>4. CASE Onward(p, "validated", "placing") /\ at'[p].order = at[p].order
      BY <2>1, <2>4 DEF TermsOK, Onward, Before, Firing
    <2>5. CASE at'[p].phase = "placing" /\ at'[p].order \in DeskOrders \ Rested /\ p \notin Ticks
      BY <2>5, OrdersFacts DEF TermsOK, Before, Firing
    <2>6. CASE Onward(p, "placing", "summed") /\ at'[p].order = at[p].order
               /\ at'[p].terms = PlacementTerms(at[p].order, Now) /\ at'[p].terms.exact
      <3>1. FromRules(at'[p].order, at'[p].terms)
        BY <2>6, RulesAssumption DEF FromRules, Now, DriftInv, VersionInv
      <3>2. FromRules(at[p].order, at[p].terms)'
        BY <3>1 DEF FromRules
      <3>3. QED
        BY <2>1, <2>6, <3>2 DEF TermsOK, Onward, Before, Firing
    <2>7. CASE /\ Onward(p, "summed", "checked") \/ Onward(p, "checked", "pushed") \/ Onward(p, "pushed", "stored")
                    \/ Onward(p, "stored", "placed")
               /\ Same(at'[p], at[p])
      <3>1. FromRules(at[p].order, at[p].terms)' <=> FromRules(at[p].order, at[p].terms)
        BY <2>7 DEF FromRules, Same
      <3>2. at'[p].order = at[p].order
        BY <2>7 DEF Same
      <3>3. QED
        BY <2>1, <2>7, <3>1, <3>2 DEF TermsOK, Onward, Before, Firing
    <2>8. QED
      BY <2>2, <2>3, <2>4, <2>5, <2>6, <2>7 DEF Moved
  <1>4. QED
    BY <1>2, <1>3

\* A step that writes neither level nor row: a tick or desk that stores nothing.
LEMMA BookKept ==
  ASSUME DriftInv, PlacingInv, VersionInv', version' >= version, UNCHANGED book, ghosts \subseteq ghosts',
         \A p \in Slots : at[p].phase = "pushed" =>
           (at'[p].phase = "pushed" /\ at'[p].order = at[p].order) \/ at[p].order \in ghosts'
  PROVE  BookInv'
  <1>1. \A o, terms : FromRules(o, terms) => FromRules(o, terms)'
    BY FromRulesStays
  <1>2. LevelsHaveRows'
    BY DEF PlacingInv, BookInv, LevelsHaveRows, book
  <1>3. \A o \in Fresh : level'[o] = Empty \/ \E terms : FromRules(o, terms)' /\ level'[o] = LevelOf(terms)
    BY <1>1 DEF PlacingInv, BookInv, book
  <1>4. QED
    BY <1>2, <1>3 DEF PlacingInv, BookInv, book

\* A step of a slot, outside Push, Upsert and the rollback.
LEMMA MovedKeepsBook ==
  ASSUME DriftInv, PlacingInv, NEW p \in Slots, Moved(p), UNCHANGED <<version, book>>, ghosts \subseteq ghosts',
         at[p].phase = "pushed" => at[p].order \in ghosts'
  PROVE  BookInv'
  <1>1. VersionInv' /\ version' >= version
    BY RulesAssumption DEF DriftInv, VersionInv
  <1>2. \A q \in Slots \ {p} : at'[q].phase = at[q].phase /\ at'[q].order = at[q].order
    BY DEF Moved, Alike, Same
  <1>3. QED
    BY <1>1, <1>2, BookKept

\* Levels that go take no row of another order with them.
LEMMA LevelsGo ==
  ASSUME DriftInv, PlacingInv, UNCHANGED <<version, at, ghosts>>, NEW S,
         level' = [o \in Orders |-> IF o \in S THEN Empty ELSE level[o]], row' = [o \in Orders |-> row'[o]],
         \A o \in Orders : row'[o] = row[o] \/ (o \in S /\ row'[o] = "CANCELLED")
  PROVE  BookInv'
  <1>1. \A o, terms : FromRules(o, terms)' <=> FromRules(o, terms)
    BY DEF FromRules
  <1>2. LevelsHaveRows'
    BY DEF PlacingInv, BookInv, LevelsHaveRows
  <1>3. \A o \in Fresh : level'[o] = Empty \/ \E terms : FromRules(o, terms)' /\ level'[o] = LevelOf(terms)
    BY <1>1 DEF PlacingInv, BookInv, Fresh
  <1>4. QED
    BY <1>2, <1>3 DEF PlacingInv, BookInv

\* A level enters the book before its row.
LEMMA PushKeepsBook ==
  ASSUME DriftInv, PlacingInv, NEW p \in Slots, Push(p)
  PROVE  BookInv'
  <1> DEFINE o == at[p].order
             terms == at[p].terms
  <1>1. Moved(p) /\ at[p].phase = "checked" /\ UNCHANGED <<version, ghosts>>
    BY PlaceMoves DEF Push, Place, market
  <1>2. CASE UNCHANGED book
    BY <1>1, <1>2, MovedKeepsBook
  <1>3. CASE /\ level' = [level EXCEPT ![o] = LevelOf(terms)]
             /\ row' = [row EXCEPT ![o] = IF level[o] = Empty THEN @ ELSE "CANCELLED"]
             /\ Disturb(p, "pushed")
    <2>1. o \in Fresh /\ FromRules(o, terms)
      BY <1>1 DEF PlacingInv, TermsOK, Before, Firing
    <2>2. /\ level'[o] = LevelOf(terms) /\ \A x \in Orders \ {o} : level'[x] = level[x] /\ row'[x] = row[x]
          /\ level' = [x \in Orders |-> level'[x]] /\ row' = [x \in Orders |-> row'[x]]
          /\ row'[o] \in {row[o], "CANCELLED"}
      BY <1>3, <2>1 DEF PlacingInv, BookInv, Fresh
    <2>3. \A x, k : FromRules(x, k)' <=> FromRules(x, k)
      BY <1>1 DEF FromRules
    <2>4. at'[p].phase = "pushed" /\ at'[p].order = o /\ \A q \in Slots \ {p} : Alike(q)
      BY <1>3, DisturbMoves DEF Same
    <2>5. LevelsHaveRows'
      <3> SUFFICES ASSUME NEW x \in Orders, level'[x] # Empty, \A q \in Slots : at'[q].order = x => at'[q].phase # "pushed"
                   PROVE  row'[x] = "PLACED" \/ x \in ghosts'
        BY DEF LevelsHaveRows
      <3>1. x # o
        BY <2>4
      <3>2. \A q \in Slots : at[q].order = x => at[q].phase # "pushed"
        BY <1>1, <2>4, <3>1 DEF Alike, Same
      <3>3. QED
        BY <1>1, <2>2, <3>1, <3>2 DEF PlacingInv, BookInv, LevelsHaveRows
    <2>6. \A x \in Fresh : level'[x] = Empty \/ \E k : FromRules(x, k)' /\ level'[x] = LevelOf(k)
      <3>1. ASSUME NEW x \in Fresh, x # o PROVE level'[x] = Empty \/ \E k : FromRules(x, k)' /\ level'[x] = LevelOf(k)
        BY <2>2, <2>3, <3>1 DEF PlacingInv, BookInv, Fresh
      <3>2. PICK x, k : x = o /\ k = terms
        OBVIOUS
      <3>3. FromRules(x, k) /\ level'[x] = LevelOf(k)
        BY <2>1, <2>2, <3>2
      <3>4. FromRules(x, k)' /\ level'[x] = LevelOf(k)
        BY <2>3, <3>3
      <3>5. QED
        BY <3>1, <3>2, <3>4
    <2>7. \A x \in Orders : row'[x] \in {"none", "PLACED", "CANCELLED"} /\ (x \in Rested => row'[x] # "none")
      BY <2>1, <2>2 DEF PlacingInv, BookInv, Fresh
    <2>8. QED
      BY <2>2, <2>5, <2>6, <2>7 DEF BookInv
  <1>4. QED
    BY <1>2, <1>3 DEF Push

\* The row of a level.
LEMMA UpsertKeepsBook ==
  ASSUME DriftInv, PlacingInv, NEW p \in Slots, Upsert(p)
  PROVE  BookInv'
  <1> DEFINE o == at[p].order
  <1>1. at[p].phase = "pushed" /\ row' = [row EXCEPT ![o] = "PLACED"] /\ Disturb(p, "stored") /\ UNCHANGED <<version, level, ghosts>>
    BY DEF Upsert, market, notes
  <1>2. o \in Orders
    BY <1>1 DEF PlacingInv, TermsOK, Before, Firing, Fresh
  <1>3. row' = [x \in Orders |-> row'[x]] /\ row'[o] = "PLACED" /\ \A x \in Orders \ {o} : row'[x] = row[x]
    BY <1>1, <1>2 DEF PlacingInv, BookInv
  <1>4. \A q \in Slots \ {p} : at'[q].phase = at[q].phase /\ at'[q].order = at[q].order
    BY <1>1, DisturbMoves DEF Alike, Same
  <1>5. LevelsHaveRows'
    <2> SUFFICES ASSUME NEW x \in Orders, x # o, level'[x] # Empty, \A q \in Slots : at'[q].order = x => at'[q].phase # "pushed"
                 PROVE  row'[x] = "PLACED" \/ x \in ghosts'
      BY <1>3 DEF LevelsHaveRows
    <2>1. \A q \in Slots : at[q].order = x => at[q].phase # "pushed"
      BY <1>4
    <2>2. QED
      BY <1>1, <1>3, <2>1 DEF PlacingInv, BookInv, LevelsHaveRows
  <1>6. \A x, k : FromRules(x, k)' <=> FromRules(x, k)
    BY <1>1 DEF FromRules
  <1>7. \A x \in Fresh : level'[x] = Empty \/ \E k : FromRules(x, k)' /\ level'[x] = LevelOf(k)
    BY <1>1, <1>6 DEF PlacingInv, BookInv
  <1>8. QED
    BY <1>1, <1>3, <1>5, <1>7 DEF PlacingInv, BookInv

\* The rollback takes level and row.
LEMMA RollbackKeepsBook ==
  ASSUME DriftInv, PlacingInv, NEW p \in Slots, AttachFails(p)
  PROVE  BookInv'
  <1> DEFINE o == at[p].order
  <1>1. /\ at[p].phase = "stored" /\ Moved(p) /\ UNCHANGED <<version, ghosts>>
        /\ level' = [level EXCEPT ![o] = Empty] /\ row' = [row EXCEPT ![o] = "CANCELLED"]
    BY PlaceMoves DEF AttachFails, RolledBack, Place, market
  <1>2. level' = [x \in Orders |-> IF x \in {o} THEN Empty ELSE level[x]] /\ row' = [x \in Orders |-> row'[x]]
        /\ \A x \in Orders : row'[x] = row[x] \/ (x = o /\ row'[x] = "CANCELLED")
    BY <1>1 DEF PlacingInv, BookInv
  <1>3. \A x, k : FromRules(x, k)' <=> FromRules(x, k)
    BY <1>1 DEF FromRules
  <1>4. \A q \in Slots : at[q].phase = "pushed" => at'[q].phase = "pushed" /\ at'[q].order = at[q].order
    BY <1>1 DEF Moved, Alike, Same
  <1>5. LevelsHaveRows'
    BY <1>1, <1>2, <1>4 DEF PlacingInv, BookInv, LevelsHaveRows
  <1>6. \A x \in Fresh : level'[x] = Empty \/ \E k : FromRules(x, k)' /\ level'[x] = LevelOf(k)
    BY <1>2, <1>3 DEF PlacingInv, BookInv, Fresh
  <1>7. QED
    BY <1>2, <1>5, <1>6 DEF PlacingInv, BookInv

\* A fire that fails moves no row that had not been checked.
LEMMA ChecksStay ==
  ASSUME status \in [Intents -> Statuses], NEW t, NEW reason, Failed(t, reason)
  PROVE  body' = body /\ \A i \in Intents : status'[i] \in Checked => status[i] \in Checked
  BY DEF Failed, FailFrom, Checked, Entered

\* A step that leaves the ticks alone.
LEMMA RestKeepsTerms ==
  ASSUME DriftInv, PlacingInv, VersionInv', version' >= version, at' = at,
         \A i \in Intents : status[i] \in Entered => body'[i] = body[i]
  PROVE  \A q \in Slots : TermsOK(q)'
  <1> SUFFICES ASSUME NEW q \in Slots PROVE TermsOK(q)'
    OBVIOUS
  <1>1. TermsOK(q) /\ Row(q)' = Row(q)
    BY DEF PlacingInv, Row
  <1>2. q \in Ticks /\ at[q].phase \in Firing => body'[Row(q)] = body[Row(q)]
    BY FiringRow
  <1>3. PICK o, terms : o = at[q].order /\ terms = at[q].terms
    OBVIOUS
  <1>4. FromRules(o, terms) => FromRules(o, terms)'
    BY FromRulesStays
  <1>5. QED
    BY <1>1, <1>2, <1>3, <1>4 DEF TermsOK

\* The rows' own steps, and the market's.
LEMMA RestKeepsPlacing ==
  ASSUME DriftInv, FireInv, PlacingInv, [Next]_vars,
         \/ \E i \in Intents : Intake(i)
         \/ ChangeRules \/ RaiseFloor \/ \E o \in Orders : Withdraw(o)
         \/ UNCHANGED vars
  PROVE  PlacingInv'
  <1>1. at' = at /\ placedBy' = placedBy /\ ghosts' = ghosts
    BY DEF Intake, Check, Insert, Cancel, PassExpiry, Sweep, ChangeRules, RaiseFloor, Withdraw, notes, vars
  <1>2. VersionInv' /\ version' >= version
    <2>1. ChangeRules \/ version' = version
      BY DEF Intake, Check, Insert, Cancel, PassExpiry, Sweep, RaiseFloor, Withdraw, market, vars
    <2>2. QED
      BY <2>1, RulesAssumption DEF ChangeRules, DriftInv, VersionInv
  <1>3. OwnersInv' /\ \A i \in Intents : status[i] \in Entered => body'[i] = body[i]
    <2>1. CASE ~(\E i \in Intents : Check(i))
      <3>1. status \in [Intents -> Statuses]
        BY DEF DriftInv, RowsInv
      <3>2. body' = body /\ \A i \in Intents : status'[i] = status[i] \/ (status[i] \in Checked /\ status'[i] \in Entered)
        BY <2>1, <3>1, StatusMoves
      <3>3. QED
        BY <1>1, <3>2 DEF PlacingInv, OwnersInv
    <2>2. ASSUME NEW i \in Intents, Check(i)
          PROVE  OwnersInv' /\ \A j \in Intents : status[j] \in Entered => body'[j] = body[j]
      <3>1. status[i] = "none" /\ i \notin placedBy
        BY <2>2 DEF Check, FireInv, Outcome
      <3>2. \A j \in Intents \ {i} : body'[j] = body[j] /\ status'[j] = status[j]
        BY <2>2 DEF Check, DriftInv, RowsInv
      <3>3. status'[i] \in Checked => body'[i] \in Bodies
        <4>1. CASE status' = [status EXCEPT ![i] = "refused"]
          BY <4>1 DEF DriftInv, RowsInv, Checked, Entered
        <4>2. CASE \E b \in Bodies : body' = [body EXCEPT ![i] = b]
          BY <4>2 DEF DriftInv, RowsInv
        <4>3. QED
          BY <2>2, <4>1, <4>2 DEF Check
      <3>4. QED
        BY <1>1, <3>1, <3>2, <3>3 DEF PlacingInv, OwnersInv, Entered
    <2>3. QED
      BY <2>1, <2>2
  <1>4. \A q \in Slots : TermsOK(q)'
    BY <1>1, <1>2, <1>3, RestKeepsTerms
  <1>5. BookInv'
    <2>1. CASE UNCHANGED book
      BY <1>1, <1>2, <2>1, BookKept
    <2>2. CASE RaiseFloor
      <3>1. PICK salt : /\ level' = [o \in Orders |-> IF o.salt < salt THEN Empty ELSE level[o]]
                        /\ row' = [o \in Orders |-> IF o.salt < salt /\ level[o] # Empty THEN "CANCELLED" ELSE row[o]]
        BY <2>2 DEF RaiseFloor
      <3>2. PICK S : S = {o \in Orders : o.salt < salt}
        OBVIOUS
      <3>3. level' = [o \in Orders |-> IF o \in S THEN Empty ELSE level[o]] /\ row' = [o \in Orders |-> row'[o]]
            /\ \A o \in Orders : row'[o] = row[o] \/ (o \in S /\ row'[o] = "CANCELLED")
        BY <3>1, <3>2
      <3>4. version' = version
        BY <2>2 DEF RaiseFloor
      <3>5. QED
        BY <1>1, <3>3, <3>4, LevelsGo
    <2>3. ASSUME NEW o \in Orders, Withdraw(o) PROVE BookInv'
      <3>1. PICK S : S = {o}
        OBVIOUS
      <3>2. level' = [x \in Orders |-> IF x \in S THEN Empty ELSE level[x]] /\ row' = [x \in Orders |-> row'[x]]
            /\ \A x \in Orders : row'[x] = row[x] \/ (x \in S /\ row'[x] = "CANCELLED")
        BY <2>3, <3>1 DEF Withdraw, PlacingInv, BookInv
      <3>3. version' = version
        BY <2>3 DEF Withdraw, market
      <3>4. QED
        BY <1>1, <3>2, <3>3, LevelsGo
    <2>4. QED
      <3>1. UNCHANGED book \/ RaiseFloor \/ \E o \in Orders : Withdraw(o)
        BY DEF Intake, Check, Insert, Cancel, PassExpiry, Sweep, ChangeRules, vars
      <3>2. QED
        BY <2>1, <2>2, <2>3, <3>1
  <1>6. QED
    BY <1>3, <1>4, <1>5 DEF PlacingInv

\* A tick outside placement, a request to the desk.
LEMMA TickKeepsPlacing ==
  ASSUME DriftInv, PlacingInv, [Next]_vars, NEW p \in Slots,
         \/ p \in Ticks /\ (Load(p) \/ Quiet(p) \/ Latch(p) \/ ContextFails(p) \/ Validate(p) \/ CheckFloor(p) \/ MarkPlaced(p) \/ MarkFails(p))
         \/ p \in Desks /\ Post(p)
  PROVE  PlacingInv'
  <1>1. Moved(p)
    BY TickMoves, PostMoves
  <1>2. UNCHANGED <<version, book, body, placedBy, ghosts>> /\ at[p].phase # "pushed"
    <2>1. CASE p \in Ticks /\ (Load(p) \/ Quiet(p) \/ Latch(p) \/ ContextFails(p) \/ MarkPlaced(p))
      BY <2>1 DEF Load, Quiet, Latch, ContextFails, MarkPlaced, intents, market, notes
    <2>2. CASE p \in Ticks /\ (Validate(p) \/ CheckFloor(p) \/ MarkFails(p))
      BY <2>2 DEF Validate, CheckFloor, MarkFails, Failed, intents, market
    <2>3. CASE p \in Desks /\ Post(p)
      BY <2>3 DEF Post, intents, market, notes
    <2>4. QED
      BY <2>1, <2>2, <2>3
  <1>3. Onward(p, "latched", "validated") => body[Row(p)].order \in Fresh
    <2> SUFFICES ASSUME Onward(p, "latched", "validated") PROVE body[Row(p)].order \in Fresh
      OBVIOUS
    <2>1. p \in Ticks /\ Validate(p)
      <3>1. at[p].phase = "latched"
        BY DEF Onward
      <3>2. CASE ContextFails(p) /\ p \in Ticks
        <4>1. Over(p)
          BY <3>2, EndsOver DEF ContextFails
        <4>2. QED
          BY <4>1 DEF Over, Onward
      <3>3. QED
        BY <3>1, <3>2, SlotsAssumption DEF Load, Quiet, Latch, CheckFloor, MarkPlaced, MarkFails, Post
    <2>2. ~Over(p)
      BY DEF Over, Onward
    <2>3. Unknown(body[Row(p)].order)
      BY <2>1, <2>2, RejectsOver DEF Validate
    <2>4. Row(p) \in Intents /\ status[Row(p)] \in Entered
      BY <2>1, FiringRow DEF Validate, Firing
    <2>5. body[Row(p)].order \in Orders
      BY <2>4, OrdersFacts DEF PlacingInv, OwnersInv, Checked
    <2>6. QED
      BY <2>3, <2>5 DEF Unknown, PlacingInv, BookInv, Fresh
  <1>4. (\A q \in Slots : TermsOK(q)') /\ BookInv'
    BY <1>1, <1>2, <1>3, MovedKeepsTerms, MovedKeepsBook
  <1>5. \A i \in Intents : status'[i] \in Checked => status[i] \in Checked
    <2>1. status \in [Intents -> Statuses]
      BY DEF DriftInv, RowsInv
    <2>2. CASE UNCHANGED status
      BY <2>2
    <2>3. CASE \E reason : Failed(p, reason)
      BY <2>1, <2>3, ChecksStay
    <2>4. CASE p \in Ticks /\ (Latch(p) \/ MarkPlaced(p))
      BY <2>1, <2>4 DEF Latch, LatchFrom, MarkPlaced, Checked, Entered
    <2>5. QED
      BY <2>2, <2>3, <2>4 DEF Load, Quiet, ContextFails, Validate, CheckFloor, MarkFails, Post, intents
  <1>6. OwnersInv'
    BY <1>2, <1>5 DEF PlacingInv, OwnersInv
  <1>7. QED
    BY <1>4, <1>6 DEF PlacingInv

\* A placement.
LEMMA PlaceKeepsPlacing ==
  ASSUME DriftInv, PlacingInv, NEW p \in Slots, Place(p)
  PROVE  PlacingInv'
  <1>1. Moved(p) /\ at[p].phase \in Firing
    BY PlaceMoves DEF Place, SumOpen, Guard, Push, Upsert, UpsertFails, Attach, AttachFails, Firing
  <1>2. UNCHANGED <<version, body>>
    BY DEF Place, SumOpen, Guard, Push, Upsert, UpsertFails, Attach, AttachFails, Reject, Failed, intents, market
  <1>3. ~Onward(p, "latched", "validated")
    BY DEF Place, SumOpen, Guard, Push, Upsert, UpsertFails, Attach, AttachFails, Onward
  <1>4. \A q \in Slots : TermsOK(q)'
    BY <1>1, <1>2, <1>3, MovedKeepsTerms
  <1>5. BookInv'
    <2>1. CASE Push(p)
      BY <2>1, PushKeepsBook
    <2>2. CASE Upsert(p)
      BY <2>2, UpsertKeepsBook
    <2>3. CASE AttachFails(p)
      BY <2>3, RollbackKeepsBook
    <2>4. CASE SumOpen(p) \/ Guard(p) \/ UpsertFails(p) \/ Attach(p)
      <3>1. UNCHANGED book /\ ghosts \subseteq ghosts' /\ (at[p].phase = "pushed" => at[p].order \in ghosts')
        BY <2>4 DEF SumOpen, Guard, UpsertFails, Attach
      <3>2. QED
        BY <1>1, <1>2, <3>1, MovedKeepsBook
    <2>5. QED
      BY <2>1, <2>2, <2>3, <2>4 DEF Place
  <1>6. OwnersInv'
    <2>1. status \in [Intents -> Statuses]
      BY DEF DriftInv, RowsInv
    <2>2. \A i \in Intents : status'[i] \in Checked => status[i] \in Checked
      <3>1. UNCHANGED status \/ \E reason : Failed(p, reason)
        BY DEF Place, SumOpen, Guard, Push, Upsert, UpsertFails, Attach, AttachFails, Reject, intents
      <3>2. QED
        BY <2>1, <3>1, ChecksStay
    <2>3. placedBy' = placedBy \/ (p \in Ticks /\ at[p].phase = "stored" /\ placedBy' = placedBy \cup {Row(p)})
      BY DEF Place, SumOpen, Guard, Push, Upsert, UpsertFails, Attach, AttachFails, notes
    <2>4. p \in Ticks /\ at[p].phase = "stored" => Row(p) \in Intents /\ body[Row(p)].order \in Fresh
      BY <1>1, FiringRow DEF PlacingInv, TermsOK
    <2>5. QED
      BY <1>2, <2>2, <2>3, <2>4 DEF PlacingInv, OwnersInv
  <1>7. QED
    BY <1>4, <1>5, <1>6 DEF PlacingInv

\* A slot at rest places nothing, and no level enters without a row.
LEMMA PlacingInvariant == Spec => [](FireInv /\ PlacingInv)
  <1>1. Init => FireInv /\ PlacingInv
    <2> SUFFICES ASSUME Init PROVE FireInv /\ PlacingInv
      OBVIOUS
    <2>1. (\A p \in Slots : at[p].phase = "off") /\ Ticks \subseteq Slots
      BY DEF Init, Off, Slots
    <2>2. FireInv
      BY <2>1 DEF Init, FireInv, OneTick, Outcome, Before, Firing
    <2>3. (\A p \in Slots : TermsOK(p)) /\ OwnersInv
      BY <2>1 DEF Init, TermsOK, OwnersInv, Before, Firing, Checked, Entered
    <2>4. BookInv
      BY OrdersFacts DEF Init, BookInv, LevelsHaveRows, Fresh
    <2>5. QED
      BY <2>2, <2>3, <2>4 DEF PlacingInv
  <1>2. DriftInv /\ FireInv /\ PlacingInv /\ [Next]_vars => (FireInv /\ PlacingInv)'
    <2> SUFFICES ASSUME DriftInv, FireInv, PlacingInv, [Next]_vars PROVE FireInv' /\ PlacingInv'
      OBVIOUS
    <2>1. FireInv'
      BY FireKept
    <2>2. CASE (\E i \in Intents : Intake(i)) \/ ChangeRules \/ RaiseFloor \/ (\E o \in Orders : Withdraw(o)) \/ UNCHANGED vars
      BY <2>1, <2>2, RestKeepsPlacing
    <2>3. ASSUME NEW t \in Ticks, Load(t) \/ Tick(t) PROVE PlacingInv'
      <3>1. t \in Slots
        BY DEF Slots
      <3>2. QED
        BY <2>3, <3>1, TickKeepsPlacing, PlaceKeepsPlacing DEF Tick, Fire
    <2>4. ASSUME NEW d \in Desks, Desk(d) PROVE PlacingInv'
      <3>1. d \in Slots
        BY DEF Slots
      <3>2. QED
        BY <2>4, <3>1, TickKeepsPlacing, PlaceKeepsPlacing DEF Desk
    <2>5. QED
      BY <2>1, <2>2, <2>3, <2>4 DEF Next
  <1>3. QED
    BY <1>1, <1>2, DriftInvariant, PTL DEF Spec

\* place's rollback and its order of writes: whatever fails or races, a level
\* has its row, unless it stands between its level and its upsert, or that threw.
THEOREM NoLevelUnknown == Spec => []LevelsHaveRows
  <1>1. PlacingInv => LevelsHaveRows
    BY DEF PlacingInv, BookInv
  <1>2. QED
    BY <1>1, PlacingInvariant, PTL

\* What a PLACED intent rests at is what its owner signed for, at exactly the
\* signed price in ticks the market has had; and an order that rests is PLACED,
\* unless markPlaced threw: one tick alone fires a row.
THEOREM RestsAsSigned == Spec => []PlacedAsDeclared
  <1>1. DriftInv /\ FireInv /\ PlacingInv => PlacedAsDeclared
    <2> SUFFICES ASSUME DriftInv, FireInv, PlacingInv, NEW i \in Intents
                 PROVE  /\ status[i] = "PLACED" => i \in placedBy /\
                             LET b == body[i]   l == level[b.order] IN l # Empty =>
                               /\ l.side = b.side /\ l.size = b.size
                               /\ \E v \in 1..version : l.ticks * Rules[v].tick * l.size = QuoteOf(b) * Unit
                               /\ version = 1 => l.ticks = b.ticks
                        /\ i \in placedBy /\ status[i] \notin {"TRIGGERED", "PLACED"} => i \in orphans
      BY DEF PlacedAsDeclared
    <2>1. Outcome(i)
      BY DEF FireInv
    <2> DEFINE b == body[i]
               o == b.order
               l == level[o]
    <2>2. ASSUME status[i] = "PLACED", l # Empty
          PROVE  /\ l.side = b.side /\ l.size = b.size
                 /\ \E v \in 1..version : l.ticks * Rules[v].tick * l.size = QuoteOf(b) * Unit
                 /\ version = 1 => l.ticks = b.ticks
      <3>1. b \in Bodies /\ o \in Fresh /\ accepted[i] \in 1..version /\ Integrity(b, Rules[accepted[i]], Grace)
        BY <2>1, <2>2 DEF Outcome, PlacingInv, OwnersInv, DriftInv, RowsInv, Checked, Entered
      <3>2. PICK terms : FromRules(o, terms) /\ l = LevelOf(terms)
        BY <2>2, <3>1 DEF PlacingInv, BookInv
      <3>3. PICK v \in 1..version : terms = PlacementTerms(o, Rules[v]) /\ terms.exact
        BY <3>2 DEF FromRules
      <3>4. Rules[v] \in MarketRules /\ b.side \in {"BUY", "SELL"} /\ o.makerAmount \in Nat /\ o.takerAmount \in Nat
        BY <3>1, RulesAssumption, BodiesAssumption, AmountsAssumption DEF DriftInv, VersionInv, Fresh
      <3>5. o.tokens = Tokens(b.side) /\ b.size = (IF b.side = "SELL" THEN o.makerAmount ELSE o.takerAmount)
        BY <3>1 DEF Integrity, Derived
      <3>6. /\ terms.side = b.side /\ terms.size = b.size
            /\ terms.ticks * Rules[v].tick * terms.size = QuoteOf(b) * Unit
        BY <3>3, <3>4, <3>5, PlacementPrices DEF QuoteOf
      <3>7. version = 1 => terms.ticks = b.ticks
        <4>1. version = 1 => v = 1 /\ accepted[i] = 1
          BY <3>1, <3>3
        <4>2. QED
          BY <3>1, <3>3, <4>1, PlacementExact
      <3>8. l.side = terms.side /\ l.size = terms.size /\ l.ticks = terms.ticks
        BY <3>2 DEF LevelOf
      <3>9. QED
        BY <3>6, <3>7, <3>8
    <2>3. QED
      BY <2>1, <2>2 DEF Outcome
  <1>2. QED
    BY <1>1, DriftInvariant, PlacingInvariant, PTL
-----------------------------------------------------------------------------
\* Rows are listed when they are inserted, once; slots are in one of their
\* phases, and a tick at rest has nothing left to do.
Phases == Firing \cup {"off", "scanning", "answered"}
ListInv ==
  /\ body \in [Intents -> Bodies] /\ created \in Seq(Intents) /\ IsInjective(created)
  /\ Range(created) = {i \in Intents : status[i] \in Entered} /\ due \subseteq Range(created)
PhaseOK(p) == at[p].phase \in Phases /\ (p \in Ticks /\ at[p].phase = "off" => at[p].todo = <<>>)
SetsInv == floor \in Nat /\ orphans \cup stuck \subseteq Intents /\ faults \in 0..MaxFaults
TypesInv == ListInv /\ (\A p \in Slots : PhaseOK(p)) /\ SetsInv

\* What is appended and was not there keeps a list without repetition.
LEMMA ListedOnce ==
  ASSUME NEW S, NEW s \in Seq(S), IsInjective(s), NEW x \in S, x \notin Range(s)
  PROVE  Append(s, x) \in Seq(S) /\ IsInjective(Append(s, x)) /\ Range(Append(s, x)) = Range(s) \cup {x}
  <1>1. Append(s, x) \in Seq(S) /\ Len(Append(s, x)) = Len(s) + 1 /\ Append(s, x)[Len(s) + 1] = x
        /\ \A k \in 1..Len(s) : Append(s, x)[k] = s[k]
    BY AppendProperties
  <1>2. Len(s) \in Nat /\ DOMAIN s = 1..Len(s) /\ DOMAIN Append(s, x) = 1..(Len(s) + 1)
    BY <1>1, LenProperties
  <1>3. 1..(Len(s) + 1) = (1..Len(s)) \cup {Len(s) + 1} /\ Len(s) + 1 \notin 1..Len(s)
    BY <1>2
  <1>4. \A k \in 1..Len(s) : s[k] # x
    BY <1>2 DEF Range
  <1>5. Range(Append(s, x)) = Range(s) \cup {x}
    BY <1>1, <1>2, <1>3 DEF Range
  <1>6. IsInjective(Append(s, x))
    BY <1>1, <1>2, <1>3, <1>4 DEF IsInjective
  <1>7. QED
    BY <1>1, <1>5, <1>6

\* Requests for an intent write its row and the list.
LEMMA IntakeKeepsList ==
  ASSUME DriftInv, TypesInv, NEW i \in Intents, Intake(i)
  PROVE  ListInv'
  <1> USE DEF TypesInv, ListInv, DriftInv, RowsInv
  <1>1. CASE Check(i)
    <2>1. PICK b \in Bodies : body' = body \/ body' = [body EXCEPT ![i] = b]
      BY <1>1 DEF Check
    <2>2. body' \in [Intents -> Bodies]
      BY <2>1
    <2>3. UNCHANGED <<created, due>> /\ status[i] = "none"
          /\ (status' = [status EXCEPT ![i] = "refused"] \/ status' = [status EXCEPT ![i] = "new"])
      BY <1>1 DEF Check
    <2>4. \A j \in Intents : status'[j] \in Entered <=> status[j] \in Entered
      BY <2>3 DEF Entered
    <2>5. QED
      BY <2>2, <2>3, <2>4
  <1>2. CASE Insert(i)
    <2>1. created' = Append(created, i) /\ UNCHANGED <<body, due>> /\ status[i] = "new"
          /\ status' = [status EXCEPT ![i] = "ACTIVE"]
      BY <1>2 DEF Insert
    <2>2. i \notin Range(created)
      BY <2>1 DEF Entered
    <2>3. created' \in Seq(Intents) /\ IsInjective(created') /\ Range(created') = Range(created) \cup {i}
      BY <2>1, <2>2, ListedOnce
    <2>4. {j \in Intents : status'[j] \in Entered} = {j \in Intents : status[j] \in Entered} \cup {i}
      BY <2>1 DEF Entered
    <2>5. QED
      BY <2>1, <2>3, <2>4
  <1>3. CASE Cancel(i) \/ PassExpiry(i) \/ Sweep(i)
    <2>1. UNCHANGED <<body, created>> /\ due' \subseteq due \cup {i} /\ status[i] = "ACTIVE"
          /\ \A j \in Intents : status'[j] = status[j] \/ (j = i /\ status'[j] \in Entered)
      BY <1>3 DEF Cancel, PassExpiry, Sweep, Entered
    <2>2. \A j \in Intents : status'[j] \in Entered <=> status[j] \in Entered
      BY <2>1 DEF Entered
    <2>3. i \in Range(created)
      BY <2>1 DEF Entered
    <2>4. QED
      BY <2>1, <2>2, <2>3
  <1>4. QED
    BY <1>1, <1>2, <1>3 DEF Intake

\* Nothing else lists or takes from the list; fires end live rows.
LEMMA RestKeepsList ==
  ASSUME DriftInv, TypesInv, UNCHANGED <<body, created, due>>,
         \A i \in Intents : status'[i] = status[i] \/ (status[i] \in {"ACTIVE", "TRIGGERED"} /\ status'[i] \in Entered)
  PROVE  ListInv'
  <1>1. \A i \in Intents : status'[i] \in Entered <=> status[i] \in Entered
    BY DEF Entered
  <1>2. QED
    BY <1>1 DEF TypesInv, ListInv

LEMMA FailKeepsList ==
  ASSUME DriftInv, TypesInv, NEW p, NEW reason, Reject(p, reason) \/ Failed(p, reason)
  PROVE  ListInv'
  <1>1. UNCHANGED <<body, created, due>>
    BY DEF Reject, Failed, intents
  <1>2. \A i \in Intents : status'[i] = status[i] \/ (status[i] \in {"ACTIVE", "TRIGGERED"} /\ status'[i] \in Entered)
    BY DEF Reject, Failed, FailFrom, Entered, intents, DriftInv, RowsInv
  <1>3. QED
    BY <1>1, <1>2, RestKeepsList

LEMMA SlotKeepsList ==
  ASSUME DriftInv, TypesInv, NEW p \in Slots, (p \in Ticks /\ (Load(p) \/ Tick(p))) \/ Desk(p)
  PROVE  ListInv'
  <1>1. CASE UNCHANGED intents
    BY <1>1, RestKeepsList DEF intents
  <1>2. CASE \E reason : Reject(p, reason) \/ Failed(p, reason)
    BY <1>2, FailKeepsList
  <1>3. CASE Latch(p) \/ MarkPlaced(p)
    <2>1. UNCHANGED <<body, created, due>>
          /\ \A i \in Intents : status'[i] = status[i] \/ (status[i] \in {"ACTIVE", "TRIGGERED"} /\ status'[i] \in Entered)
      BY <1>3 DEF Latch, MarkPlaced, LatchFrom, Entered, DriftInv, RowsInv
    <2>2. QED
      BY <2>1, RestKeepsList
  <1>4. CASE Load(p) \/ Quiet(p) \/ ContextFails(p) \/ Post(p)
    BY <1>1, <1>4 DEF Load, Quiet, ContextFails, Post
  <1>5. CASE Validate(p) \/ CheckFloor(p) \/ MarkFails(p)
    BY <1>1, <1>2, <1>5 DEF Validate, CheckFloor, MarkFails, intents
  <1>6. CASE Place(p)
    BY <1>1, <1>2, <1>6 DEF Place, SumOpen, Guard, Push, Upsert, UpsertFails, Attach, AttachFails, intents
  <1>7. QED
    BY <1>3, <1>4, <1>5, <1>6 DEF Tick, Fire, Desk

\* Every phase is one of those named, and a tick's scan ends at rest.
LEMMA MovedKeepsPhases ==
  ASSUME DriftInv, TypesInv, NEW p \in Slots, Moved(p)
  PROVE  \A q \in Slots : PhaseOK(q)'
  <1>1. ASSUME NEW q \in Slots, q # p PROVE PhaseOK(q)'
    BY <1>1 DEF Moved, Alike, Same, PhaseOK, TypesInv
  <1>2. PhaseOK(p)'
    BY DEF Moved, Over, Onward, PhaseOK, Phases, Firing
  <1>3. QED
    BY <1>1, <1>2

LEMMA SlotKeepsSets ==
  ASSUME DriftInv, TypesInv, NEW p \in Slots, (p \in Ticks /\ (Load(p) \/ Tick(p))) \/ Desk(p)
  PROVE  SetsInv'
  <1>1. floor' = floor
    BY DEF Load, Tick, Quiet, Fire, Latch, ContextFails, Validate, CheckFloor, MarkPlaced, MarkFails, Desk, Post,
           Place, SumOpen, Guard, Push, Upsert, UpsertFails, Attach, AttachFails, market
  <1>2. faults' = faults \/ Fault
    BY DEF Load, Tick, Quiet, Fire, Latch, ContextFails, Validate, CheckFloor, MarkPlaced, MarkFails, Desk, Post,
           Place, SumOpen, Guard, Push, Upsert, UpsertFails, Attach, AttachFails
  <1>3. faults' \in 0..MaxFaults
    BY <1>2, NumbersAssumption DEF Fault, TypesInv, SetsInv
  <1>4. UNCHANGED <<orphans, stuck>>
        \/ (p \in Ticks /\ at[p].phase \in Firing /\ orphans' \cup stuck' \subseteq orphans \cup stuck \cup {Row(p)})
    BY DEF Load, Tick, Quiet, Fire, Latch, ContextFails, Validate, CheckFloor, MarkPlaced, MarkFails, Desk, Post,
           Place, SumOpen, Guard, Push, Upsert, UpsertFails, Attach, AttachFails, notes, Firing
  <1>5. orphans' \cup stuck' \subseteq Intents
    BY <1>4, FiringRow DEF TypesInv, SetsInv
  <1>6. QED
    BY <1>1, <1>3, <1>5 DEF TypesInv, SetsInv

LEMMA TypesKept == DriftInv /\ TypesInv /\ [Next]_vars => TypesInv'
  <1> SUFFICES ASSUME DriftInv, TypesInv, [Next]_vars PROVE TypesInv'
    OBVIOUS
  <1>1. ASSUME NEW i \in Intents, Intake(i) PROVE TypesInv'
    <2>1. UNCHANGED <<at, floor, orphans, stuck, faults>>
      BY <1>1 DEF Intake, Check, Insert, Cancel, PassExpiry, Sweep, market, notes
    <2>2. QED
      BY <1>1, <2>1, IntakeKeepsList DEF TypesInv, PhaseOK, SetsInv
  <1>2. CASE ChangeRules \/ RaiseFloor \/ (\E o \in Orders : Withdraw(o)) \/ UNCHANGED vars
    <2>1. UNCHANGED <<body, created, due, status, at, orphans, stuck, faults>> /\ (floor' = floor \/ floor' \in Salts)
      BY <1>2 DEF ChangeRules, RaiseFloor, Withdraw, intents, market, notes, vars
    <2>2. Salts \subseteq Nat
      BY AmountsAssumption DEF Salts
    <2>3. ListInv' /\ SetsInv'
      BY <2>1, <2>2, RestKeepsList DEF TypesInv, SetsInv
    <2>4. QED
      BY <2>1, <2>3 DEF TypesInv, PhaseOK
  <1>3. ASSUME NEW p \in Slots, (p \in Ticks /\ (Load(p) \/ Tick(p))) \/ (p \in Desks /\ Desk(p))
        PROVE  TypesInv'
    <2>1. Moved(p)
      BY <1>3, TickMoves, PostMoves, PlaceMoves DEF Tick, Fire, Desk
    <2>2. QED
      BY <1>3, <2>1, SlotKeepsList, MovedKeepsPhases, SlotKeepsSets DEF TypesInv
  <1>4. QED
    <2>1. Ticks \subseteq Slots /\ Desks \subseteq Slots
      BY DEF Slots
    <2>2. QED
      BY <1>1, <1>2, <1>3, <2>1 DEF Next

\* Every variable has its type: one row per intent, listed once, floors that
\* are salts, and slots in one of their phases.
THEOREM Typed == Spec => []TypeOK
  <1>1. Init => TypesInv
    <2> SUFFICES ASSUME Init PROVE TypesInv
      OBVIOUS
    <2>1. NoBody \in Bodies
      BY BodiesAssumption DEF NoBody
    <2>2. <<>> \in Seq(Intents) /\ Range(<<>>) = {} /\ IsInjective(<<>>)
      BY DEF Range, IsInjective
    <2>3. ListInv
      BY <2>1, <2>2 DEF Init, ListInv, Entered
    <2>4. Off.phase = "off" /\ Off.todo = <<>>
      BY DEF Off
    <2>5. \A p \in Slots : PhaseOK(p)
      BY <2>4 DEF Init, PhaseOK, Phases
    <2>6. SetsInv
      BY NumbersAssumption DEF Init, SetsInv
    <2>7. QED
      BY <2>3, <2>5, <2>6 DEF TypesInv
  <1>2. DriftInv /\ PlacingInv /\ TypesInv => TypeOK
    <2> SUFFICES ASSUME DriftInv, PlacingInv, TypesInv PROVE TypeOK
      OBVIOUS
    <2>1. \A o \in Orders : row[o] \in {"none", "PLACED", "CANCELLED"}
      BY DEF PlacingInv, BookInv
    <2>2. placedBy \cup orphans \cup stuck \cup drifted \subseteq Intents
      BY DEF PlacingInv, OwnersInv, TypesInv, SetsInv, DriftInv, RowsInv
    <2>3. ASSUME NEW p \in Slots
          PROVE  /\ at[p].phase \in {"off", "scanning", "latched", "validated", "placing", "summed", "checked", "pushed",
                                     "stored", "placed", "answered"}
                 /\ p \in Ticks => (at[p].todo = <<>> <=> at[p].phase = "off")
      BY <2>3 DEF TypesInv, PhaseOK, Phases, Firing, DriftInv, SlotsInv, TickInv
    <2>4. QED
      BY <2>1, <2>2, <2>3 DEF TypeOK, TypesInv, ListInv, SetsInv, DriftInv, RowsInv, VersionInv
  <1>3. QED
    BY <1>1, <1>2, TypesKept, DriftInvariant, PlacingInvariant, PTL DEF Spec
-----------------------------------------------------------------------------
\* A placement that nothing disturbed found the book and the open base as they
\* still are.  First the sums, counted unit by unit, and the top of the book.

\* Of a set of prices the lowest is none above, the highest none below.
LEMMA LowestIs ==
  ASSUME NEW S, S \subseteq Nat, NEW x \in S
  PROVE  Min(S) \in S /\ Min(S) <= x
  <1> DEFINE R == OpToRel(<, Nat)
  <1>1. R = {ss \in Nat \X Nat : ss[1] < ss[2]}
    BY DEF OpToRel
  <1>2. IsWellFoundedOn(R, Nat)
    BY NatLessThanWellFounded
  <1> HIDE DEF R
  <1>3. PICK n \in S : \A m \in S : <<m, n>> \notin R
    BY <1>2, WFMin
  <1>4. ASSUME NEW m \in S PROVE n <= m
    <2>1. m \in Nat /\ n \in Nat
      OBVIOUS
    <2>2. ~(m < n)
      BY <1>1, <1>3, <2>1
    <2>3. QED
      BY <2>1, <2>2
  <1>5. \E k \in S : \A m \in S : k <= m
    BY <1>4
  <1>6. QED
    BY <1>5 DEF Min

\* Without a highest there would be a smallest set without one; but that set,
\* less an element, has one.
LEMMA HighestIs ==
  ASSUME NEW S, S \subseteq Nat, IsFiniteSet(S), NEW x \in S
  PROVE  Max(S) \in S /\ Max(S) >= x
  <1> DEFINE Bad(T) == T \subseteq S /\ T # {} /\ ~(\E n \in T : \A m \in T : n >= m)
             Sizes == {n \in Nat : \E T \in SUBSET S : Bad(T) /\ Cardinality(T) = n}
  <1>1. ASSUME NEW T, Bad(T) PROVE FALSE
    <2>1. Cardinality(T) \in Sizes
      BY <1>1, FS_Subset, FS_CardinalityType
    <2>2. PICK k : k = Min(Sizes) /\ k \in Sizes /\ \A n \in Sizes : k <= n
      BY <2>1, LowestIs
    <2>3. PICK U \in SUBSET S : Bad(U) /\ Cardinality(U) = k
      BY <2>2
    <2>4. PICK y \in U : TRUE
      BY <2>3
    <2>5. PICK V : V = U \ {y}
      OBVIOUS
    <2>6. IsFiniteSet(U) /\ IsFiniteSet(V)
      BY <2>5, FS_Subset
    <2>7. Cardinality(V) = k - 1 /\ Cardinality(V) \in Nat
      BY <2>3, <2>4, <2>5, <2>6, FS_RemoveElement, FS_CardinalityType
    <2>8. ~Bad(V)
      <3>1. ASSUME Bad(V) PROVE FALSE
        <4>1. Cardinality(V) \in Sizes
          BY <2>7, <3>1
        <4>2. QED
          BY <2>2, <2>7, <4>1
      <3>2. QED
        BY <3>1
    <2>9. CASE V = {}
      <3>1. U = {y} /\ y \in Nat
        BY <2>4, <2>5, <2>9
      <3>2. QED
        BY <2>3, <3>1
    <2>10. CASE V # {}
      <3>1. PICK n \in V : \A m \in V : n >= m
        BY <2>3, <2>5, <2>8, <2>10
      <3>2. n \in Nat /\ y \in Nat /\ n \in U /\ U \subseteq Nat /\ \A m \in U : m = y \/ n >= m
        BY <2>3, <2>4, <2>5, <3>1
      <3>3. CASE n >= y
        BY <2>3, <3>2, <3>3
      <3>4. CASE y >= n
        <4>1. \A m \in U : y >= m
          BY <3>2, <3>4
        <4>2. QED
          BY <2>3, <2>4, <4>1
      <3>5. QED
        BY <3>2, <3>3, <3>4
    <2>11. QED
      BY <2>9, <2>10
  <1>2. \E n \in S : \A m \in S : n >= m
    BY <1>1
  <1>3. QED
    BY <1>2 DEF Max

\* The size of an order does not depend on the rules, and it is an amount.
LEMMA TermsTyped ==
  ASSUME NEW o \in Orders, NEW v \in 1..Len(Rules)
  PROVE  /\ PlacementTerms(o, Rules[v]).size = BaseOf(o) /\ BaseOf(o) \in Nat
         /\ PlacementTerms(o, Rules[v]).ticks \in Nat
  <1>1. Rules[v] \in MarketRules
    BY RulesAssumption
  <1>2. o.makerAmount \in Nat /\ o.takerAmount \in Nat
    BY AmountsAssumption
  <1>3. PICK side : side = (IF o.tokens = Tokens("SELL") THEN "SELL" ELSE "BUY")
    OBVIOUS
  <1>4. PICK base, quote : /\ base = (IF side = "SELL" THEN o.makerAmount ELSE o.takerAmount)
                           /\ quote = (IF side = "SELL" THEN o.takerAmount ELSE o.makerAmount)
    OBVIOUS
  <1>5. PICK num, den : num = quote * Unit /\ den = base * Rules[v].tick
    OBVIOUS
  <1>6. num \in Nat /\ den \in Nat
    <2>1. base \in Nat /\ quote \in Nat
      BY <1>2, <1>4
    <2>2. PICK tick \in Nat \ {0} : tick = Rules[v].tick
      BY <1>1 DEF MarketRules
    <2>3. quote * Unit \in Nat /\ base * tick \in Nat
      BY <2>1, <2>2, UnitAssumption
    <2>4. QED
      BY <1>5, <2>2, <2>3
  <1>7. (IF den = 0 THEN 0 ELSE num \div den) \in Nat
    BY <1>6, ExactDivision
  <1>8. PlacementTerms(o, Rules[v]).ticks = (IF den = 0 THEN 0 ELSE num \div den)
    BY <1>3, <1>4, <1>5 DEF PlacementTerms, Derived
  <1>9. \A rules : PlacementTerms(o, rules).size = base
    BY <1>3, <1>4 DEF PlacementTerms, Derived
  <1>10. QED
    BY <1>2, <1>4, <1>7, <1>8, <1>9 DEF BaseOf

LEMMA BasesAreAmounts == \A o \in Orders : BaseOf(o) \in Nat
  <1>1. 1 \in 1..Len(Rules)
    BY RulesAssumption, EmptySeq
  <1>2. QED
    BY <1>1, TermsTyped

LEMMA UnitsFinite ==
  ASSUME NEW F, F \subseteq Orders
  PROVE  IsFiniteSet(Units(F)) /\ Cardinality(Units(F)) \in Nat
  <1>1. IsFiniteSet(F)
    BY AmountsAssumption, FS_Subset
  <1> DEFINE S == {{x} \X (1..BaseOf(x)) : x \in F}
             g == [x \in F |-> {x} \X (1..BaseOf(x))]
  <1>2. g \in Surjection(F, S)
    BY DEF Surjection
  <1>3. IsFiniteSet(S)
    BY <1>1, <1>2, FS_Surjection
  <1>4. \A T \in S : IsFiniteSet(T)
    <2> SUFFICES ASSUME NEW x \in F PROVE IsFiniteSet({x} \X (1..BaseOf(x)))
      OBVIOUS
    <2>1. IsFiniteSet({x})
      BY FS_Singleton
    <2>2. 1 \in Int /\ BaseOf(x) \in Int
      BY BasesAreAmounts
    <2>3. IsFiniteSet(1..BaseOf(x))
      BY <2>2, FS_Interval
    <2>4. QED
      BY <2>1, <2>3, FS_Product
  <1>5. IsFiniteSet(UNION S)
    <2> HIDE DEF S
    <2> QED
      BY <1>3, <1>4, FS_UNION
  <1>6. QED
    BY <1>5, FS_CardinalityType DEF Units

\* Fewer orders sell no more, and one more sells at most its size more.
LEMMA UnitsGrow ==
  ASSUME NEW F, NEW G, F \subseteq Orders, G \subseteq Orders, NEW o \in Orders, F \subseteq G \cup {o}
  PROVE  /\ Cardinality(Units(F)) <= Cardinality(Units(G)) + BaseOf(o)
         /\ F \subseteq G => Cardinality(Units(F)) <= Cardinality(Units(G))
  <1>1. PICK A, B, C : A = Units(F) /\ B = Units(G) /\ C = {o} \X (1..BaseOf(o))
    OBVIOUS
  <1>2. IsFiniteSet(A) /\ IsFiniteSet(B) /\ Cardinality(A) \in Nat /\ Cardinality(B) \in Nat
    BY <1>1, UnitsFinite
  <1>3. IsFiniteSet(C) /\ Cardinality(C) = BaseOf(o) /\ BaseOf(o) \in Nat
    <2>1. IsFiniteSet({o}) /\ Cardinality({o}) = 1
      BY FS_Singleton
    <2>2. 1 \in Int /\ BaseOf(o) \in Int /\ BaseOf(o) \in Nat
      BY BasesAreAmounts
    <2>3. IsFiniteSet(1..BaseOf(o)) /\ Cardinality(1..BaseOf(o)) = IF 1 > BaseOf(o) THEN 0 ELSE BaseOf(o) - 1 + 1
      BY <2>2, FS_Interval
    <2>4. IsFiniteSet({o} \X (1..BaseOf(o))) /\ Cardinality({o} \X (1..BaseOf(o))) = Cardinality({o}) * Cardinality(1..BaseOf(o))
      BY <2>1, <2>3, FS_Product
    <2>5. Cardinality(1..BaseOf(o)) = BaseOf(o)
      BY <2>2, <2>3
    <2>6. QED
      BY <1>1, <2>1, <2>2, <2>4, <2>5
  <1>4. A \subseteq B \cup C /\ (F \subseteq G => A \subseteq B)
    BY <1>1 DEF Units
  <1>5. IsFiniteSet(B \cup C) /\ Cardinality(B \cup C) = Cardinality(B) + Cardinality(C) - Cardinality(B \cap C)
    BY <1>2, <1>3, FS_Union
  <1>6. Cardinality(B \cap C) \in Nat
    BY <1>2, FS_Intersection, FS_CardinalityType
  <1>7. Cardinality(A) <= Cardinality(B \cup C)
    BY <1>4, <1>5, FS_Subset
  <1>8. F \subseteq G => Cardinality(A) <= Cardinality(B)
    BY <1>2, <1>4, FS_Subset
  <1>9. Cardinality(A) <= Cardinality(B) + BaseOf(o)
    BY <1>2, <1>3, <1>5, <1>6, <1>7
  <1>10. QED
    BY <1>1, <1>8, <1>9

\* The open base of a maker, and a book that new terms do not cross, of given
\* rows and levels.
OpenOf(rows, o) == Cardinality(Units({x \in Orders : rows[x] = "PLACED" /\ x.maker = o.maker}))
Clear(levels, terms) == \A x \in Orders :
  /\ terms.side = "BUY" /\ levels[x].side = "SELL" => levels[x].ticks > terms.ticks
  /\ terms.side # "BUY" /\ levels[x].side = "BUY" => levels[x].ticks < terms.ticks
\* What a placement read, and nothing disturbed, is still so.
Held == {"summed", "checked", "pushed"}
Alone(r, levels, rows) ==
  /\ r.phase \in Held => r.order \in Orders /\ r.terms.size = BaseOf(r.order) /\ r.terms.ticks \in Nat
  /\ r.phase \in Held /\ ~r.raced => OpenOf(rows, r.order) <= r.open /\ r.open \in Nat
  /\ r.phase \in {"checked", "pushed"} /\ ~r.raced /\ ~r.unguarded => r.open + r.terms.size <= Balance
  /\ r.phase = "checked" /\ ~r.raced /\ r.passive => Clear(levels, r.terms)
PricesInv == \A o \in Orders : level[o].ticks \in Nat
AloneInv == PricesInv /\ \A p \in Slots : Alone(at[p], level, row)
\* Levels and open rows that only go.
Fewer(levels, after) == \A x \in Orders : after[x] = levels[x] \/ after[x] = Empty
NoneOpened(rows, after) == \A x \in Orders : after[x] = "PLACED" => rows[x] = "PLACED"

LEMMA OpenOfTyped ==
  ASSUME NEW W, NEW o
  PROVE  OpenOf(W, o) \in Nat
  <1>1. {x \in Orders : W[x] = "PLACED" /\ x.maker = o.maker} \subseteq Orders
    OBVIOUS
  <1>2. QED
    BY <1>1, UnitsFinite DEF OpenOf

LEMMA OpenShrinks ==
  ASSUME NEW W, NEW X, NoneOpened(W, X), NEW o \in Orders
  PROVE  OpenOf(X, o) <= OpenOf(W, o)
  <1>1. PICK F, G : /\ F = {x \in Orders : X[x] = "PLACED" /\ x.maker = o.maker}
                    /\ G = {x \in Orders : W[x] = "PLACED" /\ x.maker = o.maker}
    OBVIOUS
  <1>2. F \subseteq G /\ G \subseteq Orders /\ F \subseteq Orders /\ F \subseteq G \cup {o}
    BY <1>1 DEF NoneOpened
  <1>3. Cardinality(Units(F)) <= Cardinality(Units(G))
    BY <1>2, UnitsGrow
  <1>4. QED
    BY <1>1, <1>3 DEF OpenOf

\* One order more that is open.
LEMMA OpenGrows ==
  ASSUME NEW W, NEW X, NEW o \in Orders, \A x \in Orders \ {o} : X[x] = W[x]
  PROVE  OpenOf(X, o) <= OpenOf(W, o) + BaseOf(o)
  <1>1. PICK F, G : /\ F = {x \in Orders : X[x] = "PLACED" /\ x.maker = o.maker}
                    /\ G = {x \in Orders : W[x] = "PLACED" /\ x.maker = o.maker}
    OBVIOUS
  <1>2. G \subseteq Orders /\ F \subseteq Orders /\ F \subseteq G \cup {o}
    BY <1>1
  <1>3. Cardinality(Units(F)) <= Cardinality(Units(G)) + BaseOf(o)
    BY <1>2, UnitsGrow
  <1>4. QED
    BY <1>1, <1>3 DEF OpenOf

LEMMA AloneStays ==
  ASSUME NEW r, NEW L, NEW M, NEW W, NEW X, Alone(r, L, W), Fewer(L, M), NoneOpened(W, X)
  PROVE  Alone(r, M, X)
  <1>1. r.phase \in Held /\ ~r.raced => OpenOf(X, r.order) <= r.open
    <2> SUFFICES ASSUME r.phase \in Held, ~r.raced PROVE OpenOf(X, r.order) <= r.open
      OBVIOUS
    <2>1. r.order \in Orders /\ OpenOf(W, r.order) <= r.open /\ r.open \in Nat
      BY DEF Alone
    <2>2. OpenOf(X, r.order) <= OpenOf(W, r.order) /\ OpenOf(X, r.order) \in Nat /\ OpenOf(W, r.order) \in Nat
      BY <2>1, OpenShrinks, OpenOfTyped
    <2>3. QED
      BY <2>1, <2>2
  <1>2. Clear(L, r.terms) => Clear(M, r.terms)
    BY DEF Clear, Fewer, Empty
  <1>3. QED
    BY <1>1, <1>2 DEF Alone

LEMMA ResetAlone ==
  ASSUME NEW r, r.phase \notin Held, NEW L, NEW W
  PROVE  Alone(r, L, W)
  BY DEF Alone, Held

\* A price that does not cross the top of the book crosses nothing.
LEMMA UncrossedClears ==
  ASSUME PricesInv, NEW terms, terms.ticks \in Nat, ~WouldCross(terms.side, terms.ticks)
  PROVE  Clear(level, terms)
  <1>1. PICK S : S = {level[x].ticks : x \in Resting("SELL")}
    OBVIOUS
  <1>2. PICK B : B = {level[x].ticks : x \in Resting("BUY")}
    OBVIOUS
  <1>3. S \subseteq Nat /\ B \subseteq Nat
    BY <1>1, <1>2 DEF PricesInv, Resting
  <1>4. IsFiniteSet(B)
    <2>1. PICK R : R = Resting("BUY")
      OBVIOUS
    <2>2. IsFiniteSet(R)
      BY <2>1, AmountsAssumption, FS_Subset DEF Resting
    <2>3. PICK g : g = [x \in R |-> level[x].ticks]
      OBVIOUS
    <2>4. g \in Surjection(R, B)
      BY <1>2, <2>1, <2>3 DEF Surjection
    <2>5. QED
      BY <2>2, <2>4, FS_Surjection
  <1>5. ASSUME NEW x \in Orders, terms.side = "BUY", level[x].side = "SELL" PROVE level[x].ticks > terms.ticks
    <2>1. level[x].ticks \in S /\ Resting("SELL") # {} /\ BestAsk = Min(S)
      BY <1>1, <1>5 DEF Resting, BestAsk
    <2>2. Min(S) \in Nat /\ Min(S) <= level[x].ticks /\ level[x].ticks \in Nat
      BY <1>3, <2>1, LowestIs
    <2>3. ~(terms.ticks >= Min(S))
      BY <1>5, <2>1 DEF WouldCross
    <2>4. QED
      BY <2>2, <2>3
  <1>6. ASSUME NEW x \in Orders, terms.side # "BUY", level[x].side = "BUY" PROVE level[x].ticks < terms.ticks
    <2>1. level[x].ticks \in B /\ Resting("BUY") # {} /\ BestBid = Max(B)
      BY <1>2, <1>6 DEF Resting, BestBid
    <2>2. Max(B) \in Nat /\ Max(B) >= level[x].ticks /\ level[x].ticks \in Nat
      BY <1>3, <1>4, <2>1, HighestIs
    <2>3. ~(terms.ticks <= Max(B))
      BY <1>6, <2>1 DEF WouldCross
    <2>4. QED
      BY <2>2, <2>3
  <1>7. QED
    BY <1>5, <1>6 DEF Clear

\* The fields of a slot that those reads set.
Reads(r, q) == r.open = q.open /\ r.raced = q.raced /\ r.passive = q.passive /\ r.unguarded = q.unguarded

LEMMA PhaseKeepsReads ==
  ASSUME NEW q, IsSlot(q), NEW x, NEW r, r = [q EXCEPT !.phase = x]
  PROVE  Reads(r, q)
  BY DEF IsSlot, Reads

LEMMA RacedSets ==
  ASSUME NEW q, IsSlot(q), NEW x, NEW r, r = [q EXCEPT !.raced = x]
  PROVE  r.phase = q.phase /\ Same(r, q) /\ r.raced = x /\ r.open = q.open /\ r.passive = q.passive /\ r.unguarded = q.unguarded
  BY DEF IsSlot, Same

LEMMA OpenSets ==
  ASSUME NEW q, IsSlot(q), NEW x, NEW r, r = [q EXCEPT !.open = x]
  PROVE  IsSlot(r) /\ r.phase = q.phase /\ Same(r, q) /\ r.open = x
  BY DEF IsSlot, Same

LEMMA UnguardedSets ==
  ASSUME NEW q, IsSlot(q), NEW r, r = [q EXCEPT !.unguarded = TRUE]
  PROVE  r.phase = q.phase /\ Same(r, q) /\ r.unguarded /\ r.open = q.open /\ r.passive = q.passive /\ r.raced = q.raced
  BY DEF IsSlot, Same

\* Push and Upsert tell the others, and nothing else does anything to them.
LEMMA DisturbRaces ==
  ASSUME DriftInv, NEW p \in Slots, NEW phase, Disturb(p, phase), NEW q \in Slots, q # p, NEW L, NEW W, NEW M, NEW X,
         Alone(at[q], L, W)
  PROVE  Alone(at'[q], M, X)
  <1>1. PICK x : x = (at[q].raced \/ at[q].phase \in Held)
    OBVIOUS
  <1>2. PICK s, r : s = at[q] /\ r = at'[q]
    OBVIOUS
  <1>3. r = [s EXCEPT !.raced = x] /\ IsSlot(s)
    BY <1>1, <1>2 DEF Disturb, DriftInv, SlotsInv, Held
  <1>4. r.phase = s.phase /\ Same(r, s) /\ r.raced = x
    BY <1>3, RacedSets
  <1>5. CASE s.phase \in Held
    <2>1. r.raced
      BY <1>1, <1>2, <1>4, <1>5
    <2>2. Alone(s, L, W)
      BY <1>2
    <2>3. Alone(r, M, X)
      BY <1>4, <2>1, <2>2 DEF Alone, Same
    <2>4. QED
      BY <1>2, <2>3
  <1>6. CASE s.phase \notin Held
    BY <1>2, <1>4, <1>6, ResetAlone
  <1>7. QED
    BY <1>5, <1>6

LEMMA DisturbOwn ==
  ASSUME DriftInv, NEW p \in Slots, NEW phase, Disturb(p, phase)
  PROVE  at'[p].phase = phase /\ Same(at'[p], at[p]) /\ Reads(at'[p], at[p])
  <1>1. PICK r, s : s = at[p] /\ r = at'[p]
    OBVIOUS
  <1>2. r = [s EXCEPT !.phase = phase] /\ IsSlot(s)
    BY <1>1 DEF Disturb, DriftInv, SlotsInv
  <1>3. r.phase = phase /\ Same(r, s) /\ Reads(r, s)
    BY <1>2, SetPhase, PhaseKeepsReads
  <1>4. QED
    BY <1>1, <1>3

\* Where only slot p moves, and levels and open rows only go.
LEMMA OthersAlone ==
  ASSUME DriftInv, AloneInv, NEW p \in Slots, NEW r, at' = [at EXCEPT ![p] = r],
         Fewer(level, level'), NoneOpened(row, row'), Alone(r, level', row')
  PROVE  AloneInv'
  <1>1. at'[p] = r /\ \A q \in Slots \ {p} : at'[q] = at[q]
    BY DEF DriftInv, SlotsInv
  <1>2. \A q \in Slots \ {p} : Alone(at'[q], level', row')
    BY <1>1, AloneStays DEF AloneInv
  <1>3. PricesInv'
    BY DEF AloneInv, PricesInv, Fewer, Empty
  <1>4. QED
    BY <1>1, <1>2, <1>3 DEF AloneInv

LEMMA BookStands ==
  ASSUME UNCHANGED book
  PROVE  Fewer(level, level') /\ NoneOpened(row, row') /\ level' = level /\ row' = row
  BY DEF book, Fewer, NoneOpened

\* A tick's next row and a desk's answer hold nothing.
LEMMA EndsAlone ==
  ASSUME DriftInv, AloneInv, NEW p \in Slots, Fewer(level, level'), NoneOpened(row, row'),
         at' = [at EXCEPT ![p] = Answered] \/ (at' = [at EXCEPT ![p] = Next1(p)] /\ p \in Ticks)
  PROVE  AloneInv'
  <1>1. Over(p)
    BY EndsOver
  <1>2. PICK r : at' = [at EXCEPT ![p] = r]
    OBVIOUS
  <1>3. at'[p] = r
    BY <1>2 DEF DriftInv, SlotsInv
  <1>4. r.phase \notin Held
    BY <1>1, <1>3 DEF Over, Held
  <1>5. QED
    BY <1>2, <1>4, ResetAlone, OthersAlone

LEMMA RejectsAlone ==
  ASSUME DriftInv, AloneInv, NEW p \in Slots, Fewer(level, level'), NoneOpened(row, row'),
         NEW reason, Reject(p, reason) \/ (Failed(p, reason) /\ p \in Ticks)
  PROVE  AloneInv'
  BY EndsAlone DEF Reject, Failed

\* A phase in which nothing of the book is held.
LEMMA ToAlone ==
  ASSUME DriftInv, AloneInv, NEW p \in Slots, Fewer(level, level'), NoneOpened(row, row'),
         NEW phase, phase \notin Held, To(p, phase)
  PROVE  AloneInv'
  <1>1. PICK r : r = [at[p] EXCEPT !.phase = phase]
    OBVIOUS
  <1>2. at' = [at EXCEPT ![p] = r] /\ r.phase = phase
    BY <1>1, SetPhase DEF To, DriftInv, SlotsInv
  <1>3. QED
    BY <1>2, ResetAlone, OthersAlone

\* SumOpen reads the open base, Guard compares it and looks at the book.
LEMMA SumOpenAlone ==
  ASSUME DriftInv, PlacingInv, AloneInv, NEW p \in Slots, SumOpen(p)
  PROVE  AloneInv'
  <1> DEFINE o == at[p].order
             terms == PlacementTerms(o, Now)
  <1>1. at[p].phase = "placing" /\ Fewer(level, level') /\ NoneOpened(row, row') /\ level' = level /\ row' = row
    BY BookStands DEF SumOpen
  <1>2. CASE \E reason : Reject(p, reason)
    BY <1>1, <1>2, RejectsAlone
  <1>3. CASE at' = [at EXCEPT ![p].phase = "summed", ![p].terms = terms, ![p].open = OpenBase(o)]
    <2>1. PICK k, y, a : k = terms /\ y = OpenBase(o) /\ a = [at[p] EXCEPT !.phase = "summed"]
      OBVIOUS
    <2>2. PICK n : n = [a EXCEPT !.terms = k]
      OBVIOUS
    <2>3. PICK r : r = [n EXCEPT !.open = y]
      OBVIOUS
    <2>4. at' = [at EXCEPT ![p] = r] /\ IsSlot(at[p])
      BY <1>3, <2>1, <2>2, <2>3 DEF DriftInv, SlotsInv
    <2>5. IsSlot(a) /\ a.phase = "summed" /\ Same(a, at[p])
      BY <2>1, <2>4, SetPhase
    <2>6. IsSlot(n) /\ n.phase = "summed" /\ n.order = o /\ n.terms = k
      BY <2>2, <2>5, SetTerms DEF Same
    <2>7. r.phase = "summed" /\ r.order = o /\ r.terms = k /\ r.open = y
      BY <2>3, <2>6, OpenSets DEF Same
    <2>8. o \in Orders
      BY <1>1 DEF PlacingInv, TermsOK, Before, Firing, Fresh
    <2>9. k.size = BaseOf(o) /\ k.ticks \in Nat
      BY <2>1, <2>8, TermsTyped DEF Now, DriftInv, VersionInv
    <2>10. y = OpenOf(row, o) /\ y \in Nat /\ y <= y
      <3>1. OpenBase(o) = OpenOf(row, o)
        BY DEF OpenBase, OpenOf
      <3>2. y \in Nat
        BY <2>1, <3>1, OpenOfTyped
      <3>3. QED
        BY <2>1, <3>1, <3>2
    <2>11. Alone(r, level', row')
      BY <1>1, <2>7, <2>8, <2>9, <2>10 DEF Alone
    <2>12. QED
      BY <1>1, <2>4, <2>11, OthersAlone
  <1>4. QED
    BY <1>2, <1>3 DEF SumOpen

\* Of the slot that goes on from Guard.
LEMMA GuardedAlone ==
  ASSUME AloneInv, NEW p \in Slots, at[p].phase = "summed", NEW r, r.phase = "checked", Same(r, at[p]),
         r.open = at[p].open, r.passive = at[p].passive, r.raced = at[p].raced,
         ~(at[p].passive /\ WouldCross(at[p].terms.side, at[p].terms.ticks)),
         Affords(at[p].open, at[p].terms.size) \/ r.unguarded
  PROVE  Alone(r, level, row)
  <1>1. Alone(at[p], level, row) /\ at[p].terms.ticks \in Nat /\ PricesInv
    BY DEF AloneInv, Alone, Held
  <1>2. PICK terms : terms = at[p].terms
    OBVIOUS
  <1>3. r.passive => Clear(level, terms)
    BY <1>1, <1>2, UncrossedClears
  <1>4. QED
    BY <1>1, <1>2, <1>3 DEF Alone, Held, Same, Affords

LEMMA GuardAlone ==
  ASSUME DriftInv, AloneInv, NEW p \in Slots, Guard(p)
  PROVE  AloneInv'
  <1> DEFINE terms == at[p].terms
             crosses == at[p].passive /\ WouldCross(terms.side, terms.ticks)
  <1>1. at[p].phase = "summed" /\ Fewer(level, level') /\ NoneOpened(row, row') /\ level' = level /\ row' = row /\ IsSlot(at[p])
    BY BookStands DEF Guard, DriftInv, SlotsInv
  <1>2. CASE \E reason : Reject(p, reason)
    BY <1>1, <1>2, RejectsAlone
  <1>3. PICK r : r = [at[p] EXCEPT !.phase = "checked"]
    OBVIOUS
  <1>4. r.phase = "checked" /\ Same(r, at[p]) /\ Reads(r, at[p]) /\ IsSlot(r)
    BY <1>1, <1>3, SetPhase, PhaseKeepsReads
  <1>5. CASE Affords(at[p].open, terms.size) /\ ~crosses /\ To(p, "checked")
    <2>1. at' = [at EXCEPT ![p] = r]
      BY <1>3, <1>5 DEF To, DriftInv, SlotsInv
    <2>2. Alone(r, level, row)
      BY <1>1, <1>4, <1>5, GuardedAlone DEF Reads
    <2>3. QED
      BY <1>1, <2>1, <2>2, OthersAlone
  <1>6. CASE ~crosses /\ at' = [at EXCEPT ![p].phase = "checked", ![p].unguarded = TRUE]
    <2>1. PICK n : n = [r EXCEPT !.unguarded = TRUE]
      OBVIOUS
    <2>2. at' = [at EXCEPT ![p] = n]
      BY <1>3, <1>6, <2>1 DEF DriftInv, SlotsInv
    <2>3. n.phase = "checked" /\ Same(n, r) /\ n.unguarded /\ n.open = r.open /\ n.passive = r.passive /\ n.raced = r.raced
      BY <1>4, <2>1, UnguardedSets
    <2>4. Same(n, at[p]) /\ n.open = at[p].open /\ n.passive = at[p].passive /\ n.raced = at[p].raced
      BY <1>4, <2>3 DEF Same, Reads
    <2>5. Alone(n, level, row)
      BY <1>1, <1>6, <2>3, <2>4, GuardedAlone
    <2>6. QED
      BY <1>1, <2>2, <2>5, OthersAlone
  <1>7. QED
    BY <1>2, <1>5, <1>6 DEF Guard

\* The level, and then the row, of one placement race all others.
LEMMA PushAlone ==
  ASSUME DriftInv, PlacingInv, AloneInv, NEW p \in Slots, Push(p)
  PROVE  AloneInv'
  <1> DEFINE o == at[p].order
             terms == at[p].terms
  <1>1. CASE UNCHANGED book /\ Reject(p, "rules")
    BY <1>1, BookStands, RejectsAlone
  <1>2. CASE /\ level' = [level EXCEPT ![o] = LevelOf(terms)]
             /\ row' = [row EXCEPT ![o] = IF level[o] = Empty THEN @ ELSE "CANCELLED"]
             /\ Disturb(p, "pushed")
    <2>1. at[p].phase = "checked" /\ Alone(at[p], level, row) /\ terms.ticks \in Nat /\ o \in Orders
      BY DEF Push, AloneInv, Alone, Held
    <2>2. PricesInv'
      <3>1. \A x \in Orders : level'[x] = level[x] \/ level'[x].ticks = terms.ticks
        BY <1>2, <2>1 DEF PlacingInv, BookInv, LevelOf
      <3>2. QED
        BY <2>1, <3>1 DEF AloneInv, PricesInv
    <2>3. NoneOpened(row, row') /\ Fewer(level, level)
      BY <1>2, <2>1 DEF NoneOpened, Fewer, PlacingInv, BookInv
    <2>4. \A q \in Slots \ {p} : Alone(at'[q], level', row')
      BY <1>2, DisturbRaces DEF AloneInv
    <2>5. Alone(at'[p], level', row')
      <3>1. at'[p].phase = "pushed" /\ Same(at'[p], at[p]) /\ Reads(at'[p], at[p])
        BY <1>2, DisturbOwn
      <3>2. Alone(at[p], level, row')
        BY <2>1, <2>3, AloneStays
      <3>3. QED
        BY <2>1, <3>1, <3>2 DEF Alone, Held, Same, Reads
    <2>6. QED
      BY <2>2, <2>4, <2>5 DEF AloneInv
  <1>3. QED
    BY <1>1, <1>2 DEF Push

LEMMA UpsertAlone ==
  ASSUME DriftInv, AloneInv, NEW p \in Slots, Upsert(p)
  PROVE  AloneInv'
  <1>1. level' = level /\ Disturb(p, "stored")
    BY DEF Upsert
  <1>2. \A q \in Slots \ {p} : Alone(at'[q], level', row')
    BY <1>1, DisturbRaces DEF AloneInv
  <1>3. at'[p].phase \notin Held
    BY <1>1, DisturbOwn DEF Held
  <1>4. Alone(at'[p], level', row')
    BY <1>3, ResetAlone
  <1>5. QED
    BY <1>1, <1>2, <1>4 DEF AloneInv, PricesInv

LEMMA PlaceAlone ==
  ASSUME DriftInv, PlacingInv, AloneInv, NEW p \in Slots, Place(p)
  PROVE  AloneInv'
  <1>1. CASE UpsertFails(p)
    BY <1>1, BookStands, RejectsAlone DEF UpsertFails
  <1>2. CASE Attach(p)
    <2>1. Fewer(level, level') /\ NoneOpened(row, row')
      BY <1>2, BookStands DEF Attach
    <2>2. (p \in Ticks /\ To(p, "placed")) \/ at' = [at EXCEPT ![p] = Answered]
      BY <1>2 DEF Attach
    <2>3. "placed" \notin Held
      BY DEF Held
    <2>4. QED
      BY <2>1, <2>2, <2>3, EndsAlone, ToAlone
  <1>3. CASE AttachFails(p)
    <2>1. Fewer(level, level') /\ NoneOpened(row, row')
      BY <1>3 DEF AttachFails, RolledBack, Fewer, NoneOpened, PlacingInv, BookInv
    <2>2. QED
      BY <1>3, <2>1, RejectsAlone DEF AttachFails
  <1>4. QED
    BY <1>1, <1>2, <1>3, SumOpenAlone, GuardAlone, PushAlone, UpsertAlone DEF Place

LEMMA TickAlone ==
  ASSUME DriftInv, AloneInv, NEW t \in Ticks,
         Load(t) \/ Quiet(t) \/ Latch(t) \/ ContextFails(t) \/ Validate(t) \/ CheckFloor(t) \/ MarkPlaced(t) \/ MarkFails(t)
  PROVE  AloneInv'
  <1>1. t \in Slots
    BY DEF Slots
  <1>2. Fewer(level, level') /\ NoneOpened(row, row')
    BY BookStands DEF Load, Quiet, Latch, ContextFails, Validate, CheckFloor, MarkPlaced, MarkFails
  <1>3. CASE Quiet(t) \/ ContextFails(t) \/ MarkPlaced(t) \/ (Latch(t) /\ status[Row(t)] \notin LatchFrom)
    <2>1. at' = [at EXCEPT ![t] = Next1(t)]
      BY <1>3 DEF Quiet, ContextFails, MarkPlaced, Latch
    <2>2. QED
      BY <1>1, <1>2, <2>1, EndsAlone
  <1>4. CASE \E reason : Failed(t, reason)
    BY <1>1, <1>2, <1>4, RejectsAlone
  <1>5. CASE To(t, "latched") \/ To(t, "placing")
    <2>1. "latched" \notin Held /\ "placing" \notin Held
      BY DEF Held
    <2>2. QED
      BY <1>1, <1>2, <1>5, <2>1, ToAlone
  <1>6. CASE \E r : at' = [at EXCEPT ![t] = r]
    <2>1. PICK r : at' = [at EXCEPT ![t] = r]
      BY <1>6
    <2>2. at'[t] = r
      BY <1>1, <2>1 DEF DriftInv, SlotsInv
    <2>3. CASE r.phase \notin Held
      BY <1>1, <1>2, <2>1, <2>3, ResetAlone, OthersAlone
    <2>4. CASE r.phase \in Held
      <3>1. Moved(t)
        BY TickMoves
      <3>2. at[t].phase \in {"placing", "summed", "checked"}
        BY <2>2, <2>4, <3>1 DEF Moved, Over, Onward, Held
      <3>3. QED
        BY <3>2 DEF Load, Quiet, Latch, ContextFails, Validate, CheckFloor, MarkPlaced, MarkFails
    <2>5. QED
      BY <2>3, <2>4
  <1>7. CASE Load(t) \/ Validate(t)
    <2>1. (\E s : at' = [at EXCEPT ![t] = [Off EXCEPT !.phase = "scanning", !.todo = s]]) \/ (\E reason : Failed(t, reason))
          \/ at' = [at EXCEPT ![t].phase = "validated", ![t].order = body[Row(t)].order, ![t].passive = TRUE]
      BY <1>7 DEF Load, Validate
    <2>2. QED
      BY <1>4, <1>6, <2>1
  <1>8. QED
    BY <1>3, <1>4, <1>5, <1>7 DEF Latch, CheckFloor, MarkFails

LEMMA PostAlone ==
  ASSUME DriftInv, AloneInv, NEW d \in Desks, Post(d)
  PROVE  AloneInv'
  <1>1. PICK r : at' = [at EXCEPT ![d] = r]
    BY DEF Post
  <1>2. at[d].phase = "off" /\ d \in Slots /\ Fewer(level, level') /\ NoneOpened(row, row')
    BY BookStands DEF Post, Slots
  <1>3. at'[d] = r
    BY <1>1, <1>2 DEF DriftInv, SlotsInv
  <1>4. r.phase \notin Held
    BY <1>2, <1>3, PostMoves DEF Moved, Over, Onward, Held
  <1>5. QED
    BY <1>1, <1>2, <1>4, ResetAlone, OthersAlone

\* Cancels and floors take levels and rows away.
LEMMA RestAlone ==
  ASSUME DriftInv, PlacingInv, AloneInv,
         (\E i \in Intents : Intake(i)) \/ ChangeRules \/ RaiseFloor \/ (\E o \in Orders : Withdraw(o)) \/ UNCHANGED vars
  PROVE  AloneInv' /\ at' = at
  <1>1. at' = at
    BY DEF Intake, Check, Insert, Cancel, PassExpiry, Sweep, ChangeRules, RaiseFloor, Withdraw, vars
  <1>2. Fewer(level, level') /\ NoneOpened(row, row')
    <2>1. CASE UNCHANGED book
      BY <2>1, BookStands
    <2>2. CASE RaiseFloor \/ (\E o \in Orders : Withdraw(o))
      BY <2>2 DEF RaiseFloor, Withdraw, Fewer, NoneOpened, PlacingInv, BookInv
    <2>3. QED
      BY <2>1, <2>2 DEF Intake, Check, Insert, Cancel, PassExpiry, Sweep, ChangeRules, vars
  <1>3. \A p \in Slots : Alone(at[p], level', row')
    BY <1>2, AloneStays DEF AloneInv
  <1>4. PricesInv'
    BY <1>2 DEF AloneInv, PricesInv, Fewer, Empty
  <1>5. QED
    BY <1>1, <1>3, <1>4 DEF AloneInv

LEMMA AloneInvariant == Spec => []AloneInv
  <1>1. Init => AloneInv
    <2> SUFFICES ASSUME Init PROVE AloneInv
      OBVIOUS
    <2>1. Off.phase \notin Held
      BY DEF Off, Held
    <2>2. \A p \in Slots : Alone(at[p], level, row)
      BY <2>1, ResetAlone DEF Init
    <2>3. PricesInv
      <3>1. version = 1 /\ 1 \in 1..Len(Rules)
        BY RulesAssumption, EmptySeq DEF Init
      <3>2. \A o \in Orders : PlacementTerms(o, Now).ticks \in Nat
        BY <3>1, TermsTyped DEF Now
      <3>3. QED
        BY <3>2 DEF Init, PricesInv, LevelOf, Empty
    <2>4. QED
      BY <2>2, <2>3 DEF AloneInv
  <1>2. DriftInv /\ PlacingInv /\ AloneInv /\ [Next]_vars => AloneInv'
    <2> SUFFICES ASSUME DriftInv, PlacingInv, AloneInv, [Next]_vars PROVE AloneInv'
      OBVIOUS
    <2>1. ASSUME NEW t \in Ticks, Load(t) \/ Tick(t) PROVE AloneInv'
      BY <2>1, TickAlone, PlaceAlone DEF Tick, Fire, Slots
    <2>2. ASSUME NEW d \in Desks, Desk(d) PROVE AloneInv'
      BY <2>2, PostAlone, PlaceAlone DEF Desk, Slots
    <2>3. QED
      BY <2>1, <2>2, RestAlone DEF Next
  <1>3. QED
    BY <1>1, <1>2, DriftInvariant, PlacingInvariant, PTL DEF Spec

\* What a step of a placement that nothing disturbed may not do.
PlacedFree(p) ==
  ~at[p].raced =>
    /\ Pushes(p) /\ at[p].passive => Uncrossed(at[p].terms)
    /\ Stores(p) /\ ~at[p].unguarded => OpenOf(row', at'[p].order) <= Balance

LEMMA UpsertFree ==
  ASSUME DriftInv, PlacingInv, AloneInv, NEW p \in Slots, Upsert(p), ~at[p].raced, ~at[p].unguarded
  PROVE  OpenOf(row', at'[p].order) <= Balance
  <1>1. PICK o : o = at[p].order
    OBVIOUS
  <1>2. at'[p].order = o /\ at[p].phase = "pushed" /\ row' = [row EXCEPT ![o] = "PLACED"]
    BY <1>1, DisturbOwn DEF Upsert, Same
  <1>3. Alone(at[p], level, row)
    BY DEF AloneInv
  <1>4. /\ o \in Orders /\ at[p].terms.size = BaseOf(o) /\ at[p].open \in Nat
        /\ OpenOf(row, o) <= at[p].open /\ at[p].open + BaseOf(o) <= Balance
    BY <1>1, <1>2, <1>3 DEF Alone, Held
  <1>5. \A x \in Orders \ {o} : row'[x] = row[x]
    BY <1>2 DEF PlacingInv, BookInv
  <1>6. OpenOf(row', o) <= OpenOf(row, o) + BaseOf(o)
    BY <1>4, <1>5, OpenGrows
  <1>7. OpenOf(row', o) \in Nat /\ OpenOf(row, o) \in Nat /\ BaseOf(o) \in Nat /\ Balance \in Nat
    BY <1>4, OpenOfTyped, BasesAreAmounts, NumbersAssumption
  <1>8. OpenOf(row', o) <= Balance
    BY <1>4, <1>6, <1>7
  <1>9. QED
    BY <1>2, <1>8

\* A row becomes stored by its own upsert only.
LEMMA StoredByUpsert ==
  ASSUME DriftInv, [Next]_vars, NEW p \in Slots, Stores(p)
  PROVE  Upsert(p)
  <1>1. at[p].phase = "pushed" /\ at'[p].phase = "stored"
    BY DEF Stores
  <1>2. ASSUME NEW q \in Slots, (q \in Ticks /\ (Load(q) \/ Tick(q))) \/ (q \in Desks /\ Desk(q)) PROVE Upsert(p)
    <2>1. Moved(q)
      BY <1>2, TickMoves, PostMoves, PlaceMoves DEF Tick, Fire, Desk
    <2>2. p = q
      BY <1>1, <2>1 DEF Moved, Alike
    <2>3. Place(p)
      BY <1>1, <1>2, <2>2 DEF Load, Tick, Quiet, Fire, Latch, ContextFails, Validate, CheckFloor, MarkPlaced, MarkFails, Desk, Post
    <2>4. Upsert(p) \/ UpsertFails(p)
      BY <1>1, <2>3 DEF Place, SumOpen, Guard, Push, Attach, AttachFails
    <2>5. UpsertFails(p) => Over(p)
      BY RejectsOver DEF UpsertFails
    <2>6. QED
      BY <1>1, <2>4, <2>5 DEF Over
  <1>3. (\E i \in Intents : Intake(i)) \/ ChangeRules \/ RaiseFloor \/ (\E o \in Orders : Withdraw(o)) \/ UNCHANGED vars => at' = at
    BY DEF Intake, Check, Insert, Cancel, PassExpiry, Sweep, ChangeRules, RaiseFloor, Withdraw, vars
  <1>4. QED
    BY <1>1, <1>2, <1>3 DEF Next, Slots

\* A placement that nothing disturbed keeps what its checks were for: a passive
\* order does not join a book it crosses, and its maker's open base is covered,
\* though both were read before awaits.
THEOREM ChecksHoldAlone == Spec => PlacedAlone
  <1>1. DriftInv /\ PlacingInv /\ AloneInv /\ [Next]_vars => \A p \in Slots : PlacedFree(p)
    <2> SUFFICES ASSUME DriftInv, PlacingInv, AloneInv, [Next]_vars, NEW p \in Slots, ~at[p].raced
                 PROVE  /\ Pushes(p) /\ at[p].passive => Uncrossed(at[p].terms)
                        /\ Stores(p) /\ ~at[p].unguarded => OpenOf(row', at'[p].order) <= Balance
      BY DEF PlacedFree
    <2>1. ASSUME Pushes(p), at[p].passive PROVE Uncrossed(at[p].terms)
      <3>1. Clear(level, at[p].terms)
        BY <2>1 DEF AloneInv, Alone, Pushes
      <3>2. QED
        BY <3>1 DEF Clear, Uncrossed, Resting
    <2>2. QED
      BY <2>1, UpsertFree, StoredByUpsert
  <1>2. (\A p \in Slots : PlacedFree(p)) =>
          \A p \in Slots : ~at[p].raced =>
            /\ Pushes(p) /\ at[p].passive => Uncrossed(at[p].terms)
            /\ Stores(p) /\ ~at[p].unguarded => (OpenBase(at[p].order) <= Balance)'
    BY DEF PlacedFree, OpenBase, OpenOf
  <1>3. QED
    BY <1>1, <1>2, DriftInvariant, PlacingInvariant, AloneInvariant, PTL DEF PlacedAlone, Spec
=============================================================================
