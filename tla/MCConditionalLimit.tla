------------------------- MODULE MCConditionalLimit -------------------------
EXTENDS ConditionalLimit

CONSTANTS i1, i2, t1, t2, d1

\* The grid changes: 15 is on both, and another number of ticks on each; 10 is
\* off the new one, and its order too small for the new minimum.
MCRules == <<[tick |-> 5, minSize |-> 10, minNotional |-> 10], [tick |-> 3, minSize |-> 10, minNotional |-> 15]>>

Form(side, size, price, trigger, salt) ==
  [maker |-> "m", side |-> side, size |-> size, price |-> price, trigger |-> trigger, ttl |-> 3, salt |-> salt]
Buy  == BuiltBody(Form("BUY", 10, 15, 25, 0), TRUE, MCRules[1])
\* Typed on the grid, but its quote amount is truncated: refused at create.
Cut  == BuiltBody(Form("BUY", 21, 5, 20, 0), TRUE, MCRules[1])
\* The same order declared under the second rules, by a client that buys when the
\* ask is at its trigger or above.
Above == [BuiltBody(Form("BUY", 10, 15, 15, 0), TRUE, MCRules[2]) EXCEPT !.type = "PRICE_ABOVE"]
\* Another: the order dies with the intent.
Short == [Buy EXCEPT !.order.expiry = 3, !.hash.expiry = 3]
Ask(price) == BuiltOrder(Form("SELL", 10, price, price, 1), TRUE)

MCForms == {Form(side, size, price, 30, 0) : side \in {"BUY", "SELL"}, size \in 8..42, price \in 1..42}
MCBodies == {Buy, Above, Cut, Short}
\* The last one pays no fee.
MCDeskOrders == {Ask(25), Ask(10), [Ask(10) EXCEPT !.feeMeetsPolicy = FALSE]}
MCRested == {Ask(25)}
=============================================================================
