--------------------------- MODULE MCMarketOrder ---------------------------
EXTENDS MarketOrder, TLC

CONSTANTS c1, c2
MCSymmetry == Permutations({c1, c2})

Offer(name, side, ticks, size, ts) == [name |-> name, side |-> side, ticks |-> ticks, size |-> size, ts |-> ts]
Near == Offer("near", "SELL", 10, 1, 1)
Same == Offer("same", "SELL", 10, 1, 2)
Far  == Offer("far", "SELL", 20, 1, 3)
Bid  == Offer("bid", "BUY", 9, 2, 4)
MCOffers == {Near, Same, Far, Bid}
MCLater == {Same}
MCContested == {Near}
\* A chain with batches and no watcher; a watcher and no batches.
MCDeployments == {[batch |-> TRUE, chainWatcher |-> FALSE, fillWatcher |-> "unset"],
                  [batch |-> FALSE, chainWatcher |-> TRUE, fillWatcher |-> "unset"]}
=============================================================================
