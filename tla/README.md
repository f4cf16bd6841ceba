# STE in TLA+

TLA+ models, TLC runs and TLAPS proofs for STE: an off-chain limit order book
over the 0x exchange proxy, with SEA, the layer that turns a user's *intents*
(conditional limits, conditional market orders) into orders and fills. The
reference is the code of the repository: `apps/api/src`, and the parts of
`apps/web/src` whose state meets the server's (executing an intent, delegating
one, the conditional form, the market-order panel, the live book).
`PROJECT.json` maps every definition that models code to the lines it models,
and lists runs, mutants, hazards, findings and theorems.

* [Inventory](#inventory) · [Hard behaviours](#hard-behaviours)
* [Modules](#modules) · [Runs and bounds](#runs-and-bounds) · [Fairness](#fairness)
* [Findings](#findings) · [Proofs](#proofs)
* [Not modelled](#not-modelled) · [Plan](#plan) · [How to run](#how-to-run)

## Inventory

The API is one Node.js process (NestJS): a single thread, many async handlers.
HTTP handlers, `setInterval` timers and on-chain watchers interleave at every
`await`; Postgres (through Prisma) and the in-memory book are what they share.
There are no transactions spanning two statements in the parts described here;
the only atomic unit is one UPDATE, and its WHERE clause is the only guard that
is still true when it takes effect.

| Component | State it keeps | Operations | Talks to |
|---|---|---|---|
| **Intent table** (`sea/intent.repository.ts`, `schema.prisma`) | `status`, `preparedQuoteAt`, `walletLockUntilAt`, `linkedTxHash`, cooldown, `updatedAt` | one compound-WHERE update per edge: `markReady`, `rearmFromReady`, `markExecuting`, `markExecuted`, `markFailed…`, `markExpired…`, `transitionStatus`, `expireDueIntents`, `sweepStaleExecuting` | written by all of SEA |
| **CMR execution handshake** (`intent.service.ts`, `sea.controller.ts`, the web row) | lock end and snapshot in the row; the token is an HMAC over both; the browser holds token and lock end | `fresh-quote`, `wallet-lock`, wallet signature and broadcast, `executing` marker with two fast paths (Trade found, receipt reverted), `cancel` | Intent table, Trade table, chain |
| **Intent monitor** (`intent-monitor.service.ts`, `cmr-prepare.service.ts`) | nothing between ticks; a tick carries the rows it loaded | tick: prepare ACTIVE rows, expire / keep / re-arm READY rows; fire conditional limits | Intent table, quotes |
| **Intent sweepers** | timers | expire ACTIVE rows past their expiry; fail EXECUTING rows that are stale (off by default) | Intent table |
| **FillWatcher** (`onchain/fill-watcher.service.ts`) | persisted block cursor, in-memory `seen` set, cooldown | scan blocks, revert guard, `addTrade`, `applyExternalFill`, reconcile the intent | chain, book, Trade, Intent |
| **CancelWatcher and pair floors** | cursor, dedup set, floors per maker and pair | scan blocks, single cancels, `cancelPair` floors | chain, book, validator |
| **Order book** (`matching/orderbook.service.ts`) | price levels per market, each with the size left and an expiry | `place`, `cancel`, `attachRaw`, `applyExternalFill`, `sweepExpired`, `hydrateLevel`, `quote` | Order table |
| **Order table** (`matching/persistence.repository.ts`) | `status`, `remainingBase`, the signed order | `upsertOrderPlaced`, `cancelOrder`, `expireOrder`, `decreaseOrderRemaining`, `attachRawToOrder`, `listPlacedBySymbol` | – |
| **Placement, rehydration, order expiry** | – | place with a rollback; rebuild the book at start; sweep expired levels every few seconds | book, Order table |
| **Conditional-limit fire** (`intent-fire.service.ts`) | the TRIGGERED latch in the row | latch, place, mark PLACED or FAILED | Intent table, placement |
| **Delegated executor** (`sea/delegated/`) | grants; EXECUTING as a claim | find executable, claim, submit a userOp, mark outcome, reconcile the fill; grant, revoke | Intent table, bundler, book |
| **Quotes and match endpoint** (`public/match.controller.ts`) | – | `/match/quote`: sweep of the book and its gates; `/match/apply` | book |
| **Market-order panel** (`useMarketOrder.ts`, `TradePanel.tsx`) | inputs, plan, allowance, the operation under way | quote, check gas, approve, execute, apply; drop the plan when an input changes | match endpoint, wallet, chain |
| **Intent validation** (`intent-validator.service.ts`) | – | at create and again at fire: amounts against the declared terms, signer, expiry, known hashes, live duplicates, pair floor | Order, Intent, floors |
| **Conditional form** (`ConditionalTab.tsx`, `useSeaCreate.ts`, `useOrderSigning.ts`) | – | checks what was typed, derives and signs the 0x order | validation |
| **Delegation panel** (`useDelegatedGrant.ts`, `delegatedPending.ts`, `IntentsPanel.tsx`) | pending markers in localStorage, the grants last fetched | authorize, resume, return to manual, revoke; which actions a row offers | delegated executor |
| **WebSocket gateway** (`public/public.ws.ts`) and its client (`lib/ws.ts`, the market page) | rooms and reference counts per symbol; the book a page shows | subscribe, unsubscribe, disconnect, broadcast; resubscribe on reconnect | Order table |
| **0x builders, signing, AI assist, config, metrics, tables and charts** | – | stateless | – |

What makes each of the stateful ones correct:

* *Intent table*: only the edges of the state machine are taken, a settlement
  hash is never replaced, and EXECUTED always has one.
* *Handshake*: a live lock is not replaced; an old token never verifies against
  a new snapshot; the outcome in the row is the outcome on the chain; a marked
  row is eventually closed.
* *Monitor and sweepers*: READY and a snapshot go together; cooldowns are kept;
  no intent outlives its expiry.
* *Watchers*: every fill and cancel is applied, a fill once; the cursor never
  passes a block that was not handled; the floor never falls; both catch up.
* *Book and Order table*: the row counts every fill; no open order lacks its
  level, no level its row; a passive order does not cross, and a maker's open
  base stays within the balance.
* *Validation and fire*: what the form accepts the validator accepts; what was
  accepted at create is refused at fire only for what changed since; what rests
  is what the owner signed for; every live intent settles.
* *Delegated executor*: EXECUTED stands for a full fill; only the caller that
  closed the row reconciles it; a session fills an intent at most once; a
  revoked grant is not used; a row being delegated is not offered by hand.
* *Quotes and panel*: the sweep is the best one; a plan belongs to the inputs
  shown; no plan is paid twice; a fill leaves the book once.
* *WebSocket*: a symbol's count is never below its subscribers; a page that
  stays comes to show its market's book.

## Hard behaviours

`PROJECT.json` lists them one by one, at their lines, with the properties that
cover them. Where the code does go wrong, a property of what it is meant to keep
has that case as its exception; the hazard's note then says what the property
still demands, and a hazard that lies wholly inside an exception names none. The
families:

* **Check, await, write.** A handler checks a row it has read, awaits, and then
  updates with a WHERE that repeats only part of the check: `lockWallet`
  repeats status and snapshot but not the lock, `rearmFromReady` only the
  status, `cancelOrder`, `expireOrder` and `decreaseOrderRemaining` nothing.
* **Two recorders of one fact.** The marker and the FillWatcher both learn of a
  fill, in either order, and each relies on the other to have written first or
  to come later.
* **Book before row.** Every change of an order changes memory first and awaits
  the database; another handler runs in between.
* **Restart.** The book, `seen`, ticks and in-flight handlers are lost; cursors,
  rows and the browser's token are not.
* **Fail-open.** An unreadable receipt counts as success, a receipt that takes
  longer than 500 ms counts as absent, a reconciler's error is swallowed.
* **Overlap.** `setInterval` does not wait for the previous tick of the monitor,
  the CancelWatcher or the broadcast loop (the FillWatcher and the delegated
  executor guard against it).
* **Late answers.** A browser's setter runs after its await whatever the user
  has done meanwhile: a quote lands on a panel that shows other inputs.
* **Drift.** Market rules, pair floors and other orders change between an
  intent's creation and its fire.

## Modules

| Module | Role |
|---|---|
| `IntentLifecycle` | Abstract specification: what the backend promises of `status` and `linkedTxHash`, whoever writes them. |
| `CmrLifecycle` | The handshake, the monitor's CMR branch, both intent sweepers and the FillWatcher's reconciliation of intents, interleaved. Implements `IntentLifecycle` (`RefinesLifecycle`). |
| `CmrLifecycle_proofs` | Its theorems. |
| `DelegatedExecution` | Authorization and revocation, the worker with every outcome of the provider, the panel's choice between delegated and manual, and a manual execution beside them. Implements `IntentLifecycle`. |
| `DelegatedExecution_proofs` | Its theorems. |
| `OrderLedger` | An order as book levels and as a row: placement with its rollback, cancel, expiry, external fills, restart and rehydration. |
| `OrderLedger_proofs` | Its theorems. |
| `OrderTerms` | Pure operators: the amounts of a 0x order as the browser derives them, size and price as the validator and the placement derive them back. |
| `ConditionalLimit` | A conditional limit from its creation to the order it places: validation twice, the monitor's CL branch, the fire, and the placement's guards, which `POST /orders` shares. Uses `OrderTerms`. |
| `ConditionalLimit_proofs` | Its theorems, and those about `OrderTerms`: that its derivations agree, for every size, price and market. |
| `Watchers` | FillWatcher and CancelWatcher as scans: boot, cursor, batches, cooldown, overlap, `seen`, errors, restarts, pair floors. |
| `Watchers_proofs` | Its theorems. |
| `MarketOrder` | Quote, plan, approval, execution and settlement of a market order. |
| `MarketOrder_proofs` | Its theorems. |
| `Sums` | Sums of amounts over fills, which `OrderLedger` and `MarketOrder` share. |
| `Sums_proofs` | What sums do, and the inductions over numbers that both proof modules need. |
| `MarketFeed` | The book over Socket.IO: client, gateway, broadcast loop. |
| `MarketFeed_proofs` | Its theorems. |
| `MC*` | Their instances for TLC. |

The modules meet where one component's write is another's environment:
`IntentLifecycle` is the contract that `CmrLifecycle` and `DelegatedExecution`
both implement, so neither needs the other's detail; the fills that `Watchers`
delivers at least once are the repeated deliveries of `OrderLedger`; the floor
that `Watchers` keeps is what `ConditionalLimit` compares with.

### CmrLifecycle

A step is what a handler does between two awaits that others can observe. A
read followed by local computation and an update whose WHERE repeats everything
that was read is a single step; when the WHERE repeats less, read and write are
two steps and the model has to live with what happens between.

* The row: `status`, `prepared` (`preparedQuoteAt`), `lock`
  (`walletLockUntilAt`), `link`, `cooldown`, `since` (`updatedAt` of the
  execution states). A NULL date is `NoTime`.
* A session is one run of the browser's Execute flow, and it names the
  transaction it may broadcast. The pair (`nonce`, `until`) is the token: the
  HMAC binds snapshot and lock end, so a session holds a valid token exactly
  when both equal the row's. `pc` follows the stages of `orchestrate` and
  `onConfirmClick`; `tradeCheck` and `receipt` are the two lookups of
  `markExecuting`.
* A tick keeps the clock reading, locks and snapshots it loaded, because
  `tickCMRReady` decides on those for the whole loop; the cooldowns it found are
  kept for `CooldownRespected` only. Ticks may overlap.
* The watcher's `watch[s]`: `unseen`, `recorded` (Trade added, intent not yet
  reconciled), `seen`, or `missed` (an error kept it out of `seen`). `settled`
  is what the persisted cursor has passed.
* Quotes are nondeterministic: an ACTIVE row whose turn comes is prepared,
  postponed or skipped. The chain mines a pending transaction with either outcome.

Left out: several markets and owners (each lookup is by row or by hash, owner
and market of the same intent), the FillWatcher's scan (in `Watchers`), and the
content of quotes.

### DelegatedExecution

* `grant` is the row of `DelegationGrant`, `born` the order of
  `createdAt`.
  `auth` is the stage of `useDelegatedGrant`, of which the toggle and the pending
  row have one each (`Panels`): the row offers resume and "Return to manual" while
  the toggle's attempt is under way. `posted` are finalize requests
  that survive a reload of the tab. Policy is checked at prepare and again at
  finalize, and the row may move between (`PrepareGrant`, `Finalize`).
* `work` is the worker's tick: the batch `findExecutable` returned, the row in
  hand and the stage of `processOne`. One catch in the provider covers both "not
  sent" and "sent, but no receipt"; `SubmitRejected` is enabled in both.
* `seen` is the grants map the panel last fetched, `pending` the localStorage
  markers; together they decide what a row offers (`PendingRow`, `ManualRow`), and
  `Shown` tells a grant that can be revoked from one that is over. "Start over" of
  the toggle clears the marker that "Return to manual" clears, and is taken with it. The manual
  execution is the skeleton of `CmrLifecycle`: lock, send, mark, watch.
* Moments are abstracted (an expiry passes, a lock lapses, a row becomes stale
  at any time), and so is what quote and policy say.

### ConditionalLimit and OrderTerms

* Orders are records of amounts; an order stands for its hash. All amounts are
  integers and divisions truncate, as the code's bigints do. Time is in units of
  60 s where the code compares seconds (`Buffer` 2 is the form's 120 s, `Grace` 1
  the validator's 60 s); a signature is the equality of signer and owner.
* `at[p]` is what a tick or a request is doing; the reads a handler makes back
  to back are one step (noted in the module), the write that follows is another.
* `Fires` goes by the row's own reference and type: the browser declares the
  natural pair (`NaturalReference`, `NaturalType`), but the validator restricts
  only conditional market orders to it, so a body of another pair is accepted too.
* Of the placement's guards a transient RPC error skips the balance; any other
  error, and a blocking shadow check, reject the order.
* `drifted` holds the intents refused at fire for integrity or price, `orphans`
  those whose `markPlaced` threw, `stuck` those whose market lookup threw,
  `ghosts` the orders whose upsert threw: the failures that the code does not
  repair are visible in the properties as their exceptions.

### Watchers

* One module for both, since they share boot, cursor, batches and cooldown code
  for code; `on` says which runs. They share no state, so they are not composed.
* A block is a sequence of transactions. `tick[s]` walks a scan; the CancelWatcher
  may have two; `todo` are positions in the block. `handled`, `dropped` and
  `excused` are history for the properties.

### MarketOrder

* One tick is one unit of quote. `job` is what `busy` stands for; a gas check
  has no `busy`, so its requests (`check`) live beside it, and several may be
  under way. Plans carry the inputs they were asked for (`for`), their fills, and whether the inputs moved in
  flight (`late`); which transactions that makes depends on the exchange.
* `RouteLimit` is the end of `onPlaceLimit`: side and price are those of the
  click, the book, the wallet and the user's confirmation were awaited since, and
  inputs and mode may have moved when the setters run.
* `Sweep` is the loop of `OrderBookService.quote`, a recursive function over the
  positions of the queue; `Queue` is the other side of the book in its order.
* `level` is the book's size, `left` what the exchange would still fill,
  `credits` how often a fill was taken out of the book. `env` is the deployment.

### MarketFeed

* `pending[c]` are the messages of a client in the order sent; a handler may
  finish out of that order, as each awaits the symbol first. `Socket(c)` changes
  with each connection, and the old socket's disconnect may be noticed late.
* `shown[c]` is the book on the page and whether it is still the market's. A read
  that fails leaves the page without a book.
* The page passes over a snapshot whose `ts` is earlier than the last it showed.
  No step of the model does, since none can be: `ts` is taken at the emit and a
  socket keeps the order of its emits, and after the page's own read the last
  `ts` is 0, as `getOrderbook` looks for it beside `l2` and the API puts it inside.

### OrderLedger

* `book[o]` is the sequence of level objects with hash `o`, oldest first; there
  may be two, since two placements of one hash may interleave. A level object is
  named by what creates it (a placement, a fill that finds no level, a pass of
  the rehydrator), as a handler may keep a reference to an object that has left
  the book: `applyExternalFill` looks at its `sizeBase` after the await. Amounts
  are summed unit by unit (`Sum` of `Sums`), as a cardinality, which the provers
  can count.
* `overdrawn` is history: the orders of which a fill was measured by a row that
  redelivery had taken below zero.
* `pc[p]` walks `OrdersPlacementService.place` and `OrderBookService.place`:
  clear the hash, write that cancel, push, upsert, attach, save, or roll back.
* `stage[f]`, `work[f]` walk `applyExternalFill` on both of its paths: level in
  memory, or row only (`looking`, `reading`).
* A restart loses book and handlers. `LobRehydratorService` is a provider of
  both `MatchingModule` and `AppModule`, so it runs twice: alone, and once more
  beside the watchers' timers, when it can put back a level from a row it read
  before a fill. `boot` has both passes.
* Fills are delivered again after a restart if the FillWatcher's cursor had not
  passed them, whether or not they were applied; the delegated reconciler does
  not repeat them. The exchange never fills an order beyond its size
  (`ChainAssumption`).

Assumed: the database answers. Of the writes only the one the code rolls back
(`attachRawToOrder`) may fail. A fill reaches an order the table knows (the
signed order is handed out only once it was placed). The rehydrator's
`hydrateLevel` and `attachRaw` of one order are a single step, and so are the
updates of two overlapping expiry sweeps of one row.

## Runs and bounds

Deadlock checking is off: a system with bounded clock, sessions, fills and
crashes stops when they are used up.

| Run | Instance | States | Shows |
|---|---|---|---|
| `CmrTwoSessions` | one intent, two sessions, one tick, no faults | 2.1 M | `TypeOK`, `SnapshotIffReady`, `OutcomeMatchesChain`, and that the model implements `IntentLifecycle` |
| `CmrFaults` | one session, lost posts, RPC and reconciler errors, stale sweep, one restart | 1.1 M | `ExecutedHasTrade`; `OpenIntentCloses`: no lock, re-arm or cooldown keeps an intent open past its expiry for ever |
| `CmrRestart` | one session, two ticks that may overlap, two restarts, stale sweep off | 0.4 M | `MarkedInTimeResolves`: a row marked before the watcher scanned its transaction is closed by the watcher; `CooldownRespected` |
| `OrderLedger` | one order of 3 units, two placements, a cancel, an expiry, fills of 1 (delegated reconciler) and 2 (watcher), one restart | 3.5 M | `TypeOK`, `FillsAccounted`, `PlacedIsInBook` |
| `DelegatedExecution` | one intent, two user operations, a manual execution, one restart | 2.5 M | `TypeOK`, `ExecutedIsFull`, `AppliedIsExecuted`, `UnfinishedKeepsMarker`, `TwiceOnlyByHand`, `NoOrphanClaim`, `RevokedStops`, and that the model implements `IntentLifecycle` |
| `Watchers` | either watcher, three blocks (two fills, a reverted one, two pair cancels, a single one), two ticks, two faults, one restart | 0.6 M | `TypeOK`, `NothingSkipped`, `CountedOnce`, `FloorHolds`, `CatchesUp` |
| `ConditionalLimit` | two intents out of four bodies, one order from the desk, two ticks, rules that change once, one fault | 0.8 M | `TypeOK`, `PlacedAsDeclared`, `ExactFormsPass`, `DriftOnly`, `OneLivePerOrder`, `LevelsHaveRows`, `PlacedAlone`, `ActiveSettles` |
| `MarketOrder` | three asks and a bid, two deployments, one edit, two quotes, two gas checks that may overlap, two executions, one other taker | 1.6 M | `TypeOK`, `SweepIsBest`, `PlanFollowsInputs`, `AppliedOnce`, `PaidOnce` |
| `MarketFeed` | one browser, two markets, two page visits, two connections, one reload | 1.1 M | `TypeOK`, `CountCovers`, `FeedSettles` |
| `CmrStuckExecuting`, `CmrStaleRearm`, `OrderRehydration` | small instances | | the findings below |

Why these bounds suffice. *CMR*: no handler looks at two rows, so one intent is
the system as far as these properties go; two sessions are needed for a lock or
a marker of one to meet another's; one tick has every stale read, since what it
carries is compared with rows that moved meanwhile; what ticks do to each other
(`CooldownRespected`) takes two, in `CmrRestart`, whose clock ends at 1, where a
cooldown begun at 0 is over and one begun at 1 is not, and where no intent
expires. In the other runs the clock goes one unit beyond the expiry; lifetimes of the snapshot
and the lock differ, so each can end first; grace, cooldown and debounce are
one unit so that both sides of every comparison occur. *OrderLedger*: every
handler works on one hash; two placements are what a re-placement or a race
needs, sizes 1 and 2 of 3 make each fill partial or final by its order, and two
handlers are what lets two fills interleave. One restart gives redelivery,
loss and both rehydrations. *DelegatedExecution*: nothing relates two intents
but the worker's batch, whose rows are handled in turn; two user operations are
a submission and the retry after a release, and more of either is what the
proofs cover. *Watchers*: a batch of two out of
three blocks makes a full and a partial batch; a fill follows a cancel in one
block so that an error may come between them; two entries of `seen` let the
third evict; two faults let a rescan fail again. *ConditionalLimit*: two
requests are what a race needs (two creates, or a create and a desk order); the
second rules move an accepted price off the grid and under the minimum; with
`Limit` 1 the younger intent starves behind the older. The forms of
`ExactFormsPass` are all sizes 8 to 42 at prices 1 to 42, both sides, under both
rules. One of the bodies is not the browser's: a BUY that fires when the ask is
above its trigger. In this instance only BUY intents fire; SELL orders enter from the desk.
*MarketOrder*: two asks of equal price, one placed later, order the sweep by
time; a second quote and a second execution are what a stale answer and a
payment twice need, and two checks, which are symmetric, are what an overlap
needs; one edit moves the inputs once (dropping a cap, which takes
an edit to set, is free). *MarketFeed*: the gateway knows sockets only, and two
connections of one browser are two sockets, whose handlers overlap.
Two sessions, two placements, two user operations and two gas checks are symmetric; symmetry is
used only in runs without liveness.

Every property of a passing run has a mutant: a plausible bug in one mapped
definition (a missing cap, a dropped guard, an off-by-one) under which TLC
finds it violated.

What the deeper properties say:

* `OutcomeMatchesChain`: through both fast paths, the watcher and the slow
  receipt, EXECUTED means the linked transaction succeeded and FAILED that it
  reverted. It needs healthy RPC and the stale sweep off; with either, FAILED is
  a guess by design.
* `CooldownRespected`: a row whose cooldown still runs is prepared only by a tick
  that had loaded it before that cooldown was written; however ticks overlap, one
  that loads it later does not.
* `ExecutedHasTrade`: with every fault, EXECUTED still has its Trade.
* `SnapshotIffReady`: an old token could verify again if a re-armed row kept its
  snapshot; a READY row without one could never be locked.
* `FillsAccounted`: `upsertOrderPlaced` keeps `remainingBase` and the decrement
  is relative, so neither re-placement, rollback, cancel, expiry nor
  rehydration loses a fill; without a restart each counts exactly once. After
  one, a fill may count twice (the watcher's delivery is at least once), never
  zero times, until such a double count has taken the row below zero and a fill
  that finds no level is measured by it (see Findings). Looking for a proof
  showed that exception: the run has too few fills for two of them to meet it.
* `PlacedIsInBook`: a cancel, a sweep or a concurrent placement may take the
  level at any of the placement's awaits; the rollback on a missing level is
  what keeps a PLACED row from resting without one.
* `ExecutedIsFull`, `AppliedIsExecuted`: the worker verifies the fill log, not
  the receipt's status, and reconciles only if its own update closed the row, so
  a stale sweep during the wait cannot make a fill count for a FAILED intent.
* `TwiceOnlyByHand`: release and retry never fill twice by the session, because
  the session's usage limit is on the chain; a fill by hand beside one by the
  session is possible, since neither the claim nor the release looks at what the
  other may have sent.
* `NoOrphanClaim`: only a restart leaves a claimed row without a transaction.
* `RevokedStops`: no request posted before, and no late write of the worker,
  brings a revoked grant back once its row is out of the batch.
* `UnfinishedKeepsMarker`: errors, reloads and restarts keep the marker that
  withholds the manual action.
* `NothingSkipped`: the persisted cursor is behind everything that was neither
  handled nor given up with a log line. `CountedOnce` and `FloorHolds` hold
  through rescans, overlap and faults; what they except is named at each.
* `PlacedAsDeclared`, `DriftOnly`: the validator's and the placement's
  derivations of size, side and price agree with the browser's and with each
  other, at create, at fire and in the book. The price is compared as the exact
  ratio of the signed amounts, in ticks that the market has had: the ticks alone
  may differ from the declared ones if the rules change in the middle of a fire.
* `OneLivePerOrder`: the duplicate lookup must see a row in the middle of its
  fire; two creates that were both checked before either was inserted are the
  exception that the code leaves.
* `PlacedAlone`: post-only and balance guard are right for a placement that
  nothing disturbs; their reads are not repeated, so that is all they promise.
* `ActiveSettles`: an intent that never gets into a batch, or whose fire fails,
  still leaves ACTIVE.
* `PlanFollowsInputs`, `PaidOnce`: what the panel may execute, and how often.
* `AppliedOnce`: browser and watcher do not both take a fill out of the book
  while both read the same switch.
* `SweepIsBest`: within the cap, as much as there is, best price and oldest
  order first, for every book the run reaches.
* `CountCovers`, `FeedSettles`: over-counting only costs a query per second,
  under-counting would silence a page; a page that stays comes to show its book.

## Fairness

All fairness is weak. `FairSpec` of `CmrLifecycle`: the clock advances
(`WF(Clock)`); the monitor's timer keeps firing and its loop handles each row
(`WF(TickStep(t))`); the sweepers' timers fire; the marker's handler runs to its
end once the request has arrived; blocks are mined and the watcher's interval
keeps scanning. `Watchers`: boot, cooldowns and scans come to an end and the
interval fires, blocks need not be mined. `ConditionalLimit`: time passes, the
expiry sweep runs and a tick that was loaded goes on; no tick need be loaded.
`MarketFeed`: handlers finish, requests of the page are answered and the loop
goes on; users and connections need do nothing.

Each is an unconditional `setInterval` or a handler whose awaits are answered;
environment switches of monitor, watchers and sweepers are assumed on
(`SweepStale` only if `StaleSweep`). No fairness is assumed of the user, of
wallet requests, of cancel requests, or of anything that repairs an error.

## Findings

Each is a `violation` run checking one sentence of the repository:

* `CmrStuckExecuting` – README, "EXECUTING → EXECUTED or FAILED via
  watcher/sweeper reconciliation". The watcher can record the fill between the
  marker's Trade lookup and its update; the row then stays EXECUTING, the
  sweeper being off by default. `MarkedInTimeResolves` is the part that holds.
* `CmrStaleRearm` – the monitor's comment that the lock guard blocks re-arming.
  The guard looks at the lock as loaded, and the update does not repeat it.
* `OrderRehydration` – README, "rehydrates the orderbook". Partially filled
  orders are not listed, so they do not return.

Disagreements met while modelling that no run is spent on; the models contain
the code's behaviour, and properties except it where they would be false:

* *Handshake*: two wallet-lock requests that both found the row unlocked both
  write, though `intent.service.ts:271` says a live lock is never replaced.
* *Delegation*: the provider's catch speaks of a rejection where nothing landed,
  but also covers an operation that was sent; revoke says it stops the executor
  immediately and does not stop a loaded batch; the marker goes on "active",
  before the grants map has the grant, so the manual action can show for a
  moment; a failed fetch empties the grants map; a partial fill by a user
  operation becomes FAILED and is not reconciled; the limit of `findExecutable`
  counts grants whose intents are not READY, which can starve others.
* *Watchers*: after a restart a node behind the saved cursor moves the
  FillWatcher's cursor back while `seen` is empty, and fills count again.
* *Order book*: redelivered fills may take a row below zero; a fill that then
  finds no level takes the smaller of itself and the row
  (`orderbook.service.ts:249`, which assumes a remainder that is positive), so it
  subtracts a negative amount and gives the deficit back, and two such fills give
  it back twice. `FillsAccounted` and `PlacedIsInBook` claim nothing of such an
  order (`overdrawn`).
* *AI draft*: `ai-draft.validator.ts:6` says the validator can only make the
  model's classification stricter, but "needsClarification" from the model is
  never read; the text a draft is created with is the one in the box at Apply,
  not the one that was previewed.
* *Conditional limit*: the form accepts a price on the grid whose product with
  the size truncates, and the validator refuses it; the signing fallback
  `ETHSIGN` produces a shape that the DTO refuses; the fee policy is checked at
  placement only; the balance guard compares base tokens also for BUY; fire does
  not look at `expiresAt` again; nothing sweeps TRIGGERED rows.
* *Market order*: a quote in flight lands for inputs the panel no longer shows
  ("Prevents executing a stale plan against the wrong side / size / TIF"); a
  transaction whose `wait()` throws keeps its plan ("cannot accidentally
  re-fire"); a partly executed plan is dropped without a report; `/match/apply`
  takes the plan's amounts though the chain may have filled less; the apply gate
  reads `DEV_ONCHAIN_WATCHER` only, the FillWatcher `DEV_FILL_WATCHER` first; an
  edit during the allowance read leaves an Approve button that does nothing.
* *Feed*: a first connect subscribes twice and a subscribe that finishes after
  its socket is gone stays counted (`public.ws.ts:28` speaks of subscribers per
  symbol); a one-shot handler survives its page, so a socket can sit in two rooms
  and a page shows both books in turn, the symbol of a snapshot not being
  checked; overlapping loops give older rows newer timestamps.

## Proofs

`CmrLifecycle_proofs` proves, for every set of intents, sessions and ticks,
every expiry and every timing constant, with and without faults and restarts
where the statement does not exclude them:

| Theorem | States | Argument |
|---|---|---|
| `Typed` | `Spec => []TypeOK` | `TypeOK` is inductive; the one conjunct that is more than a type is the bound on lock ends, kept by `ProposedUntil` and carried by `until`. |
| `TradeBehindExecuted` | `Spec => []ExecutedHasTrade` | Not inductive: the watcher's reconciliation does not look at Trade. `TradeInv` adds `RecordedHasTrade`. |
| `SnapshotTiedToReady` | `Spec => []SnapshotIffReady` | Inductive together with `TypeOK`: only the three snapshot writers create or leave the two states with it. |
| `OutcomeIsTheChains` | `~Faults /\ ~StaleSweep => (Spec => []OutcomeMatchesChain)` | `OutcomeInv` adds that an unsent transaction is unknown to the chain (`ChainKnowsSent`, so that a broadcast never resets a verdict), that Trades are of successful fills and that EXECUTING has its hash; `VerdictFinal` says a verdict does not change. |
| `ImplementsLifecycle` | `Spec => RefinesLifecycle` | `EdgeOrStutter`: from a typed state every step is an edge of `IntentLifecycle` or leaves `status` and `link` alone; the initial states map to initial states. |
| `CooldownHeld` | `Spec => CooldownRespected` | An action property, for any number of overlapping ticks. `LoadedInv`: what an active tick has still to look at was not cooling down when it loaded it, since its find left such rows out, whatever other ticks have written since. So if the cooldown there is still runs, it is another than the one the tick found. |

`DelegatedExecution_proofs` proves every property of the run
`DelegatedExecution`, for every finite set of intents, every set of user
operations, every limit per tick and any number of restarts. The run has one
intent; that a batch, its order and what the worker carries from one row to the
next disturb nothing is what only the proofs show.

| Theorem | States | Argument |
|---|---|---|
| `Typed` | `Spec => []TypeOK` | `TypeInv` adds `HasOp`: the phases after a submission have an operation, so the writes that cite it are typed. |
| `ImplementsLifecycle` | `Spec => RefinesLifecycle` | Not every step that looks at `work` alone is an edge: `ClaimInv` says that between claim and outcome the row is EXECUTING or FAILED and without a hash, so that `markExecuted` never replaces one. `OthersKeep` is what the writers beside the worker leave of a row. |
| `ExecutedMeansFull` | `Spec => []ExecutedIsFull` | `FullInv` adds that a confirmed operation has filled in full; `ChainStep`, that a verdict of the chain is final. |
| `AppliedOfClosedRow` | `Spec => []AppliedIsExecuted` | By `ClaimInv`, a worker that reconciles has itself closed the row with its operation; by `ExecutedStays`, the row keeps both. |
| `SessionFillsOnce` | `Spec => []TwiceOnlyByHand` | `ChainInv`: two operations of one intent never both fill, since the session's usage is spent on the chain by the first; what is left is counted. |
| `ClaimsAreSettled` | `Spec => []NoOrphanClaim` | `OrphanInv` names the phases a claim may be in; each way out of them writes the row. |
| `MarkersSurvive` | `Spec => []UnfinishedKeepsMarker` | `MarkerInv` adds that the panel has seen, or holds active, only grants that exist: the two things that take a marker away. |
| `RevokedIsFinal` | `Spec => RevokedStops` | From `TypeInv` alone, by the writers of `grant` and `work`: the late `setGrantStatus` is of a row in the batch. |

`ConditionalLimit_proofs` begins with the arithmetic alone (the first three
theorems), and carries it through every interleaving, for every set of intents,
ticks, requests and bodies and every sequence of market rules:

| Theorem | States | Argument |
|---|---|---|
| `FormPassesValidator` | an accepted form whose product of size and price is a whole number of quote units builds a body that `Integrity` accepts, for any grace up to `Buffer` | `TermsTakenBack`: with the price on the grid, quote * unit is size * tick * ticks, so the validator's division is exact and returns the ticks typed (`MultipleDivides`), and the two minimum-notional tests compare the same number. |
| `PlacementAgrees` | placement derives from an accepted order the declared side, size and ticks | The tokens determine the side; both call the same derivation from there. |
| `BookAgrees` | what `LargeEnough` accepts, `BookAccepts` accepts | `FloorReaches`: a floored quotient reaches a bound iff the dividend reaches its multiple. |
| `FormsAgree` | `Grace <= Buffer => (Spec => []ExactFormsPass)` | `FormPassesValidator` under whichever rules are in force (`VersionInvariant`). |
| `DriftNeedsNewRules` | `Spec => []DriftOnly` | Not inductive: `DriftInv` says that a row past its checks satisfies `Integrity` under the rules it was accepted with, and that a tick that validates or places holds the order of the very row in its hand. One lemma per step; `PlacementExact` closes the placement's price error. |
| `NoOrderTwice` | `Spec => []OneLivePerOrder` | `OrdersInv`: an intent's order differs from that of every intent that was live at its check, whatever became of them since; `StatusMoves` says a row past its checks never returns. |
| `Typed` | `Spec => []TypeOK` | `TypesInv`: a row is listed exactly when it was inserted, and once (`ListedOnce`), so a batch never holds an intent twice. |
| `NoLevelUnknown` | `Spec => []LevelsHaveRows` | Inductive only with the whole of `PlacingInv`: a placement may store or roll back what another pushed for the same order. |
| `RestsAsSigned` | `Spec => []PlacedAsDeclared` | Two invariants. `FireInv`: the latch lets one tick fire a row, and `placedBy` says what came of it. `PlacingInv`: the terms in hand, and so every level, derive from the order under rules the market has had (`FromRules`), and no order of a fire had rested before. |
| `ChecksHoldAlone` | `Spec => PlacedAlone` | An action property. `AloneInv` says of a placement that nothing disturbed since its reads that the book it read is the book there is: what its post-only check and its sum saw still holds when it pushes (`LowestIs`, `HighestIs`; sums are cardinalities of sets of units). |

`Watchers_proofs`, for every chain of blocks, every batch size, every capacity of
`seen`, any number of faults and restarts and both watchers:

| Theorem | States | Argument |
|---|---|---|
| `Typed` | `Spec => []TypeOK` | `WatchInv`: a scan's target was mined, its block is up to the target, what it has to do are positions of that block, and while a watcher is up its cursor is the file's. |
| `NothingPassedBy` | `Spec => []NothingSkipped` | Not inductive: the cursor moves past a block on the word of the scan. `PassedInv` adds that everything before a scan's block, and of the block what is no longer to do, was handled or given up, and that `seen` holds only what was handled, since a transaction in `seen` is passed over. |
| `FloorStands` | `Spec => []FloorHolds` | `FloorInv` adds what a pair cancel in the middle still owes: while its orders are cancelled, whatever stands below it is among the victims it listed or came too late; when the floor is written, nothing is left below. |
| `FillsCountOnce` | `Spec => []CountedOnce` | `CountInv`: the FillWatcher's guard leaves one tick at a time, whose block is beyond the saved cursor, and a recorded fill is in `seen`, in hand or behind the cursor. With the CancelWatcher's missing guard the first part would be false. |

`MarketFeed_proofs`, for any finite set of clients and any symbols, connections
and loops:

| Theorem | States | Argument |
|---|---|---|
| `Typed` | `Spec => []TypeOK` | `FeedInv`: a message belongs to a connection its client has had, and a socket that was never opened has no subscription. |
| `CountHolds` | `Spec => []CountCovers` | `CoversInv`: a symbol's sockets are at most its count. A subscribe adds at most the socket it counts (`OneMore`), and what takes one off the count takes a socket off (`OneLess`), in whatever order the handlers of a socket end. |

`MarketOrder_proofs`, for every finite set of offers, all inputs, every
deployment and any number of edits, quotes, runs and other takers. The run has
four offers; that the sweep is right for a book of any depth is what only the
proof shows:

| Theorem | States | Argument |
|---|---|---|
| `PlansFollow` | `Spec => []PlanFollowsInputs` | Not inductive: a plan arrives in an answer. `HookInv` says that a request in flight, the preview's or the gas check's, is for the inputs shown or is marked late. |
| `NeverPaidTwice` | `Spec => PaidOnce` | `PaidInv`: a plan of which something was paid stays on the panel only during its own run, past its first transaction, and no answer in flight brings that plan back; every answer has an identity of its own. |
| `Typed` | `Spec => []TypeOK` | `TypesInv` adds that a plan, on the panel, in an answer or under way, fills each offer at most once (`SweepDistinct`), and that a transaction's fills are amounts of offers: then what `applyExternalFill` takes off a level is at most the level (`DeductTyped`). |
| `SweptBest` | `Spec => []SweepIsBest` | `Progress`, an invariant of the loop: the fills so far are of the first offers of the queue, whole but for the last, and the loop goes on exactly while it has not come to the size or to the cap. That the queue exists is `SortExists`, that the loop ends `LoopExists`; that the fills add up to the depth, `SumMatched`, a counting of units. |
| `CreditedOnce` | `Spec => []AppliedOnce` | `SentInv`: no transaction of a run is sent twice, no two of them touch the same order, and none is in the mempool once it is mined. `CreditInv`: where the hook reports, nothing is credited to a run under way; where the watcher does, a credit stands for a transaction it has handed on, of which there is only one for that order. |

`OrderLedger_proofs`, for any orders, placements, cancels, finitely many fills,
any sizes and restarts:

| Theorem | States | Argument |
|---|---|---|
| `Typed` | `Spec => []TypeOK` | That no level shrinks below zero needs the guards of `applyExternalFill`, which measure by the level itself. |
| `NoFillForgotten` | `Spec => []FillsAccounted` | `LedgerInv`, per order: each level belongs to one order (`Owns`); a fill in hand takes no more than it is (`WorkOK`); a level, or what is to become one, has at least what the row will have left (`Covers`), so that only a fill that takes all of it is cut short, and one that says FILLED leaves nothing (`Spent`); before any restart no fill is cut short, and every level still has what the fills to come will take (`Exact`). The sums change by one fill at a time (`SumJoins`). |
| `RestingIsHeld` | `Spec => []PlacedIsInBook` | `AbsentInv`: an open PLACED row that is not in the book has an excuse, and each excuse is a handler still to run: a placement before its push or in its rollback, a cancel or an expiry that has yet to write the row, a start, or fills under way that will take all that is left. At rest there is none. |

Assumed: only the named assumptions of the modules. `CmrLifecycle`: `NoTx`
is no transaction, `Target` and `Expiry` are functions of the right type, times
are naturals, flags Booleans. `DelegatedExecution`: intents and operations are
different things and neither is `Nobody`, the intents are finitely many (grants
are counted), the limit is positive. `OrderTerms`: a token has a positive unit.
`ConditionalLimit`: every market has a positive tick and minimum size (as the
seed and the book's rules require), what a user types is a natural number and a
side, orders are finitely many and their amounts and salts natural, ticks,
requests and intents are different things. `OrderLedger`: fills are finitely
many, sizes positive, an order is not filled beyond its size, and level objects
made by different calls are different. `Watchers`: a transaction is in one
block, and transactions and orders are different things. `MarketFeed`: clients
are finitely many, and no market is `None`. `MarketOrder`: sizes and prices of
offers are positive, the offers are finitely many and no two were placed at the
same time. `FormsAgree` needs the
grace to be at most the browser's buffer: 60 s by default against 120 s, but
`SEA_FIRE_EXPIRY_GRACE_SECS` may be set above it. TLC evaluates the assumptions
on each run.

The library's induction theorems take an operator and cannot be used here. What
needs an induction over numbers, the loop of the sweep, a list sorted, a sum by
parts, goes through sets instead: a set of numbers with 0 and with the successor
of each of its members has all of them, since there is no least one it lacks
(`LeastOf`, `Reaches` in `Sums_proofs`). `LoopExists` builds from it the function
that a loop of any length computes, and `SortExists` the list.

Model-checked only: the liveness properties (`OpenIntentCloses`,
`MarkedInTimeResolves`, `CatchesUp`, `ActiveSettles`, `FeedSettles`), as fairness
and `ENABLED` are beyond this prover, and the refuted properties of the findings.
Every other property of a run is a theorem. Two have a hypothesis on the
constants, which their rows state: `OutcomeIsTheChains` (no faults, no stale
sweep) and `FormsAgree` (the grace). No module uses a recursive operator.

## Not modelled

* *Feed*: the trades and orders feeds (they differ: trades unsubscribe without
  looking at the socket's set, orders join once and are deaf after a reconnect).
* *Book*: rounding of fill amounts and the protocol fee, `OrderBookService.market`
  (reachable only from development endpoints), and market rules other than tick,
  minimum size and notional.
* *REST*: reads other than the live book, and the calldata builders: no state
  changes. Database errors are modelled where the code reacts to one (rollback,
  upsert, marks, handlers of the watchers), not everywhere.
* *Conditional limit*: a crash in the middle of a fire (the row stays TRIGGERED,
  as after a market lookup that threw), and intent events, which are logs.
* *Watchers*: the decoding of calldata and logs; several markets and makers.
* Signatures, HMACs and order hashes by what they bind only; ABI encoding and 0x
  builders beyond which transactions a plan consists of; AI assist (text to draft,
  writes nothing); metrics, configuration, development endpoints; tables, charts
  and wallet connection in the web UI: stateless, external or pure I/O.

## Plan

1. **Done**: `IntentLifecycle`, `CmrLifecycle` with runs and proofs;
   `OrderLedger`, `DelegatedExecution`, `Watchers`, `OrderTerms`,
   `ConditionalLimit`, `MarketOrder` and `MarketFeed` with their runs.
2. **Done**: the proofs of every safety and action property the runs check.
3. **Feeds** of trades and orders, and the expiry of a fire that was interrupted.

## How to run

    tlc -workers 2 -config CmrTwoSessions.cfg MCCmrLifecycle
    tlc -workers 2 -config OrderLedger.cfg MCOrderLedger
    tlc -workers 2 -config DelegatedExecution.cfg MCDelegatedExecution
    tlc -workers 2 -config Watchers.cfg MCWatchers
    tlc -workers 2 -config ConditionalLimit.cfg MCConditionalLimit
    tlc -workers 2 -config MarketOrder.cfg MCMarketOrder
    tlc -workers 2 -config MarketFeed.cfg MCMarketFeed
    tlapm CmrLifecycle_proofs.tla
    tlapm DelegatedExecution_proofs.tla
    tlapm Sums_proofs.tla
    tlapm ConditionalLimit_proofs.tla
    tlapm Watchers_proofs.tla
    tlapm OrderLedger_proofs.tla
    tlapm MarketOrder_proofs.tla
    tlapm MarketFeed_proofs.tla
