------------------------------ MODULE Watchers ------------------------------
(***************************************************************************)
(* FillWatcher and CancelWatcher (apps/api/src/onchain): each polls the    *)
(* chain, scans blocks from a persisted cursor in bounded batches, and     *)
(* applies the transactions it finds: fills to trades and orders, cancels  *)
(* to orders and salt floors.  The gates DEV_FILL_WATCHER and              *)
(* DEV_CANCEL_WATCHER are independent and the two share no cursor, so a    *)
(* behaviour has one of them (what they both write is in OrderLedger).     *)
(*                                                                         *)
(* A step is what runs between two awaits.  A fault is an RPC error, an    *)
(* answer from a node that lags behind, a malformed block or a handler     *)
(* that throws.  Cooldowns end whenever they like.                         *)
(***************************************************************************)
EXTENDS Integers, Sequences, FiniteSets, SequencesExt

CONSTANTS
  Chain,        \* the blocks to come: each a sequence of transactions
  Kind,         \* of a transaction: "fill", "reverted", "single" or "pair"
  Salt,         \* of an order, and minValidSalt of a pair cancel
  Cancels,      \* the order a single cancel is for
  Orders,       \* orders of one maker in one market
  Slots,        \* ticks that may overlap
  MaxBatch,     \* *_WATCHER_MAX_BLOCKS_PER_TICK
  SeenCap,      \* entries of `seen` (10 000)
  MaxFaults, MaxRestarts   \* bounds

Blocks == 1..Len(Chain)
Txs == UNION {Range(Chain[b]) : b \in Blocks}

ASSUME ChainAssumption ==
  /\ Chain \in Seq(Seq(Txs)) /\ Kind \in [Txs -> {"fill", "reverted", "single", "pair"}]
  /\ \A t \in Txs : \E b \in Blocks : t \in Range(Chain[b]) /\ \A c \in Blocks \ {b} : t \notin Range(Chain[c])
  /\ Txs \cap Orders = {} /\ Salt \in [Txs \cup Orders -> Nat]
ASSUME BoundsAssumption ==
  MaxBatch \in Nat \ {0} /\ SeenCap \in Nat \ {0} /\ MaxFaults \in Nat /\ MaxRestarts \in Nat

VARIABLES
  on, head,          \* which watcher runs; the last block mined
  boot,              \* "down", "dead", "degraded" (needsCursorInit) or "up"
  cursor, file,      \* lastScanned; the cursor file (0: none that loads)
  cooling,           \* Date.now() < cooldownUntil
  tick,              \* the ticks under way
  seen,              \* FillWatcher's de-duplication, in order of insertion
  trades, applied,   \* rows of Trade, and applyExternalFill calls, by fill
  placed, floor,     \* PLACED orders; CancelPairFloor of the pair of tokens
  \* For the properties: orders placed too late for a pair cancel (or whose
  \* cancel threw); transactions handled; those given up (in a block from
  \* before the first cursor, malformed, or whose handler threw); and those
  \* that a failure, an eviction or a restart may have applied twice.
  late, handled, dropped, excused,
  faults, restarts

scan   == <<boot, cursor, file, cooling, tick, seen>>
ledger == <<trades, applied, placed, floor>>
notes  == <<late, handled, dropped, excused>>
vars == <<on, head, scan, ledger, notes, faults, restarts>>

Off == [phase |-> "off", block |-> 0, target |-> 0, todo |-> {}, victims |-> {}]
Phases == {"off", "polling", "fetching", "handling", "applying", "cancelling", "flooring"}

Least(a, b) == IF a < b THEN a ELSE b
BlockOf(t) == CHOOSE b \in Blocks : t \in Range(Chain[b])

\* Where in a block this watcher recognizes the address called and the selector.
Own(b) == {k \in 1..Len(Chain[b]) : Kind[Chain[b][k]] \in {"fill", "reverted"} <=> on = "fill"}
OwnTxs(b) == {Chain[b][k] : k \in Own(b)}
OwnUpTo(b) == UNION {OwnTxs(c) : c \in 1..b}

\* The transaction in hand, and the rest of its block.
First(s) == Min(tick[s].todo)
Tx(s) == Chain[tick[s].block][First(s)]
Left(s) == tick[s].todo \ {First(s)}

Init ==
  /\ on \in {"fill", "cancel"}
  /\ head = 0 /\ boot = "down"
  /\ cursor = 0 /\ file = 0
  /\ cooling = FALSE
  /\ tick = [s \in Slots |-> Off]
  /\ seen = <<>>
  /\ trades = [t \in Txs |-> 0] /\ applied = [t \in Txs |-> 0]
  /\ placed = {} /\ floor = 0
  /\ late = {} /\ handled = {} /\ dropped = {} /\ excused = {}
  /\ faults = 0 /\ restarts = 0

Fault == faults < MaxFaults /\ faults' = faults + 1

\* isTransientRpcError: throttling and network errors pause the watcher.
Classes == {"transient", "other"}
CoolsFor(class) == class = "transient"
\* enterCooldown.
CoolDown(class) == cooling' = (cooling \/ CoolsFor(class))

-----------------------------------------------------------------------------
(* The environment.                                                        *)

Mine ==
  /\ head < Len(Chain)
  /\ head' = head + 1
  /\ UNCHANGED <<on, scan, ledger, notes, faults, restarts>>

\* A node's answer: the head, or one block behind it.
Answer(latest) ==
  \/ latest = head /\ UNCHANGED faults
  \/ latest = head - 1 /\ latest >= 0 /\ Fault

\* Too late for a pair cancel listed or done (placement does not ask for the floor).
TooLate(o) ==
  \/ Salt[o] < floor
  \/ \E s \in Slots : tick[s].phase \in {"cancelling", "flooring"}
                      /\ Salt[o] < Salt[Tx(s)]

\* A maker's order enters book and rows through the API.
Place(o) ==
  /\ on = "cancel" /\ o \notin placed
  /\ placed' = placed \cup {o}
  /\ late' = IF TooLate(o) THEN late \cup {o} ELSE late
  /\ UNCHANGED <<on, head, scan, trades, applied, floor, handled, dropped, excused, faults, restarts>>

CoolOver ==
  /\ cooling /\ cooling' = FALSE
  /\ UNCHANGED <<on, head, boot, cursor, file, tick, seen, ledger, notes, faults, restarts>>

-----------------------------------------------------------------------------
(* Boot.                                                                   *)

\* Mutant of Anchor: no lower bound.
AnchorUnbounded(latest) == latest - 1

Anchor(latest) == IF latest > 0 THEN latest - 1 ELSE 0

\* Recorded beyond a cursor that moves back to `block`, and not in `seen`.
Forgotten(block) == {t \in Txs : trades[t] > 0 /\ BlockOf(t) > block /\ t \notin Range(seen)}

\* initCursorFrom: resume, or start near the head.
InitCursor(latest) ==
  IF file > 0 /\ file <= latest
  THEN cursor' = file /\ UNCHANGED <<file, dropped, excused>>
  ELSE /\ cursor' = Anchor(latest)
       /\ file' = Anchor(latest)
       /\ dropped' = IF file = 0 THEN dropped \cup (OwnUpTo(Anchor(latest)) \ handled) ELSE dropped
       /\ excused' = excused \cup Forgotten(Anchor(latest))

BootUp == \E latest \in 0..head :
  /\ boot = "down" /\ Answer(latest)
  /\ InitCursor(latest)
  /\ boot' = "up"
  /\ UNCHANGED <<on, head, cooling, tick, seen, ledger, late, handled, restarts>>

\* The first call fails: retried after a cooldown, or never.
BootFails(class) ==
  /\ boot = "down" /\ Fault
  /\ boot' = IF CoolsFor(class) THEN "degraded" ELSE "dead"
  /\ CoolDown(class)
  /\ UNCHANGED <<on, head, cursor, file, tick, seen, ledger, notes, restarts>>

-----------------------------------------------------------------------------
(* A tick.                                                                 *)

TickTo(s, t) == tick' = [tick EXCEPT ![s] = t]
Stop(s) == TickTo(s, Off)

\* On to the next transaction, or the next block.
Rest(s, todo) ==
  IF todo = {} THEN [Off EXCEPT !.phase = "fetching", !.block = tick[s].block + 1, !.target = tick[s].target]
  ELSE [tick[s] EXCEPT !.phase = "handling", !.todo = todo, !.victims = {}]
Advance(s) == TickTo(s, Rest(s, Left(s)))

\* FillWatcher's `running` keeps its ticks apart; CancelWatcher has no such guard.
Start(s) ==
  /\ boot \in {"up", "degraded"} /\ ~cooling
  /\ tick[s] = Off
  /\ on = "fill" => \A r \in Slots : tick[r] = Off
  /\ TickTo(s, [Off EXCEPT !.phase = "polling"])
  /\ UNCHANGED <<on, head, boot, cursor, file, cooling, seen, ledger, notes, faults, restarts>>

\* Mutant of Target: only whole batches are scanned.
TargetWholeBatch(latest, from) == IF latest < from + MaxBatch THEN from ELSE from + MaxBatch

Target(latest, from) == Least(latest, from + MaxBatch)

\* The head is known: a deferred cursor first, then the range.  CancelWatcher
\* returns when there is nothing new; FillWatcher goes on with an empty range.
Poll(s) == \E latest \in 0..head :
  /\ tick[s].phase = "polling" /\ Answer(latest)
  /\ IF boot = "degraded" THEN InitCursor(latest) ELSE UNCHANGED <<cursor, file, dropped, excused>>
  /\ boot' = "up"
  /\ IF on = "cancel" /\ latest <= cursor' THEN Stop(s)
     ELSE TickTo(s, [Off EXCEPT !.phase = "fetching", !.block = cursor' + 1,
                                !.target = Target(latest, cursor')])
  /\ UNCHANGED <<on, head, cooling, seen, ledger, late, handled, restarts>>

\* Mutant of CursorAfterError: the block that failed is passed over.
CursorPastError(s) == IF tick[s].phase = "fetching" THEN tick[s].block ELSE cursor

CursorAfterError(s) == cursor

\* An RPC error ends the tick, and cools the watcher down if it is transient.
RpcFails(s, class) ==
  /\ tick[s].phase = "polling" \/ (tick[s].phase = "fetching" /\ tick[s].block <= tick[s].target)
  /\ Fault
  /\ Stop(s)
  /\ cursor' = CursorAfterError(s)
  /\ CoolDown(class)
  /\ UNCHANGED <<on, head, boot, file, seen, ledger, notes, restarts>>

Fetch(s) == LET b == tick[s].block IN
  /\ tick[s].phase = "fetching" /\ b <= tick[s].target
  /\ TickTo(s, Rest(s, Own(b)))
  /\ UNCHANGED <<on, head, boot, cursor, file, cooling, seen, ledger, notes, faults, restarts>>

\* block_skipped: the scan goes past a payload without transactions.
Malformed(s) == LET b == tick[s].block IN
  /\ tick[s].phase = "fetching" /\ b <= tick[s].target
  /\ Fault
  /\ dropped' = dropped \cup (OwnTxs(b) \ handled)
  /\ TickTo(s, Rest(s, {}))
  /\ UNCHANGED <<on, head, boot, cursor, file, cooling, seen, ledger, late, handled, excused, restarts>>

\* lastScanned = target, saved; lower than before if the node lagged, or if
\* an overlapping tick went further.
End(s) ==
  /\ tick[s].phase = "fetching" /\ tick[s].block > tick[s].target
  /\ cursor' = tick[s].target /\ file' = tick[s].target
  /\ excused' = excused \cup Forgotten(tick[s].target)
  /\ Stop(s)
  /\ UNCHANGED <<on, head, boot, cooling, seen, ledger, late, handled, dropped, faults, restarts>>

Handles(s, phase) == tick[s].phase = phase

\* The handler's catch: logged, and the scan goes on.
HandlerFails(s) ==
  /\ Handles(s, "handling") \/ Handles(s, "applying")
  /\ Fault
  /\ dropped' = dropped \cup ({Tx(s)} \ handled)
  /\ excused' = IF Handles(s, "applying") THEN excused \cup {Tx(s)} ELSE excused
  /\ Advance(s)
  /\ UNCHANGED <<on, head, boot, cursor, file, cooling, seen, ledger, late, handled, restarts>>

-----------------------------------------------------------------------------
(* Fills.                                                                  *)

\* Mutant of Seen: `seen` is consulted only for the block being scanned anew.
SeenNever(t) == FALSE

Seen(t) == t \in Range(seen)

PassOver(s) ==
  /\ Handles(s, "handling") /\ Seen(Tx(s))
  /\ Advance(s)
  /\ UNCHANGED <<on, head, boot, cursor, file, cooling, seen, ledger, notes, faults, restarts>>

\* The receipt says the transaction reverted.
SkipReverted(s) ==
  /\ Handles(s, "handling") /\ Kind[Tx(s)] = "reverted" /\ ~Seen(Tx(s))
  /\ seen' = Append(seen, Tx(s))
  /\ handled' = handled \cup {Tx(s)}
  /\ Advance(s)
  /\ UNCHANGED <<on, head, boot, cursor, file, cooling, ledger, late, dropped, excused, faults, restarts>>

\* addTrade, also when the receipt lookup of a reverted one fails.
RecordTrade(s) ==
  /\ Handles(s, "handling") /\ ~Seen(Tx(s))
  /\ \/ Kind[Tx(s)] = "fill" /\ UNCHANGED faults
     \/ Kind[Tx(s)] = "reverted" /\ Fault
  /\ trades' = [trades EXCEPT ![Tx(s)] = @ + 1]
  /\ TickTo(s, [tick[s] EXCEPT !.phase = "applying"])
  /\ UNCHANGED <<on, head, boot, cursor, file, cooling, seen, applied, placed, floor, notes, restarts>>

\* applyExternalFill; then seen.add, which evicts the oldest entry beyond the cap.
ApplyFill(s) == LET full == Len(seen) >= SeenCap IN
  /\ Handles(s, "applying")
  /\ applied' = [applied EXCEPT ![Tx(s)] = @ + 1]
  /\ seen' = Append(IF full THEN Tail(seen) ELSE seen, Tx(s))
  /\ excused' = IF full THEN excused \cup {Head(seen)} ELSE excused
  /\ handled' = handled \cup {Tx(s)}
  /\ Advance(s)
  /\ UNCHANGED <<on, head, boot, cursor, file, cooling, trades, placed, floor, late, dropped, faults, restarts>>

FillStep(s) == PassOver(s) \/ SkipReverted(s) \/ RecordTrade(s) \/ ApplyFill(s)

-----------------------------------------------------------------------------
(* Cancels.                                                                *)

Invalidated(o, t) == Salt[o] < Salt[t]

\* The maker's PLACED orders of the market, and their salts.
ListPair(s) ==
  /\ Handles(s, "handling") /\ Kind[Tx(s)] = "pair"
  /\ TickTo(s, [tick[s] EXCEPT !.phase = "cancelling",
                               !.victims = {o \in placed : Invalidated(o, Tx(s))}])
  /\ UNCHANGED <<on, head, boot, cursor, file, cooling, seen, ledger, notes, faults, restarts>>

\* One by one in book and rows; one that throws is logged and left.
CancelPair(s) == \E failed \in SUBSET tick[s].victims :
  /\ Handles(s, "cancelling")
  /\ IF failed = {} THEN UNCHANGED faults ELSE Fault
  /\ placed' = (placed \ tick[s].victims) \cup (failed \cap placed)
  /\ late' = (late \ tick[s].victims) \cup failed
  /\ TickTo(s, [tick[s] EXCEPT !.phase = "flooring"])
  /\ UNCHANGED <<on, head, boot, cursor, file, cooling, seen, trades, applied, floor,
                 handled, dropped, excused, restarts>>

\* Mutant of Raised: the last event seen wins.
RaisedToLast(salt) == salt

\* GREATEST(existing, new), in one statement.
Raised(salt) == IF salt > floor THEN salt ELSE floor

UpsertFloor(s) ==
  /\ Handles(s, "flooring")
  /\ \/ /\ floor' = Raised(Salt[Tx(s)])
        /\ handled' = handled \cup {Tx(s)}
        /\ UNCHANGED <<dropped, faults>>
     \/ /\ Fault
        /\ dropped' = dropped \cup ({Tx(s)} \ handled)
        /\ UNCHANGED <<floor, handled>>
  /\ Advance(s)
  /\ UNCHANGED <<on, head, boot, cursor, file, cooling, seen, trades, applied, placed, late,
                 excused, restarts>>

CancelSingle(s) ==
  /\ Handles(s, "handling") /\ Kind[Tx(s)] = "single"
  /\ placed' = placed \ {Cancels[Tx(s)]}
  /\ late' = late \ {Cancels[Tx(s)]}
  /\ handled' = handled \cup {Tx(s)}
  /\ Advance(s)
  /\ UNCHANGED <<on, head, boot, cursor, file, cooling, seen, trades, applied, floor,
                 dropped, excused, faults, restarts>>

CancelStep(s) == ListPair(s) \/ CancelPair(s) \/ UpsertFloor(s) \/ CancelSingle(s)

-----------------------------------------------------------------------------

\* `seen`, cooldown and ticks are lost; the cursor file is not.
Restart ==
  /\ restarts < MaxRestarts /\ boot # "down"
  /\ restarts' = restarts + 1
  /\ boot' = "down" /\ cursor' = 0 /\ cooling' = FALSE /\ seen' = <<>>
  /\ tick' = [s \in Slots |-> Off]
  /\ excused' = excused \cup {t \in Txs : trades[t] > 0 /\ BlockOf(t) > file}
  /\ UNCHANGED <<on, head, file, ledger, late, handled, dropped, faults>>

Scan(s) == Poll(s) \/ Fetch(s) \/ End(s) \/ FillStep(s) \/ CancelStep(s)

Next ==
  \/ Mine \/ CoolOver \/ BootUp \/ Restart
  \/ \E o \in Orders : Place(o)
  \/ \E class \in Classes : BootFails(class) \/ \E s \in Slots : RpcFails(s, class)
  \/ \E s \in Slots : Start(s) \/ Scan(s) \/ Malformed(s) \/ HandlerFails(s)

\* setInterval, promises that settle, cooldowns that end.
Fairness ==
  /\ WF_vars(BootUp) /\ WF_vars(CoolOver)
  /\ \A s \in Slots : WF_vars(Start(s)) /\ WF_vars(Scan(s))

Spec == Init /\ [][Next]_vars /\ Fairness

-----------------------------------------------------------------------------

\* Types; the cursor in the file is one that loads, or zero.
TypeOK ==
  /\ on \in {"fill", "cancel"} /\ head \in 0..Len(Chain)
  /\ boot \in {"down", "dead", "degraded", "up"}
  /\ cursor \in 0..head /\ file \in 0..head
  /\ cooling \in BOOLEAN
  /\ tick \in [Slots -> [phase : Phases, block : 0..Len(Chain) + 1, target : 0..Len(Chain),
                         todo : SUBSET Nat, victims : SUBSET Orders]]
  /\ seen \in Seq(Txs)
  /\ trades \in [Txs -> Nat] /\ applied \in [Txs -> Nat]
  /\ placed \subseteq Orders /\ floor \in Nat /\ late \subseteq Orders
  /\ {handled, dropped, excused} \subseteq SUBSET Txs
  /\ faults \in 0..MaxFaults /\ restarts \in 0..MaxRestarts

\* cancel-watcher.service.ts:162 "so on-chain cancels during API downtime are
\* not silently dropped across restarts": the persisted cursor never stands
\* past a fill or cancel that was neither handled nor given up with a log line,
\* whatever errors, cooldowns, overlaps and restarts came before.
NothingSkipped == OwnUpTo(file) \subseteq handled \cup dropped

\* fill-watcher.service.ts, `seen` "SOLO tras exito": rescans after an error or
\* behind a node that lags count no fill twice and take no Trade without its
\* fill.  (Excused: a handler that threw in between, an evicted entry, and,
\* `seen` being lost, a restart before the cursor was saved or with a node
\* that then lags behind the saved cursor.)
CountedOnce ==
  \A t \in Txs \ excused :
    trades[t] <= 1 /\ (trades[t] = applied[t] \/ \E s \in Slots : Handles(s, "applying") /\ Tx(s) = t)

\* cancel-pair-floor.repository.ts:26 "Atomic monotonic upsert": with ticks
\* overlapping and events handled again and out of order, the floor is never
\* below the minValidSalt of a pair cancel that was handled; and an order below
\* it is no longer PLACED, unless placed after the cancel had listed its orders.
FloorHolds ==
  /\ \A t \in handled : Kind[t] = "pair" => Salt[t] <= floor
  /\ \A o \in placed \ late : Salt[o] >= floor

\* Both watchers, RPC-1: after throttling, degraded boots, lagging nodes and
\* restarts, every transaction mined is in the end handled (or given up),
\* unless the boot failed for good.
CatchesUp ==
  head = Len(Chain) ~> (OwnUpTo(Len(Chain)) \subseteq handled \cup dropped \/ boot = "dead")
=============================================================================
