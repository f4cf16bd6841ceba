---------------------------- MODULE OrderLedger ----------------------------
(***************************************************************************)
(* A limit order lives twice: as a level of the in-memory book             *)
(* (matching/orderbook.service.ts) and as a row of the Order table         *)
(* (matching/persistence.repository.ts).  Placements, cancels, the expiry  *)
(* sweep and external fills change the book first and await the row's      *)
(* UPDATE, and a restart rebuilds the book from the rows.                  *)
(*                                                                         *)
(* A step is what a handler does between two awaits.  Nothing here is      *)
(* guarded by the row's status: every UPDATE is by orderHash alone.  One   *)
(* market; price and side do not matter to what is said of it.  The        *)
(* database answers: the one write that may fail is the one the placement  *)
(* rolls back.                                                             *)
(***************************************************************************)
EXTENDS Integers, Sequences, FiniteSets, Sums

CONSTANTS
  Orders,      \* order hashes
  Size,        \* [Orders -> Nat \ {0}], the size each hash commits to
  Placements,  \* calls of OrdersPlacementService.place
  Places,      \* [Placements -> Orders]
  Cancels,     \* POST cancel, and single cancels seen on-chain
  Withdraws,   \* [Cancels -> Orders]
  Fills,       \* fills of the exchange contract
  Takes,       \* [Fills -> Orders]
  FillSize,    \* [Fills -> Nat \ {0}]
  Handler,     \* [Fills -> {"watcher", "reconciler"}], who applies it
  NoLevel,     \* no level object
  MaxCrashes   \* bound on restarts

ASSUME OrdersAssumption ==
  /\ Size \in [Orders -> Nat \ {0}]
  /\ Places \in [Placements -> Orders] /\ Withdraws \in [Cancels -> Orders]
  /\ MaxCrashes \in Nat
ASSUME FillsAssumption ==
  /\ IsFiniteSet(Fills)
  /\ Takes \in [Fills -> Orders]
  /\ FillSize \in [Fills -> Nat \ {0}]
  /\ Handler \in [Fills -> {"watcher", "reconciler"}]

\* Level objects of the book, named by what creates them: a placement, a
\* fill that finds no level, a pass of the rehydrator.
Levels == Placements \cup Fills \cup (Orders \X {"hydrating", "rehydrating"})

ASSUME LevelsAssumption ==
  /\ NoLevel \notin Levels
  /\ Placements \cap Fills = {}
  /\ (Placements \cup Fills) \cap (Orders \X {"hydrating", "rehydrating"}) = {}

Base(F) == Sum(F, FillSize)

\* The contract never fills an order beyond its size.
ASSUME ChainAssumption ==
  \A o \in Orders : Base({f \in Fills : Takes[f] = o}) <= Size[o]

VARIABLES
  \* The book: for each hash its level objects, oldest first; the object's
  \* sizeBase; the objects whose expirySec is set.
  book, size, dated,
  \* The Order table: status ("none" if there is no row), remainingBase, and
  \* the rows with their raw order.
  status, remaining, raw,
  \* Stages of placements and cancels; rows a sweep has still to write.
  pc, cpc, expiring,
  \* Fills: stage, and what the handler carries over its awaits.
  stage, work,
  overdrawn, \* orders of which a fill was measured by a row below zero
  expired,  \* orders whose expiry has passed
  boot,     \* "up", or restarting (see below)
  stale,    \* remainingBase as the rehydrator read it, 0 if not to hydrate
  crashes

levels == <<book, size, dated>>
table  == <<status, remaining, raw>>
fills  == <<stage, work, overdrawn>>
booting == <<boot, stale, crashes>>
vars == <<levels, table, pc, cpc, expiring, fills, expired, booting>>

Statuses == {"none", "PLACED", "PARTIALLY_FILLED", "FILLED", "CANCELLED", "EXPIRED"}

NoWork == [exec |-> 0, to |-> "none", level |-> NoLevel, rest |-> 0, core |-> FALSE]

Init ==
  /\ book = [o \in Orders |-> <<>>]
  /\ size = [l \in Levels |-> 0]
  /\ dated = {}
  /\ status = [o \in Orders |-> "none"]
  /\ remaining = [o \in Orders |-> 0]
  /\ raw = {}
  /\ pc = [p \in Placements |-> "idle"]
  /\ cpc = [c \in Cancels |-> "idle"]
  /\ expiring = {}
  /\ stage = [f \in Fills |-> "pending"]
  /\ work = [f \in Fills |-> NoWork]
  /\ overdrawn = {}
  /\ expired = {}
  /\ boot = "up"
  /\ stale = [o \in Orders |-> 0]
  /\ crashes = 0

\* HTTP and the monitor start after every onModuleInit; the watchers' timers
\* start beside the second rehydrator.
Serving == boot = "up"
Watching == boot \in {"started", "rehydrating", "up"}

InBook(o) == book[o] # <<>>

\* OrderBookService.cancel on the book: every level of the hash goes.
Drop(o) == book' = [book EXCEPT ![o] = <<>>]

\* cancelOrder: whatever the row's status is; it throws if there is no row.
WriteCancelled(o) ==
  status' = IF status[o] = "none" THEN status ELSE [status EXCEPT ![o] = "CANCELLED"]

-----------------------------------------------------------------------------
(* Placement: the same hash may be placed again, and concurrently.         *)

PlaceGoto(p, s) == pc' = [pc EXCEPT ![p] = s]

\* place first cancels the hash.
PlaceClear(p) == LET o == Places[p] IN
  /\ Serving
  /\ pc[p] = "idle"
  /\ PlaceGoto(p, IF InBook(o) THEN "replacing" ELSE "pushing")
  /\ Drop(o)
  /\ UNCHANGED <<size, dated, table, cpc, expiring, fills, expired, booting>>

\* That cancel's write; without a row it throws and the placement with it.
PlaceReplace(p) == LET o == Places[p] IN
  /\ pc[p] = "replacing"
  /\ WriteCancelled(o)
  /\ PlaceGoto(p, IF status[o] = "none" THEN "failed" ELSE "pushing")
  /\ UNCHANGED <<levels, remaining, raw, cpc, expiring, fills, expired, booting>>

PlacePush(p) == LET o == Places[p] IN
  /\ pc[p] = "pushing"
  /\ book' = [book EXCEPT ![o] = Append(@, p)]
  /\ size' = [size EXCEPT ![p] = Size[o]]
  /\ PlaceGoto(p, "upserting")
  /\ UNCHANGED <<dated, table, cpc, expiring, fills, expired, booting>>

\* Mutant of UpsertRemaining: the update branch resets it too.
ResetRemaining(o) == Size[o]

\* upsertOrderPlaced: a row that exists keeps its remainingBase.
UpsertRemaining(o) == IF status[o] = "none" THEN Size[o] ELSE remaining[o]

PlaceUpsert(p) == LET o == Places[p] IN
  /\ pc[p] = "upserting"
  /\ status' = [status EXCEPT ![o] = "PLACED"]
  /\ remaining' = [remaining EXCEPT ![o] = UpsertRemaining(o)]
  /\ PlaceGoto(p, "attaching")
  /\ UNCHANGED <<levels, raw, cpc, expiring, fills, expired, booting>>

\* Mutant of AfterAttach: a level that is gone is not noticed.
AttachUnchecked(o) == "saving"

AfterAttach(o) == IF InBook(o) THEN "saving" ELSE "undoing"

\* attachRaw to the first level of the hash; none left: roll back.
PlaceAttach(p) == LET o == Places[p] IN
  /\ pc[p] = "attaching"
  /\ dated' = IF InBook(o) THEN dated \cup {Head(book[o])} ELSE dated
  /\ PlaceGoto(p, AfterAttach(o))
  /\ UNCHANGED <<book, size, table, cpc, expiring, fills, expired, booting>>

\* attachRawToOrder succeeds or throws.
PlaceSave(p) ==
  /\ pc[p] = "saving"
  /\ \/ PlaceGoto(p, "placed") /\ raw' = raw \cup {Places[p]}
     \/ PlaceGoto(p, "undoing") /\ UNCHANGED raw
  /\ UNCHANGED <<levels, status, remaining, cpc, expiring, fills, expired, booting>>

\* Rollback: cancel in the book (and the row, if a level went), then the row.
PlaceUndo(p) == LET o == Places[p] IN
  /\ pc[p] = "undoing"
  /\ PlaceGoto(p, IF InBook(o) THEN "withdrawing" ELSE "closing")
  /\ Drop(o)
  /\ UNCHANGED <<size, dated, table, cpc, expiring, fills, expired, booting>>

PlaceClose(p) ==
  /\ \/ pc[p] = "withdrawing" /\ PlaceGoto(p, "closing")
     \/ pc[p] = "closing" /\ PlaceGoto(p, "failed")
  /\ WriteCancelled(Places[p])
  /\ UNCHANGED <<levels, remaining, raw, cpc, expiring, fills, expired, booting>>

-----------------------------------------------------------------------------
(* Cancel and expiry.                                                      *)

CancelClear(c) ==
  /\ Watching
  /\ cpc[c] = "idle"
  /\ cpc' = [cpc EXCEPT ![c] = "writing"]
  /\ Drop(Withdraws[c])
  /\ UNCHANGED <<size, dated, table, pc, expiring, fills, expired, booting>>

\* By OrderBookService.cancel, or by its caller when no level was found.
CancelWrite(c) ==
  /\ cpc[c] = "writing"
  /\ WriteCancelled(Withdraws[c])
  /\ cpc' = [cpc EXCEPT ![c] = "done"]
  /\ UNCHANGED <<levels, remaining, raw, pc, expiring, fills, expired, booting>>

PassExpiry(o) ==
  /\ expired' = expired \cup {o}
  /\ o \notin expired
  /\ UNCHANGED <<levels, table, pc, cpc, expiring, fills, booting>>

Lapsed(o, l) == o \in expired /\ l \in dated

\* The levels that stay, in their order.
Staying(o) == {i \in DOMAIN book[o] : ~Lapsed(o, book[o][i])}
Remainder(o) ==
  LET n == Cardinality(Staying(o))
      at == CHOOSE f \in [1..n -> Staying(o)] : \A i, j \in 1..n : i < j => f[i] < f[j]
  IN [i \in 1..n |-> book[o][at[i]]]

\* sweepExpired on the book: levels known to have expired go.
Sweep ==
  /\ boot # "down"
  /\ book' = [o \in Orders |-> Remainder(o)]
  /\ book' # book
  /\ expiring' = expiring \cup {o \in Orders : book'[o] # book[o]}
  /\ UNCHANGED <<size, dated, table, pc, cpc, fills, expired, booting>>

\* expireOrder, row by row (a row two sweeps have to write is written once).
SweepWrite(o) ==
  /\ o \in expiring
  /\ expiring' = expiring \ {o}
  /\ status' = [status EXCEPT ![o] = "EXPIRED"]
  /\ UNCHANGED <<levels, remaining, raw, pc, cpc, fills, expired, booting>>

-----------------------------------------------------------------------------
(* applyExternalFill.                                                      *)

Busy == {"looking", "reading", "writing", "written"}

\* Each handler applies one fill at a time.
Serial(f) == \A g \in Fills : stage[g] \in Busy => Handler[g] # Handler[f]

\* Mutant of Exec: the fill is not capped.
ExecUncapped(f, have) == FillSize[f]

Exec(f, have) == IF FillSize[f] > have THEN have ELSE FillSize[f]

StatusFor(left) == IF left > 0 THEN "PARTIALLY_FILLED" ELSE "FILLED"

FillGoto(f, s) == stage' = [stage EXCEPT ![f] = s]

Deliverable(f) ==
  /\ Watching
  /\ stage[f] = "pending"
  /\ status[Takes[f]] # "none"
  /\ Serial(f)

\* The level is in memory: it shrinks before the row does.
FillLevel(f) == LET o == Takes[f]
                    l == Head(book[o])
                    left == size[l] - Exec(f, size[l]) IN
  /\ Deliverable(f)
  /\ InBook(o)
  /\ size' = [size EXCEPT ![l] = left]
  /\ work' = [work EXCEPT ![f] = [exec |-> Exec(f, size[l]), to |-> StatusFor(left),
                                   level |-> l, rest |-> 0, core |-> FALSE]]
  /\ FillGoto(f, "writing")
  /\ UNCHANGED <<book, dated, table, pc, cpc, expiring, overdrawn, expired, booting>>

FillMiss(f) ==
  /\ Deliverable(f)
  /\ ~InBook(Takes[f])
  /\ FillGoto(f, "looking")
  /\ UNCHANGED <<levels, table, pc, cpc, expiring, work, overdrawn, expired, booting>>

\* No level: getOrderRemaining, which may be negative, and so is the fill then ...
FillRead(f) == LET o == Takes[f]
                   left == remaining[o] - Exec(f, remaining[o]) IN
  /\ stage[f] = "looking"
  /\ work' = [work EXCEPT ![f] = [exec |-> Exec(f, remaining[o]), to |-> StatusFor(left),
                                   level |-> NoLevel, rest |-> left, core |-> FALSE]]
  /\ overdrawn' = IF remaining[o] < 0 THEN overdrawn \cup {o} ELSE overdrawn
  /\ FillGoto(f, "reading")
  /\ UNCHANGED <<levels, table, pc, cpc, expiring, expired, booting>>

\* ... then listPlacedBySymbol, for what a level needs.
FillCore(f) == LET o == Takes[f] IN
  /\ stage[f] = "reading"
  /\ work' = [work EXCEPT ![f].core = status[o] = "PLACED" /\ remaining[o] > 0]
  /\ FillGoto(f, "writing")
  /\ UNCHANGED <<levels, table, pc, cpc, expiring, overdrawn, expired, booting>>

\* decreaseOrderRemaining: a decrement, and the status decided earlier.
FillWrite(f) == LET o == Takes[f] IN
  /\ stage[f] = "writing"
  /\ remaining' = [remaining EXCEPT ![o] = @ - work[f].exec]
  /\ status' = [status EXCEPT ![o] = work[f].to]
  /\ FillGoto(f, "written")
  /\ UNCHANGED <<levels, raw, pc, cpc, expiring, work, overdrawn, expired, booting>>

\* After the await: an empty level takes all of its hash out of the book; a
\* fill that found no level puts what it left of the row back, undated.
FillEnd(f) == LET o == Takes[f]
                  w == work[f]
                  empty == w.level # NoLevel /\ size[w.level] = 0
                  hydrates == w.core /\ w.rest > 0 IN
  /\ stage[f] = "written"
  /\ book' = [book EXCEPT ![o] = IF empty THEN <<>> ELSE IF hydrates THEN <<f>> ELSE @]
  /\ size' = IF hydrates THEN [size EXCEPT ![f] = w.rest] ELSE size
  /\ FillGoto(f, "done")
  /\ work' = [work EXCEPT ![f] = NoWork]
  /\ UNCHANGED <<dated, table, pc, cpc, expiring, overdrawn, expired, booting>>

-----------------------------------------------------------------------------
(* Restart.                                                                *)

InFlight(s) == s \notin {"idle", "placed", "failed"}

\* The process dies.  The watcher will meet again every fill its persisted
\* cursor had not passed, written or not; the reconciler will not.
Crash ==
  /\ crashes < MaxCrashes
  /\ crashes' = crashes + 1
  /\ book' = [o \in Orders |-> <<>>]
  /\ size' = [l \in Levels |-> 0]
  /\ dated' = {}
  /\ pc' = [p \in Placements |-> IF InFlight(pc[p]) THEN "failed" ELSE pc[p]]
  /\ cpc' = [c \in Cancels |-> IF cpc[c] = "writing" THEN "done" ELSE cpc[c]]
  /\ expiring' = {}
  /\ \E again \in SUBSET {f \in Fills : Handler[f] = "watcher" /\ stage[f] \in {"written", "done"}} :
       stage' = [f \in Fills |->
         CASE f \in again -> "pending"
           [] stage[f] \in {"looking", "reading", "writing"} ->
                IF Handler[f] = "watcher" THEN "pending" ELSE "lost"
           [] stage[f] = "written" /\ f \notin again -> "done"
           [] OTHER -> stage[f]]
  /\ work' = [f \in Fills |-> NoWork]
  /\ boot' = "down"
  /\ stale' = [o \in Orders |-> 0]
  /\ UNCHANGED <<table, overdrawn, expired>>

\* The rehydrator is a provider of two modules: it runs once alone ("down",
\* "hydrating") and once beside the watchers ("started", "rehydrating").  It
\* lists the PLACED rows with something left ...
BootRead ==
  /\ \/ boot = "down" /\ boot' = "hydrating"
     \/ boot = "started" /\ boot' = "rehydrating"
  /\ stale' = [o \in Orders |->
       IF status[o] = "PLACED" /\ remaining[o] > 0 THEN remaining[o] ELSE 0]
  /\ UNCHANGED <<levels, table, pc, cpc, expiring, fills, expired, crashes>>

\* ... and gives each a level, with its expiry if the raw order was saved.
Hydrate(o) ==
  /\ boot \in {"hydrating", "rehydrating"}
  /\ stale[o] > 0
  /\ book' = [book EXCEPT ![o] = <<<<o, boot>>>>]
  /\ size' = [size EXCEPT ![<<o, boot>>] = stale[o]]
  /\ dated' = IF o \in raw THEN dated \cup {<<o, boot>>} ELSE dated
  /\ stale' = [stale EXCEPT ![o] = 0]
  /\ UNCHANGED <<table, pc, cpc, expiring, fills, expired, boot, crashes>>

BootDone ==
  /\ \/ boot = "hydrating" /\ boot' = "started"
     \/ boot = "rehydrating" /\ boot' = "up"
  /\ \A o \in Orders : stale[o] = 0
  /\ UNCHANGED <<levels, table, pc, cpc, expiring, fills, expired, stale, crashes>>

PlaceStep(p) ==
  \/ PlaceClear(p) \/ PlaceReplace(p) \/ PlacePush(p) \/ PlaceUpsert(p)
  \/ PlaceAttach(p) \/ PlaceSave(p) \/ PlaceUndo(p) \/ PlaceClose(p)

CancelStep(c) == CancelClear(c) \/ CancelWrite(c)

ExpiryStep == Sweep \/ \E o \in Orders : PassExpiry(o) \/ SweepWrite(o)

FillStep(f) ==
  \/ FillLevel(f) \/ FillMiss(f) \/ FillRead(f) \/ FillCore(f) \/ FillWrite(f) \/ FillEnd(f)

BootStep == Crash \/ BootRead \/ BootDone \/ \E o \in Orders : Hydrate(o)

Next ==
  \/ \E p \in Placements : PlaceStep(p)
  \/ \E c \in Cancels : CancelStep(c)
  \/ ExpiryStep
  \/ \E f \in Fills : FillStep(f)
  \/ BootStep

Spec == Init /\ [][Next]_vars

-----------------------------------------------------------------------------

\* Types; no level ever shrinks below zero.
TypeOK ==
  /\ book \in [Orders -> Seq(Levels)]
  /\ size \in [Levels -> Nat]
  /\ dated \subseteq Levels
  /\ status \in [Orders -> Statuses]
  /\ remaining \in [Orders -> Int]
  /\ raw \subseteq Orders
  /\ pc \in [Placements -> {"idle", "replacing", "pushing", "upserting", "attaching", "saving",
                            "undoing", "withdrawing", "closing", "placed", "failed"}]
  /\ cpc \in [Cancels -> {"idle", "writing", "done"}]
  /\ expiring \subseteq Orders
  /\ stage \in [Fills -> {"pending", "looking", "reading", "writing", "written", "done", "lost"}]
  /\ work \in [Fills -> [exec : Int, to : Statuses, level : Levels \cup {NoLevel},
                         rest : Int, core : BOOLEAN]]
  /\ overdrawn \subseteq Orders
  /\ expired \subseteq Orders
  /\ boot \in {"down", "hydrating", "started", "rehydrating", "up"}
  /\ stale \in [Orders -> Nat]
  /\ crashes \in 0..MaxCrashes

\* No handler is between two of its steps on the order.
Quiet(o) ==
  /\ boot = "up"
  /\ \A p \in Placements : Places[p] = o => ~InFlight(pc[p])
  /\ \A c \in Cancels : Withdraws[c] = o => cpc[c] # "writing"
  /\ o \notin expiring
  /\ \A f \in Fills : Takes[f] = o => stage[f] \notin Busy

Applied(o) == {f \in Fills : Takes[f] = o /\ stage[f] \in {"written", "done"}}

\* applyExternalFill and upsertOrderPlaced: the row forgets no fill, whatever
\* places, cancels, expires and rehydrates the order meanwhile; but for fills
\* delivered again after a restart it counts each one exactly once; and, FILLED
\* being decided from a level or a row others are about to shrink, a row that
\* says so has nothing left in the end but what a restart made pending or lost.
\* Fills counted twice may drive a row below zero.  A fill that then finds no
\* level gives the deficit back, and two of them give it back twice: of such a
\* row nothing is claimed.
Counted(o) ==
  /\ o \notin overdrawn => remaining[o] <= Size[o] - Base(Applied(o))
  /\ crashes = 0 => remaining[o] = Size[o] - Base(Applied(o)) /\ o \notin overdrawn
Whole(o) ==
  /\ o \notin overdrawn => remaining[o] <= Base({f \in Fills : Takes[f] = o /\ stage[f] \in {"pending", "lost"}})
  /\ crashes = 0 => remaining[o] <= 0
FillsAccounted ==
  \A o \in Orders :
    /\ status[o] # "none" => Counted(o)
    /\ Quiet(o) /\ status[o] = "FILLED" => Whole(o)

\* orders-placement.service.ts's rollback: no order rests in the table,
\* PLACED with something left, that the book does not have.
PlacedIsInBook ==
  \A o \in Orders \ overdrawn : Quiet(o) /\ status[o] = "PLACED" /\ remaining[o] > 0 => InBook(o)

\* README.md: the backend "reconciles fills/cancels and rehydrates the
\* orderbook".  An order shown as open (PLACED or PARTIALLY_FILLED, something
\* left, not expired) is in the book.  Refuted: listPlacedBySymbol, which the
\* rehydrator and applyExternalFill read, lists PLACED rows only.
OpenIsInBook ==
  \A o \in Orders \ expired :
    Quiet(o) /\ status[o] \in {"PLACED", "PARTIALLY_FILLED"} /\ remaining[o] > 0 => InBook(o)
=============================================================================
