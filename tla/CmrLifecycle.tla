---------------------------- MODULE CmrLifecycle ----------------------------
(***************************************************************************)
(* The life of Conditional-Market-Ready intents (apps/api/src/sea): the    *)
(* monitor prepares an intent and re-arms it, the user's browser locks it, *)
(* signs and broadcasts the fill, the marker endpoint ties the transaction *)
(* to the row, and the FillWatcher or the stale sweeper closes it, while   *)
(* cancel requests and expiry sweeps race with all of them.                *)
(*                                                                         *)
(* One API process, many interleaved async handlers over one Postgres      *)
(* table: a step is what runs between two awaits that other handlers can   *)
(* observe.  A read followed by nothing but local computation and a        *)
(* compound-where UPDATE is one step when the WHERE repeats all of it.     *)
(* Time is counted in coarse units; every comparison keeps the code's      *)
(* strictness.                                                             *)
(***************************************************************************)
EXTENDS Integers, FiniteSets

CONSTANTS
  Intents,    \* rows of type CONDITIONAL_MARKET_READY
  Sessions,   \* browser executions (ReadyIntentRowActions); each broadcasts
              \* at most one transaction, which bears the session's name
  Target,     \* [Sessions -> Intents], the row a session executes
  Ticks,      \* monitor ticks that may be in flight together (setInterval
              \* does not wait for the previous one)
  NoTx,       \* linkedTxHash IS NULL
  Expiry,     \* [Intents -> Nat], expiresAt
  MaxTime,    \* bound of the clock
  Ttl,        \* preparedQuote.ttlSec
  LockSecs,   \* SEA_WALLET_LOCK_SEC
  Skew,       \* WALLET_LOCK_SKEW_GRACE_SEC
  SendBuffer, \* the browser refuses to send this close to the lock's end
  Grace,      \* CMR_EXECUTING_MARK_GRACE_SEC
  Cooldown,   \* re-arm cooldown
  Debounce,   \* cooldown of a preparation that found no single full fill
  Stale,      \* SEA_EXECUTING_STALE_MIN
  StaleSweep, \* SEA_EXECUTING_SWEEP_ENABLED
  Faults,     \* whether RPC and reconciler errors and lost posts happen
  MaxCrashes  \* bound on process restarts

ASSUME IntentsAssumption == NoTx \notin Sessions
ASSUME TargetAssumption == Target \in [Sessions -> Intents]
ASSUME ExpiryAssumption == Expiry \in [Intents -> Nat]
ASSUME TimesAssumption ==
  /\ {MaxTime, Ttl, LockSecs, Skew, SendBuffer, Grace} \subseteq Nat
  /\ {Cooldown, Debounce, Stale, MaxCrashes} \subseteq Nat
ASSUME FlagsAssumption == {StaleSweep, Faults} \subseteq BOOLEAN

NoTime == -1  \* a DateTime column that IS NULL

VARIABLES
  now,
  \* Columns of the Intent table, by row.
  status, prepared, lock, link, cooldown, since,
  \* Cancel requests: the status a request read and will write over.
  cancelling,
  \* Browser sessions: where the flow is, the lockNonce (the preparedQuoteAt
  \* it is an HMAC of) and the signed lock end; the pair is the token.
  pc, nonce, until,
  \* Monitor ticks.
  tick,
  \* The chain's view of each transaction; rows of Trade; the FillWatcher's
  \* progress with it; the transactions at or below its persisted cursor.
  chain, trades, watch, settled,
  crashes

rows     == <<status, prepared, lock, link, cooldown, since>>
sessions == <<pc, nonce, until>>
settling == <<trades, watch, settled>>
vars == <<now, rows, cancelling, sessions, tick, chain, settling, crashes>>

Statuses == {"ACTIVE", "READY", "EXECUTING", "EXECUTED", "CANCELLED", "EXPIRED", "FAILED"}
Stages == {"idle", "quoted", "locking", "locked", "signing", "sent",
           "tradeCheck", "receipt", "done"}
Moment == 0..MaxTime
Column == Moment \cup {NoTime}

NoTimes == [i \in Intents |-> NoTime]

IdleTick == [phase |-> "idle", todo |-> {}, at |-> 0,
             lock |-> NoTimes, prepared |-> NoTimes, cooldown |-> NoTimes]

Init ==
  /\ now = 0
  /\ status = [i \in Intents |-> "ACTIVE"]
  /\ prepared = [i \in Intents |-> NoTime]
  /\ lock = [i \in Intents |-> NoTime]
  /\ link = [i \in Intents |-> NoTx]
  /\ cooldown = [i \in Intents |-> NoTime]
  /\ since = [i \in Intents |-> NoTime]
  /\ cancelling = [i \in Intents |-> "none"]
  /\ pc = [s \in Sessions |-> "idle"]
  /\ nonce = [s \in Sessions |-> NoTime]
  /\ until = [s \in Sessions |-> NoTime]
  /\ tick = [t \in Ticks |-> IdleTick]
  /\ chain = [s \in Sessions |-> "none"]
  /\ trades = {}
  /\ watch = [s \in Sessions |-> "unseen"]
  /\ settled = {}
  /\ crashes = 0

Clock ==
  /\ now < MaxTime
  /\ now' = now + 1
  /\ UNCHANGED <<rows, cancelling, sessions, tick, chain, settling, crashes>>

-----------------------------------------------------------------------------
(* The browser's execution flow and the wallet-lock endpoint.              *)

Goto(s, stage) == pc' = [pc EXCEPT ![s] = stage]

\* Back to the Execute or Retry button: orchestrate forgets token and lock end.
Reset(s) ==
  /\ Goto(s, "idle")
  /\ nonce' = [nonce EXCEPT ![s] = NoTime]
  /\ until' = [until EXCEPT ![s] = NoTime]

Earlier(x, y) == IF x < y THEN x ELSE y

\* Mutant of ProposedUntil: the cap at expiresAt is forgotten.
ProposedUntilUncapped(i) == now + LockSecs

\* The end of the lock window fresh-quote proposes.
ProposedUntil(i) == Earlier(now + LockSecs, Expiry[i])

SnapshotAlive(i) == prepared[i] # NoTime /\ now <= prepared[i] + Ttl

\* GET fresh-quote of a READY row (the book still fills it at its trigger).
FreshQuote(s) == LET i == Target[s] IN
  /\ pc[s] = "idle"
  /\ status[i] = "READY"
  /\ now <= Expiry[i]
  /\ SnapshotAlive(i)
  /\ nonce' = [nonce EXCEPT ![s] = prepared[i]]
  /\ until' = [until EXCEPT ![s] = ProposedUntil(i)]
  /\ Goto(s, "quoted")
  /\ UNCHANGED <<now, rows, cancelling, tick, chain, settling, crashes>>

\* verifyLockNonce: an HMAC that binds the nonce to preparedQuoteAt.
NonceVerifies(s) == nonce[s] = prepared[Target[s]]

\* What lockWallet demands of the row it read and of the signed lock end.
LockGuard(s) == LET i == Target[s] IN
  /\ status[i] = "READY"
  /\ now < Expiry[i]
  /\ SnapshotAlive(i)
  /\ NonceVerifies(s)
  /\ now < until[s]
  /\ until[s] <= Expiry[i]
  /\ until[s] <= now + LockSecs + Skew

LiveLock(i) == lock[i] # NoTime /\ lock[i] > now

\* POST wallet-lock, up to its UPDATE: the row is free to lock.
LockCheck(s) ==
  /\ pc[s] = "quoted"
  /\ LockGuard(s)
  /\ ~LiveLock(Target[s])
  /\ Goto(s, "locking")
  /\ UNCHANGED <<now, rows, cancelling, nonce, until, tick, chain, settling, crashes>>

\* The row holds this very lock: the same token is issued again.
LockReplay(s) ==
  /\ pc[s] = "quoted"
  /\ LockGuard(s)
  /\ LiveLock(Target[s])
  /\ lock[Target[s]] = until[s]
  /\ Goto(s, "locked")
  /\ UNCHANGED <<now, rows, cancelling, nonce, until, tick, chain, settling, crashes>>

\* Refused; the panel offers Retry.
LockReject(s) ==
  /\ pc[s] = "quoted"
  /\ \/ ~LockGuard(s)
     \/ LiveLock(Target[s]) /\ lock[Target[s]] # until[s]
  /\ Reset(s)
  /\ UNCHANGED <<now, rows, cancelling, tick, chain, settling, crashes>>

\* WHERE of lockWalletFromReady: the snapshot the handler read is still there.
LockMatches(s) == LET i == Target[s] IN status[i] = "READY" /\ prepared[i] = nonce[s]

\* lockWalletFromReady, and the answer with the token.
LockStamp(s) == LET i == Target[s] IN
  /\ pc[s] = "locking"
  /\ IF LockMatches(s)
     THEN /\ lock' = [lock EXCEPT ![i] = until[s]]
          /\ Goto(s, "locked")
          /\ UNCHANGED <<nonce, until>>
     ELSE UNCHANGED lock /\ Reset(s)
  /\ UNCHANGED <<now, status, prepared, link, cooldown, since, cancelling,
                 tick, chain, settling, crashes>>

\* The execution quote failed or the user closed the wallet.
Abandon(s) ==
  /\ pc[s] \in {"quoted", "locked", "signing"}
  /\ Reset(s)
  /\ UNCHANGED <<now, rows, cancelling, tick, chain, settling, crashes>>

\* onConfirmClick opens the wallet, unless the lock window is closing.
Confirm(s) ==
  /\ pc[s] = "locked"
  /\ until[s] - now > SendBuffer
  /\ Goto(s, "signing")
  /\ UNCHANGED <<now, rows, cancelling, nonce, until, tick, chain, settling, crashes>>

\* The user confirms in the wallet, however late.
Broadcast(s) ==
  /\ pc[s] = "signing"
  /\ chain' = [chain EXCEPT ![s] = "pending"]
  /\ Goto(s, "sent")
  /\ UNCHANGED <<now, rows, cancelling, nonce, until, tick, settling, crashes>>

-----------------------------------------------------------------------------
(* POST executing, the marker (sent once, right after the broadcast).      *)

\* verifyExecutionToken: the token, re-derived from the row's lock end and
\* from the nonce of its preparedQuoteAt, is the session's.
TokenVerifies(s) == lock[Target[s]] = until[s] /\ NonceVerifies(s)

\* What markExecuting demands of the row it read: READY, within the lock and
\* its grace, with the token.
MarkGuard(s) == LET i == Target[s] IN
  /\ status[i] = "READY"
  /\ lock[i] # NoTime
  /\ prepared[i] # NoTime
  /\ now <= lock[i] + Grace
  /\ TokenVerifies(s)

MarkAccept(s) ==
  /\ pc[s] = "sent"
  /\ MarkGuard(s)
  /\ Goto(s, "tradeCheck")
  /\ UNCHANGED <<now, rows, cancelling, nonce, until, tick, chain, settling, crashes>>

\* 401 or 409 (or the row already bears this hash): nothing is written, and
\* the browser does not retry.
MarkRefuse(s) ==
  /\ pc[s] = "sent"
  /\ ~MarkGuard(s)
  /\ Goto(s, "done")
  /\ UNCHANGED <<now, rows, cancelling, nonce, until, tick, chain, settling, crashes>>

\* The post never arrives (tab closed, network down).
MarkLost(s) ==
  /\ Faults
  /\ pc[s] = "sent"
  /\ Goto(s, "done")
  /\ UNCHANGED <<now, rows, cancelling, nonce, until, tick, chain, settling, crashes>>

\* READY -> to, stamping the hash, if the row still is READY; else 409.
Stamp(s, to) == LET i == Target[s] IN
  /\ IF status[i] = "READY"
     THEN /\ status' = [status EXCEPT ![i] = to]
          /\ link' = [link EXCEPT ![i] = s]
          /\ since' = [since EXCEPT ![i] = now]
     ELSE UNCHANGED <<status, link, since>>
  /\ Goto(s, "done")
  /\ UNCHANGED <<now, prepared, lock, cooldown, cancelling, nonce, until, tick,
                 chain, settling, crashes>>

\* Mutant of TradeFound: the marker trusts the receipt, not the Trade.
ReceiptFound(s) == chain[s] = "success"

\* findTradeByTxHashForIntent.
TradeFound(s) == s \in trades

\* Fast path A: the watcher was faster than the marker.
MarkFromTrade(s) ==
  /\ pc[s] = "tradeCheck"
  /\ TradeFound(s)
  /\ Stamp(s, "EXECUTED")

MarkNoTrade(s) ==
  /\ pc[s] = "tradeCheck"
  /\ ~TradeFound(s)
  /\ Goto(s, "receipt")
  /\ UNCHANGED <<now, rows, cancelling, nonce, until, tick, chain, settling, crashes>>

\* Fast path B: the receipt says reverted.
MarkReverted(s) ==
  /\ pc[s] = "receipt"
  /\ chain[s] = "reverted"
  /\ Stamp(s, "FAILED")

\* Normal path: anything else, a receipt that took over 500 ms included.
MarkExecuting(s) ==
  /\ pc[s] = "receipt"
  /\ Stamp(s, "EXECUTING")

-----------------------------------------------------------------------------
(* DELETE intent.                                                          *)

CancelRead(i) ==
  /\ cancelling[i] = "none"
  /\ status[i] \in {"ACTIVE", "READY"}
  /\ cancelling' = [cancelling EXCEPT ![i] = status[i]]
  /\ UNCHANGED <<now, rows, sessions, tick, chain, settling, crashes>>

\* Mutant of CancelMatches: an UPDATE by id alone.
CancelUnconditional(i) == TRUE

\* The WHERE of transitionStatus.
CancelMatches(i) == status[i] = cancelling[i]

\* transitionStatus from the status that was read, else 409.
CancelWrite(i) ==
  /\ cancelling[i] # "none"
  /\ status' = IF CancelMatches(i) THEN [status EXCEPT ![i] = "CANCELLED"] ELSE status
  /\ cancelling' = [cancelling EXCEPT ![i] = "none"]
  /\ UNCHANGED <<now, prepared, lock, link, cooldown, since, sessions, tick,
                 chain, settling, crashes>>

-----------------------------------------------------------------------------
(* The monitor's tick: tickCMRActive, then tickCMRReady.                   *)

\* Mutant of CooldownElapsed: the cooldown is not in the WHERE.
CooldownIgnored(i) == TRUE

\* The cooldown in findActiveCMRIntents; markReady's WHERE does not repeat it.
CooldownElapsed(i) == cooldown[i] <= now

TickStart(t) ==
  /\ tick[t].phase = "idle"
  /\ tick' = [tick EXCEPT ![t] =
       [IdleTick EXCEPT !.phase = "active", !.cooldown = cooldown,
          !.todo = {i \in Intents : /\ status[i] = "ACTIVE"
                                    /\ Expiry[i] > now
                                    /\ CooldownElapsed(i)}]]
  /\ UNCHANGED <<now, rows, cancelling, sessions, chain, settling, crashes>>

Handled(t, i) == tick' = [tick EXCEPT ![t].todo = @ \ {i}]

\* evaluateAndPrepare, one full fill within the trigger: markReady.
Prepare(t, i) ==
  /\ tick[t].phase = "active" /\ i \in tick[t].todo
  /\ IF status[i] = "ACTIVE"
     THEN /\ status' = [status EXCEPT ![i] = "READY"]
          /\ prepared' = [prepared EXCEPT ![i] = now]
     ELSE UNCHANGED <<status, prepared>>
  /\ Handled(t, i)
  /\ UNCHANGED <<now, lock, link, cooldown, since, cancelling, sessions, chain, settling, crashes>>

\* evaluateAndPrepare, too little liquidity or notional or several fills.
Postpone(t, i) ==
  /\ tick[t].phase = "active" /\ i \in tick[t].todo
  /\ cooldown' = IF status[i] = "ACTIVE"
                 THEN [cooldown EXCEPT ![i] = now + Debounce] ELSE cooldown
  /\ Handled(t, i)
  /\ UNCHANGED <<now, status, prepared, lock, link, since, cancelling, sessions, chain, settling, crashes>>

\* evaluateAndPrepare, trigger not met or the quote failed.
Skip(t, i) ==
  /\ tick[t].phase = "active" /\ i \in tick[t].todo
  /\ Handled(t, i)
  /\ UNCHANGED <<now, rows, cancelling, sessions, chain, settling, crashes>>

\* findReadyCMRIntents: lock and snapshot as read, and one clock reading,
\* serve for the whole loop.
TickReadRows(t) ==
  /\ tick[t].phase = "active" /\ tick[t].todo = {}
  /\ tick' = [tick EXCEPT ![t] =
       [phase |-> "ready", todo |-> {i \in Intents : status[i] = "READY"},
        at |-> now, lock |-> lock, prepared |-> prepared, cooldown |-> NoTimes]]
  /\ UNCHANGED <<now, rows, cancelling, sessions, chain, settling, crashes>>

SeenExpired(t, i) == tick[t].at > Expiry[i]

\* The wallet-lock guard, grace included.
SeenLocked(t, i) == tick[t].lock[i] # NoTime /\ tick[t].lock[i] + Grace > tick[t].at

SeenStale(t, i) ==
  \/ tick[t].prepared[i] = NoTime
  \/ tick[t].at > tick[t].prepared[i] + Ttl

\* Hard expiry comes first, no lock shields from it: markExpiredFromReady.
ExpireReady(t, i) ==
  /\ tick[t].phase = "ready" /\ i \in tick[t].todo
  /\ SeenExpired(t, i)
  /\ IF status[i] = "READY"
     THEN /\ status' = [status EXCEPT ![i] = "EXPIRED"]
          /\ prepared' = [prepared EXCEPT ![i] = NoTime]
     ELSE UNCHANGED <<status, prepared>>
  /\ Handled(t, i)
  /\ UNCHANGED <<now, lock, link, cooldown, since, cancelling, sessions, chain, settling, crashes>>

\* Mutant of RearmedSnapshot: the re-arm keeps it.
KeptSnapshot(i) == prepared[i]

\* preparedQuoteAt after a re-arm.
RearmedSnapshot(i) == NoTime

\* rearmFromReady, on the row as it is by now.
Rearm(t, i) ==
  /\ tick[t].phase = "ready" /\ i \in tick[t].todo
  /\ ~SeenExpired(t, i) /\ ~SeenLocked(t, i) /\ SeenStale(t, i)
  /\ IF status[i] = "READY"
     THEN /\ status' = [status EXCEPT ![i] = "ACTIVE"]
          /\ prepared' = [prepared EXCEPT ![i] = RearmedSnapshot(i)]
          /\ cooldown' = [cooldown EXCEPT ![i] = now + Cooldown]
     ELSE UNCHANGED <<status, prepared, cooldown>>
  /\ Handled(t, i)
  /\ UNCHANGED <<now, lock, link, since, cancelling, sessions, chain, settling, crashes>>

KeepReady(t, i) ==
  /\ tick[t].phase = "ready" /\ i \in tick[t].todo
  /\ ~SeenExpired(t, i)
  /\ SeenLocked(t, i) \/ ~SeenStale(t, i)
  /\ Handled(t, i)
  /\ UNCHANGED <<now, rows, cancelling, sessions, chain, settling, crashes>>

TickDone(t) ==
  /\ tick[t].phase = "ready" /\ tick[t].todo = {}
  /\ tick' = [tick EXCEPT ![t] = IdleTick]
  /\ UNCHANGED <<now, rows, cancelling, sessions, chain, settling, crashes>>

TickStep(t) ==
  \/ TickStart(t) \/ TickReadRows(t) \/ TickDone(t)
  \/ \E i \in Intents : Prepare(t, i) \/ Postpone(t, i) \/ Skip(t, i)
                        \/ ExpireReady(t, i) \/ Rearm(t, i) \/ KeepReady(t, i)

-----------------------------------------------------------------------------
(* The two sweepers: candidates by a find, then one compound-where UPDATE  *)
(* each that repeats the find's condition.                                 *)

\* Mutant of Due: the comparison is reversed.
DueReversed(i) == now < Expiry[i]

Due(i) == Expiry[i] < now

\* expireDueIntents: only ACTIVE rows.
ExpireDue(i) ==
  /\ status[i] = "ACTIVE" /\ Due(i)
  /\ status' = [status EXCEPT ![i] = "EXPIRED"]
  /\ UNCHANGED <<now, prepared, lock, link, cooldown, since, cancelling,
                 sessions, tick, chain, settling, crashes>>

\* EXECUTING for longer than the threshold (updatedAt < cutoff).
StaleExecuting(i) == status[i] = "EXECUTING" /\ since[i] < now - Stale

\* sweepStaleExecuting.
SweepStale(i) ==
  /\ StaleSweep
  /\ StaleExecuting(i)
  /\ status' = [status EXCEPT ![i] = "FAILED"]
  /\ UNCHANGED <<now, prepared, lock, link, cooldown, since, cancelling,
                 sessions, tick, chain, settling, crashes>>

-----------------------------------------------------------------------------
(* The chain and the FillWatcher, which takes the mined fills one by one:  *)
(* receipt, addTrade, applyExternalFill, then the intent's reconciliation. *)

Mine(s) ==
  /\ chain[s] = "pending"
  /\ \E outcome \in {"success", "reverted"} : chain' = [chain EXCEPT ![s] = outcome]
  /\ UNCHANGED <<now, rows, cancelling, sessions, tick, settling, crashes>>

WatcherIdle == \A s \in Sessions : watch[s] # "recorded"

\* The scan reaches the transaction: past the cursor, not in "seen".
Reaches(s) == watch[s] = "unseen" /\ s \notin settled /\ WatcherIdle

\* Mutant of TakenAsFill: no revert guard.
TakenUnchecked(s) == chain[s] \in {"success", "reverted"}

\* The revert guard, which lets a fill through when the receipt is unknown.
TakenAsFill(s) == chain[s] = "success" \/ (Faults /\ chain[s] = "reverted")

\* addTrade.
WatchRecord(s) ==
  /\ Reaches(s)
  /\ TakenAsFill(s)
  /\ trades' = trades \cup {s}
  /\ watch' = [watch EXCEPT ![s] = "recorded"]
  /\ UNCHANGED <<now, rows, cancelling, sessions, tick, chain, settled, crashes>>

\* findExecutingByTxHashForOwner.
AwaitsTx(s) == status[Target[s]] = "EXECUTING" /\ link[Target[s]] = s

Close(s, to) ==
  /\ status' = IF AwaitsTx(s) THEN [status EXCEPT ![Target[s]] = to] ELSE status
  /\ watch' = [watch EXCEPT ![s] = "seen"]
  /\ UNCHANGED <<now, prepared, lock, link, cooldown, since, cancelling,
                 sessions, tick, chain, trades, settled, crashes>>

\* markExecuted; seen.add only after it.
WatchReconcile(s) == watch[s] = "recorded" /\ Close(s, "EXECUTED")

\* markFailedFromExecuting: no Trade.
WatchReverted(s) ==
  /\ Reaches(s)
  /\ chain[s] = "reverted"
  /\ Close(s, "FAILED")

\* An error before or while the fill is applied (or an unreadable block)
\* leaves it out of "seen"; the scan goes on.
WatchMiss(s) ==
  /\ Faults
  /\ \/ watch[s] = "recorded"
     \/ Reaches(s) /\ chain[s] \in {"success", "reverted"}
  /\ watch' = [watch EXCEPT ![s] = "missed"]
  /\ UNCHANGED <<now, rows, cancelling, sessions, tick, chain, trades, settled, crashes>>

\* An error of the intent's reconciliation is swallowed, and the fill is "seen".
ReconcileLost(s) ==
  /\ Faults
  /\ \/ watch[s] = "recorded"
     \/ Reaches(s) /\ chain[s] = "reverted"
  /\ watch' = [watch EXCEPT ![s] = "seen"]
  /\ UNCHANGED <<now, rows, cancelling, sessions, tick, chain, trades, settled, crashes>>

\* Mutant of Scanned: the cursor goes to the head before the fills are handled.
ScannedAhead == {s \in Sessions : chain[s] \in {"success", "reverted"}}

\* Every fill the scan has passed.
Scanned == {s \in Sessions : watch[s] \in {"seen", "missed"}}

\* End of the watcher's tick: the cursor is persisted past what it handled.
SaveCursor ==
  /\ WatcherIdle
  /\ Scanned # settled
  /\ settled' = Scanned
  /\ UNCHANGED <<now, rows, cancelling, sessions, tick, chain, trades, watch, crashes>>

\* A transient RPC error further on: the next tick rescans from the cursor
\* and passes over what is in "seen".
Rescan ==
  /\ Faults
  /\ WatcherIdle
  /\ \E s \in Sessions \ settled : watch[s] = "missed"
  /\ watch' = [s \in Sessions |->
       IF watch[s] = "missed" /\ s \notin settled THEN "unseen" ELSE watch[s]]
  /\ UNCHANGED <<now, rows, cancelling, sessions, tick, chain, trades, settled, crashes>>

-----------------------------------------------------------------------------

\* The API process restarts: handlers, ticks and "seen" are gone; the browser
\* sees its request fail, to abandon the lock or not to repeat the marker.
Crash ==
  /\ crashes < MaxCrashes
  /\ crashes' = crashes + 1
  /\ cancelling' = [i \in Intents |-> "none"]
  /\ pc' = [s \in Sessions |->
       CASE pc[s] = "locking" -> "quoted"
         [] pc[s] \in {"tradeCheck", "receipt"} -> "done"
         [] OTHER -> pc[s]]
  /\ tick' = [t \in Ticks |-> IdleTick]
  /\ watch' = [s \in Sessions |-> IF s \in settled THEN watch[s] ELSE "unseen"]
  /\ UNCHANGED <<now, rows, nonce, until, chain, trades, settled>>

MarkStep(s) ==
  \/ MarkAccept(s) \/ MarkRefuse(s) \/ MarkFromTrade(s) \/ MarkNoTrade(s)
  \/ MarkReverted(s) \/ MarkExecuting(s)

WatchStep(s) == WatchRecord(s) \/ WatchReconcile(s) \/ WatchReverted(s)

SessionStep(s) ==
  \/ FreshQuote(s) \/ LockCheck(s) \/ LockReplay(s) \/ LockReject(s) \/ LockStamp(s)
  \/ Abandon(s) \/ Confirm(s) \/ Broadcast(s) \/ MarkStep(s) \/ MarkLost(s)

RowStep(i) == CancelRead(i) \/ CancelWrite(i) \/ ExpireDue(i) \/ SweepStale(i)

Next ==
  \/ Clock
  \/ \E s \in Sessions : SessionStep(s)
  \/ \E i \in Intents : RowStep(i)
  \/ \E t \in Ticks : TickStep(t)
  \/ \E s \in Sessions : Mine(s) \/ WatchStep(s) \/ WatchMiss(s) \/ ReconcileLost(s)
  \/ SaveCursor \/ Rescan
  \/ Crash

Spec == Init /\ [][Next]_vars

\* Timers keep firing, handlers run on, blocks are mined and scanned; a user
\* owes nothing.
Fairness ==
  /\ WF_vars(Clock)
  /\ \A t \in Ticks : WF_vars(TickStep(t))
  /\ \A i \in Intents : WF_vars(ExpireDue(i)) /\ WF_vars(SweepStale(i))
  /\ \A s \in Sessions : /\ WF_vars(MarkStep(s))
                         /\ WF_vars(Mine(s))
                         /\ WF_vars(WatchStep(s))

FairSpec == Spec /\ Fairness

-----------------------------------------------------------------------------
(* Types.                                                                  *)

\* Every variable has its type, and no stored lock end lies after the
\* intent's expiry (intent.service.ts, lockWallet step 3).
TypeOK ==
  /\ now \in Moment
  /\ status \in [Intents -> Statuses]
  /\ prepared \in [Intents -> Column]
  /\ link \in [Intents -> Sessions \cup {NoTx}]
  /\ cooldown \in [Intents -> Int]
  /\ since \in [Intents -> Column]
  /\ cancelling \in [Intents -> {"none", "ACTIVE", "READY"}]
  /\ pc \in [Sessions -> Stages]
  /\ nonce \in [Sessions -> Column]
  /\ lock \in [Intents -> Int] /\ \A i \in Intents : lock[i] <= Expiry[i]
  /\ until \in [Sessions -> Int] /\ \A s \in Sessions : until[s] <= Expiry[Target[s]]
  /\ tick \in [Ticks -> [phase : {"idle", "active", "ready"}, todo : SUBSET Intents,
                         at : Moment, lock : [Intents -> Int], prepared : [Intents -> Column],
                         cooldown : [Intents -> Int]]]
  /\ chain \in [Sessions -> {"none", "pending", "success", "reverted"}]
  /\ trades \subseteq Sessions
  /\ watch \in [Sessions -> {"unseen", "recorded", "seen", "missed"}]
  /\ settled \subseteq Sessions
  /\ crashes \in 0..MaxCrashes

-----------------------------------------------------------------------------
(* What the code gets right.                                               *)

\* An intent is EXECUTED only with the hash of a transaction for which a
\* Trade was recorded first: fast path A finds the Trade, the watcher adds
\* it before it reconciles.
ExecutedHasTrade ==
  \A i \in Intents : status[i] = "EXECUTED" => link[i] \in trades

\* Without faults and the stale sweep, the status tells what the chain did:
\* EXECUTED for a fill that succeeded, FAILED for one that reverted.
OutcomeMatchesChain ==
  \A i \in Intents :
    /\ status[i] = "EXECUTED" => link[i] # NoTx /\ chain[link[i]] = "success"
    /\ status[i] = "FAILED" => link[i] # NoTx /\ chain[link[i]] = "reverted"

\* Whatever interleaves with markReady, rearmFromReady and
\* markExpiredFromReady, a READY row has its snapshot (else no token could be
\* verified) and an ACTIVE one has none (else an old token could).
SnapshotIffReady ==
  \A i \in Intents :
    /\ status[i] = "READY" => prepared[i] # NoTime
    /\ status[i] = "ACTIVE" => prepared[i] = NoTime

\* A row whose cooldown still runs is prepared only by a tick that had loaded
\* it before that cooldown was written (by another tick: setInterval lets them
\* overlap), never by one that loaded it later.
CooldownRespected ==
  [][\A i \in Intents :
       status[i] = "ACTIVE" /\ status'[i] = "READY" /\ cooldown[i] > now =>
         \E t \in Ticks : /\ tick[t].phase = "active" /\ i \in tick[t].todo
                         /\ tick[t].cooldown[i] # cooldown[i]]_vars

\* The Intent table's state machine, with sessions for transactions.
Lifecycle == INSTANCE IntentLifecycle WITH Txs <- Sessions
RefinesLifecycle == Lifecycle!Spec

\* No wallet lock, re-arm or cooldown keeps an intent open for ever: each one
\* leaves ACTIVE and READY for good once its expiry has passed.
OpenIntentCloses ==
  \A i \in Intents : (status[i] \in {"ACTIVE", "READY"}) ~> (status[i] \notin {"ACTIVE", "READY"})

\* A row the marker made EXECUTING before the watcher scanned its transaction
\* is closed by the watcher, restarts included.
MarkedInTimeResolves ==
  \A s \in Sessions :
    (AwaitsTx(s) /\ watch[s] = "unseen") ~> ~AwaitsTx(s)

-----------------------------------------------------------------------------
(* What the repository says of the code and the model refutes.             *)

\* README.md: "the intent moves EXECUTING -> EXECUTED or FAILED via
\* watcher/sweeper reconciliation".  Refuted: a watcher that scans the fill
\* between the marker's Trade lookup and its UPDATE finds no EXECUTING row,
\* and never looks again; the sweeper is off by default.
ExecutingResolves ==
  \A i \in Intents : (status[i] = "EXECUTING") ~> (status[i] # "EXECUTING")

\* intent-monitor.service.ts: the wallet-lock guard "blocks READY -> ACTIVE
\* re-arm during the pre-tx wallet-lock window AND the marker grace".
\* Refuted: the guard reads a lock as it was when the tick loaded its rows.
LockBlocksRearm ==
  [][\A i \in Intents :
       LiveLock(i) /\ status[i] = "READY" => status'[i] # "ACTIVE"]_vars
=============================================================================
