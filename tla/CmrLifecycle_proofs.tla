------------------------ MODULE CmrLifecycle_proofs ------------------------
(***************************************************************************)
(* Proofs about CmrLifecycle, for any number of intents, sessions and      *)
(* monitor ticks in flight, any timing constants, with and without faults. *)
(***************************************************************************)
EXTENDS CmrLifecycle, TLAPS

LEMMA InitTyped == Init => TypeOK
  BY IntentsAssumption, TargetAssumption, ExpiryAssumption, TimesAssumption
  DEF Init, TypeOK, Statuses, Column, Moment, Stages, IdleTick, NoTimes, NoTime

\* Every step keeps the types; the browser's steps are the ones that can
\* disturb the bound of a lock end.
LEMMA StepTyped == TypeOK /\ [Next]_vars => TypeOK'
  <1> SUFFICES ASSUME TypeOK, [Next]_vars PROVE TypeOK'
    OBVIOUS
  <1> USE TargetAssumption, ExpiryAssumption, TimesAssumption
  <1> USE DEF TypeOK, Statuses, Column, Moment, Stages, NoTime, rows, sessions, settling
  <1>1. CASE Clock
    BY <1>1 DEF Clock
  <1>2. ASSUME NEW s \in Sessions, SessionStep(s) PROVE TypeOK'
    <2>1. /\ Target[s] \in Intents
          /\ \A r \in Sessions : Expiry[Target[r]] \in Nat
      OBVIOUS
    <2>2. CASE FreshQuote(s)
      BY <2>1, <2>2 DEF FreshQuote, ProposedUntil, Earlier, Goto
    <2>3. CASE LockCheck(s) \/ LockReplay(s) \/ Confirm(s) \/ MarkAccept(s)
               \/ MarkRefuse(s) \/ MarkLost(s) \/ MarkNoTrade(s)
      <3>1. \E stage \in Stages : pc' = [pc EXCEPT ![s] = stage]
        BY <2>3 DEF LockCheck, LockReplay, Confirm, MarkAccept, MarkRefuse, MarkLost, MarkNoTrade, Goto
      <3>2. UNCHANGED <<now, rows, cancelling, nonce, until, tick, chain, settling, crashes>>
        BY <2>3 DEF LockCheck, LockReplay, Confirm, MarkAccept, MarkRefuse, MarkLost, MarkNoTrade
      <3>3. pc' \in [Sessions -> Stages]
        BY <3>1
      <3>4. QED
        BY <3>2, <3>3
    <2>4. ASSUME Reset(s)
          PROVE  /\ pc' \in [Sessions -> Stages]
                 /\ nonce' \in [Sessions -> Column]
                 /\ until' \in [Sessions -> Int]
                 /\ \A r \in Sessions : until'[r] <= Expiry[Target[r]]
      BY <2>1, <2>4 DEF Reset, Goto
    <2>5. CASE LockReject(s) \/ Abandon(s)
      BY <2>4, <2>5 DEF LockReject, Abandon
    <2>6. CASE LockStamp(s)
      <3>1. CASE LockMatches(s)
        <4>1. /\ lock' = [lock EXCEPT ![Target[s]] = until[s]]
              /\ pc' = [pc EXCEPT ![s] = "locked"]
              /\ UNCHANGED <<now, status, prepared, link, cooldown, since, cancelling,
                             nonce, until, tick, chain, trades, watch, settled, crashes>>
          BY <2>6, <3>1 DEF LockStamp, Goto
        <4>2. lock' \in [Intents -> Int] /\ \A i \in Intents : lock'[i] <= Expiry[i]
          BY <2>1, <4>1
        <4>3. QED
          BY <4>1, <4>2
      <3>2. CASE ~LockMatches(s)
        BY <2>4, <2>6, <3>2 DEF LockStamp
      <3>3. QED
        BY <3>1, <3>2
    <2>7. CASE Broadcast(s)
      BY <2>7 DEF Broadcast, Goto
    <2>8. CASE MarkFromTrade(s) \/ MarkReverted(s) \/ MarkExecuting(s)
      <3>1. PICK to \in {"EXECUTED", "FAILED", "EXECUTING"} : Stamp(s, to)
        BY <2>8 DEF MarkFromTrade, MarkReverted, MarkExecuting
      <3>2. pc' \in [Sessions -> Stages]
        BY <3>1 DEF Stamp, Goto
      <3>3. status' \in [Intents -> Statuses] /\ link' \in [Intents -> Sessions \cup {NoTx}]
            /\ since' \in [Intents -> Column]
        <4>1. CASE UNCHANGED <<status, link, since>>
          BY <4>1
        <4>2. CASE /\ status' = [status EXCEPT ![Target[s]] = to]
                   /\ link' = [link EXCEPT ![Target[s]] = s]
                   /\ since' = [since EXCEPT ![Target[s]] = now]
          BY <2>1, <4>2
        <4>3. QED
          BY <3>1, <4>1, <4>2 DEF Stamp
      <3>4. UNCHANGED <<now, prepared, lock, cooldown, cancelling, nonce, until, tick, chain, settling, crashes>>
        BY <3>1 DEF Stamp
      <3>5. QED
        BY <3>2, <3>3, <3>4
    <2>9. QED
      BY <1>2, <2>2, <2>3, <2>5, <2>6, <2>7, <2>8 DEF SessionStep, MarkStep
  <1>3. ASSUME NEW i \in Intents, RowStep(i) PROVE TypeOK'
    <2>1. status' \in [Intents -> Statuses]
      BY <1>3 DEF RowStep, CancelRead, CancelWrite, ExpireDue, SweepStale
    <2>2. cancelling' \in [Intents -> {"none", "ACTIVE", "READY"}]
      <3>1. CASE CancelRead(i)
        BY <3>1 DEF CancelRead
      <3>2. CASE CancelWrite(i)
        BY <3>2 DEF CancelWrite
      <3>3. CASE ExpireDue(i) \/ SweepStale(i)
        BY <3>3 DEF ExpireDue, SweepStale
      <3>4. QED
        BY <1>3, <3>1, <3>2, <3>3 DEF RowStep
    <2>3. UNCHANGED <<now, prepared, lock, link, cooldown, since, sessions, tick, chain, settling, crashes>>
      BY <1>3 DEF RowStep, CancelRead, CancelWrite, ExpireDue, SweepStale
    <2>4. QED
      BY <2>1, <2>2, <2>3
  <1>4. ASSUME NEW t \in Ticks, TickStep(t) PROVE TypeOK'
    <2> DEFINE TickType == [phase : {"idle", "active", "ready"}, todo : SUBSET Intents,
                            at : Moment, lock : [Intents -> Int],
                            prepared : [Intents -> Column], cooldown : [Intents -> Int]]
    <2>1. tick[t] \in TickType /\ IdleTick \in TickType
      <3>1. NoTimes \in [Intents -> Column] /\ NoTimes \in [Intents -> Int]
        BY DEF NoTimes
      <3>2. QED
        BY <3>1 DEF IdleTick
    <2>2. CASE TickStart(t)
      <3>1. PICK todo \in SUBSET Intents :
              tick' = [tick EXCEPT ![t] =
                         [IdleTick EXCEPT !.phase = "active", !.cooldown = cooldown, !.todo = todo]]
        BY <2>2 DEF TickStart
      <3>2. [IdleTick EXCEPT !.phase = "active", !.cooldown = cooldown, !.todo = todo] \in TickType
        BY <2>1
      <3>3. tick' \in [Ticks -> TickType]
        BY <3>1, <3>2
      <3>4. QED
        BY <2>2, <3>3 DEF TickStart
    <2>3. CASE TickReadRows(t)
      <3>1. PICK d, c : d = {i \in Intents : status[i] = "READY"} /\ c = NoTimes
        OBVIOUS
      <3>2. c \in [Intents -> Int]
        BY <3>1 DEF NoTimes
      <3>3. [phase |-> "ready", todo |-> d, at |-> now, lock |-> lock, prepared |-> prepared,
             cooldown |-> c] \in TickType
        BY <3>1, <3>2
      <3>4. tick' \in [Ticks -> TickType]
        BY <2>3, <3>1, <3>3 DEF TickReadRows
      <3>5. QED
        BY <2>3, <3>4 DEF TickReadRows
    <2>4. CASE TickDone(t)
      BY <2>1, <2>4 DEF TickDone
    <2>5. ASSUME NEW i \in Intents,
                 Prepare(t, i) \/ Postpone(t, i) \/ Skip(t, i)
                   \/ ExpireReady(t, i) \/ Rearm(t, i) \/ KeepReady(t, i)
          PROVE TypeOK'
      <3>1. tick' \in [Ticks -> TickType]
        <4>1. tick' = [tick EXCEPT ![t].todo = @ \ {i}]
          BY <2>5 DEF Prepare, Postpone, Skip, ExpireReady, Rearm, KeepReady, Handled
        <4>2. [tick[t] EXCEPT !.todo = @ \ {i}] \in TickType
          BY <2>1
        <4>3. QED
          BY <4>1, <4>2
      <3>2. /\ now' = now /\ chain' = chain /\ crashes' = crashes
            /\ lock' = lock /\ link' = link /\ since' = since /\ cancelling' = cancelling
            /\ UNCHANGED <<sessions, settling>>
        BY <2>5 DEF Prepare, Postpone, Skip, ExpireReady, Rearm, KeepReady
      <3>3. status' \in [Intents -> Statuses]
        <4>1. \/ status' = status
              \/ \E w \in {"ACTIVE", "READY", "EXPIRED"} : status' = [status EXCEPT ![i] = w]
          BY <2>5 DEF Prepare, Postpone, Skip, ExpireReady, Rearm, KeepReady
        <4>2. QED
          BY <4>1
      <3>4. prepared' \in [Intents -> Column]
        BY <2>5 DEF Prepare, Postpone, Skip, ExpireReady, Rearm, KeepReady, RearmedSnapshot
      <3>5. cooldown' \in [Intents -> Int]
        BY <2>5 DEF Prepare, Postpone, Skip, ExpireReady, Rearm, KeepReady
      <3>6. QED
        BY <3>1, <3>2, <3>3, <3>4, <3>5
    <2>6. QED
      BY <1>4, <2>2, <2>3, <2>4, <2>5 DEF TickStep
  <1>5. ASSUME NEW s \in Sessions,
               Mine(s) \/ WatchStep(s) \/ WatchMiss(s) \/ ReconcileLost(s)
        PROVE TypeOK'
    <2>1. CASE Mine(s)
      BY <2>1 DEF Mine
    <2>2. CASE WatchRecord(s)
      BY <2>2 DEF WatchRecord
    <2>3. CASE WatchReconcile(s) \/ WatchReverted(s)
      <3>1. PICK to \in {"EXECUTED", "FAILED"} : Close(s, to)
        BY <2>3 DEF WatchReconcile, WatchReverted
      <3>2. status' \in [Intents -> Statuses]
        BY <3>1 DEF Close
      <3>3. watch' \in [Sessions -> {"unseen", "recorded", "seen", "missed"}]
        BY <3>1 DEF Close
      <3>4. UNCHANGED <<now, prepared, lock, link, cooldown, since, cancelling, sessions, tick, chain, trades,
                        settled, crashes>>
        BY <3>1 DEF Close
      <3>5. QED
        BY <3>2, <3>3, <3>4
    <2>4. CASE WatchMiss(s) \/ ReconcileLost(s)
      <3>1. watch' \in [Sessions -> {"unseen", "recorded", "seen", "missed"}]
        BY <2>4 DEF WatchMiss, ReconcileLost
      <3>2. UNCHANGED <<now, rows, cancelling, sessions, tick, chain, trades, settled, crashes>>
        BY <2>4 DEF WatchMiss, ReconcileLost
      <3>3. QED
        BY <3>1, <3>2
    <2>5. QED
      BY <1>5, <2>1, <2>2, <2>3, <2>4 DEF WatchStep
  <1>6. CASE SaveCursor \/ Rescan
    BY <1>6 DEF SaveCursor, Scanned, Rescan
  <1>7. CASE Crash
    BY <1>7 DEF Crash, IdleTick, NoTimes
  <1>8. CASE UNCHANGED vars
    BY <1>8 DEF vars
  <1>9. QED
    BY <1>1, <1>2, <1>3, <1>4, <1>5, <1>6, <1>7, <1>8 DEF Next

\* Types and the bound of lock ends hold in every reachable state.
THEOREM Typed == Spec => []TypeOK
  BY InitTyped, StepTyped, PTL DEF Spec

-----------------------------------------------------------------------------
(* An EXECUTED intent has its Trade.  Inductive with what the watcher knows *)
(* between addTrade and the reconciliation.                                *)

RecordedHasTrade == \A s \in Sessions : watch[s] = "recorded" => s \in trades

TradeInv == TypeOK /\ RecordedHasTrade /\ ExecutedHasTrade

LEMMA InitTradeInv == Init => TradeInv
  BY InitTyped DEF Init, TradeInv, RecordedHasTrade, ExecutedHasTrade

LEMMA StepTradeInv == TradeInv /\ [Next]_vars => TradeInv'
  <1> SUFFICES ASSUME TradeInv, [Next]_vars PROVE RecordedHasTrade' /\ ExecutedHasTrade'
    BY StepTyped DEF TradeInv
  <1> USE TargetAssumption DEF TradeInv, TypeOK, RecordedHasTrade, ExecutedHasTrade,
                               rows, sessions, settling
  <1>1. CASE Clock
    BY <1>1 DEF Clock
  <1>2. ASSUME NEW s \in Sessions, SessionStep(s)
        PROVE RecordedHasTrade' /\ ExecutedHasTrade'
    <2>1. CASE MarkFromTrade(s)
      BY <2>1 DEF MarkFromTrade, TradeFound, Stamp
    <2>2. CASE MarkReverted(s) \/ MarkExecuting(s)
      BY <2>2 DEF MarkReverted, MarkExecuting, Stamp
    <2>3. CASE LockStamp(s)
      BY <2>3 DEF LockStamp
    <2>4. CASE FreshQuote(s) \/ LockCheck(s) \/ LockReplay(s) \/ LockReject(s) \/ Abandon(s)
               \/ Confirm(s) \/ Broadcast(s) \/ MarkAccept(s) \/ MarkRefuse(s)
               \/ MarkNoTrade(s) \/ MarkLost(s)
      BY <2>4 DEF FreshQuote, LockCheck, LockReplay, LockReject, Abandon, Confirm, Broadcast,
                  MarkAccept, MarkRefuse, MarkNoTrade, MarkLost
    <2>5. QED
      BY <1>2, <2>1, <2>2, <2>3, <2>4 DEF SessionStep, MarkStep
  <1>3. ASSUME NEW i \in Intents, RowStep(i) PROVE RecordedHasTrade' /\ ExecutedHasTrade'
    BY <1>3 DEF RowStep, CancelRead, CancelWrite, ExpireDue, SweepStale
  <1>4. ASSUME NEW t \in Ticks, TickStep(t) PROVE RecordedHasTrade' /\ ExecutedHasTrade'
    <2>1. UNCHANGED <<link, trades, watch>>
      BY <1>4 DEF TickStep, TickStart, TickReadRows, TickDone, Prepare, Postpone, Skip,
                  ExpireReady, Rearm, KeepReady
    <2>2. \A i \in Intents : status'[i] = "EXECUTED" => status[i] = "EXECUTED"
      BY <1>4 DEF TickStep, TickStart, TickReadRows, TickDone, Prepare, Postpone, Skip,
                  ExpireReady, Rearm, KeepReady
    <2>3. QED
      BY <2>1, <2>2
  <1>5. ASSUME NEW s \in Sessions,
               Mine(s) \/ WatchStep(s) \/ WatchMiss(s) \/ ReconcileLost(s)
        PROVE RecordedHasTrade' /\ ExecutedHasTrade'
    <2>1. CASE WatchRecord(s)
      BY <2>1 DEF WatchRecord
    <2>2. CASE WatchReconcile(s)
      BY <2>2 DEF WatchReconcile, Close, AwaitsTx
    <2>3. CASE WatchReverted(s)
      BY <2>3 DEF WatchReverted, Close
    <2>4. CASE Mine(s) \/ WatchMiss(s) \/ ReconcileLost(s)
      BY <2>4 DEF Mine, WatchMiss, ReconcileLost
    <2>5. QED
      BY <1>5, <2>1, <2>2, <2>3, <2>4 DEF WatchStep
  <1>6. CASE SaveCursor \/ Rescan
    BY <1>6 DEF SaveCursor, Rescan
  <1>7. CASE Crash
    BY <1>7 DEF Crash
  <1>8. CASE UNCHANGED vars
    BY <1>8 DEF vars
  <1>9. QED
    BY <1>1, <1>2, <1>3, <1>4, <1>5, <1>6, <1>7, <1>8 DEF Next

\* Faults, restarts and sweeps included, an intent is EXECUTED only with a
\* recorded Trade of its transaction.
THEOREM TradeBehindExecuted == Spec => []ExecutedHasTrade
  <1>1. TradeInv => ExecutedHasTrade
    BY DEF TradeInv
  <1>2. QED
    BY InitTradeInv, StepTradeInv, <1>1, PTL DEF Spec

-----------------------------------------------------------------------------
(* The snapshot and the status go together.                                *)

\* markReady writes the snapshot, rearmFromReady erases it; nothing else
\* makes a row READY or ACTIVE, and nothing else touches the column of one.
THEOREM SnapshotTiedToReady == Spec => []SnapshotIffReady
  <1>1. Init => SnapshotIffReady
    BY DEF Init, SnapshotIffReady
  <1>2. TypeOK /\ SnapshotIffReady /\ [Next]_vars => SnapshotIffReady'
    <2> SUFFICES ASSUME TypeOK, SnapshotIffReady, [Next]_vars PROVE SnapshotIffReady'
      OBVIOUS
    <2> USE TargetAssumption DEF TypeOK, SnapshotIffReady, rows
    <2>1. ASSUME NEW s \in Sessions,
                 SessionStep(s) \/ Mine(s) \/ WatchStep(s) \/ WatchMiss(s) \/ ReconcileLost(s)
          PROVE  /\ prepared' = prepared
                 /\ \A i \in Intents : status'[i] \in {"ACTIVE", "READY"} => status'[i] = status[i]
      <3>1. CASE SessionStep(s)
        BY <3>1 DEF SessionStep, FreshQuote, LockCheck, LockReplay, LockReject, LockStamp, Abandon,
             Confirm, Broadcast, MarkStep, MarkAccept, MarkRefuse, MarkNoTrade, MarkLost,
             MarkFromTrade, MarkReverted, MarkExecuting, Stamp
      <3>2. CASE Mine(s) \/ WatchStep(s) \/ WatchMiss(s) \/ ReconcileLost(s)
        BY <3>2 DEF Mine, WatchStep, WatchRecord, WatchReconcile, WatchReverted, Close,
             WatchMiss, ReconcileLost
      <3>3. QED
        BY <2>1, <3>1, <3>2
    <2>2. ASSUME NEW i \in Intents, RowStep(i) PROVE SnapshotIffReady'
      BY <2>2 DEF RowStep, CancelRead, CancelWrite, ExpireDue, SweepStale
    <2>3. ASSUME NEW t \in Ticks, NEW i \in Intents, Prepare(t, i) \/ ExpireReady(t, i) \/ Rearm(t, i)
          PROVE SnapshotIffReady'
      <3>1. CASE Prepare(t, i)
        BY <3>1 DEF Prepare, Moment, NoTime
      <3>2. CASE ExpireReady(t, i)
        BY <3>2 DEF ExpireReady
      <3>3. CASE Rearm(t, i)
        BY <3>3 DEF Rearm, RearmedSnapshot
      <3>4. QED
        BY <2>3, <3>1, <3>2, <3>3
    <2>4. ASSUME NEW t \in Ticks, TickStep(t) PROVE SnapshotIffReady'
      <3>1. CASE TickStart(t) \/ TickReadRows(t) \/ TickDone(t)
        BY <3>1 DEF TickStart, TickReadRows, TickDone
      <3>2. ASSUME NEW i \in Intents, Postpone(t, i) \/ Skip(t, i) \/ KeepReady(t, i)
            PROVE SnapshotIffReady'
        BY <3>2 DEF Postpone, Skip, KeepReady
      <3>3. QED
        BY <2>3, <2>4, <3>1, <3>2 DEF TickStep
    <2>5. CASE Clock \/ SaveCursor \/ Rescan \/ Crash
      BY <2>5 DEF Clock, SaveCursor, Rescan, Crash
    <2>6. CASE UNCHANGED vars
      BY <2>6 DEF vars
    <2>7. QED
      BY <2>1, <2>2, <2>4, <2>5, <2>6 DEF Next
  <1>3. QED
    BY <1>1, <1>2, Typed, PTL DEF Spec

-----------------------------------------------------------------------------
(* The outcome is the chain's, where nothing fails and the sweep is off.   *)
(* Inductive with: an unsent transaction is unknown to the chain, a Trade  *)
(* is of a fill that succeeded, an EXECUTING row has its hash.             *)

Unsent == {"idle", "quoted", "locking", "locked", "signing"}

ChainKnowsSent == \A s \in Sessions : pc[s] \in Unsent => chain[s] = "none"

TradeSucceeded == \A s \in trades : chain[s] = "success"

ExecutingHasLink == \A i \in Intents : status[i] = "EXECUTING" => link[i] # NoTx

OutcomeInv ==
  TradeInv /\ ChainKnowsSent /\ TradeSucceeded /\ ExecutingHasLink /\ OutcomeMatchesChain

LEMMA InitOutcomeInv == Init => OutcomeInv
  BY InitTradeInv DEF Init, OutcomeInv, ChainKnowsSent, TradeSucceeded, ExecutingHasLink,
                      OutcomeMatchesChain

\* The chain's verdict on a transaction is final.
LEMMA VerdictFinal ==
  ASSUME TypeOK, ChainKnowsSent, [Next]_vars, NEW s \in Sessions, NEW v \in {"success", "reverted"},
         chain[s] = v
  PROVE  chain'[s] = v
  <1> USE DEF TypeOK, ChainKnowsSent, Unsent
  <1>1. ASSUME NEW r \in Sessions, SessionStep(r) PROVE chain'[s] = v
    <2>1. CASE Broadcast(r)
      BY <2>1 DEF Broadcast
    <2>2. CASE ~Broadcast(r)
      BY <1>1, <2>2 DEF SessionStep, FreshQuote, LockCheck, LockReplay, LockReject, LockStamp,
           Abandon, Confirm, MarkStep, MarkAccept, MarkRefuse, MarkNoTrade, MarkLost,
           MarkFromTrade, MarkReverted, MarkExecuting, Stamp
    <2>3. QED
      BY <2>1, <2>2
  <1>2. ASSUME NEW r \in Sessions, Mine(r) \/ WatchStep(r) \/ WatchMiss(r) \/ ReconcileLost(r)
        PROVE chain'[s] = v
    BY <1>2 DEF Mine, WatchStep, WatchRecord, WatchReconcile, WatchReverted, Close,
         WatchMiss, ReconcileLost
  <1>3. ASSUME NEW i \in Intents, RowStep(i) PROVE chain'[s] = v
    BY <1>3 DEF RowStep, CancelRead, CancelWrite, ExpireDue, SweepStale
  <1>4. ASSUME NEW t \in Ticks, TickStep(t) PROVE chain'[s] = v
    BY <1>4 DEF TickStep, TickStart, TickReadRows, TickDone, Prepare, Postpone, Skip,
         ExpireReady, Rearm, KeepReady
  <1>5. CASE Clock \/ SaveCursor \/ Rescan \/ Crash \/ UNCHANGED vars
    BY <1>5 DEF Clock, SaveCursor, Rescan, Crash, vars
  <1>6. QED
    BY <1>1, <1>2, <1>3, <1>4, <1>5 DEF Next

LEMMA StepChainKnowsSent == TypeOK /\ ChainKnowsSent /\ [Next]_vars => ChainKnowsSent'
  <1> SUFFICES ASSUME TypeOK, ChainKnowsSent, [Next]_vars PROVE ChainKnowsSent'
    OBVIOUS
  <1> USE DEF TypeOK, ChainKnowsSent, Unsent, sessions
  <1>1. ASSUME NEW s \in Sessions, SessionStep(s) PROVE ChainKnowsSent'
    BY <1>1 DEF SessionStep, FreshQuote, LockCheck, LockReplay, LockReject, LockStamp, Abandon,
         Confirm, Broadcast, MarkStep, MarkAccept, MarkRefuse, MarkNoTrade, MarkLost,
         MarkFromTrade, MarkReverted, MarkExecuting, Stamp, Goto, Reset
  <1>2. ASSUME NEW s \in Sessions, Mine(s) \/ WatchStep(s) \/ WatchMiss(s) \/ ReconcileLost(s)
        PROVE ChainKnowsSent'
    BY <1>2 DEF Mine, WatchStep, WatchRecord, WatchReconcile, WatchReverted, Close,
         WatchMiss, ReconcileLost
  <1>3. ASSUME NEW i \in Intents, RowStep(i) PROVE ChainKnowsSent'
    BY <1>3 DEF RowStep, CancelRead, CancelWrite, ExpireDue, SweepStale
  <1>4. ASSUME NEW t \in Ticks, TickStep(t) PROVE ChainKnowsSent'
    BY <1>4 DEF TickStep, TickStart, TickReadRows, TickDone, Prepare, Postpone, Skip,
         ExpireReady, Rearm, KeepReady
  <1>5. CASE Clock \/ SaveCursor \/ Rescan \/ UNCHANGED vars
    BY <1>5 DEF Clock, SaveCursor, Rescan, vars
  <1>6. CASE Crash
    BY <1>6 DEF Crash
  <1>7. QED
    BY <1>1, <1>2, <1>3, <1>4, <1>5, <1>6 DEF Next

LEMMA StepOutcomeInv ==
  ASSUME ~Faults, ~StaleSweep, OutcomeInv, [Next]_vars
  PROVE  OutcomeInv'
  <1>1. TypeOK /\ ChainKnowsSent /\ TypeOK' /\ TradeInv' /\ ChainKnowsSent'
    BY StepTyped, StepTradeInv, StepChainKnowsSent DEF OutcomeInv, TradeInv
  <1>2. \A s \in Sessions, v \in {"success", "reverted"} : chain[s] = v => chain'[s] = v
    BY <1>1, VerdictFinal
  <1> DEFINE Rest == TradeSucceeded /\ ExecutingHasLink /\ OutcomeMatchesChain
  \* Steps that record no Trade and close no row only need the verdict to be final.
  <1>3. ASSUME trades' = trades, link' = link,
               \A i \in Intents : status'[i] \in {"EXECUTING", "EXECUTED", "FAILED"}
                                    => status'[i] = status[i]
        PROVE  Rest'
    BY <1>1, <1>2, <1>3 DEF OutcomeInv, TypeOK, TradeSucceeded, ExecutingHasLink, OutcomeMatchesChain
  <1>4. ASSUME NEW s \in Sessions, SessionStep(s) PROVE Rest'
    <2>1. ASSUME NEW to \in {"EXECUTING", "EXECUTED", "FAILED"}, Stamp(s, to),
                 to = "EXECUTED" => chain[s] = "success",
                 to = "FAILED" => chain[s] = "reverted"
          PROVE  Rest'
      <3>1. CASE status[Target[s]] = "READY"
        <4>1. /\ status' = [status EXCEPT ![Target[s]] = to]
              /\ link' = [link EXCEPT ![Target[s]] = s]
              /\ trades' = trades /\ chain' = chain
          BY <2>1, <3>1 DEF Stamp, settling
        <4>2. QED
          BY <1>1, <2>1, <4>1, TargetAssumption, IntentsAssumption
          DEF OutcomeInv, TypeOK, TradeSucceeded, ExecutingHasLink, OutcomeMatchesChain
      <3>2. CASE status[Target[s]] # "READY"
        BY <1>3, <2>1, <3>2 DEF Stamp, settling
      <3>3. QED
        BY <3>1, <3>2
    <2>2. CASE MarkFromTrade(s)
      BY <2>1, <2>2 DEF MarkFromTrade, TradeFound, OutcomeInv, TradeSucceeded
    <2>3. CASE MarkReverted(s)
      BY <2>1, <2>3 DEF MarkReverted
    <2>4. CASE MarkExecuting(s)
      BY <2>1, <2>4 DEF MarkExecuting
    <2>5. CASE ~MarkFromTrade(s) /\ ~MarkReverted(s) /\ ~MarkExecuting(s)
      BY <1>3, <1>4, <2>5 DEF SessionStep, FreshQuote, LockCheck, LockReplay, LockReject, LockStamp,
         Abandon, Confirm, Broadcast, MarkStep, MarkAccept, MarkRefuse, MarkNoTrade, MarkLost,
         rows, settling
    <2>6. QED
      BY <2>2, <2>3, <2>4, <2>5
  <1>5. ASSUME NEW i \in Intents, RowStep(i) PROVE Rest'
    BY <1>1, <1>3, <1>5 DEF TypeOK, RowStep, CancelRead, CancelWrite, ExpireDue, SweepStale, rows, settling
  <1>6. ASSUME NEW t \in Ticks, TickStep(t) PROVE Rest'
    <2>1. trades' = trades /\ link' = link
      BY <1>6 DEF TickStep, TickStart, TickReadRows, TickDone, Prepare, Postpone, Skip,
           ExpireReady, Rearm, KeepReady, rows, settling
    <2>2. \A i \in Intents : status'[i] \in {"EXECUTING", "EXECUTED", "FAILED"}
                                    => status'[i] = status[i]
      BY <1>1, <1>6 DEF TypeOK, TickStep, TickStart, TickReadRows, TickDone, Prepare, Postpone, Skip,
           ExpireReady, Rearm, KeepReady, rows
    <2>3. QED
      BY <1>3, <2>1, <2>2
  <1>7. ASSUME NEW s \in Sessions, Mine(s) \/ WatchMiss(s) \/ ReconcileLost(s) PROVE Rest'
    BY <1>3, <1>7 DEF Mine, WatchMiss, ReconcileLost, rows, settling
  <1>8. ASSUME NEW s \in Sessions, WatchStep(s) PROVE Rest'
    <2>1. CASE WatchRecord(s)
      <3>1. trades' = trades \cup {s} /\ chain' = chain /\ chain[s] = "success"
        BY <2>1 DEF WatchRecord, TakenAsFill
      <3>2. status' = status /\ link' = link
        BY <2>1 DEF WatchRecord, rows
      <3>3. QED
        BY <3>1, <3>2 DEF OutcomeInv, TradeSucceeded, ExecutingHasLink, OutcomeMatchesChain
    <2>2. CASE WatchReconcile(s)
      <3>1. chain[s] = "success"
        BY <2>2 DEF WatchReconcile, OutcomeInv, TradeInv, RecordedHasTrade, TradeSucceeded
      <3>2. QED
        BY <1>1, <2>2, <3>1, IntentsAssumption
        DEF WatchReconcile, Close, AwaitsTx, OutcomeInv, TypeOK, TradeSucceeded, ExecutingHasLink,
            OutcomeMatchesChain
    <2>3. CASE WatchReverted(s)
      BY <1>1, <2>3, IntentsAssumption
      DEF WatchReverted, Close, AwaitsTx, OutcomeInv, TypeOK, TradeSucceeded, ExecutingHasLink,
          OutcomeMatchesChain
    <2>4. QED
      BY <1>8, <2>1, <2>2, <2>3 DEF WatchStep
  <1>9. ASSUME Clock \/ SaveCursor \/ Rescan \/ Crash \/ UNCHANGED vars PROVE Rest'
    <2>1. trades' = trades /\ link' = link /\ status' = status
      BY <1>9 DEF Clock, SaveCursor, Rescan, Crash, vars, rows, settling
    <2>2. QED
      BY <1>3, <2>1
  <1>10. Rest'
    <2> HIDE DEF Rest
    <2> QED
      BY <1>4, <1>5, <1>6, <1>7, <1>8, <1>9 DEF Next
  <1>11. QED
    BY <1>1, <1>10 DEF OutcomeInv

\* With the RPC and the reconciler healthy and the stale sweep off, EXECUTED
\* means that the linked transaction succeeded and FAILED that it reverted,
\* restarts included.
THEOREM OutcomeIsTheChains == ~Faults /\ ~StaleSweep => (Spec => []OutcomeMatchesChain)
  <1> SUFFICES ASSUME ~Faults, ~StaleSweep PROVE Spec => []OutcomeMatchesChain
    OBVIOUS
  <1>1. OutcomeInv /\ [Next]_vars => OutcomeInv'
    BY StepOutcomeInv
  <1>2. OutcomeInv => OutcomeMatchesChain
    BY DEF OutcomeInv
  <1>3. QED
    BY InitOutcomeInv, <1>1, <1>2, PTL DEF Spec

-----------------------------------------------------------------------------
(* The Intent table's state machine is implemented: every step is an edge  *)
(* on one row or leaves status and hash alone.                             *)

LEMMA EdgeOrStutter ==
  ASSUME TypeOK, [Next]_vars
  PROVE  [Lifecycle!Next]_(Lifecycle!vars)
  <1> DEFINE Step == [Lifecycle!Next]_(Lifecycle!vars)
  <1>1. ASSUME UNCHANGED <<status, link>> PROVE Step
    BY <1>1 DEF Lifecycle!vars
  <1>2. ASSUME NEW i \in Intents, UNCHANGED link,
               \/ status[i] = "ACTIVE" /\ status' = [status EXCEPT ![i] = "READY"]
               \/ status[i] = "READY" /\ status' = [status EXCEPT ![i] = "ACTIVE"]
               \/ status[i] \in {"ACTIVE", "READY"} /\ status' = [status EXCEPT ![i] = "CANCELLED"]
               \/ status[i] \in {"ACTIVE", "READY"} /\ status' = [status EXCEPT ![i] = "EXPIRED"]
        PROVE  Step
    <2>1. Lifecycle!Prepare(i) \/ Lifecycle!Rearm(i) \/ Lifecycle!Cancel(i) \/ Lifecycle!Expire(i)
      BY <1>2 DEF Lifecycle!Prepare, Lifecycle!Rearm, Lifecycle!Cancel, Lifecycle!Expire, Lifecycle!Move
    <2>2. QED
      BY <2>1 DEF Lifecycle!Next
  <1>3. ASSUME NEW s \in Sessions, NEW to \in {"EXECUTING", "EXECUTED", "FAILED"}, Stamp(s, to)
        PROVE  Step
    <2>1. CASE status[Target[s]] = "READY"
      <3>1. Lifecycle!Stamp(Target[s], s)
        BY <1>3, <2>1 DEF Stamp, Lifecycle!Stamp, Lifecycle!Move
      <3>2. QED
        BY <3>1, TargetAssumption DEF Lifecycle!Next
    <2>2. CASE status[Target[s]] # "READY"
      BY <1>1, <1>3, <2>2 DEF Stamp
    <2>3. QED
      BY <2>1, <2>2
  <1>4. ASSUME NEW s \in Sessions, SessionStep(s) PROVE Step
    <2>1. CASE MarkFromTrade(s) \/ MarkReverted(s) \/ MarkExecuting(s)
      BY <1>3, <2>1 DEF MarkFromTrade, MarkReverted, MarkExecuting
    <2>2. CASE ~(MarkFromTrade(s) \/ MarkReverted(s) \/ MarkExecuting(s))
      <3>1. UNCHANGED <<status, link>>
        BY <1>4, <2>2 DEF SessionStep, FreshQuote, LockCheck, LockReplay, LockReject, LockStamp,
           Abandon, Confirm, Broadcast, MarkStep, MarkAccept, MarkRefuse, MarkNoTrade, MarkLost, rows
      <3>2. QED
        BY <1>1, <3>1
    <2>3. QED
      BY <2>1, <2>2
  <1>5. ASSUME NEW i \in Intents, status[i] = "EXECUTING", UNCHANGED link,
               NEW to \in {"EXECUTED", "FAILED"}, status' = [status EXCEPT ![i] = to],
               to = "EXECUTED" => link[i] \in Sessions
        PROVE  Step
    <2>1. link[i] \in Sessions \cup {NoTx} /\ link' = [link EXCEPT ![i] = link[i]]
      BY <1>5 DEF TypeOK
    <2>2. Lifecycle!Outcome(i, to, link[i])
      BY <1>5, <2>1 DEF Lifecycle!Outcome, Lifecycle!Move
    <2>3. Lifecycle!Execute(i) \/ Lifecycle!FailExecution(i)
      BY <1>5, <2>1, <2>2 DEF Lifecycle!Execute, Lifecycle!FailExecution
    <2>4. QED
      BY <2>3 DEF Lifecycle!Next
  <1>6. ASSUME NEW s \in Sessions, NEW to \in {"EXECUTED", "FAILED"}, Close(s, to) PROVE Step
    <2>1. CASE AwaitsTx(s)
      BY <1>5, <1>6, <2>1, TargetAssumption DEF Close, AwaitsTx
    <2>2. CASE ~AwaitsTx(s)
      BY <1>1, <1>6, <2>2 DEF Close
    <2>3. QED
      BY <2>1, <2>2
  <1>7. ASSUME NEW s \in Sessions, Mine(s) \/ WatchStep(s) \/ WatchMiss(s) \/ ReconcileLost(s)
        PROVE  Step
    <2>1. CASE WatchReconcile(s) \/ WatchReverted(s)
      BY <1>6, <2>1 DEF WatchReconcile, WatchReverted
    <2>2. CASE Mine(s) \/ WatchRecord(s) \/ WatchMiss(s) \/ ReconcileLost(s)
      <3>1. UNCHANGED <<status, link>>
        BY <2>2 DEF Mine, WatchRecord, WatchMiss, ReconcileLost, rows
      <3>2. QED
        BY <1>1, <3>1
    <2>3. QED
      BY <1>7, <2>1, <2>2 DEF WatchStep
  <1>8. ASSUME NEW i \in Intents, RowStep(i) PROVE Step
    <2>1. CASE CancelRead(i)
      BY <1>1, <2>1 DEF CancelRead, rows
    <2>2. CASE CancelWrite(i)
      <3>1. CASE CancelMatches(i)
        BY <1>2, <2>2, <3>1 DEF CancelWrite, CancelMatches, TypeOK
      <3>2. CASE ~CancelMatches(i)
        BY <1>1, <2>2, <3>2 DEF CancelWrite
      <3>3. QED
        BY <3>1, <3>2
    <2>3. CASE ExpireDue(i)
      BY <1>2, <2>3 DEF ExpireDue
    <2>4. CASE SweepStale(i)
      BY <1>5, <2>4 DEF SweepStale, StaleExecuting
    <2>5. QED
      BY <1>8, <2>1, <2>2, <2>3, <2>4 DEF RowStep
  <1>9. ASSUME NEW t \in Ticks, TickStep(t) PROVE Step
    <2>1. CASE \E i \in Intents : Prepare(t, i) \/ ExpireReady(t, i) \/ Rearm(t, i)
      <3> PICK i \in Intents : Prepare(t, i) \/ ExpireReady(t, i) \/ Rearm(t, i)
        BY <2>1
      <3>1. CASE Prepare(t, i)
        BY <1>1, <1>2, <3>1 DEF Prepare
      <3>2. CASE ExpireReady(t, i)
        BY <1>1, <1>2, <3>2 DEF ExpireReady
      <3>3. CASE Rearm(t, i)
        BY <1>1, <1>2, <3>3 DEF Rearm
      <3>4. QED
        BY <3>1, <3>2, <3>3
    <2>2. CASE ~\E i \in Intents : Prepare(t, i) \/ ExpireReady(t, i) \/ Rearm(t, i)
      <3>1. UNCHANGED <<status, link>>
        BY <1>9, <2>2 DEF TickStep, TickStart, TickReadRows, TickDone, Postpone, Skip, KeepReady, rows
      <3>2. QED
        BY <1>1, <3>1
    <2>3. QED
      BY <2>1, <2>2
  <1>10. ASSUME Clock \/ SaveCursor \/ Rescan \/ Crash \/ UNCHANGED vars PROVE Step
    BY <1>1, <1>10 DEF Clock, SaveCursor, Rescan, Crash, vars, rows
  <1>11. QED
    <2> HIDE DEF Step
    <2>1. Step
      BY <1>4, <1>7, <1>8, <1>9, <1>10 DEF Next
    <2>2. QED
      BY <2>1 DEF Step

\* The CMR components together implement the Intent table's state machine.
THEOREM ImplementsLifecycle == Spec => RefinesLifecycle
  <1>1. Init => Lifecycle!Init
    BY DEF Init, Lifecycle!Init
  <1>2. TypeOK /\ [Next]_vars => [Lifecycle!Next]_(Lifecycle!vars)
    BY EdgeOrStutter
  <1>3. QED
    BY <1>1, <1>2, Typed, PTL DEF Spec, RefinesLifecycle, Lifecycle!Spec

-----------------------------------------------------------------------------
\* The rows an active tick has still to look at were not cooling down when it
\* loaded them, whatever other ticks have written since.
LoadedInv ==
  \A t \in Ticks : tick[t].phase = "active" => \A i \in tick[t].todo : tick[t].cooldown[i] <= now

LEMMA TickIs ==
  ASSUME TypeOK, NEW t \in Ticks
  PROVE  /\ tick[t].phase \in {"idle", "active", "ready"} /\ tick[t].todo \subseteq Intents
         /\ tick[t].cooldown \in [Intents -> Int]
         /\ tick[t] = [phase |-> tick[t].phase, todo |-> tick[t].todo, at |-> tick[t].at,
                       lock |-> tick[t].lock, prepared |-> tick[t].prepared,
                       cooldown |-> tick[t].cooldown]
  BY DEF TypeOK

\* What a tick that has handled a row has become.
LEMMA HandledIs ==
  ASSUME TypeOK, NEW t \in Ticks, NEW i, Handled(t, i)
  PROVE  /\ \A u \in Ticks : u # t => tick'[u] = tick[u]
         /\ tick'[t].phase = tick[t].phase /\ tick'[t].todo = tick[t].todo \ {i}
         /\ tick'[t].cooldown = tick[t].cooldown
  <1>1. PICK p, d, a, l, r, c :
          tick[t] = [phase |-> p, todo |-> d, at |-> a, lock |-> l, prepared |-> r, cooldown |-> c]
    BY TickIs
  <1>2. tick' = [tick EXCEPT ![t].todo = @ \ {i}] /\ t \in DOMAIN tick
    BY DEF Handled, TypeOK
  <1>3. tick'[t] = [phase |-> p, todo |-> d \ {i}, at |-> a, lock |-> l, prepared |-> r, cooldown |-> c]
    BY <1>1, <1>2
  <1>4. \A u \in Ticks : u # t => tick'[u] = tick[u]
    BY <1>2 DEF TypeOK
  <1> QED
    BY <1>1, <1>3, <1>4

\* Ticks come and go, and handle their rows; only time moves what they loaded.
LEMMA StepLoadedInv == TypeOK /\ LoadedInv /\ [Next]_vars => LoadedInv'
  <1> SUFFICES ASSUME TypeOK, LoadedInv, [Next]_vars PROVE LoadedInv'
    OBVIOUS
  <1>1. now \in Int /\ cooldown \in [Intents -> Int] /\ DOMAIN tick = Ticks
    BY DEF TypeOK, Moment
  <1>2. CASE UNCHANGED <<tick, now>>
    BY <1>2 DEF LoadedInv
  <1>3. CASE Clock
    <2>1. now' = now + 1 /\ UNCHANGED tick
      BY <1>3 DEF Clock
    <2>2. ASSUME NEW t \in Ticks, NEW i \in tick[t].todo, tick[t].cooldown[i] <= now
          PROVE  tick[t].cooldown[i] <= now'
      BY <1>1, <2>1, <2>2, TickIs
    <2> QED
      BY <2>1, <2>2 DEF LoadedInv
  <1>4. CASE Crash
    <2>1. \A t \in Ticks : tick'[t].phase = "idle"
      BY <1>4 DEF Crash, IdleTick
    <2> QED
      BY <2>1 DEF LoadedInv
  <1>5. ASSUME NEW t \in Ticks, TickStep(t) PROVE LoadedInv'
    <2>1. CASE TickStart(t)
      <3>1. PICK d : d = {i \in Intents : status[i] = "ACTIVE" /\ Expiry[i] > now /\ CooldownElapsed(i)}
        OBVIOUS
      <3>2. PICK new : new = [IdleTick EXCEPT !.phase = "active", !.cooldown = cooldown, !.todo = d]
        OBVIOUS
      <3>3. tick' = [tick EXCEPT ![t] = new] /\ UNCHANGED now
        BY <2>1, <3>1, <3>2 DEF TickStart
      <3>4. new.todo = d /\ new.cooldown = cooldown /\ \A i \in d : cooldown[i] <= now
        BY <3>1, <3>2 DEF IdleTick, CooldownElapsed
      <3>5. tick'[t] = new /\ \A u \in Ticks : u # t => tick'[u] = tick[u]
        BY <1>1, <3>3
      <3> QED
        BY <3>3, <3>4, <3>5 DEF LoadedInv
    <2>2. CASE TickReadRows(t) \/ TickDone(t)
      <3>1. tick'[t].phase # "active" /\ \A u \in Ticks : u # t => tick'[u] = tick[u]
        BY <1>1, <2>2 DEF TickReadRows, TickDone, IdleTick
      <3>2. UNCHANGED now
        BY <2>2 DEF TickReadRows, TickDone
      <3> QED
        BY <3>1, <3>2 DEF LoadedInv
    <2>3. ASSUME NEW i \in Intents,
                 Prepare(t, i) \/ Postpone(t, i) \/ Skip(t, i)
                   \/ ExpireReady(t, i) \/ Rearm(t, i) \/ KeepReady(t, i)
          PROVE  LoadedInv'
      <3>1. Handled(t, i) /\ UNCHANGED now
        BY <2>3 DEF Prepare, Postpone, Skip, ExpireReady, Rearm, KeepReady
      <3>2. \A u \in Ticks : /\ tick'[u].phase = tick[u].phase /\ tick'[u].todo \subseteq tick[u].todo
                             /\ tick'[u].cooldown = tick[u].cooldown
        BY <3>1, HandledIs
      <3> QED
        BY <3>1, <3>2 DEF LoadedInv
    <2> QED
      BY <1>5, <2>1, <2>2, <2>3 DEF TickStep
  <1>6. ASSUME NEW s \in Sessions, SessionStep(s) PROVE UNCHANGED <<tick, now>>
    BY <1>6 DEF SessionStep, FreshQuote, LockCheck, LockReplay, LockReject, LockStamp, Abandon, Confirm, Broadcast,
                MarkStep, MarkAccept, MarkRefuse, MarkFromTrade, MarkNoTrade, MarkReverted, MarkExecuting, MarkLost, Stamp
  <1>7. ASSUME NEW i \in Intents, RowStep(i) PROVE UNCHANGED <<tick, now>>
    BY <1>7 DEF RowStep, CancelRead, CancelWrite, ExpireDue, SweepStale
  <1>8. ASSUME NEW s \in Sessions, Mine(s) \/ WatchStep(s) \/ WatchMiss(s) \/ ReconcileLost(s)
        PROVE  UNCHANGED <<tick, now>>
    BY <1>8 DEF Mine, WatchStep, WatchRecord, WatchReconcile, WatchReverted, Close, WatchMiss, ReconcileLost
  <1>9. SaveCursor \/ Rescan \/ UNCHANGED vars => UNCHANGED <<tick, now>>
    BY DEF SaveCursor, Rescan, vars
  <1> QED
    BY <1>2, <1>3, <1>4, <1>5, <1>6, <1>7, <1>8, <1>9 DEF Next

\* What makes an ACTIVE row READY is the tick's preparation of it.
LEMMA OnlyPrepared ==
  ASSUME TypeOK, [Next]_vars, NEW i \in Intents, status[i] = "ACTIVE", status'[i] = "READY"
  PROVE  \E t \in Ticks : tick[t].phase = "active" /\ i \in tick[t].todo
  <1>1. status \in [Intents -> Statuses]
    BY DEF TypeOK
  <1>2. status'[i] # status[i] /\ \A to \in {"EXECUTING", "EXECUTED", "FAILED", "CANCELLED", "EXPIRED", "ACTIVE"} : status'[i] # to
    OBVIOUS
  <1>3. ASSUME NEW s \in Sessions, SessionStep(s) PROVE FALSE
    <2>1. UNCHANGED status \/ \E to \in {"EXECUTING", "EXECUTED", "FAILED"} : Stamp(s, to)
      BY <1>3 DEF SessionStep, FreshQuote, LockCheck, LockReplay, LockReject, LockStamp, Abandon, Confirm, Broadcast,
                  MarkStep, MarkAccept, MarkRefuse, MarkFromTrade, MarkNoTrade, MarkReverted, MarkExecuting, MarkLost, rows
    <2> QED
      BY <1>1, <1>2, <2>1 DEF Stamp
  <1>4. ASSUME NEW k \in Intents, RowStep(k) PROVE FALSE
    BY <1>1, <1>2, <1>4 DEF RowStep, CancelRead, CancelWrite, ExpireDue, SweepStale, rows
  <1>5. ASSUME NEW s \in Sessions, Mine(s) \/ WatchStep(s) \/ WatchMiss(s) \/ ReconcileLost(s) PROVE FALSE
    BY <1>1, <1>2, <1>5 DEF Mine, WatchStep, WatchRecord, WatchReconcile, WatchReverted, Close, WatchMiss, ReconcileLost, rows
  <1>6. ASSUME Clock \/ SaveCursor \/ Rescan \/ Crash \/ UNCHANGED vars PROVE FALSE
    BY <1>2, <1>6 DEF Clock, SaveCursor, Rescan, Crash, vars, rows
  <1>7. ASSUME NEW t \in Ticks, TickStep(t) PROVE tick[t].phase = "active" /\ i \in tick[t].todo
    <2>1. PICK k \in Intents : Prepare(t, k) \/ ExpireReady(t, k) \/ Rearm(t, k)
      BY <1>2, <1>7 DEF TickStep, TickStart, TickReadRows, TickDone, Postpone, Skip, KeepReady, rows
    <2>2. Prepare(t, k) /\ k = i
      BY <1>1, <1>2, <2>1 DEF Prepare, ExpireReady, Rearm
    <2> QED
      BY <2>2 DEF Prepare
  <1> QED
    BY <1>3, <1>4, <1>5, <1>6, <1>7 DEF Next

\* A row whose cooldown runs is prepared only by a tick that loaded it before
\* that cooldown was written: however ticks overlap, none that loads the row
\* later prepares it.
THEOREM CooldownHeld == Spec => CooldownRespected
  <1> DEFINE Kept == \A i \in Intents :
        status[i] = "ACTIVE" /\ status'[i] = "READY" /\ cooldown[i] > now =>
          \E t \in Ticks : /\ tick[t].phase = "active" /\ i \in tick[t].todo
                          /\ tick[t].cooldown[i] # cooldown[i]
  <1>1. Init => LoadedInv
    BY DEF Init, LoadedInv, IdleTick
  <1>2. ASSUME TypeOK, LoadedInv, [Next]_vars PROVE Kept
    <2>1. SUFFICES ASSUME NEW i \in Intents, status[i] = "ACTIVE", status'[i] = "READY", cooldown[i] > now
                   PROVE  \E t \in Ticks : /\ tick[t].phase = "active" /\ i \in tick[t].todo
                                          /\ tick[t].cooldown[i] # cooldown[i]
      OBVIOUS
    <2>2. PICK t \in Ticks : tick[t].phase = "active" /\ i \in tick[t].todo
      BY <1>2, <2>1, OnlyPrepared
    <2>3. tick[t].cooldown[i] <= now
      BY <1>2, <2>2 DEF LoadedInv
    <2>4. now \in Int /\ cooldown[i] \in Int /\ tick[t].cooldown[i] \in Int
      BY <1>2, TickIs DEF TypeOK, Moment
    <2>5. tick[t].cooldown[i] # cooldown[i]
      BY <2>1, <2>3, <2>4
    <2> QED
      BY <2>2, <2>5
  <1> QED
    BY <1>1, <1>2, Typed, StepLoadedInv, PTL DEF Spec, CooldownRespected
=============================================================================
