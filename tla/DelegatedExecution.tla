------------------------- MODULE DelegatedExecution -------------------------
(***************************************************************************)
(* Delegated execution of Conditional-Market-Ready intents                 *)
(* (apps/api/src/sea/delegated and the web's delegated components): the    *)
(* owner authorizes a single-use session for an intent, the worker claims  *)
(* READY rows whose grant is ACTIVE and submits the fill from the owner's  *)
(* smart account, while the owner may cancel, revoke, or execute the same  *)
(* intent by hand from a panel whose view of the grants may be stale.      *)
(*                                                                         *)
(* A step is what runs between two awaits.  Moments are abstracted: an     *)
(* intent's expiry passes, a lock lapses, and a row becomes stale whenever *)
(* they like.  What the book and the policy say of a fill is one choice.   *)
(***************************************************************************)
EXTENDS Integers, FiniteSets

CONSTANTS
  Intents,     \* CMR intents of one owner; a manual fill bears its intent's name
  Ops,         \* user operations, each submitted at most once
  Nobody,      \* no intent, no user operation, linkedTxHash IS NULL
  Limit,       \* SEA_DELEGATED_EXEC_LIMIT_PER_TICK
  MaxCrashes   \* bound on restarts of the API

ASSUME NamesAssumption ==
  Nobody \notin Intents \cup Ops /\ Intents \cap Ops = {} /\ IsFiniteSet(Intents)
ASSUME BoundsAssumption == Limit \in Nat \ {0} /\ MaxCrashes \in Nat

VARIABLES
  \* The Intent table; the rows with a live wallet lock; whose expiry passed.
  status, link, locked, expired,
  \* DelegationGrant.status by intent, and the place of the grants by createdAt.
  grant, born,
  \* The browser: localStorage markers, the stage of each panel's authorization,
  \* finalize requests under way, the grants last fetched; and, only for
  \* the properties, who ever had a marker and who returned to manual.
  pending, auth, posted, seen, started, returned,
  \* The manual execution's stage; fills on-chain, of user operations and of
  \* manual transactions; the intent each user operation is for.
  manual, chain, target,
  \* The worker; user operations reconciled into trades and orders.
  work, applied,
  crashes

rows    == <<status, link, locked, expired>>
grants  == <<grant, born>>
browser == <<pending, auth, posted, seen, started, returned>>
fills   == <<manual, chain, target>>
vars == <<rows, grants, browser, fills, work, applied, crashes>>

Fills == Ops \cup Intents
\* The two components with a useDelegatedGrant of their own: DelegatedCmrToggle
\* and DelegatedPendingRowActions.
Panels == {"toggle", "row"}
Stages == {"idle", "preparing", "signing", "finalizing"}
Posts == Panels \X Intents
Open == {"ACTIVE", "READY"}
Statuses == Open \cup {"EXECUTING", "EXECUTED", "CANCELLED", "EXPIRED", "FAILED"}
GrantStatuses == {"none", "ACTIVE", "USED", "REVOKED", "FAILED"}
Phases == {"idle", "building", "claiming", "submitting", "waiting", "releasing",
           "confirming", "using", "reconciling", "failing", "burning"}

\* The worker's tick: the row in hand, the rows of its batch still to come, the
\* operation it submitted for the row, and whether its own update closed it.
Resting == [phase |-> "idle", row |-> Nobody, rest |-> {}, op |-> Nobody, executed |-> FALSE]

Init ==
  /\ status = [i \in Intents |-> "ACTIVE"]
  /\ link = [i \in Intents |-> Nobody]
  /\ locked = {} /\ expired = {}
  /\ grant = [i \in Intents |-> "none"]
  /\ born = [i \in Intents |-> 0]
  /\ pending = {} /\ posted = {} /\ started = {} /\ returned = {}
  /\ auth = [p \in Panels |-> [i \in Intents |-> "idle"]]
  /\ seen = [i \in Intents |-> "none"]
  /\ manual = [i \in Intents |-> "idle"]
  /\ chain = [f \in Fills |-> "none"]
  /\ target = [u \in Ops |-> Nobody]
  /\ work = Resting
  /\ applied = {}
  /\ crashes = 0

\* UPDATE ... WHERE id AND status IN from.
Move(i, from, to) ==
  status' = IF status[i] \in from THEN [status EXCEPT ![i] = to] ELSE status

-----------------------------------------------------------------------------
(* The row's other writers: the monitor, the owner's cancel, the sweepers. *)

Prepare(i) ==
  /\ status[i] = "ACTIVE" /\ i \notin expired
  /\ Move(i, {"ACTIVE"}, "READY")
  /\ UNCHANGED <<link, locked, expired, grants, browser, fills, work, applied, crashes>>

\* Back to ACTIVE, unless the wallet lock shields the row.
Rearm(i) ==
  /\ status[i] = "READY" /\ i \notin locked
  /\ Move(i, {"READY"}, "ACTIVE")
  /\ UNCHANGED <<link, locked, expired, grants, browser, fills, work, applied, crashes>>

Cancel(i) ==
  /\ status[i] \in Open
  /\ Move(i, Open, "CANCELLED")
  /\ UNCHANGED <<link, locked, expired, grants, browser, fills, work, applied, crashes>>

PassExpiry(i) ==
  /\ expired' = expired \cup {i}
  /\ i \notin expired
  /\ UNCHANGED <<status, link, locked, grants, browser, fills, work, applied, crashes>>

Expire(i) ==
  /\ i \in expired /\ status[i] \in Open
  /\ Move(i, Open, "EXPIRED")
  /\ UNCHANGED <<link, locked, expired, grants, browser, fills, work, applied, crashes>>

\* sweepStaleExecuting: a row EXECUTING for long, claimed or marked alike.
SweepStale(i) ==
  /\ status[i] = "EXECUTING"
  /\ Move(i, {"EXECUTING"}, "FAILED")
  /\ UNCHANGED <<link, locked, expired, grants, browser, fills, work, applied, crashes>>

RowStep(i) ==
  Prepare(i) \/ Rearm(i) \/ Cancel(i) \/ PassExpiry(i) \/ Expire(i) \/ SweepStale(i)

-----------------------------------------------------------------------------
(* Authorization: prepare, the owner's signature, finalize; and revoke.    *)

AuthGoto(p, i, stage) == auth' = [auth EXCEPT ![p][i] = stage]

\* submitDelegated: the marker first, then createGrant.
Delegate(i) ==
  /\ i \notin started
  /\ pending' = pending \cup {i} /\ started' = started \cup {i}
  /\ AuthGoto("toggle", i, "preparing")
  /\ UNCHANGED <<rows, grants, posted, seen, returned, fills, work, applied, crashes>>

\* IntentRow renders DelegatedPendingRowActions, whatever the toggle is doing.
PendingRow(i) == i \in pending /\ seen[i] = "none"

Resume(i) ==
  /\ PendingRow(i) /\ auth["row"][i] = "idle"
  /\ AuthGoto("row", i, "preparing")
  /\ UNCHANGED <<rows, grants, pending, posted, seen, started, returned, fills,
                 work, applied, crashes>>

\* buildPolicyForIntent: no policy for a row in a final status.
Authorizable(i) == status[i] \in Open \cup {"EXECUTING"}

\* Mutant of MarkersAfterError: a failed authorization drops the marker.
DropMarker(i) == pending \ {i}

\* setDelegatedPendingError flags the marker and keeps it.
MarkersAfterError(i) == pending

\* prepareGrant: the policy of the row as it is now, and the digest to sign;
\* nothing is written, so the row may have moved on when the answer is signed.
PrepareGrant(p, i) ==
  /\ auth[p][i] = "preparing" /\ Authorizable(i)
  /\ AuthGoto(p, i, "signing")
  /\ UNCHANGED <<rows, grants, pending, posted, seen, started, returned, fills,
                 work, applied, crashes>>

\* prepareGrant refuses, an error, or the owner's "no" in the wallet.
AuthFail(p, i) ==
  /\ auth[p][i] \in {"preparing", "signing"}
  /\ AuthGoto(p, i, "idle")
  /\ pending' = MarkersAfterError(i)
  /\ UNCHANGED <<rows, grants, posted, seen, started, returned, fills, work, applied, crashes>>

Sign(p, i) ==
  /\ auth[p][i] = "signing"
  /\ AuthGoto(p, i, "finalizing")
  /\ posted' = posted \cup {<<p, i>>}
  /\ UNCHANGED <<rows, grants, pending, seen, started, returned, fills, work, applied, crashes>>

\* DelegationGrantRepository.create, ACTIVE; the worker's order is by age.
CreateGrant(i) ==
  /\ grant' = [grant EXCEPT ![i] = "ACTIVE"]
  /\ born' = [born EXCEPT ![i] = 1 + Cardinality({j \in Intents : born[j] > 0})]

\* The API's half of finalize; intentId is unique, so a second create throws.
\* The panel, if it still waits, clears the marker of an ACTIVE grant.
Finalize(p, i) == LET ok == Authorizable(i) /\ grant[i] = "none" IN
  /\ <<p, i>> \in posted
  /\ posted' = posted \ {<<p, i>>}
  /\ IF ok THEN CreateGrant(i) ELSE UNCHANGED grants
  /\ IF auth[p][i] = "finalizing"
     THEN AuthGoto(p, i, "idle") /\ pending' = IF ok THEN pending \ {i} ELSE MarkersAfterError(i)
     ELSE UNCHANGED <<auth, pending>>
  /\ UNCHANGED <<rows, seen, started, returned, fills, work, applied, crashes>>

\* The tab is closed or reloaded: the stage is gone, a posted request is not;
\* markers are in localStorage.
Reload ==
  /\ \E i \in Intents : seen[i] # "none" \/ \E p \in Panels : auth[p][i] # "idle"
  /\ auth' = [p \in Panels |-> [i \in Intents |-> "idle"]]
  /\ seen' = [i \in Intents |-> "none"]
  /\ UNCHANGED <<rows, grants, pending, posted, started, returned, fills, work, applied, crashes>>

\* "Return to manual", while the row's own authorization is not busy, whatever
\* the toggle's is doing.  ("Start over", after the toggle's own error, clears the same
\* marker and is taken with it.)
ReturnToManual(i) ==
  /\ PendingRow(i) /\ auth["row"][i] = "idle"
  /\ pending' = pending \ {i}
  /\ returned' = returned \cup {i}
  /\ UNCHANGED <<rows, grants, auth, posted, seen, started, fills, work, applied, crashes>>

\* The row tells a grant that can be revoked from one that is over.
Shown(g) == IF g \in {"none", "ACTIVE"} THEN g ELSE "over"

\* hydrate: with the grants fetched, their markers go; without, no row has one.
Hydrate ==
  /\ \/ seen' = [i \in Intents |-> Shown(grant[i])] /\ pending' = {i \in pending : grant[i] = "none"}
     \/ seen' = [i \in Intents |-> "none"] /\ pending' = pending
  /\ <<seen, pending>>' # <<seen, pending>>
  /\ UNCHANGED <<rows, grants, auth, posted, started, returned, fills, work, applied, crashes>>

\* Offered for a grant last seen ACTIVE; written whatever it is by now.
Revoke(i) ==
  /\ seen[i] = "ACTIVE"
  /\ grant' = [grant EXCEPT ![i] = "REVOKED"]
  /\ UNCHANGED <<rows, born, browser, fills, work, applied, crashes>>

AuthStep(p, i) == PrepareGrant(p, i) \/ AuthFail(p, i) \/ Sign(p, i) \/ Finalize(p, i)

BrowserStep ==
  \/ Reload \/ Hydrate
  \/ \E i \in Intents : Delegate(i) \/ Resume(i) \/ ReturnToManual(i) \/ Revoke(i)
  \/ \E p \in Panels, i \in Intents : AuthStep(p, i)

-----------------------------------------------------------------------------
(* Manual execution (CmrLifecycle has it in detail).                       *)

\* IntentRow offers "Execute now": no grant in the panel's map, no marker.
ManualRow(i) == seen[i] = "none" /\ i \notin pending

Lock(i) ==
  /\ ManualRow(i) /\ manual[i] = "idle"
  /\ status[i] = "READY" /\ i \notin locked
  /\ manual' = [manual EXCEPT ![i] = "signing"]
  /\ locked' = locked \cup {i}
  /\ UNCHANGED <<status, link, expired, grants, browser, chain, target, work, applied, crashes>>

Lapse(i) ==
  /\ i \in locked
  /\ locked' = locked \ {i}
  /\ UNCHANGED <<status, link, expired, grants, browser, fills, work, applied, crashes>>

\* The owner confirms in the wallet, however late, or gives up.
Send(i) ==
  /\ manual[i] = "signing"
  /\ manual' = [manual EXCEPT ![i] = "sent"]
  /\ chain' = [chain EXCEPT ![i] = "pending"]
  /\ UNCHANGED <<rows, grants, browser, target, work, applied, crashes>>

\* The marker, refused once the row left READY.
Mark(i) ==
  /\ manual[i] = "sent"
  /\ manual' = [manual EXCEPT ![i] = "done"]
  /\ IF status[i] = "READY" /\ i \in locked
     THEN Move(i, {"READY"}, "EXECUTING") /\ link' = [link EXCEPT ![i] = i]
     ELSE UNCHANGED <<status, link>>
  /\ UNCHANGED <<locked, expired, grants, browser, chain, target, work, applied, crashes>>

\* The FillWatcher closes the row that bears the transaction.
WatchManual(i) ==
  /\ link[i] = i /\ status[i] = "EXECUTING" /\ chain[i] \in {"full", "failed"}
  /\ Move(i, {"EXECUTING"}, IF chain[i] = "full" THEN "EXECUTED" ELSE "FAILED")
  /\ UNCHANGED <<link, locked, expired, grants, browser, fills, work, applied, crashes>>

ManualStep(i) == Lock(i) \/ Lapse(i) \/ Send(i) \/ Mark(i) \/ WatchManual(i)

-----------------------------------------------------------------------------
(* The chain.                                                              *)

\* Mutant of Spent: the session is enabled without a usage limit.
SpentNever(i) == FALSE

\* The session's usage limit: one fill for each permission.
Spent(i) == \E u \in Ops : target[u] = i /\ chain[u] \in {"full", "partial"}

\* A user operation fills all it asked for, less (someone else took part of
\* the maker's order first), or nothing; a manual fill all or nothing.
MineOp(u) ==
  /\ chain[u] = "pending"
  /\ \E outcome \in IF Spent(target[u]) THEN {"failed"} ELSE {"full", "partial", "failed"} :
       chain' = [chain EXCEPT ![u] = outcome]
  /\ UNCHANGED <<rows, grants, browser, manual, target, work, applied, crashes>>

MineManual(i) ==
  /\ chain[i] = "pending"
  /\ \E outcome \in {"full", "failed"} : chain' = [chain EXCEPT ![i] = outcome]
  /\ UNCHANGED <<rows, grants, browser, manual, target, work, applied, crashes>>

-----------------------------------------------------------------------------
(* DelegatedExecutorWorker: one tick at a time, its batch row by row.      *)

Row == work.row
Batch == {work.row} \cup work.rest

WorkGoto(phase) == work' = [work EXCEPT !.phase = phase]

\* The loop over a batch takes the oldest grant first.
Begin(batch) ==
  \E i \in batch :
    /\ \A j \in batch : born[i] <= born[j]
    /\ work' = [Resting EXCEPT !.phase = "building", !.row = i, !.rest = batch \ {i}]

\* Mutant of NextRow: after the last row the worker is still in its batch.
NextRowNeverRests == work' = [Resting EXCEPT !.phase = "building"]

\* On to the next row of the batch.
NextRow == IF work.rest = {} THEN work' = Resting ELSE Begin(work.rest)

\* Mutant of Live: any grant whose validity has not passed.
LiveAnyStatus(i) == i \notin expired

\* findExecutable's grants.
Live(i) == grant[i] = "ACTIVE" /\ i \notin expired

Older(i) == {j \in Intents : Live(j) /\ born[j] < born[i]}

\* findExecutable: the limit counts live grants, READY rows or not.
Executable ==
  {i \in Intents : Live(i) /\ Cardinality(Older(i)) < Limit /\ status[i] = "READY" /\ link[i] = Nobody}

Load ==
  /\ work.phase = "idle"
  /\ Begin(Executable)
  /\ UNCHANGED <<rows, grants, browser, fills, applied, crashes>>

\* buildFreshFill and the policy's validation: a fill within its bounds ...
Build ==
  /\ work.phase = "building"
  /\ Row \notin expired
  /\ WorkGoto("claiming")
  /\ UNCHANGED <<rows, grants, browser, fills, applied, crashes>>

\* ... or none (or an incomplete grant): audited, and the row stays READY.
Refuse ==
  /\ work.phase = "building"
  /\ NextRow
  /\ UNCHANGED <<rows, grants, browser, fills, applied, crashes>>

\* Mutant of Claimable: an UPDATE by id alone.
ClaimAny(i) == TRUE

\* The WHERE of claimExecuting: neither lock nor grant is in it.
Claimable(i) == status[i] = "READY" /\ link[i] = Nobody

Claim ==
  /\ work.phase = "claiming"
  /\ IF Claimable(Row)
     THEN status' = [status EXCEPT ![Row] = "EXECUTING"] /\ WorkGoto("submitting")
     ELSE UNCHANGED status /\ NextRow
  /\ UNCHANGED <<link, locked, expired, grants, browser, fills, applied, crashes>>

\* provider.execute, up to sendUserOperation ...
Submit(u) ==
  /\ work.phase = "submitting"
  /\ target[u] = Nobody
  /\ target' = [target EXCEPT ![u] = Row]
  /\ chain' = [chain EXCEPT ![u] = "pending"]
  /\ work' = [work EXCEPT !.phase = "waiting", !.op = u]
  /\ UNCHANGED <<rows, grants, browser, manual, applied, crashes>>

\* Mutant of AfterReject: the row is not given back.
AfterRejectForgets == NextRow

AfterReject == WorkGoto("releasing")

\* ... which throws before sending, or whose receipt never comes: one catch.
SubmitRejected ==
  /\ work.phase \in {"submitting", "waiting"}
  /\ AfterReject
  /\ UNCHANGED <<rows, grants, browser, fills, applied, crashes>>

\* Mutant of Verified: the receipt's status is trusted.
VerifiedBySuccess(u) == chain[u] \in {"full", "partial"}

\* verifyFill: the log shows exactly the fill that was asked for.
Verified(u) == chain[u] = "full"

Receipt ==
  /\ work.phase = "waiting" /\ chain[work.op] # "pending"
  /\ WorkGoto(IF Verified(work.op) THEN "confirming" ELSE "failing")
  /\ UNCHANGED <<rows, grants, browser, fills, applied, crashes>>

\* releaseToReady.
Release ==
  /\ work.phase = "releasing"
  /\ IF link[Row] = Nobody THEN Move(Row, {"EXECUTING"}, "READY") ELSE UNCHANGED status
  /\ NextRow
  /\ UNCHANGED <<link, locked, expired, grants, browser, fills, applied, crashes>>

\* EXECUTING -> to with the hash; true if the row still was EXECUTING.
Settle(to) ==
  /\ Move(Row, {"EXECUTING"}, to)
  /\ link' = IF status[Row] = "EXECUTING" THEN [link EXCEPT ![Row] = work.op] ELSE link

MarkExecuted ==
  /\ work.phase = "confirming"
  /\ Settle("EXECUTED")
  /\ work' = [work EXCEPT !.phase = "using", !.executed = status[Row] = "EXECUTING"]
  /\ UNCHANGED <<locked, expired, grants, browser, fills, applied, crashes>>

\* Mutant of Reconciles: what markExecuted returned is ignored.
ReconcilesAlways == TRUE

\* Only the caller that moved the row reconciles its fill.
Reconciles == work.executed

\* setGrantStatus, whatever the grant's status is.
UseGrant ==
  /\ work.phase = "using"
  /\ grant' = [grant EXCEPT ![Row] = "USED"]
  /\ IF Reconciles THEN WorkGoto("reconciling") ELSE NextRow
  /\ UNCHANGED <<rows, born, browser, fills, applied, crashes>>

\* reconcileConfirmedFill: the trade and the maker's order, or a swallowed error.
Reconcile ==
  /\ work.phase = "reconciling"
  /\ applied' \in {applied, applied \cup {work.op}}
  /\ NextRow
  /\ UNCHANGED <<rows, grants, browser, fills, crashes>>

\* Submitted, but the fill could not be verified: FAILED with the hash.
MarkFailed ==
  /\ work.phase = "failing"
  /\ Settle("FAILED")
  /\ WorkGoto("burning")
  /\ UNCHANGED <<locked, expired, grants, browser, fills, applied, crashes>>

FailGrant ==
  /\ work.phase = "burning"
  /\ grant' = [grant EXCEPT ![Row] = "FAILED"]
  /\ NextRow
  /\ UNCHANGED <<rows, born, browser, fills, applied, crashes>>

WorkStep ==
  \/ Load \/ Build \/ Refuse \/ Claim \/ (\E u \in Ops : Submit(u)) \/ SubmitRejected
  \/ Receipt \/ Release \/ MarkExecuted \/ UseGrant \/ Reconcile \/ MarkFailed \/ FailGrant

\* The API restarts: the worker's batch and posted requests are gone.
Crash ==
  /\ crashes < MaxCrashes
  /\ crashes' = crashes + 1
  /\ work' = Resting
  /\ posted' = {}
  /\ auth' = [p \in Panels |-> [i \in Intents |->
       IF auth[p][i] = "finalizing" THEN "idle" ELSE auth[p][i]]]
  /\ UNCHANGED <<rows, grants, pending, seen, started, returned, fills, applied>>

Next ==
  \/ \E i \in Intents : RowStep(i) \/ ManualStep(i) \/ MineManual(i)
  \/ BrowserStep
  \/ \E u \in Ops : MineOp(u)
  \/ WorkStep
  \/ Crash

Spec == Init /\ [][Next]_vars

-----------------------------------------------------------------------------

\* Types; the worker rests exactly when it has no row, and what it awaits or
\* settles is the operation it submitted for the row in hand.
TypeOK ==
  /\ status \in [Intents -> Statuses]
  /\ link \in [Intents -> Fills \cup {Nobody}]
  /\ locked \subseteq Intents /\ expired \subseteq Intents
  /\ grant \in [Intents -> GrantStatuses] /\ seen \in [Intents -> {"none", "ACTIVE", "over"}]
  /\ born \in [Intents -> Nat]
  /\ pending \subseteq Intents /\ started \subseteq Intents /\ returned \subseteq Intents
  /\ posted \subseteq Posts
  /\ auth \in [Panels -> [Intents -> Stages]]
  /\ manual \in [Intents -> {"idle", "signing", "sent", "done"}]
  /\ chain \in [Fills -> {"none", "pending", "full", "partial", "failed"}]
  /\ target \in [Ops -> Intents \cup {Nobody}]
  /\ work \in [phase : Phases, row : Intents \cup {Nobody}, rest : SUBSET Intents,
              op : Ops \cup {Nobody}, executed : BOOLEAN]
  /\ work.phase = "idle" <=> work.row = Nobody
  /\ work.op # Nobody => target[work.op] = Row
  /\ applied \subseteq Ops
  /\ crashes \in 0..MaxCrashes

Lifecycle == INSTANCE IntentLifecycle WITH Txs <- Fills, NoTx <- Nobody

\* claimExecuting, releaseToReady, markExecuted and markFailed, interleaved
\* with the marker, the watcher, cancels and sweepers, keep to the intent's
\* state machine: no row leaves a final status, no hash is replaced.
RefinesLifecycle == Lifecycle!Spec

\* provider.verifyFill and the worker's "never fake success": EXECUTED always
\* stands for a fill of the whole amount, by hand or by user operation.
ExecutedIsFull ==
  \A i \in Intents : status[i] = "EXECUTED" => link[i] # Nobody /\ chain[link[i]] = "full"

\* delegated-executor.worker.ts: a fill reaches trades and orders only if its
\* row closed as EXECUTED with that very user operation, even when the stale
\* sweeper took the row during the wait.
AppliedIsExecuted ==
  \A u \in applied : status[target[u]] = "EXECUTED" /\ link[target[u]] = u

\* delegation.service.ts, revoke: "Stop the executor immediately".  Once a
\* grant is REVOKED with its row outside the worker's batch, nothing brings it
\* back - no finalize posted before or again, no late setGrantStatus - and the
\* row is never loaded.  (A batch already loaded goes on: claimExecuting does
\* not read the grant.)
RevokedStops ==
  [][\A i \in Intents :
       grant[i] = "REVOKED" /\ i \notin Batch =>
         grant'[i] = "REVOKED" /\ i \notin Batch']_vars

\* delegatedPending.ts: an intent whose authorization was begun and not
\* finished keeps its marker over errors, reloads and restarts, so that its
\* row does not offer "Execute now" until the owner returns to manual.
UnfinishedKeepsMarker ==
  \A i \in started \ returned : grant[i] = "none" => ~ManualRow(i)

Count(i) == {f \in Fills : (f = i \/ (f \in Ops /\ target[f] = i)) /\ chain[f] \in {"full", "partial"}}

\* README.md: delegated execution is single-use, and manual CMR stays the
\* fallback.  An intent filled on-chain twice was filled once by hand and once
\* by its session; never twice by the session, whatever is released and retried.
TwiceOnlyByHand ==
  \A i \in Intents : Cardinality(Count(i)) > 1 => i \in Count(i) /\ Cardinality(Count(i)) = 2

\* Whatever the provider answers, the worker does not leave a row it claimed
\* behind EXECUTING without a transaction; only a restart does.
NoOrphanClaim ==
  \A i \in Intents :
    status[i] = "EXECUTING" /\ link[i] = Nobody /\ crashes = 0 => work.row = i
=============================================================================
