--------------------- MODULE DelegatedExecution_proofs ---------------------
(***************************************************************************)
(* Proofs about DelegatedExecution, for any number of intents, user        *)
(* operations, rows per tick and restarts.                                 *)
(***************************************************************************)
EXTENDS DelegatedExecution, FiniteSetTheorems, TLAPS

\* TypeOK is inductive once the phases after a submission have an operation.
HasOp ==
  work.phase \in {"waiting", "confirming", "using", "reconciling", "failing", "burning"} =>
    work.op \in Ops
TypeInv == TypeOK /\ HasOp

\* The first state is typed: the worker rests, without an operation.
LEMMA InitTyped == Init => TypeInv
  BY NamesAssumption, BoundsAssumption
  DEF Init, TypeInv, TypeOK, HasOp, Statuses, Open, Fills, GrantStatuses, Phases, Resting, Stages

\* A batch that is begun leaves the worker typed: it has a row in hand.
LEMMA BeginTyped ==
  ASSUME NEW batch \in SUBSET Intents, Begin(batch)
  PROVE  /\ work' \in [phase : Phases, row : Intents \cup {Nobody}, rest : SUBSET Intents,
                       op : Ops \cup {Nobody}, executed : BOOLEAN]
         /\ work'.phase = "building" /\ work'.row \in batch /\ work'.rest \subseteq batch
         /\ work'.op = Nobody /\ ~work'.executed
  <1>1. PICK i \in batch : work' = [Resting EXCEPT !.phase = "building", !.row = i, !.rest = batch \ {i}]
    BY DEF Begin
  <1>2. work' = [phase |-> "building", row |-> i, rest |-> batch \ {i}, op |-> Nobody, executed |-> FALSE]
    BY <1>1 DEF Resting
  <1>3. i \in Intents /\ batch \ {i} \in SUBSET Intents
    OBVIOUS
  <1>4. QED
    BY <1>2, <1>3 DEF Phases

\* Going on to the next row, the worker rests or builds one of the rest.
LEMMA NextRowTyped ==
  ASSUME TypeOK, NextRow
  PROVE  /\ work' \in [phase : Phases, row : Intents \cup {Nobody}, rest : SUBSET Intents,
                       op : Ops \cup {Nobody}, executed : BOOLEAN]
         /\ work'.phase \in {"idle", "building"} /\ work'.op = Nobody /\ ~work'.executed
         /\ work'.phase = "idle" <=> work'.row = Nobody
         /\ work'.row \in work.rest \cup {Nobody} /\ work'.rest \subseteq work.rest
  <1>1. CASE work.rest = {}
    <2>1. work' = Resting
      BY <1>1 DEF NextRow
    <2>2. QED
      BY <2>1 DEF Resting, Phases
  <1>2. CASE work.rest # {}
    <2>1. work.rest \in SUBSET Intents /\ Begin(work.rest)
      BY <1>2 DEF NextRow, TypeOK
    <2>2. QED
      BY <2>1, BeginTyped, NamesAssumption
  <1>3. QED
    BY <1>1, <1>2

\* Another phase, the same row, rest and operation.
LEMMA GotoKeeps ==
  ASSUME TypeOK, NEW phase, WorkGoto(phase)
  PROVE  /\ work'.phase = phase /\ work'.row = work.row /\ work'.rest = work.rest /\ work'.op = work.op
         /\ work'.executed = work.executed
  BY DEF TypeOK, WorkGoto

\* A panel's authorization goes from stage to stage.
LEMMA AuthTyped ==
  ASSUME TypeOK, NEW p \in Panels, NEW i \in Intents, NEW stage \in Stages, AuthGoto(p, i, stage)
  PROVE  auth' \in [Panels -> [Intents -> Stages]]
  BY DEF TypeOK, AuthGoto

\* Each step keeps the types and leaves the worker's row and operation matching.
LEMMA StepTyped == TypeInv /\ [Next]_vars => TypeInv'
  <1> SUFFICES ASSUME TypeInv, [Next]_vars PROVE TypeInv'
    OBVIOUS
  <1> USE NamesAssumption, BoundsAssumption
  <1> USE DEF TypeInv, TypeOK, HasOp, Statuses, Open, Fills, GrantStatuses, rows, grants, browser, fills, Row
  <1>1. ASSUME NEW i \in Intents, RowStep(i) PROVE TypeInv'
    BY <1>1 DEF RowStep, Prepare, Rearm, Cancel, PassExpiry, Expire, SweepStale, Move
  <1>2. ASSUME NEW i \in Intents, ManualStep(i) PROVE TypeInv'
    BY <1>2 DEF ManualStep, Lock, Lapse, Send, Mark, WatchManual, Move
  <1>3. ASSUME NEW f \in Fills, MineOp(f) \/ MineManual(f) PROVE TypeInv'
    BY <1>3 DEF MineOp, MineManual
  <1>4. CASE BrowserStep
    <2>1. CASE Reload \/ Hydrate
      BY <2>1 DEF Reload, Hydrate, Shown, Stages
    <2>2. ASSUME NEW p \in Panels, NEW i \in Intents, Finalize(p, i) PROVE TypeInv'
      <3>1. Cardinality({j \in Intents : born[j] > 0}) \in Nat
        BY FS_Subset, FS_CardinalityType
      <3>1a. CreateGrant(i) \/ UNCHANGED grants
        BY <2>2 DEF Finalize
      <3>1b. ASSUME CreateGrant(i)
             PROVE  grant' \in [Intents -> GrantStatuses] /\ born' \in [Intents -> Nat]
        BY <3>1, <3>1b DEF CreateGrant
      <3>2. grant' \in [Intents -> GrantStatuses] /\ born' \in [Intents -> Nat]
        BY <3>1a, <3>1b
      <3>3. auth' \in [Panels -> [Intents -> Stages]]
        BY <2>2, AuthTyped DEF Finalize, Stages
      <3>3a. posted' \subseteq Posts /\ pending' \subseteq Intents
        BY <2>2 DEF Finalize, MarkersAfterError
      <3>4. UNCHANGED <<rows, seen, started, returned, fills, work, applied, crashes>>
        BY <2>2 DEF Finalize
      <3>5. QED
        BY <3>2, <3>3, <3>3a, <3>4
    <2>3. ASSUME NEW i \in Intents, Delegate(i) \/ Resume(i)
          PROVE TypeInv'
      <3>1. auth' \in [Panels -> [Intents -> Stages]]
        BY <2>3, AuthTyped DEF Delegate, Resume, Panels, Stages
      <3>2. QED
        BY <2>3, <3>1 DEF Delegate, Resume
    <2>4. ASSUME NEW i \in Intents, ReturnToManual(i) \/ Revoke(i) PROVE TypeInv'
      BY <2>4 DEF ReturnToManual, Revoke
    <2>5. ASSUME NEW p \in Panels, NEW i \in Intents, PrepareGrant(p, i) \/ AuthFail(p, i) \/ Sign(p, i)
          PROVE TypeInv'
      <3>1. auth' \in [Panels -> [Intents -> Stages]]
        BY <2>5, AuthTyped DEF PrepareGrant, AuthFail, Sign, Stages
      <3>2. pending' \subseteq Intents
        BY <2>5 DEF PrepareGrant, AuthFail, Sign, MarkersAfterError
      <3>3. posted' \subseteq Posts
        BY <2>5 DEF PrepareGrant, AuthFail, Sign, Posts
      <3>4. UNCHANGED <<rows, grants, seen, started, returned, fills, work, applied, crashes>>
        BY <2>5 DEF PrepareGrant, AuthFail, Sign
      <3>5. QED
        BY <3>1, <3>2, <3>3, <3>4
    <2>6. QED
      BY <1>4, <2>1, <2>2, <2>3, <2>4, <2>5 DEF BrowserStep, AuthStep
  <1>5. CASE WorkStep
    <2>1. CASE Load
      <3>1. Executable \in SUBSET Intents
        BY DEF Executable
      <3>2. QED
        BY <2>1, <3>1, BeginTyped DEF Load
    <2>2. CASE Build \/ SubmitRejected \/ Receipt
      <3>1. /\ \E phase \in {"claiming", "releasing", "confirming", "failing"} :
                  WorkGoto(phase) /\ (phase \in {"confirming", "failing"} => work.phase = "waiting")
            /\ UNCHANGED <<rows, grants, browser, fills, applied, crashes>>
        <4>1. CASE Build
          BY <4>1 DEF Build
        <4>2. CASE SubmitRejected
          BY <4>2 DEF SubmitRejected, AfterReject
        <4>3. CASE Receipt
          BY <4>3 DEF Receipt
        <4>4. QED
          BY <2>2, <4>1, <4>2, <4>3
      <3>2. PICK phase \in {"claiming", "releasing", "confirming", "failing"} :
              WorkGoto(phase) /\ (phase \in {"confirming", "failing"} => work.phase = "waiting")
        BY <3>1
      <3>3. work' \in [phase : Phases, row : Intents \cup {Nobody}, rest : SUBSET Intents,
                       op : Ops \cup {Nobody}, executed : BOOLEAN]
        BY <3>2 DEF WorkGoto, Phases
      <3>4. work.phase # "idle" /\ (phase \in {"confirming", "failing"} => work.op \in Ops)
        BY <2>2, <3>2 DEF Build, SubmitRejected, Receipt
      <3>5. QED
        <4>1. /\ work'.phase = phase /\ work'.row = work.row
              /\ work'.rest = work.rest /\ work'.op = work.op
          BY <3>2, GotoKeeps
        <4>2. TypeOK'
          BY <3>1, <3>3, <3>4, <4>1
        <4>3. HasOp'
          BY <3>4, <4>1
        <4>4. QED
          BY <4>2, <4>3
    <2>3. CASE Refuse \/ Release \/ Reconcile \/ FailGrant
      <3>1. NextRow /\ UNCHANGED <<locked, expired, born, browser, fills, crashes>>
        BY <2>3 DEF Refuse, Release, Reconcile, FailGrant
      <3>2. /\ status' \in [Intents -> Statuses] /\ link' = link
            /\ grant' \in [Intents -> GrantStatuses] /\ applied' \subseteq Ops
        <4>1. CASE Refuse
          BY <4>1 DEF Refuse
        <4>2. CASE Release
          BY <4>2 DEF Release, Move
        <4>3. CASE Reconcile
          BY <4>3 DEF Reconcile, Phases
        <4>4. CASE FailGrant
          BY <4>4 DEF FailGrant
        <4>5. QED
          BY <2>3, <4>1, <4>2, <4>3, <4>4
      <3>3. QED
        BY <3>1, <3>2, NextRowTyped
    <2>4. CASE Claim
      <3>1. CASE Claimable(Row)
        BY <2>4, <3>1 DEF Claim, WorkGoto, Phases
      <3>2. CASE ~Claimable(Row)
        <4>1. NextRow /\ UNCHANGED <<rows, grants, browser, fills, applied, crashes>>
          BY <2>4, <3>2 DEF Claim
        <4>2. QED
          BY <4>1, NextRowTyped
      <3>3. QED
        BY <3>1, <3>2
    <2>5. CASE \E u \in Ops : Submit(u)
      <3>1. PICK u \in Ops : Submit(u)
        BY <2>5
      <3>2. work.row \in Intents /\ u \in Fills
        BY <3>1 DEF Submit
      <3>3. /\ target' \in [Ops -> Intents \cup {Nobody}]
            /\ chain' \in [Fills -> {"none", "pending", "full", "partial", "failed"}]
            /\ target'[u] = work.row
            /\ UNCHANGED <<rows, grants, browser, manual, applied, crashes>>
        BY <3>1, <3>2 DEF Submit
      <3>4. /\ work' \in [phase : Phases, row : Intents \cup {Nobody}, rest : SUBSET Intents,
                           op : Ops \cup {Nobody}, executed : BOOLEAN]
            /\ work'.phase = "waiting" /\ work'.row = work.row /\ work'.op = u
        BY <3>1 DEF Submit, Phases
      <3>5. QED
        BY <3>2, <3>3, <3>4
    <2>6. CASE MarkExecuted \/ MarkFailed
      <3>1. work.op \in Ops /\ work.phase # "idle"
        BY <2>6 DEF MarkExecuted, MarkFailed
      <3>2. /\ status' \in [Intents -> Statuses] /\ link' \in [Intents -> Fills \cup {Nobody}]
            /\ UNCHANGED <<locked, expired, grants, browser, fills, applied, crashes>>
        BY <2>6, <3>1 DEF MarkExecuted, MarkFailed, Settle, Move
      <3>3. /\ work' \in [phase : Phases, row : Intents \cup {Nobody}, rest : SUBSET Intents,
                           op : Ops \cup {Nobody}, executed : BOOLEAN]
            /\ work'.phase # "idle" /\ work'.row = work.row /\ work'.op = work.op
        <4>1. CASE MarkExecuted
          <5>1. PICK b \in BOOLEAN : work' = [work EXCEPT !.phase = "using", !.executed = b]
            BY <4>1, Zenon DEF MarkExecuted
          <5>2. QED
            BY <5>1 DEF Phases
        <4>2. CASE MarkFailed
          BY <4>2 DEF MarkFailed, WorkGoto, Phases
        <4>3. QED
          BY <2>6, <4>1, <4>2
      <3>4. work'.row # Nobody /\ target'[work'.op] = work'.row
        BY <3>1, <3>2, <3>3
      <3>5. QED
        BY <3>1, <3>2, <3>3, <3>4
    <2>7. CASE UseGrant
      <3>1. /\ grant' \in [Intents -> GrantStatuses]
            /\ UNCHANGED <<rows, born, browser, fills, applied, crashes>>
        BY <2>7 DEF UseGrant
      <3>2. CASE Reconciles
        BY <2>7, <3>1, <3>2 DEF UseGrant, WorkGoto, Phases
      <3>3. CASE ~Reconciles
        <4>1. NextRow
          BY <2>7, <3>3 DEF UseGrant
        <4>2. QED
          BY <3>1, <4>1, NextRowTyped
      <3>4. QED
        BY <3>2, <3>3
    <2>8. QED
      BY <1>5, <2>1, <2>2, <2>3, <2>4, <2>5, <2>6, <2>7 DEF WorkStep
  <1>6. CASE Crash
    BY <1>6 DEF Crash, Resting, Phases, Stages
  <1>7. CASE UNCHANGED vars
    BY <1>7 DEF vars
  <1>8. QED
    BY <1>1, <1>2, <1>3, <1>4, <1>5, <1>6, <1>7 DEF Next

\* The types, with HasOp, hold throughout.
LEMMA TypeInvariant == Spec => []TypeInv
  BY InitTyped, StepTyped, PTL DEF Spec

\* Every variable keeps its type, and the worker's record its shape.
THEOREM Typed == Spec => []TypeOK
  <1>1. TypeInv => TypeOK
    BY DEF TypeInv
  <1>2. QED
    BY <1>1, TypeInvariant, PTL

-----------------------------------------------------------------------------
\* What the other writers of the row may do while the worker handles it: a
\* closed row stays, a claimed one can only be failed.
LEMMA OthersKeep ==
  ASSUME TypeInv, [Next]_vars, ~WorkStep, ~Crash
  PROVE  /\ UNCHANGED <<work, applied, crashes>>
         /\ \A i \in Intents :
              /\ status[i] = "EXECUTED" => status'[i] = "EXECUTED" /\ link'[i] = link[i]
              /\ status[i] \in {"EXECUTING", "FAILED"} /\ link[i] = Nobody =>
                   status'[i] \in {"EXECUTING", "FAILED"} /\ link'[i] = Nobody
  <1> USE NamesAssumption DEF TypeInv, TypeOK, Open, rows, grants, browser, fills
  <1>1. ASSUME NEW i \in Intents, RowStep(i)
        PROVE  /\ UNCHANGED <<link, work, applied, crashes>>
               /\ \E to \in Statuses : status' = [status EXCEPT ![i] = to]
               /\ status[i] \in {"EXECUTED", "FAILED"} => status' = status
               /\ status[i] = "EXECUTING" => status'[i] \in {"EXECUTING", "FAILED"}
    BY <1>1 DEF RowStep, Prepare, Rearm, Cancel, PassExpiry, Expire, SweepStale, Move, Statuses
  <1>2. ASSUME NEW i \in Intents, ManualStep(i)
        PROVE  /\ UNCHANGED <<work, applied, crashes>>
               /\ \/ UNCHANGED <<status, link>>
                  \/ /\ status[i] = "READY"
                     /\ status' = [status EXCEPT ![i] = "EXECUTING"] /\ link' = [link EXCEPT ![i] = i]
                  \/ /\ status[i] = "EXECUTING" /\ link[i] # Nobody
                     /\ \E to \in Statuses : status' = [status EXCEPT ![i] = to]
                     /\ UNCHANGED link
    BY <1>2 DEF ManualStep, Lock, Lapse, Send, Mark, WatchManual, Move, Statuses
  <1>3. ASSUME NEW f \in Fills, MineOp(f) \/ MineManual(f)
        PROVE  UNCHANGED <<status, link, work, applied, crashes>>
    BY <1>3 DEF MineOp, MineManual
  <1>4. ASSUME BrowserStep PROVE UNCHANGED <<status, link, work, applied, crashes>>
    BY <1>4 DEF BrowserStep, Reload, Hydrate, Delegate, Resume, PrepareGrant, AuthFail, Sign,
       AuthStep, Finalize, ReturnToManual, Revoke
  <1>5. CASE \E i \in Intents : RowStep(i)
    BY <1>1, <1>5
  <1>6. CASE \E i \in Intents : ManualStep(i)
    BY <1>2, <1>6
  <1>7. CASE UNCHANGED vars
    BY <1>7 DEF vars
  <1>8. QED
    BY <1>3, <1>4, <1>5, <1>6, <1>7 DEF Next, Fills

\* The row in hand between the claim and the outcome, and after it.
Claimed == {"submitting", "waiting", "releasing", "confirming", "failing"}
ClaimInv ==
  /\ work.phase \in Claimed => link[Row] = Nobody /\ status[Row] \in {"EXECUTING", "FAILED"}
  /\ work.phase \in {"using", "reconciling"} /\ work.executed =>
       status[Row] = "EXECUTED" /\ link[Row] = work.op
  /\ work.phase = "reconciling" => work.executed

\* No step of the worker, of the other writers or a restart breaks ClaimInv.
LEMMA ClaimStep == ASSUME TypeInv, ClaimInv, [Next]_vars PROVE ClaimInv'
  <1> USE NamesAssumption DEF Claimed, ClaimInv, Row
  <1>1. work.phase # "idle" => work.row \in Intents
    BY DEF TypeInv, TypeOK
  <1>2. CASE ~WorkStep /\ ~Crash
    BY <1>1, <1>2, OthersKeep
  <1>3. CASE Crash
    BY <1>3 DEF Crash, Resting
  <1>4. CASE WorkStep
    <2>1. CASE Load
      <3>1. Executable \in SUBSET Intents /\ Begin(Executable)
        BY <2>1 DEF Executable, Load
      <3>2. QED
        BY <3>1, BeginTyped
    <2>2. CASE Refuse \/ Release \/ Reconcile \/ FailGrant
      BY <2>2, NextRowTyped DEF Refuse, Release, Reconcile, FailGrant, TypeInv
    <2>3. CASE Claim
      <3>1. CASE Claimable(Row)
        BY <1>1, <2>3, <3>1 DEF Claim, Claimable, WorkGoto, TypeInv, TypeOK
      <3>2. CASE ~Claimable(Row)
        BY <2>3, <3>2, NextRowTyped DEF Claim, TypeInv
      <3>3. QED
        BY <3>1, <3>2
    <2>4. CASE Build \/ SubmitRejected \/ Receipt
      BY <2>4 DEF Build, SubmitRejected, Receipt, AfterReject, WorkGoto, rows, TypeInv, TypeOK
    <2>5. CASE \E u \in Ops : Submit(u)
      BY <2>5 DEF Submit, rows, TypeInv, TypeOK
    <2>6. CASE MarkExecuted
      <3>1. /\ work'.phase = "using" /\ work'.row = work.row /\ work'.op = work.op
            /\ work'.executed => status[Row] = "EXECUTING"
        BY <2>6 DEF MarkExecuted, TypeInv, TypeOK
      <3>2. status[Row] = "EXECUTING" => status'[Row] = "EXECUTED" /\ link'[Row] = work.op
        BY <1>1, <2>6 DEF MarkExecuted, Settle, Move, TypeInv, TypeOK
      <3>3. QED
        BY <3>1, <3>2
    <2>7. CASE MarkFailed
      BY <2>7 DEF MarkFailed, WorkGoto, TypeInv, TypeOK
    <2>8. CASE UseGrant
      <3>1. CASE Reconciles
        BY <2>8, <3>1 DEF UseGrant, Reconciles, WorkGoto, rows, TypeInv, TypeOK
      <3>2. CASE ~Reconciles
        BY <2>8, <3>2, NextRowTyped DEF UseGrant, TypeInv
      <3>3. QED
        BY <3>1, <3>2
    <2>9. QED
      BY <1>4, <2>1, <2>2, <2>3, <2>4, <2>5, <2>6, <2>7, <2>8 DEF WorkStep
  <1>5. QED
    BY <1>2, <1>3, <1>4

\* What the worker knows of its row holds throughout.
LEMMA ClaimInvariant == Spec => []ClaimInv
  <1>1. Init => ClaimInv
    BY DEF Init, ClaimInv, Claimed, Resting
  <1>2. QED
    BY <1>1, ClaimStep, TypeInvariant, PTL DEF Spec

-----------------------------------------------------------------------------
\* Each step is an edge of the intent's state machine, or leaves it alone.
LEMMA EdgeOrStutter ==
  ASSUME TypeInv, ClaimInv, [Next]_vars
  PROVE  [Lifecycle!Next]_(Lifecycle!vars)
  <1> DEFINE Step == [Lifecycle!Next]_(Lifecycle!vars)
  <1> USE NamesAssumption
  <1>1. ASSUME UNCHANGED <<status, link>> PROVE Step
    BY <1>1 DEF Lifecycle!vars
  <1>2. ASSUME NEW i \in Intents, RowStep(i) PROVE Step
    <2>1. CASE Prepare(i) \/ Rearm(i) \/ Cancel(i) \/ Expire(i)
      <3>1. Lifecycle!Prepare(i) \/ Lifecycle!Rearm(i) \/ Lifecycle!Cancel(i) \/ Lifecycle!Expire(i)
        BY <2>1 DEF Prepare, Rearm, Cancel, Expire, Move, Open, Lifecycle!Prepare, Lifecycle!Rearm,
           Lifecycle!Cancel, Lifecycle!Expire, Lifecycle!Move
      <3>2. QED
        BY <3>1 DEF Lifecycle!Next
    <2>2. CASE PassExpiry(i)
      BY <1>1, <2>2 DEF PassExpiry
    <2>3. CASE SweepStale(i)
      <3>1. link[i] \in Fills \cup {Nobody} /\ link' = [link EXCEPT ![i] = link[i]]
        BY <2>3 DEF SweepStale, TypeInv, TypeOK
      <3>2. Lifecycle!Outcome(i, "FAILED", link[i])
        BY <2>3, <3>1 DEF SweepStale, Move, Lifecycle!Outcome, Lifecycle!Move
      <3>3. QED
        BY <3>1, <3>2 DEF Lifecycle!FailExecution, Lifecycle!Next
    <2>4. QED
      BY <1>2, <2>1, <2>2, <2>3 DEF RowStep
  <1>3. ASSUME NEW i \in Intents, ManualStep(i) PROVE Step
    <2>1. CASE Mark(i)
      <3>1. CASE status[i] = "READY" /\ i \in locked
        <4>1. Lifecycle!Stamp(i, i) /\ i \in Fills
          BY <2>1, <3>1 DEF Mark, Move, Fills, Lifecycle!Stamp, Lifecycle!Move
        <4>2. QED
          BY <4>1 DEF Lifecycle!Next
      <3>2. CASE ~(status[i] = "READY" /\ i \in locked)
        BY <1>1, <2>1, <3>2 DEF Mark
      <3>3. QED
        BY <3>1, <3>2
    <2>2. CASE WatchManual(i)
      <3>1. i \in Fills /\ link[i] = i /\ link' = [link EXCEPT ![i] = i]
        BY <2>2 DEF WatchManual, TypeInv, TypeOK, Fills
      <3>2. Lifecycle!Outcome(i, "EXECUTED", i) \/ Lifecycle!Outcome(i, "FAILED", i)
        BY <2>2, <3>1 DEF WatchManual, Move, Lifecycle!Outcome, Lifecycle!Move
      <3>3. QED
        BY <3>1, <3>2 DEF Lifecycle!Execute, Lifecycle!FailExecution, Lifecycle!Next
    <2>3. CASE Lock(i) \/ Lapse(i) \/ Send(i)
      BY <1>1, <2>3 DEF Lock, Lapse, Send, rows
    <2>4. QED
      BY <1>3, <2>1, <2>2, <2>3 DEF ManualStep
  <1>4. ASSUME NEW f \in Fills, MineOp(f) \/ MineManual(f) PROVE Step
    BY <1>1, <1>4 DEF MineOp, MineManual, rows
  <1>5. CASE BrowserStep
    <2>1. UNCHANGED <<status, link>>
      BY <1>5 DEF BrowserStep, Reload, Hydrate, Delegate, Resume, PrepareGrant, AuthFail, Sign,
         AuthStep, Finalize, ReturnToManual, Revoke, rows
    <2>2. QED
      BY <1>1, <2>1
  <1>6. CASE WorkStep
    <2>1. work.phase # "idle" => work.row \in Intents
      BY DEF TypeInv, TypeOK
    <2>2. CASE Claim
      <3>1. CASE Claimable(Row)
        <4>1. Row \in Intents /\ Lifecycle!Claim(Row)
          BY <2>1, <2>2, <3>1 DEF Claim, Claimable, Row, Lifecycle!Claim, Lifecycle!Move
        <4>2. QED
          BY <4>1 DEF Lifecycle!Next
      <3>2. CASE ~Claimable(Row)
        BY <1>1, <2>2, <3>2 DEF Claim
      <3>3. QED
        BY <3>1, <3>2
    <2>3. CASE Release
      <3>1. CASE status[Row] = "EXECUTING" /\ link[Row] = Nobody
        <4>1. Row \in Intents /\ Lifecycle!Release(Row)
          BY <2>1, <2>3, <3>1 DEF Release, Move, Row, Lifecycle!Release, Lifecycle!Move
        <4>2. QED
          BY <4>1 DEF Lifecycle!Next
      <3>2. CASE ~(status[Row] = "EXECUTING" /\ link[Row] = Nobody)
        BY <1>1, <2>3, <3>2 DEF Release, Move
      <3>3. QED
        BY <3>1, <3>2
    <2>4. ASSUME NEW to \in {"EXECUTED", "FAILED"}, Settle(to), work.phase \in {"confirming", "failing"}
          PROVE  Step
      <3>1. Row \in Intents /\ work.op \in Ops /\ link[Row] = Nobody
        BY <2>1, <2>4 DEF Row, TypeInv, HasOp, ClaimInv, Claimed
      <3>2. CASE status[Row] = "EXECUTING"
        <4>1. work.op \in Fills /\ Lifecycle!Outcome(Row, to, work.op)
          BY <2>4, <3>1, <3>2 DEF Settle, Move, Fills, Lifecycle!Outcome, Lifecycle!Move
        <4>2. QED
          BY <3>1, <4>1 DEF Lifecycle!Execute, Lifecycle!FailExecution, Lifecycle!Next
      <3>3. CASE status[Row] # "EXECUTING"
        BY <1>1, <2>4, <3>3 DEF Settle, Move
      <3>4. QED
        BY <3>2, <3>3
    <2>5. CASE MarkExecuted \/ MarkFailed
      BY <2>4, <2>5 DEF MarkExecuted, MarkFailed
    <2>6. CASE ~(Claim \/ Release \/ MarkExecuted \/ MarkFailed)
      <3>1. UNCHANGED <<status, link>>
        BY <1>6, <2>6 DEF WorkStep, Load, Build, Refuse, Submit, SubmitRejected, Receipt,
           UseGrant, Reconcile, FailGrant, rows
      <3>2. QED
        BY <1>1, <3>1
    <2>7. QED
      BY <2>2, <2>3, <2>5, <2>6
  <1>7. CASE Crash \/ UNCHANGED vars
    BY <1>1, <1>7 DEF Crash, vars, rows
  <1>8. QED
    BY <1>2, <1>3, <1>4, <1>5, <1>6, <1>7 DEF Next, Fills

\* Worker, marker, watcher, cancels and sweepers together keep to the intent's
\* state machine, and no settlement hash is replaced.
THEOREM ImplementsLifecycle == Spec => RefinesLifecycle
  <1>1. Init => Lifecycle!Init
    BY DEF Init, Lifecycle!Init
  <1>2. TypeInv /\ ClaimInv /\ [Next]_vars => [Lifecycle!Next]_(Lifecycle!vars)
    BY EdgeOrStutter
  <1>3. QED
    BY <1>1, <1>2, TypeInvariant, ClaimInvariant, PTL DEF Spec, RefinesLifecycle, Lifecycle!Spec

-----------------------------------------------------------------------------
\* Fills on the chain: a name not yet used has no fill, a verdict is final, and
\* the session fills an intent at most once.
Verdicts == {"full", "partial", "failed"}
ChainInv ==
  /\ \A u \in Ops : target[u] = Nobody => chain[u] = "none"
  /\ \A i \in Intents : manual[i] \in {"idle", "signing"} => chain[i] = "none"
  /\ \A u, v \in Ops :
       target[u] = target[v] /\ {chain[u], chain[v]} \subseteq {"full", "partial"} => u = v

\* Only Submit names an operation and only a miner decides it, once.
LEMMA ChainStep ==
  ASSUME TypeInv, ChainInv, [Next]_vars
  PROVE  /\ ChainInv'
         /\ \A f \in Fills : chain[f] \in Verdicts => chain'[f] = chain[f]
         /\ \A u \in Ops : target[u] # Nobody => target'[u] = target[u]
  <1> DEFINE Goal == /\ ChainInv'
                     /\ \A f \in Fills : chain[f] \in Verdicts => chain'[f] = chain[f]
                     /\ \A u \in Ops : target[u] # Nobody => target'[u] = target[u]
  <1> USE NamesAssumption DEF ChainInv, Verdicts, Fills
  <1>1. ASSUME UNCHANGED fills PROVE Goal
    BY <1>1 DEF fills
  <1>2. ASSUME NEW i \in Intents, RowStep(i) PROVE Goal
    BY <1>1, <1>2 DEF RowStep, Prepare, Rearm, Cancel, PassExpiry, Expire, SweepStale
  <1>3. ASSUME NEW i \in Intents, ManualStep(i) PROVE Goal
    <2>1. CASE Lapse(i) \/ WatchManual(i)
      BY <1>1, <2>1 DEF Lapse, WatchManual
    <2>2. CASE Lock(i) \/ Send(i) \/ Mark(i)
      BY <2>2 DEF Lock, Send, Mark, TypeInv, TypeOK
    <2>3. QED
      BY <1>3, <2>1, <2>2 DEF ManualStep
  <1>4. ASSUME NEW u \in Ops, MineOp(u) PROVE Goal
    <2>1. PICK outcome \in Verdicts :
            /\ Spent(target[u]) => outcome = "failed"
            /\ chain' = [chain EXCEPT ![u] = outcome]
      BY <1>4 DEF MineOp
    <2>2. chain[u] = "pending" /\ target' = target /\ manual' = manual
      BY <1>4 DEF MineOp
    <2>3. \A v \in Ops : target[v] = target[u] /\ chain[v] \in {"full", "partial"} => outcome = "failed"
      BY <2>1 DEF Spent
    <2>4. QED
      BY <2>1, <2>2, <2>3 DEF TypeInv, TypeOK
  <1>5. ASSUME NEW i \in Intents, MineManual(i) PROVE Goal
    BY <1>5 DEF MineManual, TypeInv, TypeOK
  <1>6. CASE BrowserStep
    BY <1>1, <1>6 DEF BrowserStep, Reload, Hydrate, Delegate, Resume, PrepareGrant, AuthFail, Sign,
       AuthStep, Finalize, ReturnToManual, Revoke
  <1>7. CASE WorkStep
    <2>1. CASE \E u \in Ops : Submit(u)
      <3>1. PICK u \in Ops : Submit(u)
        BY <2>1
      <3>2. target[u] = Nobody /\ chain[u] = "none" /\ manual' = manual
        BY <3>1 DEF Submit
      <3>3. /\ \A v \in Ops \ {u} : target'[v] = target[v]
            /\ \A f \in Fills \ {u} : chain'[f] = chain[f]
            /\ chain'[u] = "pending" /\ target'[u] \in Intents
        BY <3>1 DEF Submit, Row, TypeInv, TypeOK
      <3>4. QED
        BY <3>2, <3>3
    <2>2. CASE ~\E u \in Ops : Submit(u)
      BY <1>1, <1>7, <2>2 DEF WorkStep, Load, Build, Refuse, Claim, SubmitRejected, Receipt, Release,
         MarkExecuted, UseGrant, Reconcile, MarkFailed, FailGrant
    <2>3. QED
      BY <2>1, <2>2
  <1>8. CASE Crash \/ UNCHANGED vars
    BY <1>1, <1>8 DEF Crash, vars
  <1>9. QED
    BY <1>2, <1>3, <1>4, <1>5, <1>6, <1>7, <1>8 DEF Next

\* What the chain records of an operation holds throughout.
LEMMA ChainInvariant == Spec => []ChainInv
  <1>1. Init => ChainInv
    BY DEF Init, ChainInv, Fills
  <1>2. TypeInv /\ ChainInv /\ [Next]_vars => ChainInv'
    BY ChainStep
  <1>3. QED
    BY <1>1, <1>2, TypeInvariant, PTL DEF Spec

\* An intent is filled twice only once by hand and once by its session.
THEOREM SessionFillsOnce == Spec => []TwiceOnlyByHand
  <1>1. TypeInv /\ ChainInv => TwiceOnlyByHand
    <2> SUFFICES ASSUME TypeInv, ChainInv, NEW i \in Intents, Cardinality(Count(i)) > 1
                 PROVE  i \in Count(i) /\ Cardinality(Count(i)) = 2
      BY DEF TwiceOnlyByHand
    <2> USE NamesAssumption DEF Count, Fills
    <2>1. Count(i) \subseteq {i} => FALSE
      <3> SUFFICES ASSUME Count(i) \subseteq {i} PROVE FALSE
        OBVIOUS
      <3>1. Cardinality({i}) = 1 /\ IsFiniteSet({i})
        BY FS_Singleton
      <3>2. Cardinality(Count(i)) <= 1 /\ Cardinality(Count(i)) \in Nat
        BY <3>1, FS_Subset, FS_CardinalityType
      <3>3. QED
        BY <3>2
    <2>2. PICK u \in Ops : u \in Count(i)
      BY <2>1
    <2>3. \A v \in Ops : v \in Count(i) => v = u
      BY <2>2 DEF ChainInv
    <2>4. Count(i) \subseteq {i, u}
      BY <2>3
    <2>5. Cardinality({u}) = 1 /\ IsFiniteSet({u})
      BY FS_Singleton
    <2>6. i \in Count(i)
      <3> SUFFICES ASSUME i \notin Count(i) PROVE FALSE
        OBVIOUS
      <3>1. Count(i) = {u}
        BY <2>2, <2>4
      <3>2. QED
        BY <2>5, <3>1
    <2>7. Count(i) = {u} \cup {i} /\ i \notin {u}
      BY <2>2, <2>4, <2>6
    <2>8. Cardinality({u} \cup {i}) = 2
      <3>1. Cardinality({u} \cup {i}) =
              IF i \in {u} THEN Cardinality({u}) ELSE Cardinality({u}) + 1
        BY <2>5, FS_AddElement
      <3>2. QED
        BY <2>5, <2>7, <3>1
    <2>9. QED
      BY <2>6, <2>7, <2>8
  <1>2. QED
    BY <1>1, TypeInvariant, ChainInvariant, PTL

-----------------------------------------------------------------------------
\* A confirmed operation has filled in full; so has the hash of a closed row.
FullInv ==
  /\ work.phase \in {"confirming", "using", "reconciling"} => chain[work.op] = "full"
  /\ ExecutedIsFull

\* A step that confirms or closes cites a full fill, and full is for good.
LEMMA FullStep ==
  ASSUME TypeInv, ClaimInv, ChainInv, FullInv, [Next]_vars
  PROVE  FullInv'
  <1> USE NamesAssumption
  <1>1. /\ \A f \in Fills : chain[f] = "full" => chain'[f] = "full"
        /\ HasOp /\ Ops \subseteq Fills
    BY ChainStep DEF Verdicts, TypeInv, Fills
  <1>2. ASSUME work'.phase \in {"confirming", "using", "reconciling"}
        PROVE  chain'[work'.op] = "full"
    <2>1. CASE UNCHANGED work
      BY <1>1, <1>2, <2>1 DEF FullInv, HasOp
    <2>2. CASE Receipt \/ MarkExecuted \/ UseGrant
      <3>1. CASE Receipt
        BY <1>2, <3>1 DEF Receipt, Verified, WorkGoto, fills, TypeInv, TypeOK
      <3>2. CASE MarkExecuted
        BY <3>2 DEF MarkExecuted, FullInv, fills, TypeInv, TypeOK
      <3>3. CASE UseGrant /\ Reconciles
        BY <3>3 DEF UseGrant, FullInv, WorkGoto, fills, TypeInv, TypeOK
      <3>4. CASE UseGrant /\ ~Reconciles
        BY <1>2, <3>4, NextRowTyped DEF UseGrant, TypeInv
      <3>5. QED
        BY <2>2, <3>1, <3>2, <3>3, <3>4
    <2>3. CASE NextRow
      BY <1>2, <2>3, NextRowTyped DEF TypeInv
    <2>4. CASE Load
      <3>1. Executable \in SUBSET Intents /\ Begin(Executable)
        BY <2>4 DEF Executable, Load
      <3>2. QED
        BY <1>2, <3>1, BeginTyped
    <2>5. CASE Crash
      BY <1>2, <2>5 DEF Crash, Resting
    <2>6. CASE Build \/ SubmitRejected \/ MarkFailed \/ (Claim /\ WorkGoto("submitting"))
      <3>1. \E phase \in {"claiming", "releasing", "burning", "submitting"} : WorkGoto(phase)
        BY <2>6 DEF Build, SubmitRejected, AfterReject, MarkFailed
      <3>2. QED
        BY <1>2, <3>1, GotoKeeps DEF TypeInv
    <2>7. CASE \E u \in Ops : Submit(u)
      BY <1>2, <2>7 DEF Submit, TypeInv, TypeOK
    <2>8. CASE WorkStep
      <3>1. Refuse \/ (Claim /\ ~WorkGoto("submitting")) \/ Release \/ Reconcile \/ FailGrant => NextRow
        BY DEF Refuse, Claim, Release, Reconcile, FailGrant
      <3>2. QED
        BY <2>2, <2>3, <2>4, <2>6, <2>8, <2>7, <3>1 DEF WorkStep
    <2>9. QED
      BY <2>1, <2>5, <2>8, OthersKeep
  <1>3. ASSUME NEW i \in Intents, status'[i] = "EXECUTED"
        PROVE  link'[i] # Nobody /\ chain'[link'[i]] = "full"
    <2>1. CASE status[i] = "EXECUTED" /\ link'[i] = link[i]
      BY <1>1, <2>1 DEF FullInv, ExecutedIsFull, TypeInv, TypeOK
    <2>2. CASE WatchManual(i)
      BY <1>3, <2>2 DEF WatchManual, Move, fills, TypeInv, TypeOK
    <2>3. CASE MarkExecuted /\ status[i] # "EXECUTED"
      <3>1. work.op \in Ops /\ Row = i /\ link'[i] = work.op
        BY <1>1, <1>3, <2>3 DEF MarkExecuted, Settle, Move, HasOp, TypeInv, TypeOK
      <3>2. QED
        BY <2>3, <3>1 DEF MarkExecuted, FullInv, fills
    <2>4. status[i] = "EXECUTED" => link'[i] = link[i]
      <3>1. CASE WorkStep
        BY <3>1 DEF WorkStep, Load, Build, Refuse, Claim, Submit, SubmitRejected, Receipt, Release,
           MarkExecuted, UseGrant, Reconcile, MarkFailed, FailGrant, Settle, rows, TypeInv, TypeOK
      <3>2. CASE Crash
        BY <3>2 DEF Crash, rows
      <3>3. QED
        BY <3>1, <3>2, OthersKeep
    <2>5. status[i] = "EXECUTED" \/ WatchManual(i) \/ MarkExecuted
      <3>1. ASSUME NEW j \in Intents, RowStep(j) PROVE status[i] = "EXECUTED"
        BY <1>3, <3>1 DEF RowStep, Prepare, Rearm, Cancel, PassExpiry, Expire, SweepStale, Move,
           TypeInv, TypeOK
      <3>2. ASSUME NEW j \in Intents, ManualStep(j) PROVE status[i] = "EXECUTED" \/ WatchManual(i)
        BY <1>3, <3>2 DEF ManualStep, Lock, Lapse, Send, Mark, WatchManual, Move, rows, TypeInv, TypeOK
      <3>3. ASSUME NEW f \in Fills, MineOp(f) \/ MineManual(f) PROVE status[i] = "EXECUTED"
        BY <1>3, <3>3 DEF MineOp, MineManual, rows
      <3>4. ASSUME BrowserStep PROVE status[i] = "EXECUTED"
        BY <1>3, <3>4 DEF BrowserStep, Reload, Hydrate, Delegate, Resume, PrepareGrant, AuthFail,
           Sign, AuthStep, Finalize, ReturnToManual, Revoke, rows
      <3>5. ASSUME WorkStep PROVE status[i] = "EXECUTED" \/ MarkExecuted
        <4>1. CASE Claim \/ Release \/ MarkFailed
          BY <1>3, <4>1 DEF Claim, Release, MarkFailed, Settle, Move, TypeInv, TypeOK
        <4>2. CASE ~(Claim \/ Release \/ MarkFailed \/ MarkExecuted)
          <5>1. status' = status
            BY <3>5, <4>2 DEF WorkStep, Load, Build, Refuse, Submit, SubmitRejected, Receipt,
               UseGrant, Reconcile, FailGrant, rows
          <5>2. QED
            BY <1>3, <5>1
        <4>3. QED
          BY <4>1, <4>2
      <3>6. ASSUME Crash \/ UNCHANGED vars PROVE status[i] = "EXECUTED"
        BY <1>3, <3>6 DEF Crash, vars, rows
      <3>7. QED
        BY <3>1, <3>2, <3>3, <3>4, <3>5, <3>6 DEF Next, Fills
    <2>6. QED
      BY <2>1, <2>2, <2>3, <2>4, <2>5
  <1>4. QED
    BY <1>2, <1>3 DEF FullInv, ExecutedIsFull

\* Confirmed operations and closed rows are full throughout.
LEMMA FullInvariant == Spec => []FullInv
  <1>1. Init => FullInv
    BY DEF Init, FullInv, ExecutedIsFull, Resting
  <1>2. TypeInv /\ ClaimInv /\ ChainInv /\ FullInv /\ [Next]_vars => FullInv'
    BY FullStep
  <1>3. QED
    BY <1>1, <1>2, TypeInvariant, ClaimInvariant, ChainInvariant, PTL DEF Spec

\* EXECUTED stands for a fill of the whole amount.
THEOREM ExecutedMeansFull == Spec => []ExecutedIsFull
  <1>1. FullInv => ExecutedIsFull
    BY DEF FullInv
  <1>2. QED
    BY <1>1, FullInvariant, PTL

-----------------------------------------------------------------------------
\* What was reconciled is of a closed row.
AppliedInv == \A u \in applied : target[u] \in Intents /\ status[target[u]] = "EXECUTED" /\ link[target[u]] = u

\* A closed row stays closed, with its hash.
LEMMA ExecutedStays ==
  ASSUME TypeInv, ClaimInv, [Next]_vars, NEW i \in Intents, status[i] = "EXECUTED"
  PROVE  status'[i] = "EXECUTED" /\ link'[i] = link[i]
  <1>1. CASE WorkStep
    BY <1>1 DEF WorkStep, Load, Build, Refuse, Claim, Claimable, Submit, SubmitRejected, Receipt, Release,
       MarkExecuted, UseGrant, Reconcile, MarkFailed, FailGrant, Settle, Move, rows, TypeInv, TypeOK
  <1>2. CASE Crash
    BY <1>2 DEF Crash, rows
  <1>3. QED
    BY <1>1, <1>2, OthersKeep

\* Only Reconcile adds an operation, of a row the worker has just closed.
LEMMA AppliedStep ==
  ASSUME TypeInv, ClaimInv, ChainInv, AppliedInv, [Next]_vars
  PROVE  AppliedInv'
  <1> USE NamesAssumption
  <1>1. \A u \in Ops : target[u] \in Intents => target'[u] = target[u]
    BY ChainStep
  <1>2. ASSUME NEW u \in applied
        PROVE  target'[u] \in Intents /\ status'[target'[u]] = "EXECUTED" /\ link'[target'[u]] = u
    <2>1. u \in Ops /\ target[u] \in Intents /\ status[target[u]] = "EXECUTED" /\ link[target[u]] = u
      BY DEF AppliedInv, TypeInv, TypeOK
    <2>2. QED
      BY <1>1, <2>1, ExecutedStays
  <1>3. CASE applied' = applied
    BY <1>2, <1>3 DEF AppliedInv
  <1>4. CASE Reconcile
    <2>1. /\ applied' \subseteq applied \cup {work.op}
          /\ UNCHANGED <<status, link, target>>
          /\ work.phase = "reconciling"
      BY <1>4 DEF Reconcile, rows, fills
    <2>2. work.executed /\ work.op \in Ops /\ work.row \in Intents /\ target[work.op] = work.row
      BY <2>1 DEF ClaimInv, TypeInv, TypeOK, HasOp, Row
    <2>3. status[work.row] = "EXECUTED" /\ link[work.row] = work.op
      BY <2>1, <2>2 DEF ClaimInv, Row
    <2>4. QED
      BY <1>2, <2>1, <2>2, <2>3 DEF AppliedInv
  <1>5. CASE WorkStep /\ ~Reconcile
    BY <1>3, <1>5 DEF WorkStep, Load, Build, Refuse, Claim, Submit, SubmitRejected, Receipt, Release,
       MarkExecuted, UseGrant, MarkFailed, FailGrant
  <1>6. CASE Crash
    BY <1>3, <1>6 DEF Crash
  <1>7. QED
    BY <1>3, <1>4, <1>5, <1>6, OthersKeep

\* A user operation reaches trades and orders only for a row it closed.
THEOREM AppliedOfClosedRow == Spec => []AppliedIsExecuted
  <1>1. Init => AppliedInv
    BY DEF Init, AppliedInv
  <1>2. TypeInv /\ ClaimInv /\ ChainInv /\ AppliedInv /\ [Next]_vars => AppliedInv'
    BY AppliedStep
  <1>3. AppliedInv => AppliedIsExecuted
    BY DEF AppliedInv, AppliedIsExecuted
  <1>4. QED
    BY <1>1, <1>2, <1>3, TypeInvariant, ClaimInvariant, ChainInvariant, PTL DEF Spec

-----------------------------------------------------------------------------
\* Without a restart, a claim without a hash is the worker's, in a phase from
\* which it still settles or releases the row.
OrphanInv ==
  \A i \in Intents :
    status[i] = "EXECUTING" /\ link[i] = Nobody /\ crashes = 0 =>
      work.row = i /\ work.phase \in Claimed

\* Every way out of a claimed phase settles the row or gives it back.
LEMMA OrphanStep ==
  ASSUME TypeInv, ClaimInv, OrphanInv, [Next]_vars
  PROVE  OrphanInv'
  <1> USE NamesAssumption DEF OrphanInv, Claimed, TypeInv, TypeOK
  <1>1. ASSUME UNCHANGED <<work, crashes>>,
               \A i \in Intents : status'[i] = "EXECUTING" /\ link'[i] = Nobody =>
                 status[i] = "EXECUTING" /\ link[i] = Nobody
        PROVE  OrphanInv'
    BY <1>1
  <1>2. ASSUME NEW i \in Intents, RowStep(i) PROVE OrphanInv'
    BY <1>1, <1>2 DEF RowStep, Prepare, Rearm, Cancel, PassExpiry, Expire, SweepStale, Move
  <1>3. ASSUME NEW i \in Intents, ManualStep(i) PROVE OrphanInv'
    BY <1>1, <1>3 DEF ManualStep, Lock, Lapse, Send, Mark, WatchManual, Move, rows
  <1>4. ASSUME NEW f \in Fills, MineOp(f) \/ MineManual(f) PROVE OrphanInv'
    BY <1>1, <1>4 DEF MineOp, MineManual, rows
  <1>5. CASE BrowserStep
    BY <1>1, <1>5 DEF BrowserStep, Reload, Hydrate, Delegate, Resume, PrepareGrant, AuthFail, Sign,
       AuthStep, Finalize, ReturnToManual, Revoke, rows
  <1>6. CASE WorkStep
    <2>1. ASSUME work.phase \notin Claimed, UNCHANGED <<status, link, crashes>> PROVE OrphanInv'
      BY <2>1
    <2>2. CASE Load \/ Build \/ Refuse \/ UseGrant \/ Reconcile \/ FailGrant
      BY <2>1, <2>2 DEF Load, Build, Refuse, UseGrant, Reconcile, FailGrant, rows
    <2>3. CASE Claim
      <3>1. CASE Claimable(Row)
        BY <2>3, <3>1 DEF Claim, Claimable, WorkGoto, Row
      <3>2. CASE ~Claimable(Row)
        BY <2>1, <2>3, <3>2 DEF Claim
      <3>3. QED
        BY <3>1, <3>2
    <2>4. CASE (\E u \in Ops : Submit(u)) \/ SubmitRejected \/ Receipt
      <3>1. UNCHANGED <<status, link, crashes>> /\ work'.row = work.row
        <4>1. UNCHANGED <<status, link, crashes>>
          BY <2>4 DEF Submit, SubmitRejected, Receipt, rows
        <4>2. CASE \E u \in Ops : Submit(u)
          BY <4>1, <4>2 DEF Submit
        <4>3. CASE SubmitRejected
          BY <4>1, <4>3 DEF SubmitRejected, AfterReject, WorkGoto
        <4>4. CASE Receipt
          BY <4>1, <4>4 DEF Receipt, WorkGoto
        <4>5. QED
          BY <2>4, <4>2, <4>3, <4>4
      <3>2. work'.phase \in Claimed
        <4>1. CASE \E u \in Ops : Submit(u)
          BY <4>1 DEF Submit
        <4>2. CASE SubmitRejected
          BY <4>2 DEF SubmitRejected, AfterReject, WorkGoto
        <4>3. CASE Receipt
          BY <4>3 DEF Receipt, WorkGoto
        <4>4. QED
          BY <2>4, <4>1, <4>2, <4>3
      <3>3. QED
        BY <3>1, <3>2
    <2>5. CASE Release
      BY <2>5 DEF Release, Move, Row
    <2>6. CASE MarkExecuted \/ MarkFailed
      <3>1. work.op \in Ops /\ work.row \in Intents /\ UNCHANGED crashes
        BY <2>6 DEF MarkExecuted, MarkFailed, HasOp
      <3>2. \A i \in Intents : status'[i] = "EXECUTING" /\ link'[i] = Nobody =>
              i # work.row /\ status[i] = "EXECUTING" /\ link[i] = Nobody
        BY <2>6, <3>1 DEF MarkExecuted, MarkFailed, Settle, Move, Row
      <3>3. QED
        BY <3>1, <3>2
    <2>7. QED
      BY <1>6, <2>2, <2>3, <2>4, <2>5, <2>6 DEF WorkStep
  <1>7. CASE Crash
    BY <1>7 DEF Crash
  <1>8. CASE UNCHANGED vars
    BY <1>1, <1>8 DEF vars, rows
  <1>9. QED
    BY <1>2, <1>3, <1>4, <1>5, <1>6, <1>7, <1>8 DEF Next, Fills

\* Whatever the provider answers, no claim is left behind without a restart.
THEOREM ClaimsAreSettled == Spec => []NoOrphanClaim
  <1>1. Init => OrphanInv
    BY DEF Init, OrphanInv
  <1>2. TypeInv /\ ClaimInv /\ OrphanInv /\ [Next]_vars => OrphanInv'
    BY OrphanStep
  <1>3. OrphanInv => NoOrphanClaim
    BY DEF OrphanInv, NoOrphanClaim
  <1>4. QED
    BY <1>1, <1>2, <1>3, TypeInvariant, ClaimInvariant, PTL DEF Spec

-----------------------------------------------------------------------------
\* A grant exists from its creation on; the panel knows only grants that exist.
MarkerInv ==
  /\ \A i \in Intents : seen[i] # "none" => grant[i] # "none"
  /\ \A i \in started \ returned : grant[i] = "none" => i \in pending

\* The marker goes only once a grant exists or the panel says manual again.
LEMMA MarkerStep ==
  ASSUME TypeInv, MarkerInv, [Next]_vars
  PROVE  MarkerInv'
  <1> USE DEF MarkerInv, TypeInv, TypeOK
  <1>1. started \subseteq Intents
    OBVIOUS
  <1>2. ASSUME UNCHANGED <<grant, pending, started, returned, seen>> PROVE MarkerInv'
    BY <1>2
  <1>3. ASSUME NEW i \in Intents, RowStep(i) PROVE MarkerInv'
    BY <1>2, <1>3 DEF RowStep, Prepare, Rearm, Cancel, PassExpiry, Expire, SweepStale, grants, browser
  <1>4. ASSUME NEW i \in Intents, ManualStep(i) PROVE MarkerInv'
    BY <1>2, <1>4 DEF ManualStep, Lock, Lapse, Send, Mark, WatchManual, grants, browser
  <1>5. ASSUME NEW f \in Fills, MineOp(f) \/ MineManual(f) PROVE MarkerInv'
    BY <1>2, <1>5 DEF MineOp, MineManual, grants, browser
  <1>6. CASE BrowserStep
    <2>1. CASE Reload
      BY <2>1 DEF Reload, grants
    <2>2. CASE Hydrate
      BY <1>1, <2>2 DEF Hydrate, Shown, grants
    <2>3. ASSUME NEW p \in Panels, NEW i \in Intents, Finalize(p, i) PROVE MarkerInv'
      <3>1. UNCHANGED <<seen, started, returned>>
        BY <2>3 DEF Finalize
      <3>2. CASE Authorizable(i) /\ grant[i] = "none"
        <4>1. grant' = [grant EXCEPT ![i] = "ACTIVE"] /\ pending \ {i} \subseteq pending'
          BY <2>3, <3>2 DEF Finalize, CreateGrant
        <4>2. QED
          BY <3>1, <4>1
      <3>3. CASE ~(Authorizable(i) /\ grant[i] = "none")
        <4>1. grant' = grant /\ pending' = pending
          BY <2>3, <3>3 DEF Finalize, MarkersAfterError, grants
        <4>2. QED
          BY <3>1, <4>1
      <3>4. QED
        BY <3>2, <3>3
    <2>4. ASSUME NEW i \in Intents, Delegate(i) \/ Resume(i) \/ ReturnToManual(i) PROVE MarkerInv'
      BY <1>1, <2>4 DEF Delegate, Resume, ReturnToManual, grants
    <2>4a. ASSUME NEW p \in Panels, NEW i \in Intents, PrepareGrant(p, i) \/ AuthFail(p, i) \/ Sign(p, i)
          PROVE  MarkerInv'
      BY <1>2, <2>4a DEF PrepareGrant, AuthFail, Sign, MarkersAfterError, grants
    <2>5. ASSUME NEW i \in Intents, Revoke(i) PROVE MarkerInv'
      BY <1>1, <2>5 DEF Revoke, browser
    <2>6. QED
      BY <1>6, <2>1, <2>2, <2>3, <2>4, <2>4a, <2>5 DEF BrowserStep, AuthStep
  <1>7. CASE WorkStep
    <2>1. CASE UseGrant \/ FailGrant
      BY <1>1, <2>1 DEF UseGrant, FailGrant, browser
    <2>2. CASE ~(UseGrant \/ FailGrant)
      BY <1>2, <1>7, <2>2 DEF WorkStep, Load, Build, Refuse, Claim, Submit, SubmitRejected, Receipt,
         Release, MarkExecuted, Reconcile, MarkFailed, grants, browser
    <2>3. QED
      BY <2>1, <2>2
  <1>8. CASE Crash
    BY <1>1, <1>8 DEF Crash, grants
  <1>9. CASE UNCHANGED vars
    BY <1>2, <1>9 DEF vars, grants, browser
  <1>10. QED
    BY <1>3, <1>4, <1>5, <1>6, <1>7, <1>8, <1>9 DEF Next, Fills

\* An authorization begun and not finished keeps the manual action away.
THEOREM MarkersSurvive == Spec => []UnfinishedKeepsMarker
  <1>1. Init => MarkerInv
    BY DEF Init, MarkerInv
  <1>2. TypeInv /\ MarkerInv /\ [Next]_vars => MarkerInv'
    BY MarkerStep
  <1>3. TypeInv /\ MarkerInv => UnfinishedKeepsMarker
    BY DEF MarkerInv, UnfinishedKeepsMarker, ManualRow, TypeInv, TypeOK
  <1>4. QED
    BY <1>1, <1>2, <1>3, TypeInvariant, PTL DEF Spec

-----------------------------------------------------------------------------
\* No step revives a revoked grant or takes it into a batch.
LEMMA RevokedStep ==
  ASSUME TypeInv, [Next]_vars, NEW i \in Intents, grant[i] = "REVOKED", i \notin Batch
  PROVE  grant'[i] = "REVOKED" /\ i \notin Batch'
  <1> USE NamesAssumption DEF Batch, TypeInv, TypeOK
  <1>1. CASE ~WorkStep /\ ~Crash
    <2>1. i \notin Batch'
      BY <1>1, OthersKeep
    <2>2. CASE BrowserStep
      <3>1. ASSUME NEW p \in Panels, NEW j \in Intents, Finalize(p, j) PROVE grant'[i] = "REVOKED"
        BY <3>1 DEF Finalize, CreateGrant, grants
      <3>2. ASSUME NEW j \in Intents, Revoke(j) PROVE grant'[i] = "REVOKED"
        BY <3>2 DEF Revoke
      <3>3. ASSUME Reload \/ Hydrate PROVE grant' = grant
        BY <3>3 DEF Reload, Hydrate, grants
      <3>4. ASSUME NEW j \in Intents, Delegate(j) \/ Resume(j) \/ ReturnToManual(j) PROVE grant' = grant
        BY <3>4 DEF Delegate, Resume, ReturnToManual, grants
      <3>5. ASSUME NEW p \in Panels, NEW j \in Intents, PrepareGrant(p, j) \/ AuthFail(p, j) \/ Sign(p, j)
            PROVE  grant' = grant
        BY <3>5 DEF PrepareGrant, AuthFail, Sign, grants
      <3>6. QED
        BY <2>1, <2>2, <3>1, <3>2, <3>3, <3>4, <3>5 DEF BrowserStep, AuthStep
    <2>3. CASE ~BrowserStep
      <3>1. ASSUME NEW j \in Intents, RowStep(j) PROVE grant' = grant
        BY <3>1 DEF RowStep, Prepare, Rearm, Cancel, PassExpiry, Expire, SweepStale, grants
      <3>2. ASSUME NEW j \in Intents, ManualStep(j) PROVE grant' = grant
        BY <3>2 DEF ManualStep, Lock, Lapse, Send, Mark, WatchManual, grants
      <3>3. ASSUME NEW f \in Fills, MineOp(f) \/ MineManual(f) PROVE grant' = grant
        BY <3>3 DEF MineOp, MineManual, grants
      <3>4. CASE UNCHANGED vars
        BY <2>1, <3>4 DEF vars, grants
      <3>5. QED
        BY <1>1, <2>1, <2>3, <3>1, <3>2, <3>3, <3>4 DEF Next, Fills
    <2>4. QED
      BY <2>1, <2>2, <2>3
  <1>2. CASE WorkStep
    <2>1. CASE Load
      <3>1. Executable \subseteq Intents /\ i \notin Executable /\ Begin(Executable) /\ grant' = grant
        BY <2>1 DEF Load, Executable, Live, grants
      <3>2. QED
        BY <3>1, BeginTyped
    <2>2. CASE NextRow /\ grant' = grant
      BY <2>2, NextRowTyped
    <2>3. CASE UseGrant \/ FailGrant
      <3>1. grant'[i] = "REVOKED"
        BY <2>3 DEF UseGrant, FailGrant, Row
      <3>2. i \notin Batch'
        <4>1. CASE NextRow
          BY <4>1, NextRowTyped
        <4>2. CASE WorkGoto("reconciling")
          BY <4>2 DEF WorkGoto
        <4>3. QED
          BY <2>3, <4>1, <4>2 DEF UseGrant, FailGrant
      <3>3. QED
        BY <3>1, <3>2
    <2>4. CASE Build \/ (\E u \in Ops : Submit(u)) \/ SubmitRejected \/ Receipt \/ MarkExecuted \/ MarkFailed
      <3>1. work'.row = work.row /\ work'.rest = work.rest /\ grant' = grant
        <4>1. CASE \E u \in Ops : Submit(u)
          BY <4>1 DEF Submit, grants
        <4>2. CASE Build \/ SubmitRejected \/ Receipt
          <5>1. grant' = grant /\ \E phase : WorkGoto(phase)
            BY <4>2 DEF Build, SubmitRejected, AfterReject, Receipt, grants
          <5>2. QED
            BY <5>1, GotoKeeps DEF TypeInv
        <4>3. CASE MarkExecuted \/ MarkFailed
          <5>1. CASE MarkExecuted
            BY <5>1 DEF MarkExecuted, grants
          <5>2. CASE MarkFailed
            BY <5>2, GotoKeeps DEF MarkFailed, grants, TypeInv
          <5>3. QED
            BY <4>3, <5>1, <5>2
        <4>4. QED
          BY <2>4, <4>1, <4>2, <4>3
      <3>2. QED
        BY <3>1
    <2>5. CASE Claim
      <3>1. CASE Claimable(Row)
        BY <2>5, <3>1 DEF Claim, WorkGoto, grants
      <3>2. CASE ~Claimable(Row)
        BY <2>2, <2>5, <3>2 DEF Claim, grants
      <3>3. QED
        BY <3>1, <3>2
    <2>6. CASE Refuse \/ Release \/ Reconcile
      BY <2>2, <2>6 DEF Refuse, Release, Reconcile, grants
    <2>7. QED
      BY <1>2, <2>1, <2>3, <2>4, <2>5, <2>6 DEF WorkStep
  <1>3. CASE Crash
    BY <1>3 DEF Crash, Resting, grants
  <1>4. QED
    BY <1>1, <1>2, <1>3

\* A revoked grant outside the worker's batch stays revoked and unused.
THEOREM RevokedIsFinal == Spec => RevokedStops
  <1>1. TypeInv /\ [Next]_vars =>
          [\A i \in Intents :
             grant[i] = "REVOKED" /\ i \notin Batch => grant'[i] = "REVOKED" /\ i \notin Batch']_vars
    BY RevokedStep
  <1>2. QED
    BY <1>1, TypeInvariant, PTL DEF Spec, RevokedStops
=============================================================================
