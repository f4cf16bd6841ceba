-------------------------- MODULE IntentLifecycle --------------------------
(***************************************************************************)
(* What the backend promises about the Intent table, whatever component    *)
(* writes it: the state machine of Intent.status, and Intent.linkedTxHash, *)
(* the settlement transaction an intent is tied to.  Every writer in the   *)
(* code is a compound-where UPDATE (WHERE id AND status = from), so a step *)
(* of the table is one edge of the graph below on one row.                 *)
(*                                                                         *)
(* CmrLifecycle and DelegatedExecution are shown to implement this one.    *)
(***************************************************************************)

CONSTANTS
  Intents,  \* rows of the Intent table
  Txs,      \* transaction hashes
  NoTx      \* linkedTxHash IS NULL

VARIABLES
  status,   \* [Intents -> Status]
  link      \* [Intents -> Txs \cup {NoTx}], Intent.linkedTxHash

vars == <<status, link>>

\* DRAFT and REJECTED exist in the enum; no code path writes either.
Status == {"ACTIVE", "TRIGGERED", "READY", "PLACED", "EXECUTING",
           "EXECUTED", "CANCELLED", "EXPIRED", "FAILED"}

TypeOK ==
  /\ status \in [Intents -> Status]
  /\ link \in [Intents -> Txs \cup {NoTx}]

Init ==
  /\ status = [i \in Intents |-> "ACTIVE"]
  /\ link = [i \in Intents |-> NoTx]

-----------------------------------------------------------------------------

\* updateMany({where: {id, status: from}, data: {status: to}}), count = 1.
Move(i, from, to) ==
  /\ status[i] \in from
  /\ status' = [status EXCEPT ![i] = to]

\* The intent is prepared, re-armed, cancelled or expired; no transaction.
Prepare(i)  == Move(i, {"ACTIVE"}, "READY") /\ UNCHANGED link
Rearm(i)    == Move(i, {"READY"}, "ACTIVE") /\ UNCHANGED link
Cancel(i)   == Move(i, {"ACTIVE", "READY"}, "CANCELLED") /\ UNCHANGED link
Expire(i)   == Move(i, {"ACTIVE", "READY"}, "EXPIRED") /\ UNCHANGED link

\* A conditional limit fires: latched, then placed or failed.
Trigger(i)  == Move(i, {"ACTIVE"}, "TRIGGERED") /\ UNCHANGED link
Place(i)    == Move(i, {"TRIGGERED"}, "PLACED") /\ UNCHANGED link
FailFire(i) == Move(i, {"TRIGGERED"}, "FAILED") /\ UNCHANGED link

\* READY leaves for the execution states and the hash is stamped with it.
Stamp(i, tx) ==
  /\ \E to \in {"EXECUTING", "EXECUTED", "FAILED"} : Move(i, {"READY"}, to)
  /\ link' = [link EXCEPT ![i] = tx]

\* The delegated worker claims READY before it has a hash, and gives the
\* row back when nothing was submitted.
Claim(i)    == Move(i, {"READY"}, "EXECUTING") /\ UNCHANGED link
Release(i)  == link[i] = NoTx /\ Move(i, {"EXECUTING"}, "READY") /\ UNCHANGED link

\* The outcome.  A row claimed without a hash may get it with the outcome;
\* a stamped hash is never replaced, and EXECUTED always has one.
Outcome(i, to, tx) ==
  /\ Move(i, {"EXECUTING"}, to)
  /\ link[i] \in {NoTx, tx}
  /\ link' = [link EXCEPT ![i] = tx]

Execute(i) == \E tx \in Txs : Outcome(i, "EXECUTED", tx)

FailExecution(i) == \E tx \in Txs \cup {NoTx} : Outcome(i, "FAILED", tx)

Next ==
  \E i \in Intents :
    \/ Prepare(i) \/ Rearm(i) \/ Cancel(i) \/ Expire(i)
    \/ Trigger(i) \/ Place(i) \/ FailFire(i)
    \/ \E tx \in Txs : Stamp(i, tx)
    \/ Claim(i) \/ Release(i) \/ Execute(i) \/ FailExecution(i)

Spec == Init /\ [][Next]_vars
=============================================================================
