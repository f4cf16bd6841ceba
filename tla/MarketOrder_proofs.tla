-------------------------- MODULE MarketOrder_proofs --------------------------
(***************************************************************************)
(* Proofs about MarketOrder, for any book, inputs, market rules and        *)
(* deployments, and any number of edits, quotes, runs and other takers:    *)
(* the panel's plan, the sweep, the types, and what is taken of the book   *)
(* for the transactions that were sent.                                    *)
(***************************************************************************)
EXTENDS MarketOrder, Sums_proofs, SequenceTheorems, FiniteSetTheorems, TLAPS

Running(j) == j.step \in {"signing", "waiting", "applying"}
InFlight(r) == r.step \in {"asked", "answered"}

\* A plan the API made, with the number of its answer.
PlanOK(p) ==
  p # NoPlan => /\ p = [id |-> p.id, for |-> p.for, fills |-> p.fills, late |-> p.late]
                /\ p.id \in 1..quotes /\ p.late \in BOOLEAN

Shape(r) ==
  /\ r.step = "asked" => r = [step |-> "asked", for |-> r.for, late |-> r.late]
  /\ r.step = "answered" => r = [step |-> "answered", for |-> r.for, late |-> r.late, plan |-> r.plan]

\* A request that is not late is for what the panel shows, and so is its plan.
RequestOK(r) ==
  /\ Shape(r)
  /\ r.step = "answered" => PlanOK(r.plan) /\ (r.plan # NoPlan => r.plan.for = r.for)
  /\ InFlight(r) => r.late \in BOOLEAN /\ (~r.late => r.for = inputs)

RunOK(j) ==
  Running(j) => /\ j = [step |-> j.step, plan |-> j.plan, next |-> j.next]
                /\ PlanOK(j.plan) /\ j.plan # NoPlan /\ j.next \in Nat \ {0}

\* There is a request, or none, for each of the gas checks.
IsChecks(k) == k = [c \in Checks |-> k[c]]
ChecksOK == IsChecks(check) /\ \A c \in Checks : RequestOK(check[c]) /\ ~Running(check[c])

HookInv ==
  /\ quotes \in Nat
  /\ RequestOK(job) /\ RunOK(job) /\ ChecksOK
  /\ PlanOK(plan) /\ PlanFollowsInputs

\* The answer to the check r has a plan of its own, and not one that was paid.
HasAnswer(r) == r.step = "answered" /\ r.plan # NoPlan
OwnPlan(r) ==
  HasAnswer(r) => /\ r.plan.id \notin paid /\ r.plan.id # plan.id
                  /\ job.step = "answered" \/ Running(job) => job.plan.id # r.plan.id
ChecksApart ==
  /\ \A c \in Checks : OwnPlan(check[c])
  /\ \A c, d \in Checks : c # d /\ HasAnswer(check[c]) /\ HasAnswer(check[d]) => check[c].plan.id # check[d].plan.id

\* A plan that was paid for, in part or in whole, is on the panel only while
\* its run goes on, and then the run is past its first transaction; no answer
\* in flight is that plan.
PaidInv ==
  /\ paid \subseteq 1..quotes
  /\ plan # NoPlan /\ plan.id \in paid =>
       Running(job) /\ job.plan.id = plan.id /\ (job.step = "applying" \/ job.next > 1)
  /\ job.step = "answered" /\ job.plan # NoPlan => job.plan.id \notin paid
  /\ ChecksApart

PanelInv == HookInv /\ PaidInv

LEMMA PanelInit == Init => PanelInv
BY DEF Init, PanelInv, HookInv, ChecksOK, IsChecks, ChecksApart, OwnPlan, HasAnswer, PaidInv, PlanOK, RequestOK, Shape, RunOK, PlanFollowsInputs, Running, InFlight, Idle, NoPlan

-----------------------------------------------------------------------------
\* The operators.

\* Moving the inputs to i makes of the request r the request o: it stays what
\* it is, and is late unless it is for the new ones.
Moved(r, i, o) ==
  /\ o.step = r.step /\ (~InFlight(r) => o = r)
  /\ InFlight(r) => o.for = r.for /\ (r.for # i => o.late = TRUE) /\ (r.for = i => o.late = r.late)
  /\ Shape(o) /\ (r.step = "answered" => o.plan = r.plan)

LEMMA OutrunMoves ==
  ASSUME NEW r, NEW i, Shape(r)
  PROVE  Moved(r, i, Outrun(r, i))
<1>1. CASE ~InFlight(r) \/ r.for = i
  BY <1>1 DEF Outrun, InFlight, Moved, Shape
<1>2. CASE r.step = "asked" /\ r.for # i
  BY <1>2 DEF Outrun, InFlight, Moved, Shape
<1>3. CASE r.step = "answered" /\ r.for # i
  BY <1>3 DEF Outrun, InFlight, Moved, Shape
<1> QED
  BY <1>1, <1>2, <1>3 DEF InFlight

\* An answer is a plan with the next number, for the inputs it was asked for.
LEMMA AnswerShape ==
  ASSUME NEW r, NEW a \in Answer(r), quotes \in Nat
  PROVE  a = NoPlan \/ /\ a = [id |-> a.id, for |-> a.for, fills |-> a.fills, late |-> a.late]
                       /\ a.id = quotes + 1 /\ a.late = FALSE /\ a.for = r.for
BY DEF Answer, QuoteAnswer

\* The plan that is shown is the answer, marked with whether it is late.
LEMMA ShownPlan ==
  ASSUME NEW p, NEW l \in BOOLEAN, NEW q, q = [p EXCEPT !.late = l],
         p = [id |-> p.id, for |-> p.for, fills |-> p.fills, late |-> p.late]
  PROVE  /\ q = [id |-> q.id, for |-> q.for, fills |-> q.fills, late |-> q.late]
         /\ q.id = p.id /\ q.for = p.for /\ q.late = l
OBVIOUS

-----------------------------------------------------------------------------
\* The inputs.
LEMMA MovedOK ==
  ASSUME NEW r, NEW o, RequestOK(r), Moved(r, inputs', o), quotes' = quotes
  PROVE  Shape(o) /\ (o.step = "answered" => PlanOK(o.plan)' /\ (o.plan # NoPlan => o.plan.for = o.for))
         /\ (InFlight(o) => o.late \in BOOLEAN /\ (~o.late => o.for = inputs'))
BY DEF RequestOK, Moved, InFlight, PlanOK

\* An answer that has a plan has a number.
LEMMA AnswersNumbered ==
  ASSUME ChecksOK, quotes \in Nat
  PROVE  \A c \in Checks : HasAnswer(check[c]) => check[c].plan.id \in 1..quotes /\ check[c].plan.id \in Nat \ {0}
<1> SUFFICES ASSUME NEW c \in Checks, HasAnswer(check[c])
             PROVE  check[c].plan.id \in 1..quotes /\ check[c].plan.id \in Nat \ {0}
  OBVIOUS
<1>1. PICK p : p = check[c].plan
  OBVIOUS
<1>2. PlanOK(p) /\ p # NoPlan
  BY <1>1 DEF ChecksOK, RequestOK, HasAnswer
<1>3. p.id \in 1..quotes
  BY <1>2 DEF PlanOK
<1> QED
  BY <1>1, <1>3

LEMMA ChangeKeeps ==
  ASSUME PanelInv, NEW i, Change(i)
  PROVE  PanelInv'
<1>1. RequestOK(job) /\ RunOK(job) /\ ChecksOK /\ PlanOK(plan) /\ PlanFollowsInputs /\ quotes \in Nat
  BY DEF PanelInv, HookInv
<1>2. job' = Outrun(job, i) /\ inputs' = i /\ quotes' = quotes /\ paid' = paid
      /\ check' = [c \in Checks |-> Outrun(check[c], i)]
  BY DEF Change
<1>3. plan' = NoPlan \/ (plan' = plan /\ (plan = NoPlan \/ i = inputs))
  BY DEF Change, SameInputs
<1>4. Moved(job, inputs', job')
  BY <1>1, <1>2, OutrunMoves DEF RequestOK
<1>5. PICK a, o : a = job /\ o = job'
  OBVIOUS
<1>6. Moved(a, inputs', o) /\ RequestOK(a)
  BY <1>1, <1>4, <1>5
<1>7. RequestOK(job)'
  BY <1>2, <1>5, <1>6, MovedOK DEF RequestOK, InFlight
<1>8. o.step = a.step /\ (Running(a) => o = a)
  BY <1>6 DEF Moved, Running, InFlight
<1>9. RunOK(job)'
  BY <1>1, <1>2, <1>5, <1>8 DEF RunOK, Running, PlanOK
<1>10. ASSUME NEW c \in Checks
       PROVE  /\ RequestOK(check[c])' /\ ~Running(check[c])'
              /\ HasAnswer(check'[c]) => HasAnswer(check[c]) /\ check'[c].plan = check[c].plan
  <2>1. PICK b, k : b = check[c] /\ k = check'[c]
    OBVIOUS
  <2>2. RequestOK(b) /\ ~Running(b) /\ k = Outrun(b, inputs')
    BY <1>1, <1>2, <2>1 DEF ChecksOK
  <2>3. Moved(b, inputs', k)
    BY <2>2, OutrunMoves DEF RequestOK
  <2>4. RequestOK(k)'
    BY <1>2, <2>1, <2>2, <2>3, MovedOK DEF RequestOK, InFlight
  <2>5. k.step = b.step /\ (HasAnswer(k) => HasAnswer(b) /\ k.plan = b.plan)
    BY <2>3 DEF Moved, HasAnswer
  <2>6. RequestOK(check[c])'
    BY <2>1, <2>4
  <2> QED
    BY <2>1, <2>2, <2>5, <2>6 DEF Running
<1>11. ChecksOK'
  BY <1>2, <1>10 DEF ChecksOK, IsChecks
<1>12. PlanOK(plan)' /\ PlanFollowsInputs'
  BY <1>1, <1>2, <1>3 DEF PlanOK, PlanFollowsInputs
<1>13. HookInv'
  <2>1. quotes' \in Nat
    BY <1>1, <1>2
  <2> QED
    BY <1>7, <1>9, <1>12, <1>11, <2>1 DEF HookInv
<1>14. a.step = "answered" => o.plan = a.plan
  BY <1>6 DEF Moved
<1>15. NoPlan.id = 0
  BY DEF NoPlan
<1>16. \A c \in Checks : HasAnswer(check[c]) => check[c].plan.id \in Nat \ {0}
  BY <1>1, AnswersNumbered
<1>17. ChecksApart'
  <2>1. (job'.step = "answered" => job.step = "answered" /\ job'.plan = job.plan) /\ (Running(job') => job' = job)
    BY <1>5, <1>8, <1>14 DEF Running
  <2> QED
    BY <1>2, <1>3, <1>15, <1>16, <1>10, <2>1 DEF PanelInv, PaidInv, ChecksApart, OwnPlan
<1>18. PaidInv'
  BY <1>2, <1>3, <1>5, <1>8, <1>14, <1>15, <1>17 DEF PanelInv, PaidInv, Running
<1> QED
  BY <1>13, <1>18 DEF PanelInv

LEMMA InputsKeep ==
  ASSUME PanelInv, Edit \/ Pick \/ CancelCap \/ LeaveMarket \/ EnterMarket \/ RouteLimit
  PROVE  PanelInv'
<1>1. CASE EnterMarket
  BY <1>1 DEF EnterMarket, PanelInv, HookInv, ChecksOK, ChecksApart, OwnPlan, PaidInv, PlanOK, RequestOK, Shape, RunOK, PlanFollowsInputs, counts
<1>2. CASE \E i : Change(i)
  BY <1>2, ChangeKeeps
<1> QED
  BY <1>1, <1>2 DEF Edit, Pick, Resized, CancelCap, LeaveMarket, RouteLimit

-----------------------------------------------------------------------------
\* The hook.

\* A step that leaves the inputs and the counter alone keeps what it does not
\* touch.
Still == UNCHANGED <<inputs, quotes>>

LEMMA StillKeeps ==
  ASSUME Still
  PROVE  /\ RequestOK(job) /\ job' = job => RequestOK(job)'
         /\ ChecksOK /\ check' = check => ChecksOK'
         /\ RunOK(job) /\ job' = job => RunOK(job)'
         /\ PlanOK(plan) /\ plan' = plan => PlanOK(plan)'
         /\ PlanFollowsInputs /\ plan' = plan => PlanFollowsInputs'
BY DEF Still, ChecksOK, RequestOK, RunOK, PlanOK, PlanFollowsInputs

\* What is none of a request, an answer or a run carries nothing.
LEMMA PlainJob ==
  ASSUME HookInv, Still, job'.step \in {"idle", "reading", "approving"}
  PROVE  RequestOK(job)' /\ RunOK(job)'
BY DEF RequestOK, Shape, InFlight, RunOK, Running

LEMMA NoPlanOK == (plan' = NoPlan => PlanOK(plan)' /\ PlanFollowsInputs') /\ NoPlan.id = 0
BY DEF PlanOK, PlanFollowsInputs, NoPlan

LEMMA OnQuoteKeeps ==
  ASSUME PanelInv, OnQuote
  PROVE  PanelInv'
<1>1. job' = [step |-> "asked", for |-> inputs, late |-> FALSE] /\ UNCHANGED <<plan, check, paid>> /\ Still
  BY DEF OnQuote, Quiet, Still
<1>2. RequestOK(job)' /\ RunOK(job)'
  BY <1>1 DEF RequestOK, Shape, InFlight, RunOK, Running, Still
<1>3. HookInv'
  BY <1>1, <1>2, StillKeeps DEF PanelInv, HookInv, Running, Still
<1>4. job = Idle
  BY DEF OnQuote, Clicked, Busy
<1>5. PaidInv'
  BY <1>1, <1>4 DEF PanelInv, PaidInv, ChecksApart, OwnPlan, Running, Still, Idle
<1> QED
  BY <1>3, <1>5 DEF PanelInv

\* A step of one gas check.
LEMMA SlotIs ==
  ASSUME PanelInv, NEW c \in Checks, NEW r, check' = [check EXCEPT ![c] = r]
  PROVE  IsChecks(check)' /\ check'[c] = r /\ \A d \in Checks \ {c} : check'[d] = check[d]
BY DEF PanelInv, HookInv, ChecksOK, IsChecks

\* It keeps the other checks; its own has to be looked at.
LEMMA SlotKeeps ==
  ASSUME PanelInv, NEW c \in Checks, NEW r, check' = [check EXCEPT ![c] = r],
         quotes' \in Nat, quotes <= quotes', inputs' = inputs, RequestOK(r)', ~Running(r)
  PROVE  ChecksOK'
<1>1. ASSUME NEW d \in Checks \ {c}
      PROVE  RequestOK(check[d])' /\ ~Running(check[d])'
  <2>1. PICK k : k = check[d] /\ k = check'[d]
    BY SlotIs
  <2>2. RequestOK(k) /\ ~Running(k) /\ quotes \in Nat
    BY <2>1 DEF PanelInv, HookInv, ChecksOK
  <2>3. RequestOK(k)'
    BY <2>2 DEF RequestOK, PlanOK
  <2> QED
    BY <2>1, <2>2, <2>3 DEF Running
<1>2. RequestOK(check[c])' /\ ~Running(check[c])'
  BY SlotIs DEF Running
<1> QED
  BY <1>1, <1>2, SlotIs DEF ChecksOK

LEMMA OnCheckGasKeeps ==
  ASSUME PanelInv, NEW c \in Checks, OnCheckGas(c)
  PROVE  PanelInv'
<1>1. PICK r : r = [step |-> "asked", for |-> inputs, late |-> FALSE]
  OBVIOUS
<1>2. check' = [check EXCEPT ![c] = r] /\ UNCHANGED <<plan, job, paid>> /\ Still
  BY <1>1 DEF OnCheckGas, Quiet, Still
<1>3. RequestOK(r)' /\ ~Running(r) /\ ~HasAnswer(r) /\ quotes \in Nat
  BY <1>1, <1>2 DEF RequestOK, Shape, InFlight, Running, HasAnswer, Still, PanelInv, HookInv
<1>4. ChecksOK'
  <2>1. quotes' \in Nat /\ quotes <= quotes' /\ inputs' = inputs
    BY <1>2, <1>3 DEF Still
  <2> QED
    BY <1>2, <1>3, <2>1, SlotKeeps
<1>5. HookInv'
  BY <1>2, <1>4, StillKeeps DEF PanelInv, HookInv, Still
<1>6. check'[c] = r /\ \A d \in Checks \ {c} : check'[d] = check[d]
  BY <1>2, SlotIs
<1>7. ~HasAnswer(check'[c])
  BY <1>3, <1>6
<1>8. ChecksApart'
  BY <1>2, <1>6, <1>7 DEF PanelInv, PaidInv, ChecksApart, OwnPlan
<1>9. PaidInv'
  BY <1>2, <1>8 DEF PanelInv, PaidInv, Running, Still
<1> QED
  BY <1>5, <1>9 DEF PanelInv

\* An answer comes with a number no plan had.
LEMMA ServeQuoteKeeps ==
  ASSUME PanelInv, ServeQuote
  PROVE  PanelInv'
<1>1. PICK a \in Answer(job) : job' = [step |-> "answered", for |-> job.for, late |-> job.late, plan |-> a]
  BY DEF ServeQuote
<1>2. job.step = "asked" /\ quotes' = quotes + 1 /\ quotes \in Nat /\ UNCHANGED <<inputs, plan, check, paid>>
  BY DEF ServeQuote, Quiet, PanelInv, HookInv
<1>3. a = NoPlan \/ /\ a = [id |-> a.id, for |-> a.for, fills |-> a.fills, late |-> a.late]
                    /\ a.id = quotes + 1 /\ a.late = FALSE /\ a.for = job.for
  BY <1>2, AnswerShape
<1>4. job.late \in BOOLEAN /\ (~job.late => job.for = inputs)
  BY <1>2 DEF PanelInv, HookInv, RequestOK, InFlight
<1>5. PICK f, l : f = job.for /\ l = job.late
  OBVIOUS
<1>6. job' = [step |-> "answered", for |-> f, late |-> l, plan |-> a]
  BY <1>1, <1>5
<1>7. PlanOK(a)'
  <2>1. a # NoPlan => a.id \in 1..quotes'
    BY <1>2, <1>3
  <2>2. a # NoPlan => a = [id |-> a.id, for |-> a.for, fills |-> a.fills, late |-> a.late] /\ a.late \in BOOLEAN
    BY <1>3
  <2> QED
    BY <2>1, <2>2 DEF PlanOK
<1>8. RequestOK(job)'
  BY <1>2, <1>3, <1>4, <1>5, <1>6, <1>7 DEF RequestOK, Shape, InFlight, PlanOK
<1>9. ~Running(job)'
  BY <1>6 DEF Running
<1>10. ChecksOK' /\ PlanOK(plan)' /\ PlanFollowsInputs'
  BY <1>2 DEF PanelInv, HookInv, ChecksOK, RequestOK, PlanOK, PlanFollowsInputs
<1>11. HookInv'
  BY <1>2, <1>8, <1>9, <1>10 DEF PanelInv, HookInv, RunOK, Running
<1>12. paid' \subseteq 1..quotes' /\ (a # NoPlan => a.id \notin paid)
  BY <1>2, <1>3 DEF PanelInv, PaidInv
<1>13. plan # NoPlan => plan.id \notin paid
  BY <1>2 DEF PanelInv, PaidInv, Running
<1>14. \A c \in Checks : HasAnswer(check[c]) => check[c].plan.id \in 1..quotes /\ check[c].plan.id # 0
  BY AnswersNumbered DEF PanelInv, HookInv
<1>15. \A c \in Checks : HasAnswer(check[c]) => check[c].plan.id # a.id
  BY <1>2, <1>3, <1>14, NoPlanOK
<1>16. ChecksApart'
  BY <1>2, <1>6, <1>9, <1>15 DEF PanelInv, PaidInv, ChecksApart, OwnPlan
<1>17. PaidInv'
  BY <1>2, <1>6, <1>12, <1>13, <1>16 DEF PanelInv, PaidInv, Running
<1> QED
  BY <1>11, <1>17 DEF PanelInv

LEMMA ServeCheckKeeps ==
  ASSUME PanelInv, NEW c \in Checks, ServeCheck(c)
  PROVE  PanelInv'
<1>1. PICK k : k = check[c]
  OBVIOUS
<1>2. PICK a \in Answer(k) :
        check' = [check EXCEPT ![c] = [step |-> "answered", for |-> k.for, late |-> k.late, plan |-> a]]
  BY <1>1 DEF ServeCheck
<1>3. k.step = "asked" /\ quotes' = quotes + 1 /\ quotes \in Nat /\ UNCHANGED <<inputs, plan, job, paid>>
  BY <1>1 DEF ServeCheck, Quiet, PanelInv, HookInv
<1>4. a = NoPlan \/ /\ a = [id |-> a.id, for |-> a.for, fills |-> a.fills, late |-> a.late]
                    /\ a.id = quotes + 1 /\ a.late = FALSE /\ a.for = k.for
  BY <1>3, AnswerShape
<1>5. k.late \in BOOLEAN /\ (~k.late => k.for = inputs)
  BY <1>1, <1>3 DEF PanelInv, HookInv, ChecksOK, RequestOK, InFlight
<1>6. PICK f, l, r : f = k.for /\ l = k.late /\ r = [step |-> "answered", for |-> f, late |-> l, plan |-> a]
  OBVIOUS
<1>7. check' = [check EXCEPT ![c] = r]
  BY <1>2, <1>6
<1>8. PlanOK(a)'
  <2>1. a # NoPlan => a.id \in 1..quotes'
    BY <1>3, <1>4
  <2>2. a # NoPlan => a = [id |-> a.id, for |-> a.for, fills |-> a.fills, late |-> a.late] /\ a.late \in BOOLEAN
    BY <1>4
  <2> QED
    BY <2>1, <2>2 DEF PlanOK
<1>9. RequestOK(r)'
  BY <1>3, <1>4, <1>5, <1>6, <1>8 DEF RequestOK, Shape, InFlight, PlanOK
<1>10. ~Running(r) /\ r.plan = a /\ r.step = "answered"
  BY <1>6 DEF Running
<1>11. ChecksOK'
  <2>1. quotes' \in Nat /\ quotes <= quotes' /\ inputs' = inputs
    BY <1>3
  <2> QED
    BY <1>7, <1>9, <1>10, <2>1, SlotKeeps
<1>12. RequestOK(job)' /\ RunOK(job)' /\ PlanOK(plan)' /\ PlanFollowsInputs'
  BY <1>3 DEF PanelInv, HookInv, RequestOK, RunOK, PlanOK, PlanFollowsInputs
<1>13. HookInv'
  BY <1>3, <1>12, <1>11 DEF PanelInv, HookInv
<1>14. paid' \subseteq 1..quotes' /\ (a # NoPlan => a.id \notin paid)
  BY <1>3, <1>4 DEF PanelInv, PaidInv
<1>15. plan.id \in 0..quotes
  BY <1>3, NoPlanOK DEF PanelInv, HookInv, PlanOK
<1>16. job.step = "answered" \/ Running(job) => job.plan.id \in 0..quotes
  BY <1>3, NoPlanOK DEF PanelInv, HookInv, RequestOK, RunOK, PlanOK
<1>17. a # NoPlan => a.id # plan.id /\ (job.step = "answered" \/ Running(job) => job.plan.id # a.id)
  BY <1>3, <1>4, <1>15, <1>16
<1>18. \A d \in Checks : HasAnswer(check[d]) => check[d].plan.id # a.id \/ a = NoPlan
  <2>1. \A d \in Checks : HasAnswer(check[d]) => check[d].plan.id \in 1..quotes
    BY AnswersNumbered DEF PanelInv, HookInv
  <2> QED
    BY <1>3, <1>4, <2>1
<1>19. \A d \in Checks \ {c} : check'[d] = check[d]
  BY <1>7, SlotIs
<1>20. check'[c] = r /\ (HasAnswer(r) => a # NoPlan)
  BY <1>7, <1>10, SlotIs DEF HasAnswer
<1>21. ChecksApart'
  <2>1. OwnPlan(check[c])'
    BY <1>3, <1>10, <1>14, <1>17, <1>20 DEF OwnPlan
  <2>2. \A d \in Checks \ {c} : OwnPlan(check[d])'
    BY <1>3, <1>19 DEF PanelInv, PaidInv, ChecksApart, OwnPlan
  <2>3. \A d \in Checks \ {c} : HasAnswer(check'[c]) /\ HasAnswer(check'[d]) => check'[c].plan.id # check'[d].plan.id
    BY <1>10, <1>18, <1>19, <1>20
  <2>4. \A d, e \in Checks \ {c} :
          d # e /\ HasAnswer(check'[d]) /\ HasAnswer(check'[e]) => check'[d].plan.id # check'[e].plan.id
    BY <1>19 DEF PanelInv, PaidInv, ChecksApart
  <2> QED
    BY <2>1, <2>2, <2>3, <2>4 DEF ChecksApart
<1>22. PaidInv'
  BY <1>3, <1>14, <1>21 DEF PanelInv, PaidInv, Running
<1> QED
  BY <1>13, <1>22 DEF PanelInv

LEMMA ReceiveQuoteKeeps ==
  ASSUME PanelInv, ReceiveQuote
  PROVE  PanelInv'
<1>1. job.step = "answered" /\ UNCHANGED <<check, paid>> /\ Still /\ job'.step \in {"idle", "reading"}
  BY DEF ReceiveQuote, Quiet, Still, Idle
<1>2. RequestOK(job)' /\ RunOK(job)' /\ ChecksOK' /\ quotes' \in Nat
  BY <1>1, PlainJob, StillKeeps DEF PanelInv, HookInv, Still, Running
<1>3. CASE job.plan = NoPlan
  <2>1. plan' = NoPlan
    BY <1>3 DEF ReceiveQuote
  <2>2. HookInv'
    BY <1>2, <2>1, NoPlanOK DEF HookInv
  <2>3. \A c \in Checks : HasAnswer(check[c]) => check[c].plan.id # 0
    BY AnswersNumbered DEF PanelInv, HookInv
  <2>4. PaidInv'
    BY <1>1, <2>1, <2>3, NoPlanOK DEF PanelInv, PaidInv, ChecksApart, OwnPlan, Running, Still
  <2> QED
    BY <2>2, <2>4 DEF PanelInv
<1>4. CASE job.plan # NoPlan
  <2>1. PICK p, l, q : p = job.plan /\ l = job.late /\ q = plan'
    OBVIOUS
  <2>2. q = [p EXCEPT !.late = l]
    BY <1>4, <2>1 DEF ReceiveQuote
  <2>3. p = [id |-> p.id, for |-> p.for, fills |-> p.fills, late |-> p.late] /\ p.id \in 1..quotes /\ l \in BOOLEAN
        /\ p.for = job.for /\ (~l => job.for = inputs)
    BY <1>1, <1>4, <2>1 DEF PanelInv, HookInv, RequestOK, PlanOK, InFlight
  <2>4. /\ q = [id |-> q.id, for |-> q.for, fills |-> q.fills, late |-> q.late]
        /\ q.id = p.id /\ q.for = p.for /\ q.late = l
    BY <2>2, <2>3, ShownPlan
  <2>5. PlanOK(plan)' /\ PlanFollowsInputs'
    BY <1>1, <2>1, <2>3, <2>4 DEF PlanOK, PlanFollowsInputs, Still
  <2>6. HookInv'
    BY <1>2, <2>5 DEF HookInv
  <2>7. p.id \notin paid /\ \A c \in Checks : HasAnswer(check[c]) => check[c].plan.id # p.id
    BY <1>1, <1>4, <2>1 DEF PanelInv, PaidInv, ChecksApart, OwnPlan
  <2>8. PaidInv'
    BY <1>1, <2>1, <2>4, <2>7 DEF PanelInv, PaidInv, ChecksApart, OwnPlan, Running, Still
  <2> QED
    BY <2>6, <2>8 DEF PanelInv
<1> QED
  BY <1>3, <1>4

\* Whatever the panel is doing: a run keeps the plan it was started with.
LEMMA ReceiveCheckKeeps ==
  ASSUME PanelInv, NEW c \in Checks, ReceiveCheck(c)
  PROVE  PanelInv'
<1>1. PICK k : k = check[c]
  OBVIOUS
<1>2. k.step = "answered" /\ check' = [check EXCEPT ![c] = Idle] /\ UNCHANGED <<job, paid>> /\ Still
  BY <1>1 DEF ReceiveCheck, Quiet, Still
<1>3. PICK r : r = Idle
  OBVIOUS
<1>4. check'[c] = r /\ \A d \in Checks \ {c} : check'[d] = check[d]
  BY <1>2, <1>3, SlotIs
<1>5. ~HasAnswer(r) /\ ~Running(r) /\ RequestOK(r)'
  BY <1>3 DEF HasAnswer, RequestOK, Shape, InFlight, Running, Idle
<1>6. ~HasAnswer(check'[c]) /\ \A d \in Checks \ {c} : check'[d] = check[d]
  BY <1>4, <1>5
<1>7. RequestOK(job)' /\ RunOK(job)' /\ quotes' \in Nat
  BY <1>2, StillKeeps DEF PanelInv, HookInv, Still
<1>8. ChecksOK'
  <2>1. quotes' \in Nat /\ quotes <= quotes' /\ inputs' = inputs
    BY <1>2, <1>7 DEF Still
  <2> QED
    BY <1>2, <1>3, <1>5, <2>1, SlotKeeps
<1>9. CASE k.plan = NoPlan
  <2>1. plan' = plan
    BY <1>1, <1>9 DEF ReceiveCheck
  <2>2. HookInv'
    BY <1>2, <1>7, <1>8, <2>1, StillKeeps DEF PanelInv, HookInv
  <2>3. PaidInv'
    BY <1>2, <1>6, <2>1 DEF PanelInv, PaidInv, ChecksApart, OwnPlan, Running, Still
  <2> QED
    BY <2>2, <2>3 DEF PanelInv
<1>10. CASE k.plan # NoPlan
  <2>1. PICK p, l, q : p = k.plan /\ l = k.late /\ q = plan'
    OBVIOUS
  <2>2. q = [p EXCEPT !.late = l]
    BY <1>1, <1>10, <2>1 DEF ReceiveCheck
  <2>3. p = [id |-> p.id, for |-> p.for, fills |-> p.fills, late |-> p.late] /\ p.id \in 1..quotes /\ l \in BOOLEAN
        /\ p.for = k.for /\ (~l => k.for = inputs)
    BY <1>1, <1>2, <1>10, <2>1 DEF PanelInv, HookInv, ChecksOK, RequestOK, PlanOK, InFlight
  <2>4. /\ q = [id |-> q.id, for |-> q.for, fills |-> q.fills, late |-> q.late]
        /\ q.id = p.id /\ q.for = p.for /\ q.late = l
    BY <2>2, <2>3, ShownPlan
  <2>5. PlanOK(plan)' /\ PlanFollowsInputs'
    BY <1>2, <2>1, <2>3, <2>4 DEF PlanOK, PlanFollowsInputs, Still
  <2>6. HookInv'
    BY <1>7, <1>8, <2>5 DEF HookInv
  <2>7. /\ p.id \notin paid /\ (job.step = "answered" \/ Running(job) => job.plan.id # p.id)
        /\ \A d \in Checks \ {c} : HasAnswer(check[d]) => check[d].plan.id # p.id
    BY <1>1, <1>2, <1>10, <2>1 DEF PanelInv, PaidInv, ChecksApart, OwnPlan, HasAnswer
  <2>8. PaidInv'
    BY <1>2, <1>6, <2>1, <2>4, <2>7 DEF PanelInv, PaidInv, ChecksApart, OwnPlan, Running, Still
  <2> QED
    BY <2>6, <2>8 DEF PanelInv
<1> QED
  BY <1>9, <1>10

\* The wallet's read, and the approval: nothing is running.
LEMMA AllowanceKeeps ==
  ASSUME PanelInv, ReadAllowance \/ OnApprove \/ Approved
  PROVE  PanelInv'
<1>1. /\ job.step \in {"idle", "reading", "approving"} /\ job'.step \in {"idle", "approving"}
      /\ UNCHANGED <<check, paid>> /\ Still /\ (plan' = NoPlan \/ plan' = plan)
  BY DEF ReadAllowance, OnApprove, Approved, Clicked, Busy, Quiet, Still, Idle
<1>2. HookInv'
  BY <1>1, PlainJob, StillKeeps, NoPlanOK DEF PanelInv, HookInv, Still, Running
<1>3. \A c \in Checks : HasAnswer(check[c]) => check[c].plan.id # 0
  BY AnswersNumbered DEF PanelInv, HookInv
<1>4. PaidInv'
  BY <1>1, <1>3, NoPlanOK DEF PanelInv, PaidInv, ChecksApart, OwnPlan, Running, Still
<1> QED
  BY <1>2, <1>4 DEF PanelInv

\* What a step does to a run, if it keeps it: the plan stays.
LEMMA RunStays ==
  ASSUME HookInv, Still, Running(job), Running(job'), job'.plan = job.plan, job'.next \in Nat \ {0},
         job' = [step |-> job'.step, plan |-> job'.plan, next |-> job'.next]
  PROVE  RequestOK(job)' /\ RunOK(job)'
<1>1. PICK p : p = job.plan /\ p = job'.plan
  OBVIOUS
<1>2. PlanOK(p) /\ p # NoPlan
  BY <1>1 DEF HookInv, RunOK
<1>3. PlanOK(p)'
  BY <1>2 DEF PlanOK, Still
<1> QED
  BY <1>1, <1>2, <1>3 DEF RunOK, RequestOK, Shape, InFlight, Running, PlanOK

LEMMA OnExecuteKeeps ==
  ASSUME PanelInv, OnExecute
  PROVE  PanelInv'
<1>1. job = Idle /\ plan # NoPlan
  BY DEF OnExecute, Clicked, Busy, Cta
<1>2. job' = [step |-> "signing", plan |-> plan, next |-> 1] /\ UNCHANGED <<plan, check, paid>> /\ Still
  BY DEF OnExecute, Quiet, Still
<1>3. RunOK(job)' /\ RequestOK(job)'
  <2>1. PlanOK(plan)'
    BY <1>2, StillKeeps DEF PanelInv, HookInv
  <2>2. PICK p : p = plan
    OBVIOUS
  <2>3. PlanOK(p)' /\ p # NoPlan /\ job' = [step |-> "signing", plan |-> p, next |-> 1]
    BY <1>1, <1>2, <2>1, <2>2 DEF PlanOK
  <2> QED
    BY <2>3 DEF RunOK, RequestOK, Shape, InFlight, Running, PlanOK
<1>4. HookInv'
  BY <1>2, <1>3, StillKeeps DEF PanelInv, HookInv, Still
<1>5. PaidInv'
  BY <1>1, <1>2 DEF PanelInv, PaidInv, ChecksApart, OwnPlan, Running, Still, Idle
<1> QED
  BY <1>4, <1>5 DEF PanelInv

LEMMA BroadcastKeeps ==
  ASSUME PanelInv, Broadcast
  PROVE  PanelInv'
<1>1. job.step = "signing" /\ UNCHANGED <<plan, check, paid>> /\ Still
  BY DEF Broadcast, counts, Still
<1>2. PICK p, n : p = job.plan /\ n = job.next /\ job = [step |-> "signing", plan |-> p, next |-> n] /\ n \in Nat \ {0}
  BY <1>1 DEF PanelInv, HookInv, RunOK, Running
<1>3. job' = [step |-> "waiting", plan |-> p, next |-> n]
  BY <1>2 DEF Broadcast
<1>4. RequestOK(job)' /\ RunOK(job)'
  BY <1>1, <1>2, <1>3, RunStays DEF PanelInv, Running
<1>5. HookInv'
  BY <1>1, <1>4, StillKeeps DEF PanelInv, HookInv, Still
<1>6. PaidInv'
  BY <1>1, <1>2, <1>3 DEF PanelInv, PaidInv, ChecksApart, OwnPlan, Running, Still
<1> QED
  BY <1>5, <1>6 DEF PanelInv

\* The plan is paid now, and its run is past the first transaction.
LEMMA ConfirmedKeeps ==
  ASSUME PanelInv, Confirmed
  PROVE  PanelInv'
<1>1. job.step = "waiting" /\ UNCHANGED <<plan, check>> /\ Still
  BY DEF Confirmed, Quiet, Still
<1>2. PICK p, n : p = job.plan /\ n = job.next /\ job = [step |-> "waiting", plan |-> p, next |-> n] /\ n \in Nat \ {0}
  BY <1>1 DEF PanelInv, HookInv, RunOK, Running
<1>3. paid' = paid \cup {p.id}
  BY <1>2 DEF Confirmed
<1>4. \/ job' = [step |-> "signing", plan |-> p, next |-> n + 1]
      \/ job' = [step |-> "applying", plan |-> p, next |-> n]
  BY <1>2 DEF Confirmed
<1>5. RequestOK(job)' /\ RunOK(job)'
  BY <1>1, <1>2, <1>4, RunStays DEF PanelInv, Running
<1>6. HookInv'
  BY <1>1, <1>5, StillKeeps DEF PanelInv, HookInv, Still
<1>7. p.id \in 1..quotes
  BY <1>1, <1>2 DEF PanelInv, HookInv, RunOK, Running, PlanOK
<1>8. Running(job') /\ job'.plan = p /\ job'.step # "answered" /\ (job'.step = "applying" \/ job'.next > 1)
  BY <1>2, <1>4 DEF Running
<1>9. PaidInv'
  <2>1. paid' \subseteq 1..quotes'
    BY <1>1, <1>3, <1>7 DEF PanelInv, PaidInv, Still
  <2>2. plan # NoPlan /\ plan.id \in paid' => plan.id = p.id
    BY <1>2, <1>3 DEF PanelInv, PaidInv
  <2>3. \A c \in Checks : HasAnswer(check[c]) =>
          check[c].plan.id \notin paid /\ check[c].plan.id # plan.id /\ check[c].plan.id # p.id
    BY <1>1, <1>2 DEF PanelInv, PaidInv, ChecksApart, OwnPlan, Running
  <2>4. ChecksApart'
    BY <1>1, <1>3, <1>8, <2>3 DEF PanelInv, PaidInv, ChecksApart, OwnPlan
  <2> QED
    BY <1>1, <1>3, <1>8, <2>1, <2>2, <2>4 DEF PaidInv
<1> QED
  BY <1>6, <1>9 DEF PanelInv

\* A run that fails at its first transaction leaves a plan that was never paid.
LEMMA ThrowsKeeps ==
  ASSUME PanelInv, Throws
  PROVE  PanelInv'
<1>1. job.step \in {"signing", "waiting"} /\ job' = Idle /\ UNCHANGED <<check, paid>> /\ Still
  BY DEF Throws, Quiet, Still
<1>2. job.next \in Nat \ {0}
  BY <1>1 DEF PanelInv, HookInv, RunOK, Running
<1>3. plan' = NoPlan \/ (plan' = plan /\ ~(job.next > 1))
  BY <1>2 DEF Throws, AfterThrow
<1>4. HookInv'
  BY <1>1, <1>3, PlainJob, StillKeeps, NoPlanOK DEF PanelInv, HookInv, Still, Idle
<1>5. \A c \in Checks : HasAnswer(check[c]) => check[c].plan.id # 0
  BY AnswersNumbered DEF PanelInv, HookInv
<1>6. PaidInv'
  BY <1>1, <1>3, <1>5, NoPlanOK DEF PanelInv, PaidInv, ChecksApart, OwnPlan, Running, Still, Idle
<1> QED
  BY <1>4, <1>6 DEF PanelInv

LEMMA ApplyKeeps ==
  ASSUME PanelInv, Apply
  PROVE  PanelInv'
<1>1. job' = Idle /\ plan' = NoPlan /\ UNCHANGED <<check, paid>> /\ Still
  BY DEF Apply, Still, counts
<1>2. HookInv'
  BY <1>1, PlainJob, StillKeeps, NoPlanOK DEF PanelInv, HookInv, Still, Idle
<1>3. \A c \in Checks : HasAnswer(check[c]) => check[c].plan.id # 0
  BY AnswersNumbered DEF PanelInv, HookInv
<1>4. PaidInv'
  BY <1>1, <1>3, NoPlanOK DEF PanelInv, PaidInv, ChecksApart, OwnPlan, Running, Still, Idle
<1> QED
  BY <1>2, <1>4 DEF PanelInv

\* The chain, the watcher, the makers and other wallets.
LEMMA OutsideKeeps ==
  ASSUME PanelInv, Mine \/ OtherTaker \/ Watch \/ Place \/ AttachRaw \/ UNCHANGED vars
  PROVE  PanelInv' /\ job' = job
<1>1. UNCHANGED <<inputs, plan, job, check, paid, quotes>>
  BY DEF Mine, OtherTaker, Watch, Place, AttachRaw, vars, panel, counts
<1>2. HookInv'
  BY <1>1, StillKeeps DEF PanelInv, HookInv, Still
<1>3. PaidInv'
  BY <1>1 DEF PanelInv, PaidInv, ChecksApart, OwnPlan
<1> QED
  BY <1>1, <1>2, <1>3 DEF PanelInv

LEMMA PanelStep == PanelInv /\ [Next]_vars => PanelInv'
BY InputsKeep, OnQuoteKeeps, ServeQuoteKeeps, ReceiveQuoteKeeps, AllowanceKeeps, OnCheckGasKeeps, ServeCheckKeeps,
   ReceiveCheckKeeps, OnExecuteKeeps, BroadcastKeeps, ConfirmedKeeps, ThrowsKeeps, ApplyKeeps, OutsideKeeps
DEF Next

LEMMA PanelInvariant == Spec => []PanelInv
BY PanelInit, PanelStep, PTL DEF Spec

\* useMarketOrder never offers a plan quoted for other inputs than the panel
\* shows, unless they moved while the quote was on its way: whatever the user
\* does to the inputs between a request, its answer, and the reads after it,
\* and whichever of the requests, the preview's and the gas checks', is
\* answered last.
THEOREM PlansFollow == Spec => []PlanFollowsInputs
<1>1. PanelInv => PlanFollowsInputs
  BY DEF PanelInv, HookInv
<1> QED
  BY <1>1, PanelInvariant, PTL

\* A run starts only with a plan of which the panel has seen nothing confirmed:
\* also after a run that failed half way, or of which the receipt never came.
THEOREM NeverPaidTwice == Spec => PaidOnce
<1> DEFINE Starts == job'.step = "signing" /\ job.step # "signing" /\ job.step # "waiting"
<1>1. PanelInv /\ OnExecute => job'.plan.id \notin paid
  <2> SUFFICES ASSUME PanelInv, OnExecute
               PROVE  job'.plan.id \notin paid
    OBVIOUS
  <2>1. job = Idle /\ plan # NoPlan /\ job' = [step |-> "signing", plan |-> plan, next |-> 1]
    BY DEF OnExecute, Clicked, Busy, Cta
  <2> QED
    BY <2>1 DEF PanelInv, PaidInv, Running, Idle
<1>2. PanelInv /\ (\E i : Change(i)) => job'.step = job.step
  <2> SUFFICES ASSUME PanelInv, NEW i, Change(i)
               PROVE  job'.step = job.step
    OBVIOUS
  <2>1. Shape(job)
    BY DEF PanelInv, HookInv, RequestOK
  <2>2. Moved(job, i, Outrun(job, i))
    BY <2>1, OutrunMoves
  <2>3. job' = Outrun(job, i)
    BY DEF Change
  <2> QED
    BY <2>2, <2>3 DEF Moved
<1>3. PanelInv /\ (Edit \/ Pick \/ CancelCap \/ LeaveMarket \/ EnterMarket \/ RouteLimit) => job'.step = job.step
  BY <1>2 DEF Edit, Pick, Resized, CancelCap, LeaveMarket, EnterMarket, RouteLimit
<1>4. OnQuote \/ ServeQuote \/ ReceiveQuote \/ ReadAllowance \/ OnApprove \/ Approved \/ Throws \/ Apply => job'.step # "signing"
  BY DEF OnQuote, ServeQuote, ReceiveQuote, ReadAllowance, OnApprove, Approved, Throws, Apply, Idle
<1>5. \A c \in Checks : OnCheckGas(c) \/ ServeCheck(c) \/ ReceiveCheck(c) => job' = job
  BY DEF OnCheckGas, ServeCheck, ReceiveCheck
<1>6. Broadcast \/ Confirmed => job.step \in {"signing", "waiting"}
  BY DEF Broadcast, Confirmed
<1>7. PanelInv /\ (Mine \/ OtherTaker \/ Watch \/ Place \/ AttachRaw \/ UNCHANGED vars) => job' = job
  BY OutsideKeeps
<1>8. PanelInv /\ [Next]_vars => (Starts => job'.plan.id \notin paid)
  BY <1>1, <1>3, <1>4, <1>5, <1>6, <1>7 DEF Next
<1>9. PanelInv /\ [Next]_vars => [Starts => job'.plan.id \notin paid]_vars
  BY <1>8
<1> QED
  BY <1>9, PanelInvariant, PTL DEF Spec, PaidOnce

-----------------------------------------------------------------------------
\* The sweep.

BookOK == \A o \in Offers : level[o] \in Nat
Fill == [offer : Offers, base : Nat]
Acc == [rest : Nat, over : BOOLEAN, fills : Seq(Fill)]

\* The levels against a side come in their order: the two of a side that are
\* not the same differ in price or in time.
LEMMA QueueSorted ==
  ASSUME NEW side \in Sides, NEW n, n = Cardinality(Against(side)), NEW q, q = Queue(side)
  PROVE  /\ n \in Nat /\ q \in [1..n -> Against(side)] /\ Len(q) = n
         /\ \A j, k \in 1..n : j < k => Before(q[j], q[k]) /\ q[j] # q[k]
         /\ \A o \in Against(side) : \E k \in 1..n : q[k] = o
<1> DEFINE S == Against(side)
           R == {u \in S \X S : Before(u[1], u[2])}
<1>1. IsFiniteSet(S) /\ S \subseteq Offers /\ n \in Nat
  <2>1. S \in SUBSET Offers
    BY DEF Against
  <2>2. IsFiniteSet(S)
    BY <2>1, FS_Subset, OffersAssumption
  <2> QED
    BY <2>1, <2>2, FS_CardinalityType
<1>2. \A x \in S : x \in Offers /\ x.side \in {"BUY", "SELL"} /\ x.side # side /\ x.ticks \in Nat /\ x.ts \in Nat
  BY <1>1, OffersAssumption DEF Against
<1>3. \A x, y \in S : x # y => x.ts # y.ts
  BY <1>1, OffersAssumption
<1>4. \A x, y \in S : <<x, y>> \in R <=> Before(x, y)
  OBVIOUS
<1> HIDE DEF R, S
<1>5. \A x, y \in S : x # y => Before(x, y) \/ Before(y, x)
  BY <1>2, <1>3 DEF Before, Sides
<1>6. \A x \in S : ~Before(x, x)
  BY <1>2 DEF Before
<1>7. \A x, y, z \in S : Before(x, y) /\ Before(y, z) => Before(x, z)
  BY <1>2 DEF Before, Sides
<1>8. PICK f \in [1..n -> S] : Sorts(f, n, R)
  <2>1. \E f \in [1..Cardinality(S) -> S] : Sorts(f, Cardinality(S), R)
    BY <1>1, <1>4, <1>5, <1>6, <1>7, SortExists
  <2> QED
    BY <2>1 DEF S
<1>9. \E f1 \in [1..n -> S] : \A j, k \in DOMAIN f1 : j < k => Before(f1[j], f1[k])
  <2>1. \A j, k \in 1..n : j < k => Before(f[j], f[k])
    BY <1>4, <1>8 DEF Sorts
  <2> QED
    BY <1>8, <2>1
<1>10. q \in [1..n -> S] /\ \A j, k \in DOMAIN q : j < k => Before(q[j], q[k])
  BY <1>9 DEF Queue, S
<1>11. \A j, k \in 1..n : j < k => Before(q[j], q[k]) /\ q[j] # q[k]
  BY <1>6, <1>10
<1>12. q \in Injection(1..n, S)
  <2>1. \A j, k \in 1..n : q[j] = q[k] => j = k
    BY <1>1, <1>11
  <2> QED
    BY <1>10, <2>1 DEF Injection, IsInjective
<1>13. Cardinality(1..n) = Cardinality(S)
  <2>1. 1 \in Int /\ n \in Int
    BY <1>1
  <2>2. Cardinality(1..n) = IF 1 > n THEN 0 ELSE n - 1 + 1
    BY <2>1, FS_Interval
  <2>3. Cardinality(1..n) = n
    BY <1>1, <2>2
  <2> QED
    BY <2>3 DEF S
<1>14. q \in Surjection(1..n, S)
  BY <1>1, <1>12, <1>13, FS_Injection
<1>15. \A o \in S : \E k \in 1..n : q[k] = o
  BY <1>14 DEF Surjection
<1>16. Len(q) = n
  <2>1. q \in Seq(S)
    BY <1>1, <1>10, SeqDef
  <2> QED
    BY <1>1, <1>10, <2>1, LenProperties
<1> QED
  BY <1>1, <1>10, <1>11, <1>15, <1>16 DEF S

LEMMA MinOf ==
  ASSUME NEW a \in Nat, NEW b \in Nat
  PROVE  Min({a, b}) = IF a <= b THEN a ELSE b
<1> DEFINE m == IF a <= b THEN a ELSE b
<1>1. m \in {a, b} /\ \A y \in {a, b} : m <= y
  OBVIOUS
<1>2. \E x \in {a, b} : \A y \in {a, b} : x <= y
  BY <1>1
<1>3. PICK c : c = Min({a, b})
  OBVIOUS
<1>4. c \in {a, b} /\ \A y \in {a, b} : c <= y
  BY <1>2, <1>3 DEF Min
<1> QED
  BY <1>3, <1>4

\* The three things a visit of a level does.
Stopped(acc) == acc.rest = 0 \/ acc.over
Taken(acc, o) == IF acc.rest <= level[o] THEN acc.rest ELSE level[o]
Visited(acc, o, side, cap, new) ==
  /\ Stopped(acc) => new = acc
  /\ ~Stopped(acc) /\ Worse(o, side, cap) =>
       new.rest = acc.rest /\ new.over = TRUE /\ new.fills = acc.fills
  /\ ~Stopped(acc) /\ ~Worse(o, side, cap) =>
       /\ new.rest = acc.rest - Taken(acc, o) /\ new.over = acc.over
       /\ new.fills = Append(acc.fills, [offer |-> o, base |-> Taken(acc, o)])
LEMMA VisitAs ==
  ASSUME BookOK, NEW acc \in Acc, NEW o \in Offers, NEW side, NEW cap
  PROVE  Visit(acc, o, side, cap) \in Acc /\ Visited(acc, o, side, cap, Visit(acc, o, side, cap))
<1> PICK new : new = Visit(acc, o, side, cap)
  OBVIOUS
<1>1. level[o] \in Nat /\ acc.rest \in Nat /\ acc.over \in BOOLEAN /\ acc.fills \in Seq(Fill)
      /\ acc = [rest |-> acc.rest, over |-> acc.over, fills |-> acc.fills]
  BY DEF BookOK, Acc
<1>2. PICK base : base = Taken(acc, o)
  OBVIOUS
<1>3. base \in Nat /\ acc.rest - base \in Nat /\ base = Min({acc.rest, level[o]})
  BY <1>1, <1>2, MinOf DEF Taken
<1>4. PICK more : more = Append(acc.fills, [offer |-> o, base |-> base])
  OBVIOUS
<1>5. more \in Seq(Fill)
  <2>1. [offer |-> o, base |-> base] \in Fill
    BY <1>3 DEF Fill
  <2> QED
    BY <1>1, <1>4, <2>1, AppendProperties
<1>6. Stopped(acc) => new = acc
  BY DEF Visit, Stopped
<1>7. ASSUME ~Stopped(acc), Worse(o, side, cap)
      PROVE  new = [rest |-> acc.rest, over |-> TRUE, fills |-> acc.fills]
  <2>1. new = [acc EXCEPT !.over = TRUE]
    BY <1>7 DEF Visit, Stopped
  <2> QED
    BY <1>1, <2>1
<1>8. ASSUME ~Stopped(acc), ~Worse(o, side, cap)
      PROVE  new = [rest |-> acc.rest - base, over |-> acc.over, fills |-> more]
  <2>1. new = [acc EXCEPT !.rest = @ - base, !.fills = more]
    BY <1>3, <1>4, <1>8 DEF Visit, Stopped
  <2> QED
    BY <1>1, <2>1
<1>9. new \in Acc
  <2>1. [rest |-> acc.rest, over |-> TRUE, fills |-> acc.fills] \in Acc
    BY <1>1 DEF Acc
  <2>2. [rest |-> acc.rest - base, over |-> acc.over, fills |-> more] \in Acc
    BY <1>1, <1>3, <1>5 DEF Acc
  <2> QED
    BY <1>6, <1>7, <1>8, <2>1, <2>2
<1>10. Visited(acc, o, side, cap, new)
  BY <1>2, <1>4, <1>6, <1>7, <1>8 DEF Visited
<1> QED
  BY <1>9, <1>10

\* The loop over the levels runs to the last.
SweepLoop(f, n, q, side, size, cap) ==
  /\ f \in [0..n -> Acc] /\ f[0] = Start(size)
  /\ \A k \in 1..n : f[k] = Visit(f[k - 1], q[k], side, cap)

LEMMA SweepIsLoop ==
  ASSUME BookOK, NEW side \in Sides, NEW size \in Nat, NEW cap
  PROVE  LET n == Cardinality(Against(side))
             q == Queue(side)
         IN \E f : SweepLoop(f, n, q, side, size, cap) /\ Sweep(side, size, cap) = f[n].fills
<1> PICK n, q : n = Cardinality(Against(side)) /\ q = Queue(side)
  OBVIOUS
<1>1. n \in Nat /\ q \in [1..n -> Against(side)] /\ Len(q) = n
  BY QueueSorted
<1>2. \A k \in 1..n : q[k] \in Offers
  BY <1>1 DEF Against
<1>3. Start(size) \in Acc
  <2>1. <<>> \in Seq(Fill)
    BY EmptySeq
  <2> QED
    BY <2>1 DEF Start, Acc
<1>4. PICK step : step = [u \in (1..n) \X Acc |-> Visit(u[2], q[u[1]], side, cap)]
  OBVIOUS
<1>5. step \in [(1..n) \X Acc -> Acc]
  <2>1. ASSUME NEW k \in 1..n, NEW acc \in Acc PROVE Visit(acc, q[k], side, cap) \in Acc
    BY <1>2, VisitAs
  <2>2. \A u \in (1..n) \X Acc : Visit(u[2], q[u[1]], side, cap) \in Acc
    BY <2>1
  <2> QED
    BY <1>4, <2>2
<1>6. PICK g \in [0..n -> Acc] : Rounds(g, n, Start(size), step)
  BY <1>1, <1>3, <1>5, LoopExists
<1> DEFINE Body(h) == [k \in 0..n |-> IF k = 0 THEN Start(size) ELSE Visit(h[k - 1], q[k], side, cap)]
<1>7. \A k \in 1..n : g[k] = Visit(g[k - 1], q[k], side, cap)
  <2> SUFFICES ASSUME NEW k \in 1..n PROVE g[k] = Visit(g[k - 1], q[k], side, cap)
    OBVIOUS
  <2>1. k - 1 \in 0..n
    BY <1>1
  <2>2. PICK a \in Acc : a = g[k - 1]
    BY <2>1
  <2>3. g[k] = step[<<k, a>>]
    BY <1>6, <2>2 DEF Rounds
  <2>4. <<k, a>> \in (1..n) \X Acc
    OBVIOUS
  <2>5. step[<<k, a>>] = Visit(a, q[k], side, cap)
    BY <1>4, <2>4
  <2> QED
    BY <2>2, <2>3, <2>5
<1>8. g = Body(g)
  <2>1. \A k \in 0..n : k # 0 => k \in 1..n
    BY <1>1
  <2>2. \A k \in 0..n : g[k] = Body(g)[k]
    BY <1>6, <1>7, <2>1 DEF Rounds
  <2> QED
    BY <1>6, <2>2
<1> DEFINE f == CHOOSE h : h = Body(h)
<1>9. f = Body(f)
  BY <1>8
<1>10. Sweep(side, size, cap) = f[n].fills
  BY <1>1 DEF Sweep
<1> HIDE DEF f
<1>11. f[0] = Start(size) /\ \A k \in 1..n : f[k] = Visit(f[k - 1], q[k], side, cap)
  <2>1. 0 \in 0..n /\ \A k \in 1..n : k \in 0..n /\ k # 0
    BY <1>1
  <2> QED
    BY <1>9, <2>1
<1>12. ASSUME NEW k \in 0..n PROVE f[k] \in Acc
  <2> DEFINE K == {i \in Nat : i <= n => f[i] \in Acc}
  <2>1. 0 \in K
    BY <1>3, <1>11
  <2>2. ASSUME NEW i \in Nat, i \in K PROVE i + 1 \in K
    <3> SUFFICES ASSUME i + 1 <= n PROVE f[i + 1] \in Acc
      OBVIOUS
    <3>1. f[i] \in Acc /\ i + 1 \in 1..n /\ i + 1 - 1 = i
      BY <1>1, <2>2
    <3>2. f[i + 1] = Visit(f[i], q[i + 1], side, cap)
      BY <1>11, <3>1
    <3> QED
      BY <1>2, <3>1, <3>2, VisitAs
  <2> HIDE DEF K
  <2>3. k \in K
    BY <2>1, <2>2, Reaches
  <2> QED
    BY <2>3 DEF K
<1>13. f \in [0..n -> Acc]
  <2>1. f = [k \in 0..n |-> f[k]]
    BY <1>9
  <2> QED
    BY <1>12, <2>1
<1> QED
  BY <1>10, <1>11, <1>13 DEF SweepLoop

\* What fills add up to.
LEMMA TotalOf ==
  /\ Total(<<>>) = 0
  /\ \A fills \in Seq(Fill) : Total(fills) \in Nat
  /\ \A fills \in Seq(Fill), x \in Fill : Total(Append(fills, x)) = Total(fills) + x.base
<1>1. Total(<<>>) = 0
  <2>1. DOMAIN <<>> = {}
    BY EmptySeq
  <2> QED
    BY <2>1, SumEmpty DEF Total
<1>2. ASSUME NEW fills \in Seq(Fill)
      PROVE  /\ DOMAIN fills = 1..Len(fills) /\ Len(fills) \in Nat /\ IsFiniteSet(DOMAIN fills)
             /\ \A k \in 1..Len(fills) : Bases(fills)[k] = fills[k].base /\ fills[k].base \in Nat
             /\ Total(fills) \in Nat
  <2>1. DOMAIN fills = 1..Len(fills) /\ Len(fills) \in Nat
    BY LenProperties
  <2>2. 1 \in Int /\ Len(fills) \in Int
    BY <2>1
  <2>3. IsFiniteSet(DOMAIN fills)
    BY <2>1, <2>2, FS_Interval
  <2>4. \A k \in 1..Len(fills) : fills[k] \in Fill
    BY ElementOfSeq
  <2>5. \A k \in 1..Len(fills) : Bases(fills)[k] = fills[k].base /\ fills[k].base \in Nat
    BY <2>1, <2>4 DEF Bases, Fill
  <2>6. Total(fills) \in Nat
    BY <2>1, <2>3, <2>5, UnitsFinite DEF Total
  <2> QED
    BY <2>1, <2>3, <2>5, <2>6
<1>3. ASSUME NEW fills \in Seq(Fill), NEW x \in Fill
      PROVE  Total(Append(fills, x)) = Total(fills) + x.base
  <2>1. PICK more, n : more = Append(fills, x) /\ n = Len(fills)
    OBVIOUS
  <2>2. n \in Nat /\ DOMAIN fills = 1..n /\ more \in Seq(Fill) /\ Len(more) = n + 1
        /\ more[n + 1] = x /\ \A k \in 1..n : more[k] = fills[k]
    BY <1>2, <2>1, AppendProperties
  <2>3. DOMAIN more = (1..n) \cup {n + 1} /\ n + 1 \notin 1..n
    BY <1>2, <2>2
  <2>4. PICK a, b : a = Bases(fills) /\ b = Bases(more)
    OBVIOUS
  <2>5. b[n + 1] = x.base /\ x.base \in Nat /\ \A k \in 1..n : b[k] = a[k] /\ b[k] \in Nat
    <3>1. \A k \in 1..n + 1 : b[k] = more[k].base /\ more[k].base \in Nat
      BY <1>2, <2>2, <2>4
    <3>2. \A k \in 1..n : a[k] = fills[k].base
      BY <1>2, <2>2, <2>4
    <3>3. n + 1 \in 1..n + 1 /\ \A k \in 1..n : k \in 1..n + 1
      BY <2>2
    <3> QED
      BY <2>2, <3>1, <3>2, <3>3
  <2>6. Sum((1..n) \cup {n + 1}, b) = Sum(1..n, b) + b[n + 1]
    <3>1. \A k \in (1..n) \cup {n + 1} : b[k] \in Nat
      BY <2>5
    <3>2. IsFiniteSet(1..n)
      BY <1>2, <2>2
    <3> QED
      BY <2>3, <3>1, <3>2, SumAdd
  <2>7. Sum(1..n, b) = Sum(1..n, a)
    BY <2>5, SumSame
  <2>8. Total(more) = Sum((1..n) \cup {n + 1}, b) /\ Total(fills) = Sum(1..n, a)
    BY <2>2, <2>3, <2>4 DEF Total
  <2> QED
    BY <2>1, <2>5, <2>6, <2>7, <2>8
<1> QED
  BY <1>1, <1>2, <1>3

\* After k levels: the fills are of the first ones, all of each but perhaps the
\* last; the loop has stopped, at the size or at a level beyond the cap, or has
\* a fill of every level so far.
Progress(acc, k, q, side, size, cap) ==
  LET m == Len(acc.fills)
  IN /\ acc.rest + Total(acc.fills) = size /\ m <= k
     /\ \A j \in 1..m : /\ acc.fills[j].offer = q[j] /\ acc.fills[j].base \in 1..level[q[j]] /\ ~Worse(q[j], side, cap)
                        /\ acc.fills[j].base = level[q[j]] \/ (j = m /\ acc.rest = 0)
     /\ ~Stopped(acc) => m = k
     /\ acc.over => m < k /\ Worse(q[m + 1], side, cap)

LEMMA ProgressStep ==
  ASSUME BookOK, NEW side \in Sides, NEW size \in Nat, NEW cap, NEW acc \in Acc, NEW k \in Nat, NEW q,
         q[k + 1] \in Against(side), Progress(acc, k, q, side, size, cap),
         NEW new, new = Visit(acc, q[k + 1], side, cap)
  PROVE  Progress(new, k + 1, q, side, size, cap)
<1> DEFINE m == Len(acc.fills)
<1>1. PICK o : o = q[k + 1]
  OBVIOUS
<1>2. o \in Offers /\ level[o] \in Nat /\ level[o] > 0
  BY <1>1 DEF Against, BookOK
<1>3. acc.rest \in Nat /\ acc.over \in BOOLEAN /\ acc.fills \in Seq(Fill) /\ m \in Nat
  BY LenProperties DEF Acc
<1>4. /\ Stopped(acc) => new = acc
      /\ ~Stopped(acc) /\ Worse(o, side, cap) =>
           new.rest = acc.rest /\ new.over = TRUE /\ new.fills = acc.fills
      /\ ~Stopped(acc) /\ ~Worse(o, side, cap) =>
           /\ new.rest = acc.rest - Taken(acc, o) /\ new.over = acc.over
           /\ new.fills = Append(acc.fills, [offer |-> o, base |-> Taken(acc, o)])
  <2>1. Visited(acc, o, side, cap, new)
    BY <1>1, <1>2, VisitAs
  <2> QED
    BY <2>1 DEF Visited
<1>5. CASE Stopped(acc)
  <2>1. new = acc /\ m <= k + 1 /\ (m < k => m < k + 1)
    BY <1>3, <1>4, <1>5 DEF Progress
  <2> QED
    BY <1>5, <2>1 DEF Progress
<1>6. CASE ~Stopped(acc) /\ Worse(o, side, cap)
  <2>1. new.rest = acc.rest /\ new.over = TRUE /\ new.fills = acc.fills /\ m = k /\ m < k + 1
    BY <1>4, <1>6 DEF Progress
  <2> QED
    BY <1>1, <1>6, <2>1 DEF Progress, Stopped
<1>7. CASE ~Stopped(acc) /\ ~Worse(o, side, cap)
  <2>1. PICK base : base = Taken(acc, o)
    OBVIOUS
  <2>2. base \in 1..level[o] /\ base <= acc.rest /\ (base = level[o] \/ acc.rest - base = 0) /\ base \in Nat
    BY <1>2, <1>3, <1>7, <2>1 DEF Taken, Stopped
  <2>3. [offer |-> o, base |-> base] \in Fill
    BY <1>2, <2>2 DEF Fill
  <2>4. /\ new.fills = Append(acc.fills, [offer |-> o, base |-> base]) /\ new.rest = acc.rest - base
        /\ new.over = FALSE /\ m = k
    BY <1>3, <1>4, <1>7, <2>1 DEF Stopped, Progress
  <2>5. /\ Len(new.fills) = k + 1 /\ \A j \in 1..k : new.fills[j] = acc.fills[j]
        /\ new.fills[k + 1] = [offer |-> o, base |-> base]
    BY <1>3, <2>3, <2>4, AppendProperties
  <2>6. Total(new.fills) = Total(acc.fills) + base /\ Total(acc.fills) \in Nat
    BY <1>3, <2>3, <2>4, TotalOf
  <2>7. new.rest + Total(new.fills) = size
    BY <1>3, <2>2, <2>4, <2>6 DEF Progress
  <2>8. ASSUME NEW j \in 1..k + 1
        PROVE  /\ new.fills[j].offer = q[j] /\ new.fills[j].base \in 1..level[q[j]] /\ ~Worse(q[j], side, cap)
               /\ new.fills[j].base = level[q[j]] \/ (j = k + 1 /\ new.rest = 0)
    <3>1. CASE j = k + 1
      BY <1>1, <1>7, <2>2, <2>4, <2>5, <3>1
    <3>2. CASE j # k + 1
      <4>1. j \in 1..m /\ j \in 1..k /\ acc.rest # 0
        BY <1>7, <2>4, <3>2 DEF Stopped
      <4> QED
        BY <2>5, <4>1 DEF Progress
    <3> QED
      BY <3>1, <3>2
  <2> QED
    BY <2>4, <2>5, <2>7, <2>8 DEF Progress
<1> QED
  BY <1>5, <1>6, <1>7

\* What a sweep answers.
Swept(fills, n, q, side, size, cap) ==
  LET m == Len(fills)
  IN /\ fills \in Seq(Fill) /\ m <= n /\ Total(fills) <= size
     /\ \A j \in 1..m : /\ fills[j].offer = q[j] /\ fills[j].base \in 1..level[q[j]] /\ ~Worse(q[j], side, cap)
                        /\ fills[j].base = level[q[j]] \/ (j = m /\ Total(fills) = size)
     /\ Total(fills) < size => m = n \/ Worse(q[m + 1], side, cap)

LEMMA SweepAnswers ==
  ASSUME BookOK, NEW side \in Sides, NEW size \in Nat, NEW cap
  PROVE  Swept(Sweep(side, size, cap), Cardinality(Against(side)), Queue(side), side, size, cap)
<1> PICK n, q : n = Cardinality(Against(side)) /\ q = Queue(side)
  OBVIOUS
<1>1. n \in Nat /\ q \in [1..n -> Against(side)]
  BY QueueSorted
<1>2. PICK f : SweepLoop(f, n, q, side, size, cap) /\ Sweep(side, size, cap) = f[n].fills
  BY SweepIsLoop
<1>3. f \in [0..n -> Acc] /\ f[0] = Start(size) /\ \A k \in 1..n : f[k] = Visit(f[k - 1], q[k], side, cap)
  BY <1>2 DEF SweepLoop
<1> DEFINE K == {k \in Nat : k <= n => Progress(f[k], k, q, side, size, cap)}
<1>4. 0 \in K
  <2>1. PICK acc : acc = f[0]
    OBVIOUS
  <2>2. acc.rest = size /\ acc.over = FALSE /\ acc.fills = <<>>
    BY <1>3, <2>1 DEF Start
  <2>3. Total(acc.fills) = 0 /\ Len(acc.fills) = 0
    BY <2>2, TotalOf
  <2>4. Progress(acc, 0, q, side, size, cap)
    BY <2>2, <2>3 DEF Progress
  <2> QED
    BY <2>1, <2>4
<1>5. ASSUME NEW k \in Nat, k \in K PROVE k + 1 \in K
  <2> SUFFICES ASSUME k + 1 <= n PROVE Progress(f[k + 1], k + 1, q, side, size, cap)
    OBVIOUS
  <2>1. k \in 0..n /\ k + 1 \in 1..n /\ k + 1 - 1 = k /\ Progress(f[k], k, q, side, size, cap)
    BY <1>1, <1>5
  <2>2. PICK acc, new : acc = f[k] /\ new = f[k + 1]
    OBVIOUS
  <2>3. acc \in Acc /\ Progress(acc, k, q, side, size, cap)
    BY <1>3, <2>1, <2>2
  <2>4. q[k + 1] \in Against(side)
    BY <1>1, <2>1
  <2>5. new = Visit(acc, q[k + 1], side, cap)
    <3>1. \A i \in 1..n : f[i] = Visit(f[i - 1], q[i], side, cap)
      BY <1>3
    <3> QED
      BY <2>1, <2>2, <3>1
  <2>6. Progress(new, k + 1, q, side, size, cap)
    BY <2>3, <2>4, <2>5, ProgressStep
  <2> QED
    BY <2>2, <2>6
<1> HIDE DEF K
<1>6. n \in K
  BY <1>1, <1>4, <1>5, Reaches
<1>7. PICK acc \in Acc : acc = f[n]
  BY <1>1, <1>3
<1>8. Progress(acc, n, q, side, size, cap)
  BY <1>1, <1>6, <1>7 DEF K
<1>9. PICK fills, m, total : fills = acc.fills /\ m = Len(fills) /\ total = Total(fills)
  OBVIOUS
<1>10. fills \in Seq(Fill) /\ m \in Nat /\ acc.rest \in Nat /\ acc.over \in BOOLEAN /\ total \in Nat
  BY <1>9, TotalOf, LenProperties DEF Acc
<1>11. acc.rest + total = size /\ m <= n
  BY <1>8, <1>9 DEF Progress
<1>12. total <= size /\ (acc.rest = 0 => total = size) /\ (total < size => acc.rest # 0)
  BY <1>10, <1>11
<1>13. total < size => m = n \/ Worse(q[m + 1], side, cap)
  BY <1>8, <1>9, <1>10, <1>12 DEF Progress, Stopped
<1>14. \A j \in 1..m : /\ fills[j].offer = q[j] /\ fills[j].base \in 1..level[q[j]] /\ ~Worse(q[j], side, cap)
                       /\ fills[j].base = level[q[j]] \/ (j = m /\ total = size)
  BY <1>8, <1>9, <1>12 DEF Progress
<1>15. Swept(fills, n, q, side, size, cap)
  BY <1>9, <1>10, <1>11, <1>12, <1>13, <1>14 DEF Swept
<1> QED
  BY <1>2, <1>7, <1>9, <1>15

\* A fill for each offer, at most.
Distinct(fills) == \A j, k \in 1..Len(fills) : fills[j].offer = fills[k].offer => j = k

LEMMA AskedIs ==
  ASSUME NEW fills \in Seq(Fill), NEW o
  PROVE  /\ Asked(o, fills) \in Nat
         /\ (\A k \in 1..Len(fills) : fills[k].offer # o) => Asked(o, fills) = 0
         /\ Distinct(fills) => \A k \in 1..Len(fills) : fills[k].offer = o => Asked(o, fills) = fills[k].base
<1>1. DOMAIN fills = 1..Len(fills) /\ Len(fills) \in Nat
  BY LenProperties
<1>2. \A k \in 1..Len(fills) : fills[k] \in Fill
  BY ElementOfSeq
<1>3. \A k \in 1..Len(fills) : Bases(fills)[k] = fills[k].base /\ Bases(fills)[k] \in Nat
  BY <1>1, <1>2 DEF Bases, Fill
<1>4. PICK T : T = {k \in DOMAIN fills : fills[k].offer = o}
  OBVIOUS
<1>5. Asked(o, fills) = Sum(T, Bases(fills)) /\ T \subseteq 1..Len(fills)
  BY <1>1, <1>4 DEF Asked
<1>6. IsFiniteSet(T)
  <2>1. 1 \in Int /\ Len(fills) \in Int
    BY <1>1
  <2>2. IsFiniteSet(1..Len(fills)) /\ T \in SUBSET (1..Len(fills))
    BY <1>5, <2>1, FS_Interval
  <2> QED
    BY <2>2, FS_Subset
<1>7. Asked(o, fills) \in Nat
  BY <1>3, <1>5, <1>6, UnitsFinite
<1>8. ASSUME \A k \in 1..Len(fills) : fills[k].offer # o PROVE Asked(o, fills) = 0
  <2>1. T = {}
    BY <1>1, <1>4, <1>8
  <2> QED
    BY <1>5, <2>1, SumEmpty
<1>9. ASSUME Distinct(fills), NEW k \in 1..Len(fills), fills[k].offer = o PROVE Asked(o, fills) = fills[k].base
  <2>1. T = {k}
    BY <1>1, <1>4, <1>9 DEF Distinct
  <2> QED
    BY <1>3, <1>5, <2>1, SumOne
<1> QED
  BY <1>7, <1>8, <1>9

\* A sweep has one fill for an offer, of no more than its level.
LEMMA SweepDistinct ==
  ASSUME BookOK, NEW side \in Sides, NEW size \in Nat, NEW cap, NEW fills, fills = Sweep(side, size, cap)
  PROVE  /\ fills \in Seq(Fill) /\ Distinct(fills)
         /\ \A j \in 1..Len(fills) : fills[j].base \in 1..level[fills[j].offer] /\ fills[j].offer.side # side
<1> PICK n, q : n = Cardinality(Against(side)) /\ q = Queue(side)
  OBVIOUS
<1>1. /\ n \in Nat /\ q \in [1..n -> Against(side)]
      /\ \A j, k \in 1..n : j < k => Before(q[j], q[k]) /\ q[j] # q[k]
  BY QueueSorted
<1>2. Swept(fills, n, q, side, size, cap)
  BY SweepAnswers
<1>3. fills \in Seq(Fill) /\ Len(fills) <= n
      /\ \A j \in 1..Len(fills) : fills[j].offer = q[j] /\ fills[j].base \in 1..level[q[j]]
  BY <1>2 DEF Swept
<1>4. Len(fills) \in Nat
  BY <1>3, LenProperties
<1>5. \A j \in 1..Len(fills) : j \in 1..n
  BY <1>1, <1>3, <1>4
<1>6. \A j, k \in 1..n : q[j] = q[k] => j = k
  BY <1>1
<1>7. Distinct(fills)
  BY <1>3, <1>5, <1>6 DEF Distinct
<1>8. \A j \in 1..n : q[j].side # side
  BY <1>1 DEF Against
<1> QED
  BY <1>3, <1>5, <1>7, <1>8

\* The sweep of any book is the best there is, whatever is asked of it.
Best(side, size, cap) ==
  LET fills == Sweep(side, size, cap)
      got(o) == Asked(o, fills)
      fits(o) == cap = NoCap \/ (IF side = "BUY" THEN o.ticks <= cap ELSE o.ticks >= cap)
      allowed == {o \in Offers : o.side # side /\ fits(o)}
      depth == Sum(allowed, level)
  IN /\ \A o \in Offers : got(o) <= level[o] /\ (got(o) > 0 => o \in allowed)
     /\ Total(fills) = Min({size, depth})
     /\ \A o, p \in allowed : Before(o, p) /\ got(p) > 0 => got(o) = level[o]

LEMMA SweepBest ==
  ASSUME BookOK, NEW side \in Sides, NEW size \in Nat, NEW cap \in Nat
  PROVE  Best(side, size, cap)
<1> PICK n, q : n = Cardinality(Against(side)) /\ q = Queue(side)
  OBVIOUS
<1>1. /\ n \in Nat /\ q \in [1..n -> Against(side)]
      /\ \A j, k \in 1..n : j < k => Before(q[j], q[k]) /\ q[j] # q[k]
      /\ \A o \in Against(side) : \E k \in 1..n : q[k] = o
  BY QueueSorted
<1> PICK fills, m, total : fills = Sweep(side, size, cap) /\ m = Len(fills) /\ total = Total(fills)
  OBVIOUS
<1> DEFINE fits(o) == cap = NoCap \/ (IF side = "BUY" THEN o.ticks <= cap ELSE o.ticks >= cap)
<1> PICK allowed : allowed = {o \in Offers : o.side # side /\ fits(o)}
  OBVIOUS
<1>2. \A o \in Offers : /\ o.ticks \in Nat /\ o.ts \in Nat /\ o.side \in {"BUY", "SELL"} /\ level[o] \in Nat
                        /\ o \in Against(side) <=> (o.side # side /\ level[o] > 0)
  BY OffersAssumption DEF Against, BookOK
<1>3. /\ fills \in Seq(Fill) /\ m <= n /\ total <= size
      /\ \A j \in 1..m : /\ fills[j].offer = q[j] /\ fills[j].base \in 1..level[q[j]] /\ ~Worse(q[j], side, cap)
                         /\ fills[j].base = level[q[j]] \/ (j = m /\ total = size)
      /\ total < size => m = n \/ Worse(q[m + 1], side, cap)
  <2>1. Swept(fills, n, q, side, size, cap)
    BY SweepAnswers
  <2> QED
    BY <2>1 DEF Swept
<1>4. m \in Nat /\ DOMAIN fills = 1..m /\ total \in Nat /\ \A j \in 1..m : j \in 1..n
  BY <1>1, <1>3, LenProperties, TotalOf
<1>5. \A j \in 1..n : q[j] \in Offers /\ q[j].side # side /\ level[q[j]] \in Nat /\ level[q[j]] > 0
  BY <1>2, <1>1 DEF Against
<1>6. Distinct(fills)
  BY SweepDistinct
<1>7. \A o \in Offers : Worse(o, side, cap) <=> ~fits(o)
  BY <1>2 DEF Worse, Sides, NoCap
<1> HIDE DEF fits
\* What is filled is allowed, and no more of it than there is.
<1>8. \A j \in 1..m : q[j] \in allowed /\ Asked(q[j], fills) = fills[j].base /\ fills[j].base \in 1..level[q[j]]
  <2> SUFFICES ASSUME NEW j \in 1..m
               PROVE  q[j] \in allowed /\ Asked(q[j], fills) = fills[j].base /\ fills[j].base \in 1..level[q[j]]
    OBVIOUS
  <2>1. j \in 1..n /\ fills[j].offer = q[j] /\ fills[j].base \in 1..level[q[j]] /\ ~Worse(q[j], side, cap)
    BY <1>3, <1>4
  <2>2. q[j] \in allowed
    BY <1>5, <1>7, <2>1
  <2>3. Asked(q[j], fills) = fills[j].base
    BY <1>3, <1>6, <2>1, AskedIs
  <2> QED
    BY <2>1, <2>2, <2>3
<1>9. \A o \in Offers : Asked(o, fills) > 0 => \E j \in 1..m : q[j] = o
  <2> SUFFICES ASSUME NEW o \in Offers, \A j \in 1..m : q[j] # o
               PROVE  ~(Asked(o, fills) > 0)
    OBVIOUS
  <2>1. Asked(o, fills) = 0
    BY <1>3, AskedIs
  <2> QED
    BY <2>1
<1>10. ASSUME NEW o \in Offers
       PROVE  Asked(o, fills) <= level[o] /\ (Asked(o, fills) > 0 => o \in allowed)
  <2>1. Asked(o, fills) \in Nat /\ level[o] \in Nat
    BY <1>2, <1>3, AskedIs
  <2>2. CASE Asked(o, fills) > 0
    BY <1>8, <1>9, <2>2
  <2>3. CASE ~(Asked(o, fills) > 0)
    BY <2>1, <2>3
  <2> QED
    BY <2>2, <2>3
\* A better level than one that is touched is used up.
<1>11. ASSUME NEW o \in allowed, NEW p \in allowed, Before(o, p), Asked(p, fills) > 0
       PROVE  Asked(o, fills) = level[o]
  <2>1. o \in Offers /\ p \in Offers /\ o.side # side /\ p.side # side /\ o.side = p.side
    BY <1>2 DEF Sides
  <2>2. PICK j \in 1..m : q[j] = p
    BY <1>9, <1>11, <2>1
  <2>3. CASE level[o] = 0
    <3>1. Asked(o, fills) \in Nat /\ Asked(o, fills) <= level[o]
      BY <1>3, <1>10, <2>1, AskedIs
    <3> QED
      BY <2>3, <3>1
  <2>4. CASE level[o] # 0
    <3>1. o \in Against(side)
      BY <1>2, <2>1, <2>4
    <3>2. PICK k \in 1..n : q[k] = o
      BY <1>1, <3>1
    <3>3. ~Before(p, o) /\ ~Before(o, o)
      BY <1>2, <1>11, <2>1 DEF Before
    <3>4. k < j
      BY <1>1, <1>4, <1>11, <2>2, <3>2, <3>3
    <3>5. k \in 1..m /\ k # m
      BY <1>4, <3>4
    <3>6. fills[k].base = level[q[k]]
      BY <1>3, <3>5
    <3> QED
      BY <1>8, <3>2, <3>5, <3>6
  <2> QED
    BY <2>3, <2>4
\* The fills are matched with the levels they take from; if they are less than
\* the size, no level that is allowed is without its fill.
<1>12. PICK depth : depth = Sum(allowed, level)
  OBVIOUS
<1>13. IsFiniteSet(allowed) /\ IsFiniteSet(1..m)
  <2>1. allowed \in SUBSET Offers /\ 1 \in Int /\ m \in Int
    BY <1>4
  <2> QED
    BY <2>1, OffersAssumption, FS_Subset, FS_Interval
<1>14. depth \in Nat
  <2>1. \A o \in allowed : level[o] \in Nat
    BY <1>2
  <2> QED
    BY <1>12, <1>13, <2>1, UnitsFinite
<1>15. PICK a : a = Bases(fills)
  OBVIOUS
<1>16. total = Sum(1..m, a) /\ \A j \in 1..m : a[j] = fills[j].base /\ a[j] \in Nat
  <2>1. \A j \in 1..m : fills[j].base \in Nat
    BY <1>3, ElementOfSeq DEF Fill
  <2> QED
    BY <1>4, <1>15, <2>1 DEF Total, Bases
<1>17. total <= depth
  <2> DEFINE h == [j \in 1..m |-> q[j]]
  <2>1. h \in [1..m -> allowed]
    BY <1>8
  <2>2. \A i, j \in 1..m : h[i] = h[j] => i = j
    BY <1>3, <1>6 DEF Distinct
  <2>3. \A j \in 1..m : a[j] \in Nat /\ a[j] <= level[h[j]]
    <3>1. \A j \in 1..m : level[q[j]] \in Nat /\ a[j] \in 1..level[q[j]]
      BY <1>3, <1>4, <1>5, <1>16
    <3> QED
      BY <1>16, <3>1
  <2>4. \A o \in allowed : level[o] \in Nat
    BY <1>2
  <2> HIDE DEF h
  <2>5. Sum(1..m, a) <= Sum(allowed, level)
    BY <1>13, <2>1, <2>2, <2>3, <2>4, SumMatched
  <2> QED
    BY <1>12, <1>16, <2>5
<1>18. ASSUME total < size PROVE depth <= total
  <2> DEFINE G == {o \in allowed : level[o] > 0}
             h == [o \in G |-> CHOOSE j \in 1..m : q[j] = o]
  <2>1. ASSUME NEW o \in G PROVE \E j \in 1..m : q[j] = o
    <3>1. o \in Offers /\ o.side # side /\ ~Worse(o, side, cap) /\ o \in Against(side)
      BY <1>2, <1>7
    <3>2. PICK k \in 1..n : q[k] = o
      BY <1>1, <3>1
    <3>3. CASE k <= m
      BY <1>4, <3>2, <3>3
    <3>4. CASE k > m
      <4>1. m # n /\ m + 1 \in 1..n /\ (k = m + 1 \/ m + 1 < k)
        BY <1>1, <1>4, <3>4
      <4>2. Worse(q[m + 1], side, cap)
        BY <1>3, <1>18, <4>1
      <4>3. k # m + 1 /\ Before(q[m + 1], q[k])
        BY <1>1, <3>1, <3>2, <4>1, <4>2
      <4>4. PICK w : w = q[m + 1]
        OBVIOUS
      <4>5. w \in Offers /\ w.side # side /\ Before(w, o) /\ Worse(w, side, cap)
        BY <1>5, <3>2, <4>1, <4>2, <4>3, <4>4
      <4>6. Worse(o, side, cap)
        BY <1>2, <3>1, <4>5 DEF Before, Worse, Sides, NoCap
      <4> QED
        BY <3>1, <4>6
    <3> QED
      BY <1>4, <3>3, <3>4
  <2>2. h \in [G -> 1..m] /\ \A o \in G : q[h[o]] = o
    BY <2>1
  <2> HIDE DEF h
  <2>3. \A o, p \in G : h[o] = h[p] => o = p
    BY <2>2
  <2>4. \A o \in G : level[o] \in Nat /\ level[o] <= a[h[o]]
    <3> SUFFICES ASSUME NEW o \in G PROVE level[o] \in Nat /\ level[o] <= a[h[o]]
      OBVIOUS
    <3>1. PICK j \in 1..m : j = h[o] /\ q[j] = o
      BY <2>2
    <3>2. a[j] = level[o]
      BY <1>3, <1>16, <1>18, <3>1
    <3> QED
      BY <1>2, <3>1, <3>2
  <2>5. \A j \in 1..m : a[j] \in Nat
    BY <1>16
  <2>6. Sum(allowed, level) = Sum(G, level)
    <3>1. \A o \in allowed : level[o] \in Nat
      BY <1>2
    <3> QED
      BY <3>1, SumPositive
  <2> HIDE DEF G
  <2>7. Sum(G, level) <= Sum(1..m, a)
    BY <1>13, <2>2, <2>3, <2>4, <2>5, SumMatched
  <2> QED
    BY <1>12, <1>16, <2>6, <2>7
<1>19. total = Min({size, depth})
  <2>1. Min({size, depth}) = IF size <= depth THEN size ELSE depth
    BY <1>14, MinOf
  <2> QED
    BY <1>3, <1>4, <1>14, <1>17, <1>18, <2>1
<1> QED
  BY <1>10, <1>11, <1>12, <1>19 DEF Best, fits

-----------------------------------------------------------------------------
\* Types.

\* One fill for an offer, and there is one.
PlanTyped(p) ==
  p # NoPlan => /\ p.id \in 1..MaxQuotes /\ p.for \in Inputs /\ p.late \in BOOLEAN
                /\ p.fills \in Seq(Fill) /\ p.fills # <<>> /\ Distinct(p.fills)
RequestTyped(r) == (InFlight(r) => r.for \in Inputs) /\ (r.step = "answered" => PlanTyped(r.plan))
RunTyped(j) ==
  Running(j) => PlanTyped(j.plan) /\ j.plan # NoPlan /\ j.next \in 1..Len(Transactions(j.plan.fills))
BookTyped(book) == book \in [Offers -> Nat] /\ \A o \in Offers : book[o] <= o.size
Sent == mempool \cup mined
Approvals == [needed : BOOLEAN, token : BOOLEAN]
JobSteps == {"idle", "asked", "answered", "reading", "approving", "signing", "waiting", "applying"}
CheckSteps == {"idle", "asked", "answered"}
CheckTyped(r) == r.step \in CheckSteps /\ RequestTyped(r)
ChecksTyped(k) == \A c \in Checks : CheckTyped(k[c])

PanelTyped ==
  /\ mode \in {"MARKET", "LIMIT"} /\ inputs \in Inputs /\ approval \in Approvals /\ PlanTyped(plan)
  /\ job.step \in JobSteps /\ RequestTyped(job) /\ RunTyped(job)
  /\ ChecksTyped(check)
MarketTyped == BookTyped(level) /\ BookTyped(left) /\ raw \in [Offers -> BOOLEAN] /\ env \in Deployments
ChainTyped == \A x \in Sent : x.fills \in Seq(Fill) /\ x.run \in 0..MaxRuns
CountsTyped == quotes \in 0..MaxQuotes /\ runs \in 0..MaxRuns
TypesInv == PanelTyped /\ MarketTyped /\ ChainTyped /\ CountsTyped

LEMMA BookTypedOK == MarketTyped => BookOK
BY DEF MarketTyped, BookTyped, BookOK

LEMMA InputsAre ==
  ASSUME NEW i \in Inputs
  PROVE  /\ i.side \in Sides /\ i.size \in Nat /\ i.size > 0 /\ i.cap \in Nat /\ i.cap \in Caps /\ i.size \in Sizes
         /\ i.tif \in {"IOC", "FOK"} /\ i = [side |-> i.side, size |-> i.size, tif |-> i.tif, cap |-> i.cap]
<1>1. i.side \in Sides /\ i.size \in Sizes /\ i.tif \in {"IOC", "FOK"} /\ i.cap \in Caps
  BY DEF Inputs
<1>2. i = [side |-> i.side, size |-> i.size, tif |-> i.tif, cap |-> i.cap]
  BY DEF Inputs
<1> QED
  BY <1>1, <1>2, InputsAssumption

LEMMA TypesInit == Init => TypesInv
<1> SUFFICES ASSUME Init PROVE TypesInv
  OBVIOUS
<1>1. \A o \in Offers : o.size \in Nat /\ 0 <= o.size
  BY OffersAssumption
<1>2. BookTyped(level) /\ BookTyped(left) /\ raw \in [Offers -> BOOLEAN]
  BY <1>1 DEF Init, BookTyped
<1>3. PanelTyped
  BY DEF Init, PanelTyped, ChecksTyped, CheckTyped, PlanTyped, RequestTyped, RunTyped, Running, InFlight, Idle, NoPlan, NoApproval, Approvals, JobSteps, CheckSteps
<1>4. ChainTyped /\ CountsTyped
  BY BoundsAssumption DEF Init, ChainTyped, Sent, CountsTyped
<1> QED
  BY <1>2, <1>3, <1>4 DEF Init, TypesInv, MarketTyped

\* What the transactions of a plan fill is what the plan does, each offer in one
\* of them.
Touches(fills) == {fills[k].offer : k \in DOMAIN fills}

LEMMA TransactionsAre ==
  ASSUME NEW fills \in Seq(Fill), fills # <<>>, NEW T, T = Transactions(fills)
  PROVE  /\ Len(T) \in Nat \ {0} /\ \A k \in 1..Len(T) : T[k] \in Seq(Fill)
         /\ Distinct(fills) => \A j, k \in 1..Len(T) : j # k => Touches(T[j]) \cap Touches(T[k]) = {}
<1>1. Len(fills) \in Nat /\ DOMAIN fills = 1..Len(fills) /\ Len(fills) # 0
  BY LenProperties, EmptySeq
<1>2. CASE T = <<fills>>
  <2>1. Len(T) = 1 /\ T[1] = fills /\ \A k \in 1..Len(T) : k = 1
    BY <1>2
  <2> QED
    BY <2>1
<1>3. CASE T = [k \in DOMAIN fills |-> <<fills[k]>>]
  <2>1. \A k \in 1..Len(fills) : fills[k] \in Fill
    BY ElementOfSeq
  <2>2. \A k \in 1..Len(fills) : T[k] = <<fills[k]>> /\ <<fills[k]>> \in Seq(Fill)
    BY <1>1, <1>3, <2>1
  <2>3. T \in [1..Len(fills) -> Seq(Fill)]
    BY <1>1, <1>3, <2>2
  <2>4. T \in Seq(Seq(Fill))
    BY <1>1, <2>3, SeqDef
  <2>5. Len(T) = Len(fills)
    BY <1>1, <2>3, <2>4, LenProperties
  <2>6. \A k \in 1..Len(fills) : Touches(T[k]) = {fills[k].offer}
    BY <2>2 DEF Touches
  <2>7. ASSUME Distinct(fills), NEW j \in 1..Len(T), NEW k \in 1..Len(T), j # k
        PROVE  Touches(T[j]) \cap Touches(T[k]) = {}
    BY <2>5, <2>6, <2>7 DEF Distinct
  <2>8. \A k \in 1..Len(T) : T[k] \in Seq(Fill)
    BY <2>2, <2>5
  <2>9. Len(T) \in Nat \ {0}
    BY <1>1, <2>5
  <2> QED
    BY <2>7, <2>8, <2>9
<1> QED
  BY <1>2, <1>3 DEF Transactions

\* What the API answers is typed.
LEMMA AnswerTyped ==
  ASSUME MarketTyped, NEW r, r.for \in Inputs, NEW a \in Answer(r), quotes \in Nat, quotes < MaxQuotes
  PROVE  PlanTyped(a)
<1> SUFFICES ASSUME a # NoPlan PROVE PlanTyped(a)
  BY DEF PlanTyped
<1>1. PICK i, fills : i = r.for /\ fills = Sweep(i.side, i.size, i.cap)
  OBVIOUS
<1>2. a = [id |-> quotes + 1, for |-> i, fills |-> fills, late |-> FALSE] /\ fills # <<>>
  BY <1>1 DEF Answer, QuoteAnswer, Buildable
<1>3. i \in Inputs /\ i.side \in Sides /\ i.size \in Nat
  BY <1>1, InputsAre
<1>4. fills \in Seq(Fill) /\ Distinct(fills)
  BY <1>1, <1>3, BookTypedOK, SweepDistinct
<1>5. quotes + 1 \in 1..MaxQuotes
  BY BoundsAssumption
<1> QED
  BY <1>2, <1>3, <1>4, <1>5 DEF PlanTyped

\* What is taken of a book leaves a book.
LEMMA AtMostIs ==
  ASSUME NEW b \in Nat, NEW t \in Nat
  PROVE  AtMost(b, t) \in Nat /\ AtMost(b, t) <= t /\ AtMost(b, t) <= b
BY MinOf DEF AtMost

LEMMA DeductTyped ==
  ASSUME NEW book, BookTyped(book), NEW fills \in Seq(Fill)
  PROVE  BookTyped(Deduct(book, fills))
<1>1. ASSUME NEW o \in Offers
      PROVE  book[o] - AtMost(Asked(o, fills), book[o]) \in Nat /\ book[o] - AtMost(Asked(o, fills), book[o]) <= o.size
  <2>1. book[o] \in Nat /\ book[o] <= o.size /\ o.size \in Nat
    BY OffersAssumption DEF BookTyped
  <2>2. PICK d : d = AtMost(Asked(o, fills), book[o])
    OBVIOUS
  <2>3. d \in Nat /\ d <= book[o]
    BY <2>1, <2>2, AskedIs, AtMostIs
  <2> QED
    BY <2>1, <2>2, <2>3
<1> QED
  BY <1>1 DEF Deduct, BookTyped

\* What a block fills of a transaction.
LEMMA MinedFills ==
  ASSUME BookTyped(left), NEW fills \in Seq(Fill), NEW done,
         done = [k \in DOMAIN fills |-> [fills[k] EXCEPT !.base = AtMost(@, left[fills[k].offer])]]
  PROVE  done \in Seq(Fill) /\ DOMAIN done = DOMAIN fills /\ Touches(done) = Touches(fills)
<1>1. Len(fills) \in Nat /\ DOMAIN fills = 1..Len(fills)
  BY LenProperties
<1>2. ASSUME NEW k \in 1..Len(fills)
      PROVE  done[k] \in Fill /\ done[k].offer = fills[k].offer
  <2>1. PICK o, b : fills[k] = [offer |-> o, base |-> b] /\ o \in Offers /\ b \in Nat
    <3>1. fills[k] \in Fill
      BY ElementOfSeq
    <3> QED
      BY <3>1 DEF Fill
  <2>2. PICK c : c = AtMost(b, left[o])
    OBVIOUS
  <2>3. left[o] \in Nat /\ c \in Nat
    BY <2>1, <2>2, AtMostIs DEF BookTyped
  <2>4. done[k] = [fills[k] EXCEPT !.base = AtMost(@, left[fills[k].offer])]
    BY <1>1
  <2>5. done[k] = [offer |-> o, base |-> c]
    BY <2>1, <2>2, <2>4
  <2> QED
    BY <2>1, <2>3, <2>5 DEF Fill
<1>3. done \in [1..Len(fills) -> Fill]
  BY <1>1, <1>2
<1>4. done \in Seq(Fill) /\ DOMAIN done = DOMAIN fills
  BY <1>1, <1>3, SeqDef
<1>5. Touches(done) = Touches(fills)
  BY <1>1, <1>2, <1>4 DEF Touches
<1> QED
  BY <1>4, <1>5

-----------------------------------------------------------------------------
\* The panel's steps keep the types: what a step makes of the plan, the job and
\* the checks is what has to be looked at.
LEMMA TransactionsStay ==
  ASSUME env' = env, NEW fills
  PROVE  Transactions(fills)' = Transactions(fills)
BY DEF Transactions

LEMMA RunStaysTyped ==
  ASSUME env' = env, NEW j, RunTyped(j)
  PROVE  RunTyped(j)'
<1>1. PICK fills : fills = j.plan.fills
  OBVIOUS
<1>2. Transactions(fills)' = Transactions(fills)
  BY TransactionsStay
<1> QED
  BY <1>1, <1>2 DEF RunTyped, Running, PlanTyped

\* The panel, with a plan p, an approval a, a job j and checks k.
PanelAs(p, a, j, k) ==
  /\ PlanTyped(p) /\ a \in Approvals /\ j.step \in JobSteps /\ RequestTyped(j) /\ RunTyped(j)
  /\ ChecksTyped(k)

LEMMA PanelIs == PanelTyped => PanelAs(plan, approval, job, check)
BY DEF PanelTyped, PanelAs

LEMMA PanelGoes ==
  ASSUME TypesInv, NEW p, NEW a, NEW j, NEW k, PanelAs(p, a, j, k),
         plan' = p, approval' = a, job' = j, check' = k, mode' \in {"MARKET", "LIMIT"}, inputs' \in Inputs,
         UNCHANGED <<market, env, mempool, mined>>, CountsTyped'
  PROVE  TypesInv'
<1>1. RunTyped(j)'
  BY RunStaysTyped DEF PanelAs
<1>2. PanelTyped'
  BY <1>1 DEF PanelTyped, PanelAs, ChecksTyped, CheckTyped, PlanTyped, RequestTyped, RunTyped, InFlight, Running
<1>3. MarketTyped' /\ ChainTyped'
  BY DEF TypesInv, MarketTyped, ChainTyped, BookTyped, Sent, market
<1> QED
  BY <1>2, <1>3 DEF TypesInv

LEMMA ChangeTyped ==
  ASSUME TypesInv, PanelInv, NEW i \in Inputs, Change(i), mode' \in {"MARKET", "LIMIT"}
  PROVE  TypesInv'
<1>1. PICK j, k, o, u : j = job /\ k = check /\ o = job' /\ u = check'
  OBVIOUS
<1>2. Shape(j) /\ o = Outrun(j, i)
  BY <1>1 DEF PanelInv, HookInv, RequestOK, Change
<1>3. Moved(j, i, o)
  BY <1>2, OutrunMoves
<1>4. ChecksTyped(u)
  <2>1. ASSUME NEW c \in Checks
        PROVE  CheckTyped(u[c])
    <3>1. PICK r, q : r = k[c] /\ q = u[c]
      OBVIOUS
    <3>2. Shape(r) /\ q = Outrun(r, i) /\ CheckTyped(r)
      BY <1>1, <3>1 DEF PanelInv, HookInv, ChecksOK, RequestOK, Change, TypesInv, PanelTyped, ChecksTyped
    <3>3. Moved(r, i, q)
      BY <3>2, OutrunMoves
    <3>4. CheckTyped(q)
      BY <3>2, <3>3 DEF CheckTyped, RequestTyped, Moved, InFlight
    <3> QED
      BY <3>1, <3>4
  <2> QED
    BY <2>1 DEF ChecksTyped
<1>5. PICK p, a : p = plan' /\ a = approval'
  OBVIOUS
<1>6. (p = NoPlan /\ a = NoApproval) \/ (p = plan /\ a = approval)
  BY <1>5 DEF Change
<1>7. PlanTyped(p) /\ a \in Approvals
  <2>1. PlanTyped(NoPlan) /\ NoApproval \in Approvals
    BY DEF PlanTyped, NoApproval, Approvals
  <2> QED
    BY <1>6, <2>1 DEF TypesInv, PanelTyped
<1>8. RequestTyped(o) /\ o.step \in JobSteps
  BY <1>1, <1>3 DEF TypesInv, PanelTyped, RequestTyped, Moved, InFlight
<1>9. RunTyped(o)
  <2>1. CASE Running(o)
    <3>1. o = j
      BY <1>3, <2>1 DEF Moved, Running, InFlight
    <3> QED
      BY <1>1, <3>1 DEF TypesInv, PanelTyped
  <2> QED
    BY <2>1 DEF RunTyped
<1>10. PanelAs(p, a, o, u)
  BY <1>7, <1>8, <1>9, <1>4 DEF PanelAs
<1>11. UNCHANGED <<market, env, mempool, mined, quotes, runs>> /\ inputs' = i
  BY DEF Change, chain
<1>12. CountsTyped'
  BY <1>11 DEF TypesInv, CountsTyped
<1> QED
  BY <1>1, <1>5, <1>10, <1>11, <1>12, PanelGoes

LEMMA InputsTyped ==
  ASSUME TypesInv, PanelInv, Edit \/ Pick \/ CancelCap \/ LeaveMarket \/ EnterMarket \/ RouteLimit
  PROVE  TypesInv'
<1>1. inputs \in Inputs /\ mode \in {"MARKET", "LIMIT"}
  BY DEF TypesInv, PanelTyped
<1>2. PICK n : n = inputs
  OBVIOUS
<1>3. inputs.side \in Sides /\ inputs.size \in Sizes
  BY <1>1 DEF Inputs
<1>4. NoCap \in Caps
  BY InputsAssumption
<1>5. ASSUME NEW side \in Sides, NEW size \in Sizes, Resized(side, size), mode' = mode
      PROVE  TypesInv'
  <2>1. PICK i : i = [n EXCEPT !.side = side, !.size = size, !.cap = IF side = n.side THEN @ ELSE NoCap]
    OBVIOUS
  <2>2. i \in Inputs
    BY <1>1, <1>2, <1>4, <2>1 DEF Inputs
  <2>3. Change(i)
    BY <1>2, <1>5, <2>1 DEF Resized
  <2> QED
    BY <1>1, <1>5, <2>2, <2>3, ChangeTyped
<1>6. ASSUME NEW tif \in {"IOC", "FOK"}, NEW cap \in Caps, Change([inputs EXCEPT !.cap = cap, !.tif = tif]), mode' \in {"MARKET", "LIMIT"}
      PROVE  TypesInv'
  <2>1. PICK i : i = [n EXCEPT !.cap = cap, !.tif = tif]
    OBVIOUS
  <2>2. i \in Inputs
    BY <1>1, <1>2, <2>1 DEF Inputs
  <2> QED
    BY <1>2, <1>6, <2>1, <2>2, ChangeTyped
<1>7. ASSUME NEW cap \in Caps, Change([inputs EXCEPT !.cap = cap]), mode' \in {"MARKET", "LIMIT"}
      PROVE  TypesInv'
  <2>1. PICK i : i = [n EXCEPT !.cap = cap]
    OBVIOUS
  <2>2. i \in Inputs
    BY <1>1, <1>2, <2>1 DEF Inputs
  <2> QED
    BY <1>2, <1>7, <2>1, <2>2, ChangeTyped
<1>8. ASSUME NEW tif \in {"IOC", "FOK"}, Change([inputs EXCEPT !.tif = tif]), mode' = mode
      PROVE  TypesInv'
  <2>1. PICK i : i = [n EXCEPT !.tif = tif]
    OBVIOUS
  <2>2. i \in Inputs
    BY <1>1, <1>2, <2>1 DEF Inputs
  <2> QED
    BY <1>1, <1>2, <1>8, <2>1, <2>2, ChangeTyped
<1>9. CASE Edit
  BY <1>3, <1>5, <1>8, <1>9 DEF Edit
<1>10. CASE Pick
  BY <1>5, <1>10 DEF Pick
<1>11. CASE CancelCap \/ LeaveMarket
  BY <1>1, <1>4, <1>7, <1>11 DEF CancelCap, LeaveMarket
<1>12. CASE RouteLimit
  <2>1. PICK ticks \in Caps : mode' = "MARKET" /\ Change([inputs EXCEPT !.cap = ticks, !.tif = "IOC"])
    BY <1>12 DEF RouteLimit
  <2> QED
    BY <1>6, <2>1
<1>13. CASE EnterMarket
  <2>1. UNCHANGED <<market, env, inputs, plan, approval, job, check, mempool, mined, quotes, runs>> /\ mode' = "MARKET"
    BY <1>13 DEF EnterMarket, chain, counts
  <2>2. CountsTyped'
    BY <2>1 DEF TypesInv, CountsTyped
  <2>3. PICK p, a, j, k : p = plan /\ a = approval /\ j = job /\ k = check
    OBVIOUS
  <2>4. PanelAs(p, a, j, k)
    BY <2>3, PanelIs DEF TypesInv
  <2> QED
    BY <1>1, <2>1, <2>2, <2>3, <2>4, PanelGoes
<1> QED
  BY <1>9, <1>10, <1>11, <1>12, <1>13

LEMMA QuietGoes ==
  ASSUME TypesInv, Quiet, NEW p, NEW a, NEW j, NEW k, PanelAs(p, a, j, k),
         plan' = p, approval' = a, job' = j, check' = k, CountsTyped'
  PROVE  TypesInv'
<1>1. mode' \in {"MARKET", "LIMIT"} /\ inputs' \in Inputs /\ UNCHANGED <<market, env, mempool, mined>>
  BY DEF Quiet, TypesInv, PanelTyped
<1> QED
  BY <1>1, PanelGoes

\* What the panel is made of before a step.
LEMMA PanelParts ==
  ASSUME TypesInv
  PROVE  /\ PlanTyped(plan) /\ approval \in Approvals /\ job.step \in JobSteps /\ RequestTyped(job) /\ RunTyped(job)
         /\ ChecksTyped(check) /\ quotes \in 0..MaxQuotes /\ runs \in 0..MaxRuns
         /\ MaxQuotes \in Nat /\ MaxRuns \in Nat /\ inputs \in Inputs
BY BoundsAssumption DEF TypesInv, PanelTyped, CountsTyped

\* A job that is no request, no answer and no run.
LEMMA PlainTyped ==
  ASSUME NEW j, j.step \in {"idle", "reading", "approving"}
  PROVE  j.step \in JobSteps /\ RequestTyped(j) /\ RunTyped(j)
BY DEF JobSteps, RequestTyped, RunTyped, InFlight, Running

LEMMA ApprovalTyped ==
  ASSUME approval \in Approvals, NEW b \in BOOLEAN
  PROVE  [approval EXCEPT !.needed = b] \in Approvals /\ [approval EXCEPT !.token = b] \in Approvals
BY DEF Approvals

\* A step of one gas check to what is typed.
LEMMA SlotTyped ==
  ASSUME PanelInv, TypesInv, NEW c \in Checks, NEW r, CheckTyped(r), check' = [check EXCEPT ![c] = r]
  PROVE  ChecksTyped(check')
BY SlotIs, PanelParts DEF ChecksTyped

LEMMA QuoteTyped ==
  ASSUME PanelInv, TypesInv, OnQuote \/ \E c \in Checks : OnCheckGas(c)
  PROVE  TypesInv'
<1>1. PICK r : r = [step |-> "asked", for |-> inputs, late |-> FALSE]
  OBVIOUS
<1>2. r.step \in JobSteps /\ CheckTyped(r) /\ RequestTyped(r) /\ RunTyped(r)
  BY <1>1, PanelParts DEF JobSteps, CheckSteps, CheckTyped, RequestTyped, RunTyped, InFlight, Running
<1>3. /\ UNCHANGED <<plan, approval, quotes, runs>> /\ Quiet
      /\ (job' = r /\ check' = check) \/ (job' = job /\ \E c \in Checks : check' = [check EXCEPT ![c] = r])
  BY <1>1 DEF OnQuote, OnCheckGas
<1>4. PICK p, a, j, k : p = plan' /\ a = approval' /\ j = job' /\ k = check'
  OBVIOUS
<1>5. ChecksTyped(k)
  BY <1>2, <1>3, <1>4, SlotTyped, PanelParts
<1>6. PanelAs(p, a, j, k)
  BY <1>2, <1>3, <1>4, <1>5, PanelParts DEF PanelAs
<1>7. CountsTyped'
  BY <1>3, PanelParts DEF CountsTyped
<1> QED
  BY <1>3, <1>4, <1>6, <1>7, QuietGoes

LEMMA ServeTyped ==
  ASSUME PanelInv, TypesInv, ServeQuote \/ \E c \in Checks : ServeCheck(c)
  PROVE  TypesInv'
<1>1. PICK q : (q = job /\ ServeQuote) \/ \E c \in Checks : q = check[c] /\ ServeCheck(c)
  OBVIOUS
<1>2. q.step = "asked" /\ RequestTyped(q) /\ quotes < MaxQuotes /\ quotes' = quotes + 1 /\ UNCHANGED <<plan, approval, runs>> /\ Quiet
  BY <1>1, PanelParts DEF ServeQuote, ServeCheck, ChecksTyped, CheckTyped
<1>3. q.for \in Inputs
  BY <1>2 DEF RequestTyped, InFlight
<1>4. PICK x \in Answer(q) :
        \/ job' = [step |-> "answered", for |-> q.for, late |-> q.late, plan |-> x] /\ check' = check
        \/ /\ job' = job
           /\ \E c \in Checks : check' = [check EXCEPT ![c] = [step |-> "answered", for |-> q.for, late |-> q.late, plan |-> x]]
  BY <1>1 DEF ServeQuote, ServeCheck
<1>5. PlanTyped(x)
  <2>1. MarketTyped /\ quotes \in Nat
    BY PanelParts DEF TypesInv
  <2> QED
    BY <1>2, <1>3, <2>1, AnswerTyped
<1>6. PICK r : r = [step |-> "answered", for |-> q.for, late |-> q.late, plan |-> x]
  OBVIOUS
<1>7. r.step \in JobSteps /\ CheckTyped(r) /\ RequestTyped(r) /\ RunTyped(r)
  BY <1>3, <1>5, <1>6 DEF JobSteps, CheckSteps, CheckTyped, RequestTyped, RunTyped, InFlight, Running
<1>8. PICK p, a, j, k : p = plan' /\ a = approval' /\ j = job' /\ k = check'
  OBVIOUS
<1>9. PanelAs(p, a, j, k)
  <2>1. /\ p = plan /\ a = approval
        /\ (j = r /\ k = check) \/ (j = job /\ \E c \in Checks : check' = [check EXCEPT ![c] = r])
    BY <1>2, <1>4, <1>6, <1>8
  <2>2. ChecksTyped(k)
    BY <1>7, <1>8, <2>1, SlotTyped, PanelParts
  <2> QED
    BY <1>7, <2>1, <2>2, PanelParts DEF PanelAs
<1>10. CountsTyped'
  BY <1>2, PanelParts DEF CountsTyped
<1> QED
  BY <1>2, <1>8, <1>9, <1>10, QuietGoes

\* The plan that is shown is the one that was answered, but for the mark.
LEMMA ShownTyped ==
  ASSUME NEW p, PlanTyped(p), p # NoPlan, NEW l \in BOOLEAN, NEW q, q = [p EXCEPT !.late = l],
         p = [id |-> p.id, for |-> p.for, fills |-> p.fills, late |-> p.late]
  PROVE  PlanTyped(q)
<1>1. q.id = p.id /\ q.for = p.for /\ q.fills = p.fills /\ q.late = l
  OBVIOUS
<1> QED
  BY <1>1 DEF PlanTyped

LEMMA ReceiveQuoteTyped ==
  ASSUME TypesInv, PanelInv, ReceiveQuote
  PROVE  TypesInv'
<1>1. job.step = "answered" /\ UNCHANGED <<check, quotes, runs>> /\ Quiet /\ job'.step \in {"idle", "reading"}
  BY DEF ReceiveQuote, Idle
<1>2. PICK x, l : x = job.plan /\ l = job.late
  OBVIOUS
<1>3. PlanTyped(x) /\ l \in BOOLEAN /\ (x # NoPlan => x = [id |-> x.id, for |-> x.for, fills |-> x.fills, late |-> x.late])
  BY <1>1, <1>2, PanelParts DEF RequestTyped, PanelInv, HookInv, RequestOK, PlanOK, InFlight
<1>4. PICK p, a, j, k : p = plan' /\ a = approval' /\ j = job' /\ k = check'
  OBVIOUS
<1>5. PlanTyped(p)
  <2>1. CASE x = NoPlan
    BY <1>2, <1>4, <2>1 DEF ReceiveQuote, PlanTyped
  <2>2. CASE x # NoPlan
    <3>1. p = [x EXCEPT !.late = l]
      BY <1>2, <1>4, <2>2 DEF ReceiveQuote
    <3> QED
      BY <1>3, <2>2, <3>1, ShownTyped
  <2> QED
    BY <2>1, <2>2
<1>6. a \in Approvals
  BY <1>4, PanelParts, ApprovalTyped DEF ReceiveQuote
<1>7. PanelAs(p, a, j, k)
  BY <1>1, <1>4, <1>5, <1>6, PlainTyped, PanelParts DEF PanelAs
<1>8. CountsTyped'
  BY <1>1, PanelParts DEF CountsTyped
<1> QED
  BY <1>1, <1>4, <1>7, <1>8, QuietGoes

LEMMA ReceiveCheckTyped ==
  ASSUME TypesInv, PanelInv, NEW c \in Checks, ReceiveCheck(c)
  PROVE  TypesInv'
<1>1. check[c].step = "answered" /\ check' = [check EXCEPT ![c] = Idle] /\ UNCHANGED <<job, approval, quotes, runs>> /\ Quiet
  BY DEF ReceiveCheck
<1>2. PICK x, l, r : x = r.plan /\ l = r.late /\ r = check[c]
  OBVIOUS
<1>3. RequestOK(r) /\ RequestTyped(r) /\ r.step = "answered"
  BY <1>1, <1>2, PanelParts DEF PanelInv, HookInv, ChecksOK, ChecksTyped, CheckTyped
<1>4. PlanTyped(x) /\ l \in BOOLEAN /\ (x # NoPlan => x = [id |-> x.id, for |-> x.for, fills |-> x.fills, late |-> x.late])
  BY <1>2, <1>3 DEF RequestTyped, RequestOK, PlanOK, InFlight
<1>5. PICK p, a, j, k : p = plan' /\ a = approval' /\ j = job' /\ k = check'
  OBVIOUS
<1>6. PlanTyped(p)
  <2>1. CASE x = NoPlan
    BY <1>2, <1>5, <2>1, PanelParts DEF ReceiveCheck
  <2>2. CASE x # NoPlan
    <3>1. p = [x EXCEPT !.late = l]
      BY <1>2, <1>5, <2>2 DEF ReceiveCheck
    <3> QED
      BY <1>4, <2>2, <3>1, ShownTyped
  <2> QED
    BY <2>1, <2>2
<1>7. ChecksTyped(k)
  <2>1. CheckTyped(Idle)
    BY DEF CheckTyped, CheckSteps, RequestTyped, InFlight, Idle
  <2> QED
    BY <1>1, <1>5, <2>1, SlotTyped
<1>8. PanelAs(p, a, j, k)
  BY <1>1, <1>5, <1>6, <1>7, PanelParts DEF PanelAs
<1>9. CountsTyped'
  BY <1>1, PanelParts DEF CountsTyped
<1> QED
  BY <1>1, <1>5, <1>8, <1>9, QuietGoes

LEMMA AllowanceTyped ==
  ASSUME TypesInv, ReadAllowance \/ OnApprove \/ Approved
  PROVE  TypesInv'
<1>1. /\ job'.step \in {"idle", "approving"} /\ UNCHANGED <<check, quotes, runs>> /\ Quiet
      /\ plan' = NoPlan \/ plan' = plan
  BY DEF ReadAllowance, OnApprove, Approved, Idle
<1>2. approval' \in Approvals
  BY PanelParts, ApprovalTyped DEF ReadAllowance, OnApprove, Approved
<1>3. PICK p, a, j, k : p = plan' /\ a = approval' /\ j = job' /\ k = check'
  OBVIOUS
<1>4. PlanTyped(p)
  <2>1. PlanTyped(NoPlan)
    BY DEF PlanTyped
  <2> QED
    BY <1>1, <1>3, <2>1, PanelParts
<1>5. PanelAs(p, a, j, k)
  BY <1>1, <1>2, <1>3, <1>4, PlainTyped, PanelParts DEF PanelAs
<1>6. CountsTyped'
  BY <1>1, PanelParts DEF CountsTyped
<1> QED
  BY <1>1, <1>3, <1>5, <1>6, QuietGoes

LEMMA OnExecuteTyped ==
  ASSUME TypesInv, OnExecute
  PROVE  TypesInv'
<1>1. plan # NoPlan /\ runs < MaxRuns /\ runs' = runs + 1 /\ UNCHANGED <<plan, approval, check, quotes>> /\ Quiet
  BY DEF OnExecute, Clicked, Cta
<1>2. PICK p, a, j, k : p = plan' /\ a = approval' /\ j = job' /\ k = check'
  OBVIOUS
<1>3. j = [step |-> "signing", plan |-> p, next |-> 1] /\ p # NoPlan /\ PlanTyped(p)
  BY <1>1, <1>2, PanelParts DEF OnExecute
<1>4. PICK T : T = Transactions(p.fills)
  OBVIOUS
<1>5. Len(T) \in Nat \ {0}
  BY <1>3, <1>4, TransactionsAre DEF PlanTyped
<1>6. RunTyped(j) /\ RequestTyped(j) /\ j.step \in JobSteps
  BY <1>3, <1>4, <1>5 DEF RunTyped, RequestTyped, InFlight, JobSteps
<1>7. PanelAs(p, a, j, k)
  BY <1>1, <1>2, <1>3, <1>6, PanelParts DEF PanelAs
<1>8. CountsTyped'
  BY <1>1, PanelParts DEF CountsTyped
<1> QED
  BY <1>1, <1>2, <1>7, <1>8, QuietGoes

LEMMA ConfirmedTyped ==
  ASSUME TypesInv, PanelInv, Confirmed
  PROVE  TypesInv'
<1>1. job.step = "waiting" /\ UNCHANGED <<plan, approval, check, quotes, runs>> /\ Quiet
  BY DEF Confirmed
<1>2. PICK x, n : x = job.plan /\ n = job.next /\ job = [step |-> "waiting", plan |-> x, next |-> n]
  BY <1>1 DEF PanelInv, HookInv, RunOK, Running
<1>3. PICK T : T = Transactions(x.fills)
  OBVIOUS
<1>4. PlanTyped(x) /\ x # NoPlan /\ n \in 1..Len(T) /\ Len(T) \in Nat
  <2>1. RunTyped(job)
    BY PanelParts
  <2>2. PlanTyped(x) /\ x # NoPlan /\ n \in 1..Len(T)
    BY <1>1, <1>2, <1>3, <2>1 DEF RunTyped, Running
  <2> QED
    BY <1>3, <2>2, TransactionsAre DEF PlanTyped
<1>5. PICK p, a, j, k : p = plan' /\ a = approval' /\ j = job' /\ k = check'
  OBVIOUS
<1>6. (n < Len(T) /\ j = [step |-> "signing", plan |-> x, next |-> n + 1]) \/ j = [step |-> "applying", plan |-> x, next |-> n]
  BY <1>2, <1>3, <1>5 DEF Confirmed
<1>7. j.plan = x /\ j.next \in 1..Len(T) /\ j.step \in {"signing", "applying"}
  BY <1>4, <1>6
<1>8. RunTyped(j) /\ RequestTyped(j) /\ j.step \in JobSteps
  BY <1>3, <1>4, <1>7 DEF RunTyped, RequestTyped, InFlight, JobSteps
<1>9. PanelAs(p, a, j, k)
  BY <1>1, <1>5, <1>8, PanelParts DEF PanelAs
<1>10. CountsTyped'
  BY <1>1, PanelParts DEF CountsTyped
<1> QED
  BY <1>1, <1>5, <1>9, <1>10, QuietGoes

LEMMA ThrowsTyped ==
  ASSUME TypesInv, Throws
  PROVE  TypesInv'
<1>1. job' = Idle /\ UNCHANGED <<check, quotes, runs>> /\ Quiet
      /\ ((plan' = NoPlan /\ approval' = NoApproval) \/ (plan' = plan /\ approval' = approval))
  BY DEF Throws, AfterThrow
<1>2. PICK p, a, j, k : p = plan' /\ a = approval' /\ j = job' /\ k = check'
  OBVIOUS
<1>3. PlanTyped(p) /\ a \in Approvals
  <2>1. PlanTyped(NoPlan) /\ NoApproval \in Approvals
    BY DEF PlanTyped, NoApproval, Approvals
  <2> QED
    BY <1>1, <1>2, <2>1, PanelParts
<1>4. j.step = "idle"
  BY <1>1, <1>2 DEF Idle
<1>5. PanelAs(p, a, j, k)
  BY <1>1, <1>2, <1>3, <1>4, PlainTyped, PanelParts DEF PanelAs
<1>6. CountsTyped'
  BY <1>1, PanelParts DEF CountsTyped
<1> QED
  BY <1>1, <1>2, <1>5, <1>6, QuietGoes

\* A transaction is sent of what the plan fills.
LEMMA SentFills ==
  ASSUME TypesInv, PanelInv, Running(job)
  PROVE  /\ Transactions(job.plan.fills)[job.next] \in Seq(Fill) /\ job.plan.fills \in Seq(Fill)
         /\ job.next \in 1..Len(Transactions(job.plan.fills)) /\ Distinct(job.plan.fills) /\ job.plan.fills # <<>>
<1>1. PlanTyped(job.plan) /\ job.plan # NoPlan /\ job.next \in 1..Len(Transactions(job.plan.fills))
  BY PanelParts DEF RunTyped
<1>2. job.plan.fills \in Seq(Fill) /\ job.plan.fills # <<>> /\ Distinct(job.plan.fills)
  BY <1>1 DEF PlanTyped
<1> QED
  BY <1>1, <1>2, TransactionsAre

LEMMA BroadcastTyped ==
  ASSUME TypesInv, PanelInv, Broadcast
  PROVE  TypesInv'
<1>1. job.step = "signing" /\ UNCHANGED <<market, env, mode, inputs, plan, approval, check, mined, quotes, runs>>
  BY DEF Broadcast, counts
<1>2. PICK x, n : x = job.plan /\ n = job.next /\ job = [step |-> "signing", plan |-> x, next |-> n]
  BY <1>1 DEF PanelInv, HookInv, RunOK, Running
<1>3. PICK j : j = [step |-> "waiting", plan |-> x, next |-> n]
  OBVIOUS
<1>4. job' = j
  BY <1>2, <1>3 DEF Broadcast
<1>5. RunTyped(j) /\ RequestTyped(j) /\ j.step \in JobSteps
  BY <1>1, <1>2, <1>3, PanelParts DEF RunTyped, Running, RequestTyped, InFlight, JobSteps
<1>6. RunTyped(j)'
  BY <1>1, <1>5, RunStaysTyped
<1>7. PanelTyped'
  <2>1. mode' \in {"MARKET", "LIMIT"} /\ inputs' \in Inputs
    BY <1>1 DEF TypesInv, PanelTyped
  <2>2. PlanTyped(plan') /\ approval' \in Approvals /\ ChecksTyped(check')
    BY <1>1, PanelParts
  <2> QED
    BY <1>4, <1>5, <1>6, <2>1, <2>2 DEF PanelTyped, ChecksTyped, CheckTyped, RequestTyped, PlanTyped, InFlight
<1>8. ChainTyped'
  <2>1. PICK new : new = [run |-> runs, at |-> n, fills |-> Transactions(x.fills)[n]]
    OBVIOUS
  <2>2. mempool' = mempool \cup {new} /\ mined' = mined
    BY <1>1, <1>2, <2>1 DEF Broadcast
  <2>3. new.fills \in Seq(Fill) /\ new.run \in 0..MaxRuns
    BY <1>1, <1>2, <2>1, SentFills, PanelParts DEF Running
  <2> QED
    BY <2>2, <2>3 DEF TypesInv, ChainTyped, Sent
<1>9. MarketTyped' /\ CountsTyped'
  BY <1>1 DEF TypesInv, MarketTyped, BookTyped, CountsTyped, market
<1> QED
  BY <1>7, <1>8, <1>9 DEF TypesInv

LEMMA ApplyTyped ==
  ASSUME TypesInv, PanelInv, Apply
  PROVE  TypesInv'
<1>1. /\ job.step = "applying" /\ job' = Idle /\ plan' = NoPlan /\ approval' = NoApproval
      /\ UNCHANGED <<raw, left, env, mode, inputs, check, mempool, mined, quotes, runs>>
  BY DEF Apply, counts
<1>2. PanelTyped'
  <2>1. mode' \in {"MARKET", "LIMIT"} /\ inputs' \in Inputs
    BY <1>1 DEF TypesInv, PanelTyped
  <2>2. ChecksTyped(check')
    BY <1>1, PanelParts
  <2>3. job'.step = "idle"
    BY <1>1 DEF Idle
  <2> QED
    BY <1>1, <2>1, <2>2, <2>3 DEF PanelTyped, ChecksTyped, CheckTyped, RequestTyped, RunTyped, Running, PlanTyped, InFlight, NoApproval, Approvals, JobSteps
<1>3. BookTyped(level')
  <2>1. PICK fills : fills = job.plan.fills
    OBVIOUS
  <2>2. fills \in Seq(Fill)
    BY <1>1, <2>1, SentFills DEF Running
  <2>3. BookTyped(level) /\ BookTyped(Deduct(level, fills))
    BY <2>2, DeductTyped DEF TypesInv, MarketTyped
  <2> QED
    BY <2>1, <2>3 DEF Apply
<1>4. MarketTyped'
  BY <1>1, <1>3 DEF TypesInv, MarketTyped, BookTyped
<1>5. ChainTyped' /\ CountsTyped'
  BY <1>1 DEF TypesInv, ChainTyped, Sent, CountsTyped
<1> QED
  BY <1>2, <1>4, <1>5 DEF TypesInv

\* What happens outside the panel leaves it as it is.
LEMMA OutsideTyped ==
  ASSUME TypesInv, UNCHANGED <<env, panel, quotes, runs>>, BookTyped(level'), BookTyped(left'),
         raw' \in [Offers -> BOOLEAN], \A x \in mempool' \cup mined' : x.fills \in Seq(Fill) /\ x.run \in 0..MaxRuns
  PROVE  TypesInv'
<1>1. PICK p, a, j, k : p = plan /\ a = approval /\ j = job /\ k = check
  OBVIOUS
<1>2. PanelAs(p, a, j, k) /\ plan' = p /\ approval' = a /\ job' = j /\ check' = k
  BY <1>1, PanelIs DEF TypesInv, panel
<1>3. RunTyped(j)'
  BY <1>2, RunStaysTyped DEF PanelAs
<1>4. mode' \in {"MARKET", "LIMIT"} /\ inputs' \in Inputs
  BY DEF TypesInv, PanelTyped, panel
<1>5. PanelTyped'
  BY <1>2, <1>3, <1>4 DEF PanelTyped, PanelAs, ChecksTyped, CheckTyped, PlanTyped, RequestTyped, RunTyped, InFlight, Running
<1>6. MarketTyped' /\ ChainTyped' /\ CountsTyped'
  BY DEF TypesInv, MarketTyped, ChainTyped, BookTyped, Sent, CountsTyped
<1> QED
  BY <1>5, <1>6 DEF TypesInv

LEMMA SentTyped ==
  ASSUME TypesInv
  PROVE  /\ \A x \in mempool \cup mined : x.fills \in Seq(Fill) /\ x.run \in 0..MaxRuns
         /\ BookTyped(level) /\ BookTyped(left) /\ raw \in [Offers -> BOOLEAN]
BY DEF TypesInv, ChainTyped, Sent, MarketTyped

LEMMA MineTyped ==
  ASSUME TypesInv, Mine
  PROVE  TypesInv'
<1>1. PICK tx \in mempool : /\ mempool' = mempool \ {tx}
                            /\ LET done == [k \in DOMAIN tx.fills |-> [tx.fills[k] EXCEPT !.base = AtMost(@, left[tx.fills[k].offer])]]
                               IN IF Len(done) = 1 /\ done[1].base = 0 THEN UNCHANGED <<left, mined>>
                                  ELSE left' = Deduct(left, done) /\ mined' = mined \cup {[tx EXCEPT !.fills = done]}
  BY DEF Mine
<1>2. PICK done : done = [k \in DOMAIN tx.fills |-> [tx.fills[k] EXCEPT !.base = AtMost(@, left[tx.fills[k].offer])]]
  OBVIOUS
<1>3. UNCHANGED <<left, mined>> \/ (left' = Deduct(left, done) /\ mined' = mined \cup {[tx EXCEPT !.fills = done]})
  BY <1>1, <1>2
<1>4. tx.fills \in Seq(Fill) /\ tx.run \in 0..MaxRuns /\ BookTyped(left)
  BY SentTyped
<1>5. done \in Seq(Fill)
  BY <1>2, <1>4, MinedFills
<1>6. BookTyped(left')
  <2>1. BookTyped(Deduct(left, done))
    BY <1>4, <1>5, DeductTyped
  <2> QED
    BY <1>3, <1>4, <2>1
<1>7. UNCHANGED <<level, raw, env, panel, quotes, runs>>
  BY DEF Mine, counts
<1>8. PICK new : new = [tx EXCEPT !.fills = done]
  OBVIOUS
<1>9. ASSUME NEW x \in mempool' \cup mined' PROVE x.fills \in Seq(Fill) /\ x.run \in 0..MaxRuns
  <2>1. x \in mempool \cup mined \/ (x = new /\ mined' = mined \cup {new})
    BY <1>1, <1>3, <1>8
  <2>2. CASE x \in mempool \cup mined
    BY <2>2, SentTyped
  <2>3. CASE x = new
    <3>1. "fills" \in DOMAIN tx => new.fills = done
      BY <1>8
    <3> QED
      BY <1>4, <1>5, <1>8, <2>3, <3>1
  <2> QED
    BY <2>1, <2>2, <2>3
<1>10. BookTyped(level') /\ raw' \in [Offers -> BOOLEAN]
  BY <1>7, SentTyped
<1> QED
  BY <1>6, <1>7, <1>9, <1>10, OutsideTyped

LEMMA OtherTakerTyped ==
  ASSUME TypesInv, OtherTaker
  PROVE  TypesInv'
<1>1. PICK o \in Contested : /\ left[o] > 0 /\ left' = [left EXCEPT ![o] = @ - 1]
                             /\ mined' = mined \cup {[run |-> 0, at |-> others', fills |-> <<[offer |-> o, base |-> 1]>>]}
  BY DEF OtherTaker
<1>2. UNCHANGED <<level, raw, env, panel, quotes, runs, mempool>>
  BY DEF OtherTaker
<1>3. o \in Offers
  BY OffersAssumption
<1>4. PICK new : new = [run |-> 0, at |-> others', fills |-> <<[offer |-> o, base |-> 1]>>]
  OBVIOUS
<1>5. new.fills \in Seq(Fill) /\ new.run \in 0..MaxRuns
  <2>1. [offer |-> o, base |-> 1] \in Fill
    BY <1>3 DEF Fill
  <2>2. <<[offer |-> o, base |-> 1]>> \in Seq(Fill)
    BY <2>1
  <2> QED
    BY <1>4, <2>2, PanelParts
<1>6. \A x \in mempool' \cup mined' : x.fills \in Seq(Fill) /\ x.run \in 0..MaxRuns
  BY <1>1, <1>2, <1>4, <1>5, SentTyped
<1>7. BookTyped(left')
  <2>1. BookTyped(left) /\ left[o] - 1 \in Nat /\ left[o] - 1 <= o.size
    BY <1>1, <1>3, SentTyped, OffersAssumption DEF BookTyped
  <2> QED
    BY <1>1, <2>1 DEF BookTyped
<1>8. BookTyped(level') /\ raw' \in [Offers -> BOOLEAN]
  BY <1>2, SentTyped
<1> QED
  BY <1>2, <1>6, <1>7, <1>8, OutsideTyped

LEMMA WatchTyped ==
  ASSUME TypesInv, Watch
  PROVE  TypesInv'
<1>1. PICK x \in mined : level' = Deduct(level, x.fills)
  BY DEF Watch
<1>2. UNCHANGED <<raw, left, env, panel, quotes, runs, mempool, mined>>
  BY DEF Watch, counts
<1>3. BookTyped(level')
  BY <1>1, SentTyped, DeductTyped
<1>4. BookTyped(left') /\ raw' \in [Offers -> BOOLEAN]
      /\ \A y \in mempool' \cup mined' : y.fills \in Seq(Fill) /\ y.run \in 0..MaxRuns
  BY <1>2, SentTyped
<1> QED
  BY <1>2, <1>3, <1>4, OutsideTyped

LEMMA PlaceTyped ==
  ASSUME TypesInv, Place \/ AttachRaw
  PROVE  TypesInv'
<1>1. UNCHANGED <<left, env, panel, quotes, runs, mempool, mined>>
  BY DEF Place, AttachRaw, counts, chain
<1>2. BookTyped(level') /\ raw' \in [Offers -> BOOLEAN]
  <2>1. CASE Place
    <3>1. PICK o \in Later : level' = [level EXCEPT ![o] = o.size] /\ raw' = raw
      BY <2>1 DEF Place
    <3>2. o.size \in Nat /\ o.size <= o.size /\ BookTyped(level) /\ raw \in [Offers -> BOOLEAN]
      BY OffersAssumption, SentTyped
    <3> QED
      BY <3>1, <3>2 DEF BookTyped
  <2>2. CASE AttachRaw
    BY <2>2, SentTyped DEF AttachRaw
  <2> QED
    BY <2>1, <2>2
<1>3. BookTyped(left') /\ \A y \in mempool' \cup mined' : y.fills \in Seq(Fill) /\ y.run \in 0..MaxRuns
  BY <1>1, SentTyped
<1> QED
  BY <1>1, <1>2, <1>3, OutsideTyped

LEMMA IdleTyped ==
  ASSUME TypesInv, UNCHANGED vars
  PROVE  TypesInv'
<1>1. UNCHANGED <<env, panel, quotes, runs, level, left, raw, mempool, mined>>
  BY DEF vars, market, chain, counts
<1>2. BookTyped(level') /\ BookTyped(left') /\ raw' \in [Offers -> BOOLEAN]
      /\ \A y \in mempool' \cup mined' : y.fills \in Seq(Fill) /\ y.run \in 0..MaxRuns
  BY <1>1, SentTyped
<1> QED
  BY <1>1, <1>2, OutsideTyped

LEMMA TypesInvariant == Spec => [](PanelInv /\ TypesInv)
<1>1. PanelInv /\ TypesInv /\ [Next]_vars => TypesInv'
  BY InputsTyped, QuoteTyped, ServeTyped, ReceiveQuoteTyped, ReceiveCheckTyped, AllowanceTyped, OnExecuteTyped, BroadcastTyped,
     ConfirmedTyped, ThrowsTyped, ApplyTyped, MineTyped, OtherTakerTyped, WatchTyped, PlaceTyped, IdleTyped
  DEF Next
<1> QED
  BY <1>1, TypesInit, PanelInit, PanelStep, PTL DEF Spec

\* Whatever has been quoted, executed, mined and taken, the book's levels and
\* what the exchange will still fill are within their orders, and the panel
\* holds plans that fill something, sent as far as they have transactions.
THEOREM Typed == Spec => []TypeOK
<1>1. PanelInv /\ TypesInv => TypeOK
  <2> SUFFICES ASSUME PanelInv, TypesInv PROVE TypeOK
    OBVIOUS
  <2>1. \A o \in Offers : level[o] \in 0..o.size /\ left[o] \in 0..o.size /\ raw[o] \in BOOLEAN
    BY SentTyped, OffersAssumption DEF BookTyped
  <2>2. ASSUME NEW p, PlanTyped(p) PROVE IsPlan(p)
    BY <2>2 DEF PlanTyped, IsPlan
  <2>3. IsPlan(plan) /\ DOMAIN approval = {"needed", "token"}
    BY <2>2, PanelParts DEF Approvals
  <2>4. Running(job) => IsPlan(job.plan) /\ job.next \in 1..Len(Transactions(job.plan.fills))
    BY <2>2, PanelParts DEF RunTyped
  <2>5. \A x \in mempool \cup mined : x.run \in 0..MaxRuns
    BY SentTyped
  <2> QED
    BY <2>1, <2>3, <2>4, <2>5 DEF TypesInv, PanelTyped, ChecksTyped, CheckTyped, MarketTyped, TypeOK, Running, JobSteps, CheckSteps
<1> QED
  BY <1>1, TypesInvariant, PTL

\* What the panel asks of the book, the book answers as well as can be: whatever
\* the makers, the watcher and earlier fills have made of it, the sweep stays
\* inside the cap, takes the size or all there is, and takes it from the best.
THEOREM SweptBest == Spec => []SweepIsBest
<1>1. TypesInv => SweepIsBest
  <2> SUFFICES ASSUME TypesInv PROVE SweepIsBest
    OBVIOUS
  <2>1. inputs.side \in Sides /\ inputs.size \in Nat /\ inputs.cap \in Nat
    BY PanelParts, InputsAre
  <2>2. Best(inputs.side, inputs.size, inputs.cap)
    BY <2>1, BookTypedOK, SweepBest DEF TypesInv
  <2> QED
    BY <2>2 DEF Best, SweepIsBest
<1> QED
  BY <1>1, TypesInvariant, PTL

-----------------------------------------------------------------------------
\* What has been sent of a run: each transaction once, no two of them for the
\* same offer, and none that the hook has not come to.
SentAs(x) == x = [run |-> x.run, at |-> x.at, fills |-> x.fills]
Apart(x, y) ==
  x # y /\ x.run = y.run /\ x.run # 0 => x.at # y.at /\ Touches(x.fills) \cap Touches(y.fills) = {}
OfRun(x, j) ==
  /\ x.at \in 1..j.next /\ (j.step = "signing" => x.at # j.next)
  /\ Touches(x.fills) \subseteq Touches(Transactions(j.plan.fills)[x.at])
SentInv ==
  /\ \A x \in Sent : SentAs(x) /\ x.run <= runs
  /\ \A x \in mempool : x.run # 0 /\ x \notin mined
  /\ seen \subseteq mined
  /\ \A x, y \in Sent : Apart(x, y)
  /\ Running(job) => runs > 0 /\ \A x \in Sent : x.run = runs => OfRun(x, job)

LEMMA SentInit == Init => SentInv
BY DEF Init, SentInv, Sent, Running, Idle

\* A step that sends nothing and starts or moves no run.
LEMMA SentStays ==
  ASSUME SentInv, UNCHANGED <<mempool, mined, env, runs>>, seen' \subseteq mined, Running(job)' => job' = job
  PROVE  SentInv'
<1>1. Sent' = Sent
  BY DEF Sent
<1>2. ASSUME Running(job)' PROVE runs' > 0 /\ \A x \in Sent' : x.run = runs' => OfRun(x, job)'
  <2>1. PICK j, f : j = job /\ f = j.plan.fills
    OBVIOUS
  <2>2. Transactions(f)' = Transactions(f)
    BY TransactionsStay
  <2>3. job' = j
    BY <1>2, <2>1
  <2>4. runs > 0 /\ \A x \in Sent : x.run = runs => OfRun(x, j)
    BY <1>2, <2>1, <2>3 DEF SentInv, Running
  <2> QED
    BY <1>1, <2>1, <2>2, <2>3, <2>4 DEF OfRun, Touches
<1> QED
  BY <1>1, <1>2 DEF SentInv, SentAs, Apart, Touches

\* Most of the panel's steps are such.
LEMMA RunGoesOn ==
  ASSUME PanelInv, NEW i, Change(i)
  PROVE  Running(job)' => job' = job
<1>1. PICK j, o : j = job /\ o = job'
  OBVIOUS
<1>2. Moved(j, i, o)
  BY <1>1, OutrunMoves DEF PanelInv, HookInv, RequestOK, Change
<1> QED
  BY <1>1, <1>2 DEF Moved, Running, InFlight

PanelOnly ==
  \/ Edit \/ Pick \/ CancelCap \/ LeaveMarket \/ EnterMarket \/ RouteLimit
  \/ OnQuote \/ ServeQuote \/ ReceiveQuote \/ ReadAllowance \/ OnApprove \/ Approved
  \/ \E c \in Checks : OnCheckGas(c) \/ ServeCheck(c) \/ ReceiveCheck(c)
  \/ Throws
LEMMA PanelOnlyIs ==
  ASSUME PanelInv, PanelOnly
  PROVE  UNCHANGED <<mempool, mined, seen, credits, env, runs>> /\ (Running(job)' => job' = job)
<1>1. CASE \E i : Change(i)
  BY <1>1, RunGoesOn DEF Change, chain
<1>2. CASE EnterMarket
  BY <1>2 DEF EnterMarket, chain, counts
<1>3. CASE OnQuote \/ ServeQuote \/ ReceiveQuote \/ ReadAllowance \/ OnApprove \/ Approved \/ Throws
  BY <1>3 DEF OnQuote, ServeQuote, ReceiveQuote, ReadAllowance, OnApprove, Approved, Throws, Quiet, Running, Idle
<1>4. CASE \E c \in Checks : OnCheckGas(c) \/ ServeCheck(c) \/ ReceiveCheck(c)
  BY <1>4 DEF OnCheckGas, ServeCheck, ReceiveCheck, Quiet
<1> QED
  BY <1>1, <1>2, <1>3, <1>4 DEF PanelOnly, Edit, Pick, Resized, CancelCap, LeaveMarket, RouteLimit

LEMMA ExecuteSends ==
  ASSUME TypesInv, SentInv, OnExecute
  PROVE  SentInv'
<1>1. runs' = runs + 1 /\ runs \in Nat /\ UNCHANGED <<mempool, mined, seen>>
  BY PanelParts DEF OnExecute, Quiet
<1>2. Sent' = Sent /\ \A x \in Sent : x.run \in Nat /\ x.run <= runs
  BY <1>1 DEF SentInv, Sent, TypesInv, ChainTyped
<1>3. runs' > 0 /\ \A x \in Sent' : x.run <= runs' /\ x.run # runs'
  BY <1>1, <1>2
<1> QED
  BY <1>1, <1>2, <1>3 DEF SentInv, SentAs, Apart, Touches

LEMMA BroadcastSends ==
  ASSUME TypesInv, PanelInv, SentInv, Broadcast
  PROVE  SentInv'
<1>1. job.step = "signing" /\ Running(job) /\ UNCHANGED <<env, mined, seen, runs>>
  BY DEF Broadcast, Running, counts
<1>2. PICK p, n : p = job.plan /\ n = job.next /\ job = [step |-> "signing", plan |-> p, next |-> n]
  BY <1>1 DEF PanelInv, HookInv, RunOK
<1>3. PICK T, j : T = Transactions(p.fills) /\ j = [step |-> "waiting", plan |-> p, next |-> n]
  OBVIOUS
<1>4. PICK new : new = [run |-> runs, at |-> n, fills |-> T[n]]
  OBVIOUS
<1>5. job' = j /\ mempool' = mempool \cup {new}
  BY <1>2, <1>3, <1>4 DEF Broadcast
<1>6. n \in 1..Len(T) /\ \A a, b \in 1..Len(T) : a # b => Touches(T[a]) \cap Touches(T[b]) = {}
  BY <1>1, <1>2, <1>3, SentFills, TransactionsAre
<1>7. Len(T) \in Nat /\ n \in Nat
  BY <1>1, <1>2, <1>3, <1>6, SentFills, TransactionsAre
<1>8. runs > 0 /\ \A x \in Sent : x.run = runs => x.at \in 1..n /\ x.at # n /\ Touches(x.fills) \subseteq Touches(T[x.at])
  BY <1>1, <1>2, <1>3 DEF SentInv, OfRun
<1>9. Sent' = Sent \cup {new} /\ new \notin Sent
  BY <1>1, <1>4, <1>5, <1>8 DEF Sent
<1>10. ASSUME NEW x \in Sent, x.run = runs
       PROVE  x.at # n /\ Touches(x.fills) \cap Touches(new.fills) = {}
  <2>1. x.at \in 1..Len(T) /\ x.at # n
    BY <1>6, <1>7, <1>8, <1>10
  <2>2. Touches(T[x.at]) \cap Touches(T[n]) = {}
    BY <1>6, <2>1
  <2> QED
    BY <1>4, <1>8, <1>10, <2>1, <2>2
<1>11. \A x \in Sent : Apart(x, new) /\ Apart(new, x)
  BY <1>4, <1>10 DEF Apart
<1>12. \A x, y \in Sent' : Apart(x, y)
  BY <1>9, <1>11 DEF SentInv, Apart
<1>13. SentAs(new) /\ new.run <= runs /\ new.run # 0 /\ new \notin mined
  BY <1>4, <1>8, <1>9, PanelParts DEF SentAs, Sent
<1>14. \A x \in Sent' : x.run = runs => OfRun(x, j)
  <2>1. OfRun(new, j)
    BY <1>3, <1>4, <1>6, <1>7 DEF OfRun
  <2>2. \A x \in Sent : x.run = runs => OfRun(x, j)
    BY <1>3, <1>8 DEF OfRun
  <2> QED
    BY <1>9, <2>1, <2>2
<1>15. ASSUME NEW x \in Sent', x.run = runs PROVE OfRun(x, j)'
  <2>1. PICK f : f = p.fills
    OBVIOUS
  <2>2. Transactions(f)' = Transactions(f)
    BY <1>1, TransactionsStay
  <2> QED
    BY <1>3, <1>14, <1>15, <2>1, <2>2 DEF OfRun, Touches
<1>16. Running(job)' => runs' > 0 /\ \A x \in Sent' : x.run = runs' => OfRun(x, job)'
  BY <1>1, <1>5, <1>8, <1>15 DEF OfRun, Touches
<1>17. \A x \in Sent' : SentAs(x)' /\ x.run <= runs'
  BY <1>1, <1>9, <1>13 DEF SentInv, SentAs
<1>18. (\A x \in mempool' : x.run # 0 /\ x \notin mined') /\ seen' \subseteq mined'
  BY <1>1, <1>5, <1>13 DEF SentInv
<1>19. \A x, y \in Sent' : Apart(x, y)'
  BY <1>12 DEF Apart, Touches
<1> QED
  BY <1>16, <1>17, <1>18, <1>19 DEF SentInv

LEMMA ConfirmedSends ==
  ASSUME TypesInv, PanelInv, SentInv, Confirmed
  PROVE  SentInv'
<1>1. job.step = "waiting" /\ Running(job) /\ UNCHANGED <<env, mempool, mined, seen, runs>>
  BY DEF Confirmed, Running, Quiet
<1>2. PICK p, n : p = job.plan /\ n = job.next /\ job = [step |-> "waiting", plan |-> p, next |-> n]
  BY <1>1 DEF PanelInv, HookInv, RunOK
<1>3. n \in Nat
  BY <1>1, <1>2 DEF PanelInv, HookInv, RunOK
<1>4. PICK j, T : j = job' /\ T = Transactions(p.fills)
  OBVIOUS
<1>5. j = [step |-> "signing", plan |-> p, next |-> n + 1] \/ j = [step |-> "applying", plan |-> p, next |-> n]
  BY <1>2, <1>4 DEF Confirmed
<1>6. runs > 0 /\ \A x \in Sent : x.run = runs => x.at \in 1..n /\ Touches(x.fills) \subseteq Touches(T[x.at])
  BY <1>1, <1>2, <1>4 DEF SentInv, OfRun
<1>7. \A x \in Sent : x.run = runs => x.at \in 1..j.next /\ (j.step = "signing" => x.at # j.next)
  BY <1>3, <1>5, <1>6
<1>8. Sent' = Sent /\ j.plan = p
  BY <1>1, <1>5 DEF Sent
<1>9. Transactions(p.fills)' = T
  <2>1. PICK f : f = p.fills
    OBVIOUS
  <2> QED
    BY <1>1, <1>4, <2>1, TransactionsStay
<1>10. \A x \in Sent' : x.run = runs' => OfRun(x, job)'
  BY <1>1, <1>4, <1>6, <1>7, <1>8, <1>9 DEF OfRun, Touches
<1> QED
  BY <1>1, <1>6, <1>8, <1>10 DEF SentInv, SentAs, Apart, Touches

LEMMA MineSends ==
  ASSUME TypesInv, SentInv, Mine
  PROVE  SentInv'
<1>1. PICK tx \in mempool : /\ mempool' = mempool \ {tx}
                            /\ LET done == [k \in DOMAIN tx.fills |-> [tx.fills[k] EXCEPT !.base = AtMost(@, left[tx.fills[k].offer])]]
                               IN IF Len(done) = 1 /\ done[1].base = 0 THEN UNCHANGED <<left, mined>>
                                  ELSE left' = Deduct(left, done) /\ mined' = mined \cup {[tx EXCEPT !.fills = done]}
  BY DEF Mine
<1>2. PICK done : done = [k \in DOMAIN tx.fills |-> [tx.fills[k] EXCEPT !.base = AtMost(@, left[tx.fills[k].offer])]]
  OBVIOUS
<1>3. UNCHANGED <<env, seen, runs, job>>
  BY DEF Mine, panel, counts
<1>4. tx \in Sent /\ SentAs(tx) /\ tx.run <= runs /\ tx.run # 0 /\ tx.fills \in Seq(Fill) /\ BookTyped(left)
  BY SentTyped DEF SentInv, Sent
<1>5. Touches(done) = Touches(tx.fills)
  BY <1>2, <1>4, MinedFills
<1>6. PICK new : new = [run |-> tx.run, at |-> tx.at, fills |-> done]
  OBVIOUS
<1>7. [tx EXCEPT !.fills = done] = new
  BY <1>4, <1>6 DEF SentAs
<1>8. mined' = mined \/ mined' = mined \cup {new}
  BY <1>1, <1>2, <1>7
<1>9. SentAs(new) /\ new.run = tx.run /\ new.at = tx.at /\ Touches(new.fills) = Touches(tx.fills)
  BY <1>5, <1>6 DEF SentAs
<1>10. \A x \in Sent' : (x \in Sent /\ x # tx) \/ x = new
  BY <1>1, <1>8 DEF Sent, SentInv
<1>11. \A x \in Sent : x # tx => Apart(x, tx) /\ Apart(tx, x)
  BY <1>4 DEF SentInv
<1>12. \A x \in Sent : x # tx => Apart(x, new) /\ Apart(new, x)
  BY <1>9, <1>11 DEF Apart
<1>13. \A x, y \in Sent' : Apart(x, y)
  BY <1>10, <1>12 DEF SentInv, Apart
<1>14. \A x \in mempool' : x.run # 0 /\ x \notin mined'
  <2> SUFFICES ASSUME NEW x \in mempool' PROVE x.run # 0 /\ x \notin mined'
    OBVIOUS
  <2>1. x \in mempool /\ x # tx /\ x \in Sent
    BY <1>1 DEF Sent
  <2>2. x # new
    BY <1>4, <1>9, <1>11, <2>1 DEF Apart
  <2> QED
    BY <1>8, <2>1, <2>2 DEF SentInv
<1>15. \A x \in Sent' : SentAs(x) /\ x.run <= runs
  BY <1>4, <1>9, <1>10 DEF SentInv
<1>16. ASSUME Running(job) PROVE \A x \in Sent' : x.run = runs => OfRun(x, job)
  BY <1>4, <1>9, <1>10, <1>16 DEF SentInv, OfRun
<1>17. Running(job)' => runs' > 0 /\ \A x \in Sent' : x.run = runs' => OfRun(x, job)'
  <2>1. PICK j, f : j = job /\ f = j.plan.fills
    OBVIOUS
  <2>2. Transactions(f)' = Transactions(f)
    BY <1>3, TransactionsStay
  <2> QED
    BY <1>3, <1>16, <2>1, <2>2 DEF SentInv, OfRun, Touches, Running
<1>18. seen' \subseteq mined'
  BY <1>3, <1>8 DEF SentInv
<1> QED
  BY <1>3, <1>13, <1>14, <1>15, <1>17, <1>18 DEF SentInv, SentAs, Apart, Touches

LEMMA OtherTakerSends ==
  ASSUME TypesInv, SentInv, OtherTaker
  PROVE  SentInv'
<1>1. PICK new : new.run = 0 /\ SentAs(new) /\ mined' = mined \cup {new}
  BY DEF OtherTaker, SentAs
<1>2. UNCHANGED <<env, mempool, seen, runs, job>> /\ runs \in Nat
  BY PanelParts DEF OtherTaker, panel
<1>3. \A x \in Sent' : x \in Sent \/ x = new
  BY <1>1, <1>2 DEF Sent
<1>4. \A x, y \in Sent' : Apart(x, y)
  BY <1>1, <1>3 DEF SentInv, Apart
<1>5. \A x \in Sent' : SentAs(x) /\ x.run <= runs
  BY <1>1, <1>2, <1>3 DEF SentInv
<1>6. (\A x \in mempool' : x.run # 0 /\ x \notin mined') /\ seen' \subseteq mined'
  BY <1>1, <1>2 DEF SentInv
<1>7. ASSUME Running(job) PROVE runs > 0 /\ \A x \in Sent' : x.run = runs => OfRun(x, job)
  <2>1. runs > 0 /\ \A x \in Sent : x.run = runs => OfRun(x, job)
    BY <1>7 DEF SentInv
  <2>2. new.run # runs
    BY <1>1, <1>2, <2>1
  <2> QED
    BY <1>3, <2>1, <2>2
<1>8. Running(job)' => runs' > 0 /\ \A x \in Sent' : x.run = runs' => OfRun(x, job)'
  <2>1. PICK j, f : j = job /\ f = j.plan.fills
    OBVIOUS
  <2>2. Transactions(f)' = Transactions(f)
    BY <1>2, TransactionsStay
  <2> QED
    BY <1>2, <1>7, <2>1, <2>2 DEF OfRun, Touches, Running
<1> QED
  BY <1>2, <1>4, <1>5, <1>6, <1>8 DEF SentInv, SentAs, Apart, Touches

LEMMA RestSends ==
  ASSUME SentInv, Apply \/ Watch \/ Place \/ AttachRaw \/ UNCHANGED vars
  PROVE  SentInv'
<1>1. UNCHANGED <<mempool, mined, env, runs>> /\ (Running(job)' => job' = job)
  BY DEF Apply, Watch, Place, AttachRaw, vars, panel, chain, counts, Running, Idle
<1>2. seen' \subseteq mined
  BY DEF Apply, Watch, Place, AttachRaw, vars, chain, SentInv
<1> QED
  BY <1>1, <1>2, SentStays

LEMMA SentStep == TypesInv /\ PanelInv /\ SentInv /\ [Next]_vars => SentInv'
<1> SUFFICES ASSUME TypesInv, PanelInv, SentInv, [Next]_vars PROVE SentInv'
  OBVIOUS
<1>1. CASE PanelOnly
  <2>1. seen' \subseteq mined
    BY <1>1, PanelOnlyIs DEF SentInv
  <2> QED
    BY <1>1, <2>1, PanelOnlyIs, SentStays
<1> QED
  BY <1>1, ExecuteSends, BroadcastSends, ConfirmedSends, MineSends, OtherTakerSends, RestSends DEF Next, PanelOnly

-----------------------------------------------------------------------------
\* What has been taken out of the book for a run and an offer: where the hook
\* reports the fills, nothing until it does; where the watcher does, what is in
\* a fill it has handed on.
Either == env.fillWatcher = "1" => env.chainWatcher
CreditedOf(r, o) ==
  /\ credits[<<r, o>>] <= 1
  /\ AppliesHere /\ Running(job) /\ r = runs => credits[<<r, o>>] = 0
  /\ ~AppliesHere /\ credits[<<r, o>>] # 0 => \E x \in seen : x.run = r /\ o \in Touches(x.fills)
CreditInv ==
  /\ credits \in [(0..MaxRuns) \X Offers -> Nat]
  /\ \A r \in 0..MaxRuns, o \in Offers : r > runs => credits[<<r, o>>] = 0
  /\ Either => \A r \in 0..MaxRuns, o \in Offers : CreditedOf(r, o)

LEMMA CreditInit == Init => CreditInv
<1> SUFFICES ASSUME Init PROVE CreditInv
  OBVIOUS
<1>1. credits \in [(0..MaxRuns) \X Offers -> Nat] /\ \A r \in 0..MaxRuns, o \in Offers : credits[<<r, o>>] = 0
  BY DEF Init
<1> QED
  BY <1>1 DEF CreditInv, CreditedOf

\* What a fill is credited to.
Adds(run, fills, r, o) == r = run /\ \E k \in DOMAIN fills : fills[k].offer = o /\ fills[k].base > 0
Grown(run, fills, more) ==
  /\ more \in [(0..MaxRuns) \X Offers -> Nat]
  /\ \A r \in 0..MaxRuns, o \in Offers :
       /\ credits[<<r, o>>] \in Nat
       /\ \/ more[<<r, o>>] = credits[<<r, o>>]
          \/ r = run /\ o \in Touches(fills) /\ more[<<r, o>>] = credits[<<r, o>>] + 1
LEMMA CreditIs ==
  ASSUME credits \in [(0..MaxRuns) \X Offers -> Nat], NEW run, NEW fills, NEW more, more = Credit(run, fills)
  PROVE  Grown(run, fills, more)
<1>1. DOMAIN credits = (0..MaxRuns) \X Offers
  OBVIOUS
<1>2. ASSUME NEW r \in 0..MaxRuns, NEW o \in Offers
      PROVE  credits[<<r, o>>] \in Nat /\ (more[<<r, o>>] = credits[<<r, o>>] \/ (Adds(run, fills, r, o) /\ more[<<r, o>>] = credits[<<r, o>>] + 1))
  <2>1. PICK c \in Nat : c = credits[<<r, o>>]
    OBVIOUS
  <2>2. more[<<r, o>>] = c + (IF Adds(run, fills, r, o) THEN 1 ELSE 0)
    BY <1>1, <2>1 DEF Credit, Adds
  <2> QED
    BY <2>1, <2>2
<1>3. \A r, o : Adds(run, fills, r, o) => r = run /\ o \in Touches(fills)
  BY DEF Adds, Touches
<1>4. more = [u \in (0..MaxRuns) \X Offers |-> more[u]]
  BY <1>1 DEF Credit
<1>5. ASSUME NEW r \in 0..MaxRuns, NEW o \in Offers PROVE more[<<r, o>>] \in Nat
  <2>1. PICK c \in Nat : c = credits[<<r, o>>]
    OBVIOUS
  <2>2. more[<<r, o>>] = c \/ more[<<r, o>>] = c + 1
    BY <1>2, <2>1
  <2> QED
    BY <2>2
<1>6. more \in [(0..MaxRuns) \X Offers -> Nat]
  <2>1. ASSUME NEW u \in (0..MaxRuns) \X Offers PROVE more[u] \in Nat
    <3>1. PICK r \in 0..MaxRuns, o \in Offers : u = <<r, o>>
      OBVIOUS
    <3> QED
      BY <1>5, <3>1
  <2> QED
    BY <1>4, <2>1
<1> QED
  BY <1>2, <1>3, <1>6 DEF Grown

\* A step that credits nothing, and starts no run.
LEMMA CreditStays ==
  ASSUME CreditInv, UNCHANGED <<credits, env, runs>>, seen \subseteq seen', Running(job)' => Running(job)
  PROVE  CreditInv'
<1>1. Either' = Either /\ AppliesHere' = AppliesHere
  BY DEF Either, AppliesHere
<1>2. ASSUME NEW r \in 0..MaxRuns, NEW o \in Offers, CreditedOf(r, o) PROVE CreditedOf(r, o)'
  BY <1>1, <1>2 DEF CreditedOf, Touches
<1> QED
  BY <1>1, <1>2 DEF CreditInv

LEMMA ExecuteCredits ==
  ASSUME TypesInv, CreditInv, OnExecute
  PROVE  CreditInv'
<1>1. runs' = runs + 1 /\ runs \in Nat /\ UNCHANGED <<credits, env, seen>>
  BY PanelParts DEF OnExecute, Quiet
<1>2. \A r \in 0..MaxRuns, o \in Offers : r >= runs' => credits[<<r, o>>] = 0
  BY <1>1 DEF CreditInv
<1>3. Either' = Either /\ AppliesHere' = AppliesHere
  BY <1>1 DEF Either, AppliesHere
<1>4. ASSUME NEW r \in 0..MaxRuns, NEW o \in Offers, CreditedOf(r, o) PROVE CreditedOf(r, o)'
  <2>1. runs' \in Nat /\ (r = runs' => credits[<<r, o>>] = 0)
    BY <1>1, <1>2
  <2> QED
    BY <1>1, <1>3, <1>4, <2>1 DEF CreditedOf, Touches
<1>5. \A r \in 0..MaxRuns, o \in Offers : r > runs' => credits'[<<r, o>>] = 0
  BY <1>1, <1>2
<1> QED
  BY <1>1, <1>3, <1>4, <1>5 DEF CreditInv

LEMMA ApplyCredits ==
  ASSUME TypesInv, CreditInv, Apply
  PROVE  CreditInv'
<1>1. job.step = "applying" /\ Running(job) /\ UNCHANGED <<env, seen, runs>> /\ ~Running(job)'
  BY DEF Apply, Running, Idle, counts
<1>2. CASE UNCHANGED credits
  BY <1>1, <1>2, CreditStays
<1>3. CASE AppliesHere /\ credits' = Credit(runs, job.plan.fills)
  <2>1. PICK f, more : f = job.plan.fills /\ more = credits' /\ more = Credit(runs, f)
    BY <1>3
  <2>2. Grown(runs, f, more)
    <3>1. credits \in [(0..MaxRuns) \X Offers -> Nat]
      BY DEF CreditInv
    <3> QED
      BY <2>1, <3>1, CreditIs
  <2>3. \A r \in 0..MaxRuns, o \in Offers :
          /\ credits[<<r, o>>] \in Nat
          /\ more[<<r, o>>] = credits[<<r, o>>] \/ (r = runs /\ more[<<r, o>>] = credits[<<r, o>>] + 1)
    BY <2>2 DEF Grown
  <2>4. more \in [(0..MaxRuns) \X Offers -> Nat]
    BY <2>2 DEF Grown
  <2>5. Either' = Either /\ AppliesHere'
    BY <1>1, <1>3 DEF Either, AppliesHere
  <2>6. ASSUME NEW r \in 0..MaxRuns, NEW o \in Offers, CreditedOf(r, o) PROVE CreditedOf(r, o)'
    <3>1. credits[<<r, o>>] <= 1 /\ (r = runs => credits[<<r, o>>] = 0)
      BY <1>1, <1>3, <2>6 DEF CreditedOf
    <3>2. more[<<r, o>>] <= 1
      BY <2>3, <3>1
    <3> QED
      BY <1>1, <2>1, <2>5, <3>2 DEF CreditedOf
  <2>7. \A r \in 0..MaxRuns, o \in Offers : r > runs => more[<<r, o>>] = 0
    BY <2>3, PanelParts DEF CreditInv
  <2> QED
    BY <1>1, <2>1, <2>4, <2>5, <2>6, <2>7 DEF CreditInv
<1> QED
  BY <1>2, <1>3 DEF Apply

LEMMA WatchCredits ==
  ASSUME TypesInv, SentInv, CreditInv, Watch
  PROVE  CreditInv'
<1>1. PICK x \in mined \ seen : seen' = seen \cup {x} /\ credits' = IF x.run = 0 THEN credits ELSE Credit(x.run, x.fills)
  BY DEF Watch
<1>2. WatcherOn /\ UNCHANGED <<env, runs, job>>
  BY DEF Watch, panel, counts
<1>3. CASE x.run = 0
  BY <1>1, <1>2, <1>3, CreditStays
<1>4. CASE x.run # 0
  <2>1. PICK f, more : f = x.fills /\ more = credits' /\ more = Credit(x.run, f)
    BY <1>1, <1>4
  <2>2. Grown(x.run, f, more)
    <3>1. credits \in [(0..MaxRuns) \X Offers -> Nat]
      BY DEF CreditInv
    <3> QED
      BY <2>1, <3>1, CreditIs
  <2>3. \A r \in 0..MaxRuns, o \in Offers :
          /\ credits[<<r, o>>] \in Nat
          /\ \/ more[<<r, o>>] = credits[<<r, o>>]
             \/ r = x.run /\ o \in Touches(f) /\ more[<<r, o>>] = credits[<<r, o>>] + 1
    BY <2>2 DEF Grown
  <2>4. more \in [(0..MaxRuns) \X Offers -> Nat]
    BY <2>2 DEF Grown
  <2>5. Either' = Either /\ AppliesHere' = AppliesHere
    BY <1>2 DEF Either, AppliesHere
  <2>6. Either => ~AppliesHere
    BY <1>2 DEF Either, WatcherOn, AppliesHere
  <2>7. x \in Sent /\ seen \subseteq Sent /\ x \notin seen /\ x.run <= runs /\ \A y \in seen : Apart(x, y)
    BY <1>1 DEF SentInv, Sent
  <2>8. ASSUME Either, NEW r \in 0..MaxRuns, NEW o \in Offers, CreditedOf(r, o) PROVE CreditedOf(r, o)'
    <3>1. ~AppliesHere /\ x \in seen' /\ seen \subseteq seen'
      BY <1>1, <2>6, <2>8
    <3>2. CASE more[<<r, o>>] = credits[<<r, o>>]
      BY <2>1, <2>5, <2>8, <3>1, <3>2 DEF CreditedOf, Touches
    <3>3. CASE r = x.run /\ o \in Touches(f) /\ more[<<r, o>>] = credits[<<r, o>>] + 1
      <4>1. \A y \in seen : y.run = r => o \notin Touches(y.fills)
        BY <1>4, <2>1, <2>7, <3>3 DEF Apart
      <4>2. credits[<<r, o>>] = 0
        BY <2>8, <3>1, <4>1 DEF CreditedOf
      <4>3. more[<<r, o>>] <= 1
        BY <3>3, <4>2
      <4>4. \E y \in seen' : y.run = r /\ o \in Touches(y.fills)
        BY <2>1, <3>1, <3>3
      <4> QED
        BY <2>1, <2>5, <3>1, <4>3, <4>4 DEF CreditedOf, Touches
    <3> QED
      BY <2>3, <3>2, <3>3
  <2>9. ASSUME NEW r \in 0..MaxRuns, NEW o \in Offers, r > runs PROVE more[<<r, o>>] = 0
    <3>1. r # x.run
      BY <2>7, <2>9, PanelParts, SentTyped DEF Sent
    <3> QED
      BY <2>3, <2>9, <3>1 DEF CreditInv
  <2> QED
    BY <1>2, <2>1, <2>4, <2>5, <2>8, <2>9 DEF CreditInv
<1> QED
  BY <1>3, <1>4

LEMMA RestCredits ==
  ASSUME CreditInv, Broadcast \/ Confirmed \/ Mine \/ OtherTaker \/ Place \/ AttachRaw \/ UNCHANGED vars
  PROVE  CreditInv'
<1>1. UNCHANGED <<credits, env, runs, seen>> /\ (Running(job)' => Running(job))
  BY DEF Broadcast, Confirmed, Quiet, Mine, OtherTaker, Place, AttachRaw, vars, panel, chain, counts, Running
<1> QED
  BY <1>1, CreditStays

LEMMA CreditStep == TypesInv /\ PanelInv /\ SentInv /\ CreditInv /\ [Next]_vars => CreditInv'
<1> SUFFICES ASSUME TypesInv, PanelInv, SentInv, CreditInv, [Next]_vars PROVE CreditInv'
  OBVIOUS
<1>1. CASE PanelOnly
  <2>1. UNCHANGED <<credits, env, runs, seen>> /\ (Running(job)' => Running(job))
    BY <1>1, PanelOnlyIs DEF Running
  <2> QED
    BY <2>1, CreditStays
<1> QED
  BY <1>1, ExecuteCredits, ApplyCredits, WatchCredits, RestCredits DEF Next, PanelOnly

\* A fill is taken out of the book once: /match/apply where the chain watcher is
\* off, the FillWatcher where it is on, whichever of the plan's transactions are
\* mined, before, while or after the hook has thrown or given up waiting, and
\* however late the watcher sees them.
THEOREM CreditedOnce == Spec => []AppliedOnce
<1>1. CreditInv => AppliedOnce
  <2> SUFFICES ASSUME CreditInv, Either, NEW u \in DOMAIN credits PROVE credits[u] <= 1
    BY DEF AppliedOnce, Either
  <2>1. DOMAIN credits = (0..MaxRuns) \X Offers
    BY DEF CreditInv
  <2>2. PICK r \in 0..MaxRuns, o \in Offers : u = <<r, o>>
    BY <2>1
  <2> QED
    BY <2>2 DEF CreditInv, CreditedOf
<1> QED
  BY <1>1, TypesInvariant, SentInit, SentStep, CreditInit, CreditStep, PTL DEF Spec
=============================================================================
