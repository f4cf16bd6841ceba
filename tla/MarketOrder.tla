----------------------------- MODULE MarketOrder -----------------------------
(***************************************************************************)
(* A market order from the trade panel: POST /match/quote sweeps the book, *)
(* useMarketOrder holds the plan while the user approves and executes it,  *)
(* the exchange fills it, and either POST /match/apply or the FillWatcher  *)
(* takes the fill out of the book.                                         *)
(*                                                                         *)
(* The panel is React state: every setter outlives the await before it,    *)
(* whatever the user has done to the inputs meanwhile.  One tick is one    *)
(* unit of quote, so a notional is ticks * size; the rounding of           *)
(* takerTokenFillAmount and the fee are left out, and the allowance is     *)
(* whatever the wallet's read says.                                        *)
(***************************************************************************)
EXTENDS Integers, Sequences, FiniteSets, FiniteSetsExt, Sums

CONSTANTS
  Offers,         \* resting orders, [name, side, ticks, size, ts]
  Later,          \* those of them that are placed while the system runs
  Contested,      \* those another wallet is after
  Sizes, Caps,    \* what a user may enter; NoCap is always among Caps
  MinSize, MinNotional,   \* market.rules
  Checks,         \* gas checks that may be in flight together
  Deployments,    \* environments of the API
  MaxEdits, MaxQuotes, MaxRuns, MaxOthers   \* bounds on the user and on other takers

NoCap == 0
ASSUME OffersAssumption ==
  /\ IsFiniteSet(Offers)
  /\ Later \subseteq Offers /\ Contested \subseteq Offers
  /\ \A o \in Offers : o.side \in {"BUY", "SELL"} /\ o.ticks \in Nat \ {0} /\ o.size \in Nat \ {0} /\ o.ts \in Nat
  /\ \A o, p \in Offers : o # p => o.ts # p.ts
ASSUME InputsAssumption == Sizes \subseteq Nat \ {0} /\ Caps \subseteq Nat /\ NoCap \in Caps
\* An exchange with batchFillLimitOrders; DEV_ONCHAIN_WATCHER; DEV_FILL_WATCHER.
Flags == [batch : BOOLEAN, chainWatcher : BOOLEAN, fillWatcher : {"unset", "0", "1"}]
ASSUME DeploymentsAssumption == Deployments \subseteq Flags
ASSUME BoundsAssumption == {MinSize, MinNotional, MaxEdits, MaxQuotes, MaxRuns, MaxOthers} \subseteq Nat

VARIABLES
  level, raw,     \* the book's level sizes; rows whose signed order is attached
  left,           \* what the exchange will still fill of each order
  env,            \* what the deployment's environment enables
  mode, inputs,   \* the trade panel
  plan,           \* the hook's q
  approval,       \* the hook's needsApproval, and whether takerToken is set
  job,            \* what `busy` stands for
  check,          \* each gas check's own quote, in flight
  mempool, mined, \* sent transactions; fills by the block
  seen,           \* fills the FillWatcher has handed on
  credits,        \* how often a run's fill was taken out of the book
  paid,           \* plans with a transaction the panel saw confirmed
  edits, quotes, runs, others

panel  == <<mode, inputs, plan, approval, job, check>>
market == <<level, raw, left>>
chain  == <<mempool, mined, seen, credits>>
counts == <<edits, quotes, runs, others>>
vars   == <<market, env, panel, chain, paid, counts>>

Sides == {"BUY", "SELL"}
Inputs == [side : Sides, size : Sizes, tif : {"IOC", "FOK"}, cap : Caps]
NoPlan == [id |-> 0]
NoApproval == [needed |-> FALSE, token |-> FALSE]
Idle == [step |-> "idle"]
Init ==
  /\ level = [o \in Offers |-> IF o \in Later THEN 0 ELSE o.size]
  /\ raw = [o \in Offers |-> o \notin Later]
  /\ left = [o \in Offers |-> o.size]
  /\ env \in Deployments
  /\ mode = "MARKET" /\ plan = NoPlan /\ approval = NoApproval /\ job = Idle
  /\ check = [c \in Checks |-> Idle]
  /\ inputs \in {i \in Inputs : i.side = "BUY" /\ i.tif = "IOC" /\ i.cap = NoCap}
  /\ mempool = {} /\ mined = {} /\ seen = {} /\ paid = {}
  /\ credits = [x \in (0..MaxRuns) \X Offers |-> 0]
  /\ edits = 0 /\ quotes = 0 /\ runs = 0 /\ others = 0

-----------------------------------------------------------------------------
\* POST /match/quote.

Bases(fills) == [k \in DOMAIN fills |-> fills[k].base]
Total(fills) == Sum(DOMAIN fills, Bases(fills))
Notional(fills) == Sum(DOMAIN fills, [k \in DOMAIN fills |-> fills[k].offer.ticks * fills[k].base])

\* sortAsks, sortBids: price first, then the time of placement.
Before(o, p) ==
  \/ o.ticks = p.ticks /\ o.ts < p.ts
  \/ IF o.side = "SELL" THEN o.ticks < p.ticks ELSE o.ticks > p.ticks
Against(side) == {o \in Offers : o.side # side /\ level[o] > 0}
Queue(side) ==
  CHOOSE queue \in [1..Cardinality(Against(side)) -> Against(side)] :
    \A j, k \in DOMAIN queue : j < k => Before(queue[j], queue[k])

\* Mutant of Worse: a level at the cap is left out.
WorseOrAt(o, side, cap) == cap # NoCap /\ IF side = "BUY" THEN o.ticks >= cap ELSE o.ticks <= cap
Worse(o, side, cap) == cap # NoCap /\ IF side = "BUY" THEN o.ticks > cap ELSE o.ticks < cap

\* The loop over the levels, from the best one: what is left to take, whether
\* it has come to a level beyond the cap, and the fills so far.
Start(size) == [rest |-> size, over |-> FALSE, fills |-> <<>>]
Visit(acc, o, side, cap) ==
  IF acc.rest = 0 \/ acc.over THEN acc
  ELSE IF Worse(o, side, cap) THEN [acc EXCEPT !.over = TRUE]
  ELSE LET base == Min({acc.rest, level[o]})
       IN [acc EXCEPT !.rest = @ - base, !.fills = Append(@, [offer |-> o, base |-> base])]
Sweep(side, size, cap) ==
  LET queue == Queue(side)
      loop[k \in 0..Len(queue)] == IF k = 0 THEN Start(size) ELSE Visit(loop[k - 1], queue[k], side, cap)
  IN loop[Len(queue)].fills

\* size_below_min_size, fok_insufficient_liquidity, notional_below_min_notional.
Refused(i, fills) ==
  \/ i.size < MinSize
  \/ i.tif = "FOK" /\ Total(fills) < i.size
  \/ fills # <<>> /\ Notional(fills) < MinNotional
\* The signed order comes with the level, or from the order's row.
HasRaw(f) == raw[f.offer]
\* noTxReason: no_fills or missing_raw.
Buildable(fills) == fills # <<>> /\ \A k \in DOMAIN fills : HasRaw(fills[k])

\* One transaction, or one per fill where the exchange has no batch entry point.
Transactions(fills) == IF Len(fills) = 1 \/ env.batch THEN <<fills>> ELSE [k \in DOMAIN fills |-> <<fills[k]>>]

QuoteAnswer(i) ==
  LET fills == Sweep(i.side, i.size, i.cap)
  IN IF Refused(i, fills) \/ ~Buildable(fills) THEN NoPlan
     ELSE [id |-> quotes + 1, for |-> i, fills |-> fills, late |-> FALSE]

-----------------------------------------------------------------------------
\* The panel's inputs.

\* Mutant of SameInputs: the effect does not watch the cap.
SameButCap(i, j) == [i EXCEPT !.cap = NoCap] = [j EXCEPT !.cap = NoCap]
SameInputs(i, j) == i = j

\* An answer in flight is for inputs that have moved.
Outrun(request, i) == IF request.step \in {"asked", "answered"} /\ request.for # i THEN [request EXCEPT !.late = TRUE] ELSE request

\* The invalidation effect: it runs when an input changed, and does nothing
\* when there is no plan.  Dropping a cap is not counted: it takes one to drop.
Change(i) ==
  /\ inputs' = i
  /\ job' = Outrun(job, i) /\ check' = [c \in Checks |-> Outrun(check[c], i)]
  /\ IF plan # NoPlan /\ ~SameInputs(i, inputs)
     THEN plan' = NoPlan /\ approval' = NoApproval
     ELSE UNCHANGED <<plan, approval>>
  /\ edits' = IF i = [inputs EXCEPT !.cap = i.cap] /\ i.cap = NoCap THEN edits ELSE edits + 1
  /\ edits' <= MaxEdits
  /\ UNCHANGED <<market, env, chain, paid, quotes, runs, others>>

\* The cap goes when the side does.
Resized(side, size) ==
  /\ <<side, size>> # <<inputs.side, inputs.size>>
  /\ Change([inputs EXCEPT !.side = side, !.size = size, !.cap = IF side = inputs.side THEN @ ELSE NoCap])

\* One field at a time.
Edit ==
  /\ \/ \E side \in Sides : Resized(side, inputs.size)
     \/ \E size \in Sizes : Resized(inputs.side, size)
     \/ mode = "MARKET" /\ \E tif \in {"IOC", "FOK"} \ {inputs.tif} : Change([inputs EXCEPT !.tif = tif])
  /\ UNCHANGED mode

\* A click on a level of the book: against it, and for its size.
Pick ==
  /\ \E o \in Offers : level[o] \in Sizes /\ \E side \in Sides \ {o.side} : Resized(side, level[o])
  /\ UNCHANGED mode

CancelCap == mode = "MARKET" /\ inputs.cap # NoCap /\ Change([inputs EXCEPT !.cap = NoCap]) /\ UNCHANGED mode

\* Leaving Market mode drops the cap; the plan stays if there was none.
LeaveMarket == mode = "MARKET" /\ mode' = "LIMIT" /\ Change([inputs EXCEPT !.cap = NoCap])
EnterMarket ==
  /\ mode = "LIMIT" /\ mode' = "MARKET"
  /\ UNCHANGED <<market, env, inputs, plan, approval, job, check, chain, paid, counts>>

\* The limit crossed an order that rests or, when the book was read, rested.
Crossed(side, ticks) ==
  \E o \in Offers : /\ o.side # side /\ (raw[o] \/ level[o] > 0)
                    /\ IF side = "BUY" THEN ticks >= o.ticks ELSE ticks <= o.ticks

\* onPlaceLimit routes a crossing limit to the market pipeline: IOC, capped.  Side
\* and price are those of a click in Limit mode, the wallet, the book and the user
\* were asked since: the panel may show other inputs, or Market mode, when the
\* setters run.  It has no cap: leaving Market mode dropped it, and no other click
\* routes meanwhile.
RouteLimit ==
  /\ inputs.cap = NoCap
  /\ \E side \in Sides, ticks \in Caps \ {NoCap} :
       /\ Crossed(side, ticks) /\ mode' = "MARKET"
       /\ Change([inputs EXCEPT !.cap = ticks, !.tif = "IOC"])

-----------------------------------------------------------------------------
\* useMarketOrder.

Busy == job # Idle
Quiet == UNCHANGED <<market, env, mode, inputs, mempool, mined, seen, credits, edits, others>>

\* The one button of the market panel: what it does, and whether it is enabled.
Cta == IF plan = NoPlan THEN "quote" ELSE IF approval.needed THEN "approve" ELSE "execute"
SizeOk(size) == size >= MinSize
NotionalOk(p) == Notional(p.fills) >= MinNotional
Clicked(kind) ==
  /\ mode = "MARKET" /\ ~Busy /\ Cta = kind
  /\ IF kind = "quote" THEN SizeOk(inputs.size) ELSE NotionalOk(plan)

\* The bound counts what is asked for and not served yet.
Asking == Cardinality({c \in Checks : check[c].step = "asked"}) + (IF job.step = "asked" THEN 1 ELSE 0)
MayAsk == quotes + Asking < MaxQuotes

\* Preview quote.
OnQuote ==
  /\ Clicked("quote") /\ MayAsk
  /\ job' = [step |-> "asked", for |-> inputs, late |-> FALSE]
  /\ Quiet /\ UNCHANGED <<plan, approval, check, paid, quotes, runs>>

\* The endpoint's work on a request, or its error.
Answer(request) == {QuoteAnswer(request.for), NoPlan}

ServeQuote ==
  /\ job.step = "asked" /\ quotes < MaxQuotes /\ quotes' = quotes + 1
  /\ \E a \in Answer(job) : job' = [step |-> "answered", for |-> job.for, late |-> job.late, plan |-> a]
  /\ Quiet /\ UNCHANGED <<plan, approval, check, paid, runs>>

\* setQ comes before the allowance is read.
ReceiveQuote ==
  /\ job.step = "answered"
  /\ IF job.plan = NoPlan
     THEN plan' = NoPlan /\ approval' = [approval EXCEPT !.needed = FALSE] /\ job' = Idle
     ELSE /\ plan' = [job.plan EXCEPT !.late = job.late]
          /\ approval' = [approval EXCEPT !.token = TRUE] /\ job' = [step |-> "reading"]
  /\ Quiet /\ UNCHANGED <<check, paid, quotes, runs>>

\* The wallet answers, or throws: the catch drops the plan.
ReadAllowance ==
  /\ job.step = "reading" /\ job' = Idle
  /\ \/ plan' = NoPlan /\ approval' = [approval EXCEPT !.needed = FALSE]
     \/ \E short \in BOOLEAN : approval' = [approval EXCEPT !.needed = short] /\ UNCHANGED plan
  /\ Quiet /\ UNCHANGED <<check, paid, quotes, runs>>

\* Returns at once when the effect has dropped takerToken.
OnApprove ==
  /\ Clicked("approve") /\ approval.token
  /\ job' = [step |-> "approving"]
  /\ Quiet /\ UNCHANGED <<plan, approval, check, paid, quotes, runs>>

Approved ==
  /\ job.step = "approving" /\ job' = Idle
  /\ approval' \in {approval, [approval EXCEPT !.needed = FALSE]}
  /\ Quiet /\ UNCHANGED <<plan, check, paid, quotes, runs>>

\* Check gas: its own quote when there is no plan.  It sets no `busy`: another
\* check, or the preview, may start meanwhile.
OnCheckGas(c) ==
  /\ mode = "MARKET" /\ ~Busy /\ plan = NoPlan /\ check[c] = Idle /\ MayAsk
  /\ check' = [check EXCEPT ![c] = [step |-> "asked", for |-> inputs, late |-> FALSE]]
  /\ Quiet /\ UNCHANGED <<plan, approval, job, paid, quotes, runs>>

ServeCheck(c) ==
  /\ check[c].step = "asked" /\ quotes < MaxQuotes /\ quotes' = quotes + 1
  /\ \E a \in Answer(check[c]) :
       check' = [check EXCEPT ![c] = [step |-> "answered", for |-> check[c].for, late |-> check[c].late, plan |-> a]]
  /\ Quiet /\ UNCHANGED <<plan, approval, job, paid, runs>>

\* Whatever the panel is doing by now; the allowance is not looked at.
ReceiveCheck(c) ==
  /\ check[c].step = "answered" /\ check' = [check EXCEPT ![c] = Idle]
  /\ plan' = IF check[c].plan = NoPlan THEN plan ELSE [check[c].plan EXCEPT !.late = check[c].late]
  /\ Quiet /\ UNCHANGED <<approval, job, paid, quotes, runs>>

\* The click: the handler keeps the plan it was rendered with.
OnExecute ==
  /\ Clicked("execute") /\ runs < MaxRuns
  /\ runs' = runs + 1
  /\ job' = [step |-> "signing", plan |-> plan, next |-> 1]
  /\ Quiet /\ UNCHANGED <<plan, approval, check, paid, quotes>>

\* sendTransaction resolves with the hash.
Broadcast ==
  /\ job.step = "signing" /\ job' = [job EXCEPT !.step = "waiting"]
  /\ mempool' = mempool \cup {[run |-> runs, at |-> job.next, fills |-> Transactions(job.plan.fills)[job.next]]}
  /\ UNCHANGED <<market, env, mode, inputs, plan, approval, check, mined, seen, credits, paid, counts>>

ThisTx(x) == x.run = runs /\ x.at = job.next

\* wait() resolves: the next transaction, or the fills are reported.
Confirmed ==
  /\ job.step = "waiting" /\ \E x \in mined : ThisTx(x)
  /\ paid' = paid \cup {job.plan.id}
  /\ job' = IF job.next < Len(Transactions(job.plan.fills)) THEN [job EXCEPT !.step = "signing", !.next = @ + 1]
            ELSE [job EXCEPT !.step = "applying"]
  /\ Quiet /\ UNCHANGED <<plan, approval, check, quotes, runs>>

\* Mutant of AfterThrow: the plan survives a partial execution.
AfterThrowKept(confirmed) == UNCHANGED <<plan, approval>>
AfterThrow(confirmed) ==
  IF confirmed > 0 THEN plan' = NoPlan /\ approval' = NoApproval ELSE UNCHANGED <<plan, approval>>

\* The wallet refuses, the transaction reverts, or its receipt is not to be
\* had: wait() throws though the transaction may yet be, or is, mined.
Throws ==
  /\ job.step \in {"signing", "waiting"} /\ job' = Idle
  /\ AfterThrow(job.next - 1)
  /\ Quiet /\ UNCHANGED <<check, paid, quotes, runs>>

-----------------------------------------------------------------------------
\* Settling.

\* Mutant of AtMost: a fill is taken off whatever is left.
AtMostAnything(base, there) == base
AtMost(base, there) == Min({base, there})
Asked(o, fills) == Sum({k \in DOMAIN fills : fills[k].offer = o}, Bases(fills))
Deduct(book, fills) == [o \in Offers |-> book[o] - AtMost(Asked(o, fills), book[o])]
Credit(run, fills) ==
  [x \in DOMAIN credits |-> credits[x] + (IF x[1] = run /\ \E k \in DOMAIN fills : fills[k].offer = x[2] /\ fills[k].base > 0 THEN 1 ELSE 0)]

\* Mutant of AppliesHere: the gate reads the watcher's own flag.
AppliesOnUnset == env.fillWatcher # "1"
AppliesHere == ~env.chainWatcher
WatcherOn == IF env.fillWatcher = "unset" THEN env.chainWatcher ELSE env.fillWatcher = "1"

\* POST /match/apply, lost or served, then the consumed plan is cleared.
Apply ==
  /\ job.step = "applying" /\ job' = Idle /\ plan' = NoPlan /\ approval' = NoApproval
  /\ \/ UNCHANGED <<level, credits>>
     \/ /\ AppliesHere
        /\ level' = Deduct(level, job.plan.fills) /\ credits' = Credit(runs, job.plan.fills)
  /\ UNCHANGED <<raw, left, env, mode, inputs, check, mempool, mined, seen, paid, counts>>

\* The exchange fills each order as far as it still can; a lone order with
\* nothing left reverts, in a batch it is skipped (a fill of nothing).
Mine ==
  \E tx \in mempool :
    /\ mempool' = mempool \ {tx}
    /\ LET done == [k \in DOMAIN tx.fills |-> [tx.fills[k] EXCEPT !.base = AtMost(@, left[tx.fills[k].offer])]]
       IN IF Len(done) = 1 /\ done[1].base = 0 THEN UNCHANGED <<left, mined>>
          ELSE left' = Deduct(left, done) /\ mined' = mined \cup {[tx EXCEPT !.fills = done]}
    /\ UNCHANGED <<level, raw, env, panel, seen, credits, paid, counts>>

\* Another wallet takes one unit of an order.
OtherTaker ==
  /\ others < MaxOthers /\ others' = others + 1
  /\ \E o \in Contested :
       /\ left[o] > 0 /\ raw[o]
       /\ left' = [left EXCEPT ![o] = @ - 1]
       /\ mined' = mined \cup {[run |-> 0, at |-> others', fills |-> <<[offer |-> o, base |-> 1]>>]}
  /\ UNCHANGED <<level, raw, env, panel, mempool, seen, credits, paid, edits, quotes, runs>>

\* The FillWatcher hands a block's fills to the book.
Watch ==
  /\ WatcherOn
  /\ \E x \in mined \ seen :
       /\ seen' = seen \cup {x}
       /\ level' = Deduct(level, x.fills) /\ credits' = IF x.run = 0 THEN credits ELSE Credit(x.run, x.fills)
  /\ UNCHANGED <<raw, left, env, panel, mempool, mined, paid, counts>>

\* A maker's order: first its level, then its signed order.
Place ==
  \E o \in Later :
    /\ ~raw[o] /\ level[o] = 0 /\ level' = [level EXCEPT ![o] = o.size]
    /\ UNCHANGED <<raw, left, env, panel, chain, paid, counts>>
AttachRaw ==
  \E o \in Later :
    /\ ~raw[o] /\ level[o] > 0 /\ raw' = [raw EXCEPT ![o] = TRUE]
    /\ UNCHANGED <<level, left, env, panel, chain, paid, counts>>

Next ==
  \/ Edit \/ Pick \/ CancelCap \/ LeaveMarket \/ EnterMarket \/ RouteLimit
  \/ OnQuote \/ ServeQuote \/ ReceiveQuote \/ ReadAllowance \/ OnApprove \/ Approved
  \/ \E c \in Checks : OnCheckGas(c) \/ ServeCheck(c) \/ ReceiveCheck(c)
  \/ OnExecute \/ Broadcast \/ Confirmed \/ Throws \/ Apply
  \/ Mine \/ OtherTaker \/ Watch \/ Place \/ AttachRaw

Spec == Init /\ [][Next]_vars

-----------------------------------------------------------------------------
\* The panel and the book hold what the code's types say; a level never grows
\* past its order, nor the exchange's view of it.
IsPlan(p) ==
  p = NoPlan \/ (p.id \in 1..MaxQuotes /\ p.for \in Inputs /\ p.late \in BOOLEAN /\ p.fills # <<>>)
TypeOK ==
  /\ \A o \in Offers : level[o] \in 0..o.size /\ left[o] \in 0..o.size /\ raw[o] \in BOOLEAN
  /\ env \in Deployments /\ mode \in {"MARKET", "LIMIT"} /\ inputs \in Inputs
  /\ IsPlan(plan) /\ DOMAIN approval = {"needed", "token"}
  /\ job.step \in {"idle", "asked", "answered", "reading", "approving", "signing", "waiting", "applying"}
  /\ \A c \in Checks : check[c].step \in {"idle", "asked", "answered"}
  /\ job.step \in {"signing", "waiting", "applying"} => IsPlan(job.plan) /\ job.next \in 1..Len(Transactions(job.plan.fills))
  /\ \A x \in mempool \cup mined : x.run \in 0..MaxRuns

\* The sweep of OrderBookService.quote: for whatever the panel asks of whatever
\* the book has become, it stays inside the cap, takes as much as there is, and
\* touches no level while a better one is not used up.
SweepIsBest ==
  LET fills == Sweep(inputs.side, inputs.size, inputs.cap)
      got(o) == Asked(o, fills)
      fits(o) == inputs.cap = NoCap \/ (IF inputs.side = "BUY" THEN o.ticks <= inputs.cap ELSE o.ticks >= inputs.cap)
      allowed == {o \in Offers : o.side # inputs.side /\ fits(o)}
      depth == Sum(allowed, level)
  IN /\ \A o \in Offers : got(o) <= level[o] /\ (got(o) > 0 => o \in allowed)
     /\ Total(fills) = Min({inputs.size, depth})
     /\ \A o, p \in allowed : Before(o, p) /\ got(p) > 0 => got(o) = level[o]

\* The invalidation effect of useMarketOrder ("Prevents executing a stale plan
\* against the wrong side / size / TIF"): a plan on the panel was quoted for
\* the inputs it shows, unless they moved while the quote was on its way, and
\* then it is for what they were.
PlanFollowsInputs == plan # NoPlan /\ ~plan.late => plan.for = inputs

\* onExecute clears the plan it consumed, wholly or in part: no transaction is
\* sent again for a plan of which the panel has seen one confirmed.
PaidOnce == [][job'.step = "signing" /\ job.step # "signing" /\ job.step # "waiting" => job'.plan.id \notin paid]_vars

\* /match/apply and the FillWatcher gate on the environment so that one of
\* them records a fill: never both, while DEV_FILL_WATCHER does not part the
\* watcher from DEV_ONCHAIN_WATCHER.
AppliedOnce == (env.fillWatcher = "1" => env.chainWatcher) => \A x \in DOMAIN credits : credits[x] <= 1
=============================================================================
