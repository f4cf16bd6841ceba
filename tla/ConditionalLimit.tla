-------------------------- MODULE ConditionalLimit --------------------------
(***************************************************************************)
(* A conditional limit intent from its creation to the order it places:    *)
(* the validator at create and at fire, the monitor's CL branch, the fire  *)
(* service, and the placement service, which POST /orders shares.          *)
(*                                                                         *)
(* A step is what runs between two awaits, except that reads a client does *)
(* back to back (orderHashExists and the duplicate lookup; the balance,    *)
(* the shadow check and the post-only check) are one step.  The book keeps *)
(* one level per order and nothing fills: doubled levels and fills are     *)
(* OrderLedger's, the watcher's passes over the chain are Watchers'.       *)
(***************************************************************************)
EXTENDS OrderTerms, Sequences, FiniteSets, SequencesExt, FiniteSetsExt, Functions

CONSTANTS
  Intents,        \* requests to POST /sea/intents
  Ticks,          \* ticks of the monitor that may overlap
  Desks,          \* requests to POST /orders
  Forms,          \* what a user may type
  Bodies,         \* what clients post to /sea/intents
  DeskOrders,     \* orders posted to /orders
  Rested,         \* those of them that rest from before
  Rules,          \* the market's rules, as they change: a sequence
  Balance,        \* base tokens a maker holds
  Grace,          \* SEA_FIRE_EXPIRY_GRACE_SECS
  Limit,          \* SEA_MONITOR_LIMIT_PER_TICK
  MaxRequests,    \* bound on requests to either endpoint
  MaxFaults       \* bound on failing calls

Slots  == Ticks \cup Desks
Orders == {b.order : b \in Bodies} \cup DeskOrders
Salts  == {o.salt : o \in Orders}

ASSUME SlotsAssumption == Rested \subseteq DeskOrders /\ Ticks \cap Desks = {} /\ Intents \cap Slots = {}
ASSUME RulesAssumption == Rules # <<>> /\ Rules \in Seq(MarketRules)
ASSUME BodiesAssumption == Bodies # {} /\ \A b \in Bodies :
  /\ b.side \in {"BUY", "SELL"}
  /\ b.reference \in {"BEST_ASK", "BEST_BID"} /\ b.type \in {"PRICE_BELOW", "PRICE_ABOVE"}
ASSUME AmountsAssumption == IsFiniteSet(Orders) /\ \A o \in Orders : {o.makerAmount, o.takerAmount, o.salt} \subseteq Nat
ASSUME FormsAssumption == \A f \in Forms :
  {f.size, f.price, f.trigger, f.ttl} \subseteq Nat /\ f.side \in {"BUY", "SELL"}
ASSUME NumbersAssumption == Balance \in Nat /\ Grace \in Nat /\ Limit \in Nat \ {0} /\ {MaxRequests, MaxFaults} \subseteq Nat

VARIABLES
  status, body,      \* the Intent rows ("none": not created, "new": passed the checks)
  created,           \* intents in the order of createdAt
  due,               \* intents past expiresAt
  version, floor,    \* which of Rules holds; the owner's pair floor
  level, row,        \* resting levels and Order rows
  at,                \* what each tick and request is doing
  accepted, known,   \* rules an intent was accepted under; intents live then
  placedBy, orphans, stuck, drifted,   \* what became of a fire
  ghosts,            \* orders whose upsert threw
  faults

intents == <<status, body, created, due>>
market  == <<version, floor>>
book    == <<level, row>>
notes   == <<accepted, known, placedBy, orphans, stuck, drifted, ghosts>>
vars    == <<intents, market, book, at, notes, faults>>

Off == [phase |-> "off", todo |-> <<>>, order |-> CHOOSE o \in Orders : TRUE, passive |-> TRUE,
        open |-> 0, terms |-> [side |-> "BUY", size |-> 0, ticks |-> 0, exact |-> FALSE], raced |-> FALSE, unguarded |-> FALSE]
Answered == [Off EXCEPT !.phase = "answered"]
Empty == [side |-> "none", size |-> 0, ticks |-> 0]
LevelOf(terms) == [side |-> terms.side, size |-> terms.size, ticks |-> terms.ticks]
NoBody == CHOOSE b \in Bodies : TRUE

Statuses == {"none", "new", "refused", "ACTIVE", "TRIGGERED", "PLACED", "CANCELLED", "EXPIRED", "FAILED"}
Now == Rules[version]

Init ==
  /\ status = [i \in Intents |-> "none"] /\ body = [i \in Intents |-> NoBody] /\ created = <<>>
  /\ due = {} /\ version = 1 /\ floor = 0
  /\ level = [o \in Orders |-> IF o \in Rested THEN LevelOf(PlacementTerms(o, Now)) ELSE Empty]
  /\ row = [o \in Orders |-> IF o \in Rested THEN "PLACED" ELSE "none"]
  /\ at = [p \in Slots |-> Off]
  /\ accepted = [i \in Intents |-> 0] /\ known = [i \in Intents |-> {}]
  /\ placedBy = {} /\ orphans = {} /\ stuck = {} /\ drifted = {} /\ ghosts = {} /\ faults = 0

Fault == faults < MaxFaults /\ faults' = faults + 1
MayAsk == Cardinality({i \in Intents : status[i] # "none"}) + Cardinality({d \in Desks : at[d].phase # "off"}) < MaxRequests
To(p, phase) == at' = [at EXCEPT ![p].phase = phase]

-----------------------------------------------------------------------------
\* POST /sea/intents.

\* Mutant of LiveStatuses: a row in the middle of its fire is not looked up.
LiveNotFiring == {"ACTIVE"}
LiveStatuses == {"ACTIVE", "TRIGGERED"}
LiveWith(o) == {j \in Intents : status[j] \in LiveStatuses /\ body[j].order = o}

\* orderHashExists.
Unknown(o) == row[o] = "none"
AboveFloor(o) == o.salt >= floor

\* Mutant of ValidAtCreate: the order need not outlive the intent.
ValidNoGrace(b) ==
  Integrity([b EXCEPT !.expiresAt = 0], Now, 0) /\ Unknown(b.order) /\ LiveWith(b.order) = {} /\ AboveFloor(b.order)
ValidAtCreate(b) ==
  Integrity(b, Now, Grace) /\ Unknown(b.order) /\ LiveWith(b.order) = {} /\ AboveFloor(b.order)

\* The checks of create; its INSERT comes after an await.  (A request takes the
\* first free name, which means nothing; so does a tick.)
Check(i) ==
  /\ status[i] = "none" /\ MayAsk
  /\ i = CHOOSE j \in Intents : status[j] = "none"
  /\ \E b \in Bodies :
       \/ /\ ~ValidAtCreate(b) /\ status' = [status EXCEPT ![i] = "refused"]
          /\ UNCHANGED <<body, accepted, known>>
       \/ /\ ValidAtCreate(b) /\ status' = [status EXCEPT ![i] = "new"]
          /\ body' = [body EXCEPT ![i] = b]
          /\ accepted' = [accepted EXCEPT ![i] = version]
          /\ known' = [known EXCEPT ![i] = {j \in Intents : status[j] \in {"ACTIVE", "TRIGGERED"}}]
  /\ UNCHANGED <<created, due, market, book, at, placedBy, orphans, stuck, drifted, ghosts, faults>>

Insert(i) ==
  /\ status[i] = "new"
  /\ status' = [status EXCEPT ![i] = "ACTIVE"] /\ created' = Append(created, i)
  /\ UNCHANGED <<body, due, market, book, at, notes, faults>>

\* POST /sea/intents/:id/cancel; a TRIGGERED row is not cancellable.
Cancel(i) ==
  /\ status[i] = "ACTIVE" /\ status' = [status EXCEPT ![i] = "CANCELLED"]
  /\ UNCHANGED <<body, created, due, market, book, at, notes, faults>>

PassExpiry(i) ==
  /\ status[i] = "ACTIVE" /\ i \notin due /\ due' = due \cup {i}
  /\ UNCHANGED <<status, body, created, market, book, at, notes, faults>>

\* One row of the expiry sweep.
Sweep(i) ==
  /\ i \in due /\ status[i] = "ACTIVE" /\ status' = [status EXCEPT ![i] = "EXPIRED"]
  /\ UNCHANGED <<body, created, due, market, book, at, notes, faults>>

-----------------------------------------------------------------------------
\* What else moves the market: its rules, the pair floor, off-chain cancels.

ChangeRules ==
  /\ version < Len(Rules) /\ version' = version + 1
  /\ UNCHANGED <<intents, floor, book, at, notes, faults>>

\* A mined cancelPair, as CancelWatcher applies it.
RaiseFloor == \E salt \in Salts :
  /\ salt > floor /\ floor' = salt
  /\ level' = [o \in Orders |-> IF o.salt < salt THEN Empty ELSE level[o]]
  /\ row' = [o \in Orders |-> IF o.salt < salt /\ level[o] # Empty THEN "CANCELLED" ELSE row[o]]
  /\ UNCHANGED <<intents, version, at, notes, faults>>

\* POST /cancel.
Withdraw(o) ==
  /\ row[o] = "PLACED"
  /\ level' = [level EXCEPT ![o] = Empty] /\ row' = [row EXCEPT ![o] = "CANCELLED"]
  /\ UNCHANGED <<intents, market, at, notes, faults>>

Resting(side) == {o \in Orders : level[o].side = side}
BestAsk == Min({level[o].ticks : o \in Resting("SELL")})
BestBid == Max({level[o].ticks : o \in Resting("BUY")})

-----------------------------------------------------------------------------
\* A tick: the oldest live intents, one after another.

Live == {i \in Intents : status[i] = "ACTIVE" /\ i \notin due}
Older(i, j) == \E k, l \in 1..Len(created) : k < l /\ created[k] = i /\ created[l] = j
IsOldest(s) ==
  /\ \A k, l \in 1..Len(s) : k < l => Older(s[k], s[l])
  /\ \A j \in Live \ Range(s) : Len(s) = Limit /\ \A k \in 1..Len(s) : Older(s[k], j)

Load(t) ==
  /\ at[t].phase = "off"
  /\ t = CHOOSE u \in Ticks : at[u].phase = "off"
  /\ \E s \in BoundedSeq(Live, Limit) :
       s # <<>> /\ IsOldest(s) /\ at' = [at EXCEPT ![t] = [Off EXCEPT !.phase = "scanning", !.todo = s]]
  /\ UNCHANGED <<intents, market, book, notes, faults>>

\* Mutant of Next1: the scan does not end with its last row.
Next1Always(t) == [Off EXCEPT !.phase = "scanning", !.todo = Tail(at[t].todo)]
Next1(t) == IF Len(at[t].todo) = 1 THEN Off ELSE [Off EXCEPT !.phase = "scanning", !.todo = Tail(at[t].todo)]
Row(t) == Head(at[t].todo)

\* readReferenceTicks and triggerSatisfied go by the row's own reference and
\* type (any pair is legal in a CL row); an empty side never fires.
Fires(b) ==
  LET side == IF b.reference = "BEST_ASK" THEN "SELL" ELSE "BUY"
      best == IF b.reference = "BEST_ASK" THEN BestAsk ELSE BestBid
  IN  /\ Resting(side) # {}
      /\ IF b.type = "PRICE_BELOW" THEN best <= b.trigger ELSE best >= b.trigger

Quiet(t) ==
  /\ at[t].phase = "scanning" /\ ~Fires(body[Row(t)])
  /\ at' = [at EXCEPT ![t] = Next1(t)]
  /\ UNCHANGED <<intents, market, book, notes, faults>>

\* Mutant of LatchFrom: the UPDATE does not look at the status.
LatchFromAny == Statuses
LatchFrom == {"ACTIVE"}

\* fire: ACTIVE -> TRIGGERED, or the row has moved since it was loaded.
Latch(t) ==
  /\ at[t].phase = "scanning" /\ Fires(body[Row(t)])
  /\ IF status[Row(t)] \in LatchFrom
     THEN status' = [status EXCEPT ![Row(t)] = "TRIGGERED"] /\ To(t, "latched")
     ELSE status' = status /\ at' = [at EXCEPT ![t] = Next1(t)]
  /\ UNCHANGED <<body, created, due, market, book, notes, faults>>

\* getTradingContext throws: the tick logs it and goes on, the row stays.
ContextFails(t) ==
  /\ at[t].phase = "latched" /\ Fault
  /\ stuck' = stuck \cup {Row(t)} /\ at' = [at EXCEPT ![t] = Next1(t)]
  /\ UNCHANGED <<intents, market, book, accepted, known, placedBy, orphans, drifted, ghosts>>

\* Mutant of FailFrom: failIntent expects the row where fire found it.
FailFromActive == {"ACTIVE"}
FailFrom == {"TRIGGERED"}
Failed(t, reason) ==
  /\ status' = [status EXCEPT ![Row(t)] = IF @ \in FailFrom THEN "FAILED" ELSE @]
  /\ drifted' = IF reason \in {"integrity", "price"} THEN drifted \cup {Row(t)} ELSE drifted
  /\ at' = [at EXCEPT ![t] = Next1(t)]
  /\ UNCHANGED <<body, created, due>>

\* validateAtFire: integrity under today's rules and the order's existence ...
Validate(t) ==
  /\ at[t].phase = "latched"
  /\ LET b == body[Row(t)] IN
       \/ /\ ~Integrity(b, Now, Grace) /\ Failed(t, "integrity")
       \/ /\ Integrity(b, Now, Grace) /\ ~Unknown(b.order) /\ Failed(t, "exists")
       \/ /\ Integrity(b, Now, Grace) /\ Unknown(b.order)
          /\ at' = [at EXCEPT ![t].phase = "validated", ![t].order = b.order, ![t].passive = TRUE]
          /\ UNCHANGED <<intents, drifted>>
  /\ UNCHANGED <<market, book, accepted, known, placedBy, orphans, stuck, ghosts, faults>>

\* ... then the floor; placement starts in the same step.
CheckFloor(t) ==
  /\ at[t].phase = "validated"
  /\ \/ ~AboveFloor(at[t].order) /\ Failed(t, "floor")
     \/ AboveFloor(at[t].order) /\ To(t, "placing") /\ UNCHANGED <<intents, drifted>>
  /\ UNCHANGED <<market, book, accepted, known, placedBy, orphans, stuck, ghosts, faults>>

\* POST /orders, signature verified.
Post(d) == \E o \in DeskOrders \ Rested, passive \in BOOLEAN :
  /\ at[d].phase = "off" /\ MayAsk
  /\ at' = [at EXCEPT ![d] = [Off EXCEPT !.phase = "placing", !.order = o, !.passive = passive]]
  /\ UNCHANGED <<intents, market, book, notes, faults>>

-----------------------------------------------------------------------------
\* OrdersPlacementService.place, for a tick's fire or for a desk.

\* A rejection fails the intent, or answers 4xx.
Reject(p, reason) ==
  IF p \in Ticks THEN Failed(p, reason) ELSE at' = [at EXCEPT ![p] = Answered] /\ UNCHANGED <<intents, drifted>>

\* What a maker's open orders sell, counted unit by unit.
BaseOf(o) == PlacementTerms(o, Rules[1]).size
Units(F) == UNION {{x} \X (1..BaseOf(x)) : x \in F}
OpenBase(o) == Cardinality(Units({x \in Orders : row[x] = "PLACED" /\ x.maker = o.maker}))

\* Fee policy, then side, size and price from the amounts, then the maker's
\* open base.
SumOpen(p) ==
  /\ at[p].phase = "placing"
  /\ LET o == at[p].order   terms == PlacementTerms(o, Now) IN
       IF ~o.feeMeetsPolicy THEN Reject(p, "fee")
       ELSE IF ~terms.exact THEN Reject(p, "price")
       ELSE /\ at' = [at EXCEPT ![p].phase = "summed", ![p].terms = terms, ![p].open = OpenBase(o)]
            /\ UNCHANGED <<intents, drifted>>
  /\ UNCHANGED <<market, book, accepted, known, placedBy, orphans, stuck, ghosts, faults>>

Affords(open, size) == open + size <= Balance

\* Mutant of WouldCross: an equal price does not cross.
WouldCrossStrict(side, ticks) ==
  IF side = "BUY" THEN Resting("SELL") # {} /\ ticks > BestAsk ELSE Resting("BUY") # {} /\ ticks < BestBid
WouldCross(side, ticks) ==
  IF side = "BUY" THEN Resting("SELL") # {} /\ ticks >= BestAsk ELSE Resting("BUY") # {} /\ ticks <= BestBid

\* The balance, if the RPC answers; then the top of the book.  A transient RPC
\* error skips the balance; any other one, and a blocking shadow check, reject.
Guard(p) ==
  /\ at[p].phase = "summed"
  /\ LET terms == at[p].terms   crosses == at[p].passive /\ WouldCross(terms.side, terms.ticks) IN
       \/ /\ ~Affords(at[p].open, terms.size) /\ Reject(p, "balance") /\ UNCHANGED faults
       \/ /\ Affords(at[p].open, terms.size) /\ UNCHANGED faults
          /\ IF crosses THEN Reject(p, "crosses") ELSE To(p, "checked") /\ UNCHANGED <<intents, drifted>>
       \/ /\ Fault
          /\ IF crosses THEN Reject(p, "crosses")
             ELSE at' = [at EXCEPT ![p].phase = "checked", ![p].unguarded = TRUE] /\ UNCHANGED <<intents, drifted>>
       \/ Fault /\ Reject(p, "funds")
  /\ UNCHANGED <<market, book, accepted, known, placedBy, orphans, stuck, ghosts>>

\* A level or a row appeared while others were between their reads and theirs.
Disturb(p, phase) ==
  at' = [q \in Slots |-> IF q = p THEN [at[p] EXCEPT !.phase = phase]
                         ELSE [at[q] EXCEPT !.raced = @ \/ at[q].phase \in {"summed", "checked", "pushed"}]]

\* ob.place: its own rules check, its cancel of the same hash, the new level.
Push(p) ==
  /\ at[p].phase = "checked"
  /\ LET o == at[p].order   terms == at[p].terms IN
       IF ~BookAccepts(terms, Now) THEN Reject(p, "rules") /\ UNCHANGED book
       ELSE /\ level' = [level EXCEPT ![o] = LevelOf(terms)]
            /\ row' = [row EXCEPT ![o] = IF level[o] = Empty THEN @ ELSE "CANCELLED"]
            /\ Disturb(p, "pushed") /\ UNCHANGED <<intents, drifted>>
  /\ UNCHANGED <<market, accepted, known, placedBy, orphans, stuck, ghosts, faults>>

Upsert(p) ==
  /\ at[p].phase = "pushed"
  /\ row' = [row EXCEPT ![at[p].order] = "PLACED"] /\ Disturb(p, "stored")
  /\ UNCHANGED <<intents, market, level, notes, faults>>

\* The upsert is outside the rollback: its error leaves the level behind.
UpsertFails(p) ==
  /\ at[p].phase = "pushed" /\ Fault /\ Reject(p, "upsert")
  /\ ghosts' = ghosts \cup {at[p].order}
  /\ UNCHANGED <<market, book, accepted, known, placedBy, orphans, stuck>>

Attach(p) ==
  /\ at[p].phase = "stored" /\ level[at[p].order] # Empty
  /\ IF p \in Ticks THEN To(p, "placed") /\ placedBy' = placedBy \cup {Row(p)}
                    ELSE at' = [at EXCEPT ![p] = Answered] /\ UNCHANGED placedBy
  /\ UNCHANGED <<intents, market, book, accepted, known, orphans, stuck, drifted, ghosts, faults>>

\* Mutant of RolledBack: the rollback forgets the book.
RowOnly(o) == level' = level /\ row' = [row EXCEPT ![o] = "CANCELLED"]
RolledBack(o) == level' = [level EXCEPT ![o] = Empty] /\ row' = [row EXCEPT ![o] = "CANCELLED"]

\* The level is gone by then, or the raw order cannot be stored: rollback.
AttachFails(p) ==
  /\ at[p].phase = "stored"
  /\ IF level[at[p].order] = Empty THEN UNCHANGED faults ELSE Fault
  /\ RolledBack(at[p].order) /\ Reject(p, "raw")
  /\ UNCHANGED <<market, accepted, known, placedBy, orphans, stuck, ghosts>>

Place(p) == SumOpen(p) \/ Guard(p) \/ Push(p) \/ Upsert(p) \/ UpsertFails(p) \/ Attach(p) \/ AttachFails(p)

\* TRIGGERED -> PLACED.
MarkPlaced(t) ==
  /\ at[t].phase = "placed"
  /\ status' = [status EXCEPT ![Row(t)] = IF @ = "TRIGGERED" THEN "PLACED" ELSE @]
  /\ at' = [at EXCEPT ![t] = Next1(t)]
  /\ UNCHANGED <<body, created, due, market, book, notes, faults>>

\* markPlaced throws after the order rests: the intent FAILs all the same.
MarkFails(t) ==
  /\ at[t].phase = "placed" /\ Fault /\ Failed(t, "mark")
  /\ orphans' = orphans \cup {Row(t)}
  /\ UNCHANGED <<market, book, accepted, known, placedBy, stuck, ghosts>>

Fire(t) == Latch(t) \/ ContextFails(t) \/ Validate(t) \/ CheckFloor(t) \/ Place(t) \/ MarkPlaced(t) \/ MarkFails(t)
Tick(t) == Quiet(t) \/ Fire(t)
Desk(d) == Post(d) \/ Place(d)
Intake(i) == Check(i) \/ Insert(i) \/ Cancel(i) \/ PassExpiry(i) \/ Sweep(i)

Next ==
  \/ \E i \in Intents : Intake(i)
  \/ ChangeRules \/ RaiseFloor \/ \E o \in Orders : Withdraw(o)
  \/ \E t \in Ticks : Load(t) \/ Tick(t)
  \/ \E d \in Desks : Desk(d)

\* Time passes, the sweeper runs, and an awaited call of a tick returns.
Fairness ==
  /\ \A i \in Intents : WF_vars(PassExpiry(i)) /\ WF_vars(Sweep(i))
  /\ \A t \in Ticks : WF_vars(Tick(t))

Spec == Init /\ [][Next]_vars /\ Fairness

-----------------------------------------------------------------------------
\* Every variable has its type; only a loaded tick holds rows, and each
\* distinct order has at most one level (intents, book, slots).
TypeOK ==
  /\ status \in [Intents -> Statuses] /\ body \in [Intents -> Bodies]
  /\ created \in Seq(Intents) /\ IsInjective(created) /\ due \subseteq Range(created)
  /\ version \in 1..Len(Rules) /\ floor \in Nat
  /\ \A o \in Orders : row[o] \in {"none", "PLACED", "CANCELLED"}
  /\ \A p \in Slots : at[p].phase \in {"off", "scanning", "latched", "validated", "placing", "summed", "checked", "pushed", "stored", "placed", "answered"}
                      /\ (p \in Ticks => (at[p].todo = <<>> <=> at[p].phase = "off"))
  /\ placedBy \cup orphans \cup stuck \cup drifted \subseteq Intents /\ faults \in 0..MaxFaults

\* What a PLACED intent rests at is what its owner signed for: the side and
\* size declared, at exactly the price of the amounts in ticks that the market
\* has had, and so at the declared ticks while the rules are the first.  An
\* intent that ended any other way left no order of its own fire behind, unless
\* its markPlaced threw (validator's and placement's derivations; fire 229-273).
QuoteOf(b) == IF b.side = "SELL" THEN b.order.takerAmount ELSE b.order.makerAmount
PlacedAsDeclared == \A i \in Intents :
  /\ status[i] = "PLACED" => i \in placedBy /\
       LET b == body[i]   l == level[b.order] IN l # Empty =>
         /\ l.side = b.side /\ l.size = b.size
         /\ \E v \in 1..version : l.ticks * Rules[v].tick * l.size = QuoteOf(b) * Unit
         /\ version = 1 => l.ticks = b.ticks
  /\ i \in placedBy /\ status[i] \notin {"TRIGGERED", "PLACED"} => i \in orphans

FormsPass == [v \in 1..Len(Rules) |-> \A f \in Forms :
  FormAccepted(f, Rules[v]) /\ (f.size * f.price) % Unit = 0 => Integrity(BuiltBody(f, TRUE, Rules[v]), Rules[v], Grace)]

\* A form the browser accepts passes the validator's integrity checks, in
\* any market, when its quote amount is not truncated: the validator takes
\* back from the amounts the size and ticks the form was built from
\* (createCL and computeAmounts against the validator's cross-check).
ExactFormsPass == FormsPass[version]

\* An accepted intent is refused at fire only for what changed since: its
\* integrity cannot fail under the rules it was accepted with
\* (validateAtCreate against validateAtFire).
DriftOnly == \A i \in drifted : version > accepted[i]

\* Two live intents share a signed order only if neither was live when the
\* other was checked (findActiveByPreSignedHash).
OneLivePerOrder == \A i, j \in Intents :
  i # j /\ {status[i], status[j]} \subseteq {"ACTIVE", "TRIGGERED"} /\ body[i].order = body[j].order =>
    i \notin known[j] /\ j \notin known[i]

Pushes(p) == at[p].phase = "checked" /\ at'[p].phase = "pushed"
Stores(p) == at[p].phase = "pushed" /\ at'[p].phase = "stored"

\* OrdersPlacementService.place's post-only check and free-balance guard, made
\* before awaits: a passive order never joins a book it crosses, and a maker's
\* open base stays within the balance, unless another placement went in between
\* or the balance could not be read.
Uncrossed(new) ==
  \A o \in Resting(IF new.side = "BUY" THEN "SELL" ELSE "BUY") :
    IF new.side = "BUY" THEN level[o].ticks > new.ticks ELSE level[o].ticks < new.ticks
PlacedAlone == [][\A p \in Slots : ~at[p].raced =>
  /\ Pushes(p) /\ at[p].passive => Uncrossed(at[p].terms)
  /\ Stores(p) /\ ~at[p].unguarded => (OpenBase(at[p].order) <= Balance)']_vars

\* A failed placement leaves no level without a row, except where the upsert
\* itself threw: nothing in the book is unknown to the database, once no
\* placement stands between its level and its upsert.
LevelsHaveRows == \A o \in Orders :
  level[o] # Empty /\ (\A p \in Slots : at[p].order = o => at[p].phase # "pushed") =>
    row[o] = "PLACED" \/ o \in ghosts

\* Every intent is placed, cancelled, failed or expired in the end (there are
\* finitely many of them), also when older intents keep it out of every tick;
\* only a fire whose market lookup threw leaves its row TRIGGERED
\* (findActiveCLIntents, expiry sweep).
ActiveSettles ==
  <>[](\A i \in Intents : status[i] \notin {"ACTIVE", "TRIGGERED"} \/ i \in stuck)
=============================================================================
