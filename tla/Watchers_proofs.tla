--------------------------- MODULE Watchers_proofs ---------------------------
(***************************************************************************)
(* Proofs about Watchers, for any chain, orders, overlapping ticks, batch  *)
(* and cap of `seen`, and any number of faults and restarts.               *)
(***************************************************************************)
EXTENDS Watchers, SequenceTheorems, WellFoundedInduction, TLAPS

Busy == {"handling", "applying", "cancelling", "flooring"}

\* What is known of a tick: where it stands in its range, what it holds in each
\* phase, and that its watcher recognizes the transaction in hand.
TxOf(r) == Chain[r.block][Min(r.todo)]
TickOK(r) ==
  /\ r \in [phase : Phases, block : 0..head + 1, target : 0..head, todo : SUBSET Nat, victims : SUBSET Orders]
  /\ r.phase = "off" => r = Off
  /\ r.phase \in Busy \cup {"fetching"} => boot = "up" /\ r.block > 0
  /\ r.phase \in Busy => r.block <= r.target /\ r.todo # {} /\ r.todo \subseteq Own(r.block)
  /\ r.phase = "applying" => Kind[TxOf(r)] \in {"fill", "reverted"}
  /\ r.phase \in {"cancelling", "flooring"} => Kind[TxOf(r)] = "pair"

TicksInv ==
  /\ tick = [s \in Slots |-> tick[s]]
  /\ \A s \in Slots : TickOK(tick[s]) /\ (boot \in {"down", "dead"} => tick[s] = Off)

\* The cursor a running watcher scans from is the one in the file.
CursorInv ==
  /\ on \in {"fill", "cancel"} /\ head \in 0..Len(Chain) /\ boot \in {"down", "dead", "degraded", "up"}
  /\ cursor \in 0..head /\ file \in 0..head /\ (boot = "up" => cursor = file)

RestInv ==
  /\ cooling \in BOOLEAN /\ seen \in Seq(Txs)
  /\ trades \in [Txs -> Nat] /\ applied \in [Txs -> Nat]
  /\ placed \subseteq Orders /\ floor \in Nat /\ late \subseteq Orders
  /\ handled \subseteq Txs /\ dropped \subseteq Txs /\ excused \subseteq Txs
  /\ faults \in 0..MaxFaults /\ restarts \in 0..MaxRestarts

WatchInv == CursorInv /\ TicksInv /\ RestInv

-----------------------------------------------------------------------------
\* Facts about the chain.

LEMMA ChainFacts ==
  /\ Len(Chain) \in Nat
  /\ \A b \in Blocks : Chain[b] \in Seq(Txs)
  /\ \A b \in Blocks : \A k \in 1..Len(Chain[b]) : Chain[b][k] \in Txs
  /\ \A b \in Blocks : \A k \in 1..Len(Chain[b]) : Chain[b][k] \in Range(Chain[b])
  /\ \A t \in Txs : Salt[t] \in Nat
  /\ \A o \in Orders : Salt[o] \in Nat
  <1>1. Chain \in Seq(Seq(Txs)) /\ Salt \in [Txs \cup Orders -> Nat]
    BY ChainAssumption
  <1>2. Len(Chain) \in Nat /\ \A b \in Blocks : Chain[b] \in Seq(Txs)
    BY <1>1, LenProperties, ElementOfSeq DEF Blocks
  <1>3. ASSUME NEW b \in Blocks, NEW k \in 1..Len(Chain[b]) PROVE Chain[b][k] \in Txs /\ Chain[b][k] \in Range(Chain[b])
    <2>1. Chain[b] \in Seq(Txs)
      BY <1>2
    <2>2. Chain[b][k] \in Range(Chain[b])
      BY <2>1, RangeEquality
    <2>3. QED
      BY <2>1, <2>2, ElementOfSeq
  <1>4. QED
    BY <1>1, <1>2, <1>3

\* A set of positions that is not empty has a first one.
LEMMA LeastOfSet ==
  ASSUME NEW S, S \subseteq Nat, S # {}
  PROVE  Min(S) \in S /\ \A m \in S : Min(S) <= m
  <1> DEFINE R == OpToRel(<, Nat)
  <1>1. R = {ss \in Nat \X Nat : ss[1] < ss[2]}
    BY DEF OpToRel
  <1>2. IsWellFoundedOn(R, Nat)
    BY NatLessThanWellFounded
  <1> HIDE DEF R
  <1>3. PICK n \in S : \A m \in S : <<m, n>> \notin R
    BY <1>2, WFMin
  <1>4. ASSUME NEW m \in S, ~(n <= m) PROVE FALSE
    <2>1. m \in Nat /\ n \in Nat /\ m < n
      BY <1>3, <1>4
    <2>2. <<m, n>> \in R
      BY <1>1, <2>1
    <2>3. QED
      BY <1>3, <2>2
  <1>5. QED
    BY <1>4 DEF Min

\* What a sequence holds after an append, and without its head.
LEMMA RangeAppend ==
  ASSUME NEW S, NEW q \in Seq(S), NEW e \in S
  PROVE  Range(Append(q, e)) = Range(q) \cup {e}
  <1>1. /\ Append(q, e) \in Seq(S) /\ Len(Append(q, e)) = Len(q) + 1 /\ Append(q, e)[Len(q) + 1] = e
        /\ \A k \in 1..Len(q) : Append(q, e)[k] = q[k]
    BY AppendProperties
  <1>2. Range(q) = {q[k] : k \in 1..Len(q)} /\ Len(q) \in Nat
    BY RangeEquality, LenProperties
  <1>3. Range(Append(q, e)) = {Append(q, e)[k] : k \in 1..Len(q) + 1}
    BY <1>1, RangeEquality
  <1>4. 1..Len(q) + 1 = (1..Len(q)) \cup {Len(q) + 1}
    BY <1>2
  <1>5. Range(Append(q, e)) \subseteq Range(q) \cup {e}
    <2>1. ASSUME NEW k \in 1..Len(q) + 1 PROVE Append(q, e)[k] \in Range(q) \cup {e}
      BY <1>1, <1>2, <1>4
    <2>2. QED
      BY <1>3, <2>1
  <1>6. Range(q) \cup {e} \subseteq Range(Append(q, e))
    <2>1. ASSUME NEW k \in 1..Len(q) PROVE q[k] \in Range(Append(q, e))
      BY <1>1, <1>3, <1>4
    <2>2. Len(q) + 1 \in 1..Len(q) + 1
      BY <1>2
    <2>3. e \in Range(Append(q, e))
      BY <1>1, <1>3, <2>2
    <2>4. QED
      BY <1>2, <2>1, <2>3
  <1>7. QED
    BY <1>5, <1>6

LEMMA RangeHeadTail ==
  ASSUME NEW S, NEW q \in Seq(S), q # <<>>
  PROVE  Tail(q) \in Seq(S) /\ Range(q) = {Head(q)} \cup Range(Tail(q))
  <1>1. Tail(q) \in Seq(S) /\ Len(Tail(q)) = Len(q) - 1 /\ \A k \in 1..Len(Tail(q)) : Tail(q)[k] = q[k + 1]
    BY HeadTailProperties
  <1>2. Range(q) = {q[k] : k \in 1..Len(q)} /\ Len(q) \in Nat \ {0} /\ Head(q) = q[1]
    BY RangeEquality, EmptySeq
  <1>3. Range(Tail(q)) = {q[k + 1] : k \in 1..Len(q) - 1}
    <2>1. Range(Tail(q)) = {Tail(q)[k] : k \in 1..Len(Tail(q))}
      BY <1>1, RangeEquality
    <2>2. 1..Len(Tail(q)) = 1..Len(q) - 1
      BY <1>1
    <2>3. QED
      BY <1>1, <2>1, <2>2
  <1>4. \A k \in 1..Len(q) : k = 1 \/ (k - 1 \in 1..Len(q) - 1 /\ (k - 1) + 1 = k)
    BY <1>2
  <1>5. Range(q) \subseteq {Head(q)} \cup Range(Tail(q))
    BY <1>2, <1>3, <1>4
  <1>6. {Head(q)} \cup Range(Tail(q)) \subseteq Range(q)
    BY <1>2, <1>3
  <1>7. QED
    BY <1>1, <1>5, <1>6

\* What is known of the transaction in hand.
LEMMA InHand ==
  ASSUME WatchInv, NEW s \in Slots, tick[s].phase \in Busy
  PROVE  /\ tick[s].block \in Blocks /\ First(s) \in Own(tick[s].block)
         /\ First(s) \in tick[s].todo /\ Left(s) \subseteq Own(tick[s].block)
         /\ Tx(s) = TxOf(tick[s]) /\ Tx(s) = Chain[tick[s].block][First(s)]
         /\ Tx(s) \in Txs /\ Tx(s) \in OwnTxs(tick[s].block) /\ BlockOf(Tx(s)) = tick[s].block
         /\ Kind[Tx(s)] \in {"fill", "reverted"} <=> on = "fill"
  <1> DEFINE b == tick[s].block
  <1>1. b \in Blocks /\ tick[s].todo # {} /\ tick[s].todo \subseteq Own(b)
    BY ChainFacts DEF WatchInv, CursorInv, TicksInv, TickOK, Blocks, Busy
  <1> HIDE DEF b
  <1>2. tick[s].todo \subseteq Nat
    BY <1>1 DEF Own
  <1>3. First(s) \in tick[s].todo
    BY <1>1, <1>2, LeastOfSet DEF First
  <1>4. First(s) \in 1..Len(Chain[b]) /\ First(s) \in Own(b)
    BY <1>1, <1>3 DEF Own
  <1>5. Tx(s) = Chain[b][First(s)] /\ Tx(s) \in Txs /\ Tx(s) \in Range(Chain[b])
    BY <1>1, <1>4, ChainFacts DEF Tx, b
  <1>6. BlockOf(Tx(s)) = b
    BY <1>1, <1>5, ChainAssumption DEF BlockOf
  <1>7. Tx(s) = TxOf(tick[s])
    BY DEF Tx, TxOf, First
  <1>8. QED
    BY <1>1, <1>3, <1>4, <1>5, <1>6, <1>7 DEF Left, OwnTxs, Own, b

LEMMA OwnKept == on' = on => \A c : Own(c)' = Own(c) /\ OwnTxs(c)' = OwnTxs(c)
  BY DEF Own, OwnTxs

\* The rest of a block, or the next block, is a tick again.
LEMMA RestOK ==
  ASSUME WatchInv, NEW s \in Slots, tick[s].phase \in Busy \cup {"fetching"}, tick[s].block <= tick[s].target,
         NEW todo, todo \subseteq Own(tick[s].block), UNCHANGED <<on, head, boot>>,
         NEW r, r = Rest(s, todo)
  PROVE  TickOK(r)'
  <1> DEFINE b == tick[s].block
             n == tick[s].target
  <1>1. TickOK(tick[s])
    BY DEF WatchInv, TicksInv
  <1>2. /\ b \in 1..head /\ n \in 0..head /\ head \in Nat /\ b <= n /\ boot' = "up" /\ head' = head
    BY <1>1 DEF WatchInv, CursorInv, TickOK
  <1>3. todo \subseteq Nat /\ todo \subseteq Own(b)
    BY DEF Own
  <1>4. CASE todo = {}
    <2>1. r = [phase |-> "fetching", block |-> b + 1, target |-> n, todo |-> {}, victims |-> {}]
      BY <1>4 DEF Rest, Off
    <2> HIDE DEF b, n
    <2>2. QED
      BY <1>2, <2>1 DEF TickOK, Busy, Phases
  <1>5. CASE todo # {}
    <2>1. r = [phase |-> "handling", block |-> b, target |-> n, todo |-> todo, victims |-> {}]
      BY <1>1, <1>5 DEF Rest, TickOK
    <2> HIDE DEF b, n
    <2>2. r \in [phase : Phases, block : 0..head' + 1, target : 0..head', todo : SUBSET Nat, victims : SUBSET Orders]
      BY <1>2, <1>3, <2>1 DEF Phases
    <2>3. r.phase = "handling" /\ r.block = b /\ r.target = n /\ r.todo = todo
      BY <2>1
    <2>4. QED
      BY <1>2, <1>3, <1>5, <2>2, <2>3, OwnKept DEF TickOK, Busy
  <1>6. QED
    BY <1>4, <1>5

\* A step of one tick, with the watcher running afterwards.
LEMMA OneTick ==
  ASSUME WatchInv, NEW s \in Slots, NEW r, tick' = [tick EXCEPT ![s] = r], TickOK(r)',
         UNCHANGED <<on, head>>, boot' \in {boot, "up"}, boot' \notin {"down", "dead"}
  PROVE  TicksInv'
  <1>1. tick' = [u \in Slots |-> tick'[u]] /\ tick'[s] = r /\ \A u \in Slots : u # s => tick'[u] = tick[u]
    BY DEF WatchInv, TicksInv
  <1>2. ASSUME NEW q, TickOK(q) PROVE TickOK(q)'
    BY <1>2 DEF TickOK, Own, TxOf
  <1>3. ASSUME NEW u \in Slots PROVE TickOK(tick[u])'
    <2>1. CASE u = s
      BY <1>1, <2>1
    <2>2. CASE u # s
      BY <1>1, <1>2, <2>2 DEF WatchInv, TicksInv
    <2>3. QED
      BY <2>1, <2>2
  <1>4. QED
    BY <1>1, <1>3 DEF TicksInv

LEMMA OffOK == WatchInv /\ UNCHANGED <<on, head>> => TickOK(Off)'
  BY DEF WatchInv, CursorInv, TickOK, Off, Phases, Busy

\* A tick with a transaction in hand may go on to the next.
LEMMA AdvanceKeeps ==
  ASSUME WatchInv, NEW s \in Slots, tick[s].phase \in Busy, Advance(s), UNCHANGED <<on, head, boot>>
  PROVE  TicksInv'
  <1>1. TickOK(tick[s]) /\ boot = "up" /\ tick[s].block <= tick[s].target
    BY DEF WatchInv, TicksInv, TickOK
  <1>2. Left(s) \subseteq Own(tick[s].block)
    BY InHand
  <1>3. PICK r : r = Rest(s, Left(s))
    OBVIOUS
  <1>4. TickOK(r)'
    BY <1>1, <1>2, <1>3, RestOK
  <1>5. tick' = [tick EXCEPT ![s] = r]
    BY <1>3 DEF Advance, TickTo
  <1>6. QED
    BY <1>1, <1>4, <1>5, OneTick

\* Or to the next await with it.
LEMMA PhaseKeeps ==
  ASSUME WatchInv, NEW s \in Slots, tick[s].phase \in Busy,
         NEW phase \in {"applying", "cancelling", "flooring"}, NEW victims \in SUBSET Orders,
         NEW r, r = [tick[s] EXCEPT !.phase = phase, !.victims = victims], tick' = [tick EXCEPT ![s] = r],
         phase = "applying" => Kind[Tx(s)] \in {"fill", "reverted"},
         phase # "applying" => Kind[Tx(s)] = "pair",
         UNCHANGED <<on, head, boot>>
  PROVE  TicksInv'
  <1>1. TickOK(tick[s]) /\ boot = "up"
    BY DEF WatchInv, TicksInv, TickOK
  <1>2. PICK b, n, todo : b = tick[s].block /\ n = tick[s].target /\ todo = tick[s].todo
    OBVIOUS
  <1>3. r = [phase |-> phase, block |-> b, target |-> n, todo |-> todo, victims |-> victims]
    BY <1>1, <1>2 DEF TickOK
  <1>4. b \in 0..head + 1 /\ b > 0 /\ n \in 0..head /\ todo \in SUBSET Nat /\ b <= n /\ todo # {} /\ todo \subseteq Own(b)
    BY <1>1, <1>2 DEF TickOK
  <1>5. TxOf(r) = Tx(s)
    BY <1>2, <1>3 DEF TxOf, Tx, First
  <1>6. TickOK(r)'
    <2>1. r \in [phase : Phases, block : 0..head' + 1, target : 0..head', todo : SUBSET Nat, victims : SUBSET Orders]
      BY <1>3, <1>4 DEF Phases
    <2>2. r.phase = phase /\ r.block = b /\ r.target = n /\ r.todo = todo
      BY ONLY <1>3
    <2>3. TxOf(r)' = Tx(s)
      BY <1>5 DEF TxOf
    <2>4. QED
      BY <1>1, <1>4, <2>1, <2>2, <2>3, OwnKept DEF TickOK, Busy
  <1>7. QED
    BY <1>1, <1>6, OneTick

\* A range to scan, from wherever the cursor stands.
LEMMA RangeOK ==
  ASSUME WatchInv, NEW c \in 0..head, NEW n \in 0..head, UNCHANGED head, boot' = "up",
         NEW r, r = [Off EXCEPT !.phase = "fetching", !.block = c + 1, !.target = n]
  PROVE  TickOK(r)'
  <1>1. r = [phase |-> "fetching", block |-> c + 1, target |-> n, todo |-> {}, victims |-> {}]
    BY DEF Off
  <1>2. head \in Nat /\ c + 1 \in 0..head + 1 /\ c + 1 > 0
    BY DEF WatchInv, CursorInv
  <1>3. QED
    BY <1>1, <1>2 DEF TickOK, Phases, Busy

LEMMA TargetInRange == ASSUME NEW latest \in Nat, NEW from \in Nat PROVE Target(latest, from) \in 0..latest
  BY BoundsAssumption DEF Target, Least

\* A tick that stops keeps what is known of the ticks.
LEMMA StopKeeps ==
  ASSUME WatchInv, NEW s \in Slots, tick[s].phase # "off", Stop(s), UNCHANGED <<on, head>>, boot' \in {boot, "up"}
  PROVE  TicksInv'
  <1>1. boot \notin {"down", "dead"}
    BY DEF WatchInv, TicksInv, Off
  <1>2. PICK r : r = Off
    OBVIOUS
  <1>3. TickOK(r)' /\ tick' = [tick EXCEPT ![s] = r]
    BY <1>2, OffOK DEF Stop, TickTo
  <1>4. QED
    BY <1>1, <1>3, OneTick

\* The polled head is in range, and so is the cursor it leaves.
LEMMA CursorStart ==
  ASSUME WatchInv, NEW latest \in 0..head, InitCursor(latest)
  PROVE  cursor' \in 0..head /\ file' \in 0..head /\ cursor' = file'
  BY DEF InitCursor, Anchor, WatchInv, CursorInv

LEMMA PollKeeps ==
  ASSUME WatchInv, NEW s \in Slots, Poll(s)
  PROVE  CursorInv' /\ TicksInv'
  <1>1. PICK latest \in 0..head :
          /\ IF boot = "degraded" THEN InitCursor(latest) ELSE UNCHANGED <<cursor, file, dropped, excused>>
          /\ IF on = "cancel" /\ latest <= cursor' THEN Stop(s)
             ELSE TickTo(s, [Off EXCEPT !.phase = "fetching", !.block = cursor' + 1, !.target = Target(latest, cursor')])
    BY DEF Poll
  <1>2. tick[s].phase = "polling" /\ boot' = "up" /\ UNCHANGED <<on, head>>
    BY DEF Poll
  <1>3. boot \in {"degraded", "up"}
    BY <1>2 DEF WatchInv, CursorInv, TicksInv, Off
  <1>4. cursor' \in 0..head /\ file' \in 0..head /\ cursor' = file'
    BY <1>1, <1>3, CursorStart DEF WatchInv, CursorInv
  <1>5. CursorInv'
    BY <1>2, <1>4 DEF WatchInv, CursorInv
  <1>6. CASE Stop(s)
    BY <1>2, <1>5, <1>6, StopKeeps
  <1>7. CASE TickTo(s, [Off EXCEPT !.phase = "fetching", !.block = cursor' + 1, !.target = Target(latest, cursor')])
    <2>1. PICK c, n, r : c = cursor' /\ n = Target(latest, c) /\ r = [Off EXCEPT !.phase = "fetching", !.block = c + 1, !.target = n]
      OBVIOUS
    <2>2. c \in 0..head /\ n \in 0..head
      <3>1. head \in Nat /\ c \in Nat /\ latest \in Nat /\ latest <= head
        BY <1>4, <2>1 DEF WatchInv, CursorInv
      <3>2. n \in 0..latest
        BY <2>1, <3>1, TargetInRange
      <3>3. QED
        BY <1>4, <2>1, <3>1, <3>2
    <2>3. TickOK(r)'
      BY <1>2, <2>1, <2>2, RangeOK
    <2>4. tick' = [tick EXCEPT ![s] = r]
      BY <1>7, <2>1 DEF TickTo
    <2>5. QED
      BY <1>2, <1>5, <2>3, <2>4, OneTick
  <1>8. QED
    BY <1>1, <1>6, <1>7, <1>5

\* The steps of a tick keep what is known of the ticks.
LEMMA ScanKeepsTicks ==
  ASSUME WatchInv, NEW s \in Slots,
         Start(s) \/ Scan(s) \/ Malformed(s) \/ HandlerFails(s) \/ \E class \in Classes : RpcFails(s, class)
  PROVE  TicksInv'
  <1>1. UNCHANGED <<on, head>>
    BY DEF Start, Scan, Poll, Fetch, End, FillStep, PassOver, SkipReverted, RecordTrade, ApplyFill,
           CancelStep, ListPair, CancelPair, UpsertFloor, CancelSingle, Malformed, HandlerFails, RpcFails
  <1>2. CASE Start(s)
    <2>1. PICK r : r = [Off EXCEPT !.phase = "polling"]
      OBVIOUS
    <2>2. r = [phase |-> "polling", block |-> 0, target |-> 0, todo |-> {}, victims |-> {}]
      BY <2>1 DEF Off
    <2>3. tick' = [tick EXCEPT ![s] = r] /\ boot \in {"up", "degraded"} /\ boot' = boot
      BY <1>2, <2>1 DEF Start, TickTo
    <2>4. TickOK(r)'
      BY <1>1, <2>2 DEF TickOK, Phases, Busy, WatchInv, CursorInv
    <2>5. QED
      BY <1>1, <2>3, <2>4, OneTick
  <1>3. CASE Poll(s)
    BY <1>3, PollKeeps
  <1>4. CASE Fetch(s) \/ Malformed(s)
    <2>1. /\ tick[s].phase = "fetching" /\ tick[s].block <= tick[s].target /\ boot' = boot
          /\ TickTo(s, Rest(s, Own(tick[s].block))) \/ TickTo(s, Rest(s, {}))
      BY <1>4 DEF Fetch, Malformed
    <2>2. PICK todo, r : todo \subseteq Own(tick[s].block) /\ r = Rest(s, todo) /\ TickTo(s, r)
      BY <2>1
    <2>3. boot = "up"
      BY <2>1 DEF WatchInv, TicksInv, TickOK
    <2>4. TickOK(r)'
      BY <1>1, <2>1, <2>2, RestOK
    <2>5. QED
      BY <1>1, <2>1, <2>2, <2>3, <2>4, OneTick DEF TickTo
  <1>5. CASE End(s) \/ \E class \in Classes : RpcFails(s, class)
    <2>1. tick[s].phase # "off" /\ Stop(s) /\ boot' = boot
      BY <1>5 DEF End, RpcFails
    <2>2. QED
      BY <1>1, <2>1, StopKeeps
  <1>6. CASE HandlerFails(s) \/ PassOver(s) \/ SkipReverted(s) \/ ApplyFill(s) \/ UpsertFloor(s) \/ CancelSingle(s)
    <2>1. tick[s].phase \in Busy /\ Advance(s) /\ boot' = boot
      BY <1>6 DEF HandlerFails, PassOver, SkipReverted, ApplyFill, UpsertFloor, CancelSingle, Handles, Busy
    <2>2. QED
      BY <1>1, <2>1, AdvanceKeeps
  <1>7. CASE RecordTrade(s)
    <2>1. PICK r, victims : victims = tick[s].victims /\ r = [tick[s] EXCEPT !.phase = "applying", !.victims = victims]
      OBVIOUS
    <2>2. tick[s].phase \in Busy /\ boot' = boot /\ Kind[Tx(s)] \in {"fill", "reverted"}
      BY <1>7 DEF RecordTrade, Handles, Busy
    <2>3. TickOK(tick[s])
      BY DEF WatchInv, TicksInv
    <2>4. victims \in SUBSET Orders /\ r = [tick[s] EXCEPT !.phase = "applying"]
      BY <2>1, <2>3 DEF TickOK
    <2>5. tick' = [tick EXCEPT ![s] = r]
      BY <1>7, <2>4 DEF RecordTrade, TickTo
    <2>6. QED
      BY <1>1, <2>1, <2>2, <2>4, <2>5, PhaseKeeps
  <1>8. CASE ListPair(s)
    <2>1. PICK r, victims : victims = {o \in placed : Invalidated(o, Tx(s))} /\ r = [tick[s] EXCEPT !.phase = "cancelling", !.victims = victims]
      OBVIOUS
    <2>2. tick[s].phase \in Busy /\ boot' = boot /\ Kind[Tx(s)] = "pair" /\ tick' = [tick EXCEPT ![s] = r]
      BY <1>8, <2>1 DEF ListPair, Handles, Busy, TickTo
    <2>3. victims \in SUBSET Orders
      BY <2>1 DEF WatchInv, RestInv
    <2>4. QED
      BY <1>1, <2>1, <2>2, <2>3, PhaseKeeps
  <1>9. CASE CancelPair(s)
    <2>1. PICK r, victims : victims = tick[s].victims /\ r = [tick[s] EXCEPT !.phase = "flooring", !.victims = victims]
      OBVIOUS
    <2>2. tick[s].phase = "cancelling" /\ boot' = boot
      BY <1>9 DEF CancelPair, Handles
    <2>3. TickOK(tick[s])
      BY DEF WatchInv, TicksInv
    <2>4. victims \in SUBSET Orders /\ r = [tick[s] EXCEPT !.phase = "flooring"]
      BY <2>1, <2>3 DEF TickOK
    <2>5. tick' = [tick EXCEPT ![s] = r]
      BY <1>9, <2>4 DEF CancelPair, TickTo
    <2>6. tick[s].phase \in Busy /\ Kind[Tx(s)] = "pair"
      BY <2>2, <2>3, InHand DEF TickOK, Busy
    <2>7. QED
      BY <1>1, <2>1, <2>2, <2>4, <2>5, <2>6, PhaseKeeps
  <1>10. QED
    BY <1>2, <1>3, <1>4, <1>5, <1>6, <1>7, <1>8, <1>9 DEF Scan, FillStep, CancelStep

\* So do mining, placing, boots and restarts.
LEMMA BootKeepsTicks ==
  ASSUME WatchInv,
         Mine \/ CoolOver \/ BootUp \/ Restart \/ (\E o \in Orders : Place(o)) \/ (\E class \in Classes : BootFails(class))
           \/ UNCHANGED vars
  PROVE  TicksInv'
  <1>1. CASE Mine \/ CoolOver \/ (\E o \in Orders : Place(o)) \/ UNCHANGED vars
    <2>1. UNCHANGED <<on, boot, tick>> /\ head' \in {head, head + 1} /\ head \in Nat
      BY <1>1 DEF Mine, CoolOver, Place, vars, scan, WatchInv, CursorInv
    <2>2. ASSUME NEW q, TickOK(q) PROVE TickOK(q)'
      <3>1. q \in [phase : Phases, block : 0..head' + 1, target : 0..head', todo : SUBSET Nat, victims : SUBSET Orders]
        BY <2>1, <2>2 DEF TickOK
      <3>2. QED
        BY <2>1, <2>2, <3>1, OwnKept DEF TickOK, TxOf
    <2>3. QED
      BY <2>1, <2>2 DEF WatchInv, TicksInv
  <1>2. CASE BootUp \/ Restart \/ (\E class \in Classes : BootFails(class))
    <2>1. tick' = [s \in Slots |-> Off] /\ UNCHANGED <<on, head>>
      BY <1>2 DEF BootUp, Restart, BootFails, WatchInv, TicksInv
    <2>2. TickOK(Off)'
      BY <2>1, OffOK
    <2>3. QED
      BY <2>1, <2>2 DEF TicksInv
  <1>3. QED
    BY <1>1, <1>2

\* The cursor stays within what was mined.
LEMMA CursorKept == WatchInv /\ [Next]_vars => CursorInv'
  <1> SUFFICES ASSUME WatchInv, [Next]_vars PROVE CursorInv'
    OBVIOUS
  <1> USE DEF WatchInv, CursorInv
  <1>1. CASE Mine \/ CoolOver \/ Restart \/ (\E o \in Orders : Place(o)) \/ (\E class \in Classes : BootFails(class)) \/ UNCHANGED vars
    BY <1>1, ChainFacts DEF Mine, CoolOver, Restart, Place, BootFails, vars, scan
  <1>2. CASE BootUp
    <2>1. PICK latest \in 0..head : InitCursor(latest)
      BY <1>2 DEF BootUp
    <2>2. UNCHANGED <<on, head>> /\ boot' = "up"
      BY <1>2 DEF BootUp
    <2>3. QED
      BY <2>1, <2>2, CursorStart
  <1>3. ASSUME NEW s \in Slots, Poll(s) PROVE CursorInv'
    BY <1>3, PollKeeps
  <1>4. ASSUME NEW s \in Slots, End(s) PROVE CursorInv'
    <2>1. tick[s].target \in 0..head /\ cursor' = tick[s].target /\ file' = tick[s].target /\ UNCHANGED <<on, head, boot>>
      BY <1>4 DEF End, TicksInv, TickOK
    <2>2. QED
      BY <2>1
  <1>5. ASSUME NEW s \in Slots,
               Start(s) \/ Fetch(s) \/ FillStep(s) \/ CancelStep(s) \/ Malformed(s) \/ HandlerFails(s)
                 \/ \E class \in Classes : RpcFails(s, class)
        PROVE  CursorInv'
    <2>1. UNCHANGED <<on, head, boot, cursor, file>>
      BY <1>5 DEF Start, Fetch, FillStep, PassOver, SkipReverted, RecordTrade, ApplyFill, CancelStep, ListPair,
                  CancelPair, UpsertFloor, CancelSingle, Malformed, HandlerFails, RpcFails, CursorAfterError
    <2>2. QED
      BY <2>1
  <1>6. QED
    BY <1>1, <1>2, <1>3, <1>4, <1>5 DEF Next, Scan

\* What a range of blocks holds of this watcher's is on the chain.
LEMMA OwnOnChain ==
  /\ \A b \in Blocks : OwnTxs(b) \subseteq Txs
  /\ \A n \in 0..Len(Chain) : OwnUpTo(n) \subseteq Txs
  BY ChainFacts DEF OwnTxs, OwnUpTo, Own, Blocks

\* Types of what a range of blocks leads to.
LEMMA RestKept == WatchInv /\ [Next]_vars => RestInv'
  <1> SUFFICES ASSUME WatchInv, [Next]_vars PROVE RestInv'
    OBVIOUS
  <1>1. RestInv /\ MaxFaults \in Nat /\ MaxRestarts \in Nat
    BY BoundsAssumption DEF WatchInv
  <1>2. Fault => faults' \in 0..MaxFaults
    BY <1>1 DEF RestInv, Fault
  <1>3. CASE Mine \/ CoolOver \/ UNCHANGED vars
    BY <1>1, <1>3 DEF RestInv, Mine, CoolOver, vars, scan, ledger, notes
  <1>4. CASE \E o \in Orders : Place(o)
    BY <1>1, <1>4 DEF RestInv, Place, scan
  <1>5. ASSUME NEW latest \in 0..head, InitCursor(latest)
        PROVE  dropped' \subseteq Txs /\ excused' \subseteq Txs
    <2>1. Anchor(latest) \in 0..Len(Chain)
      BY ChainFacts DEF Anchor, WatchInv, CursorInv
    <2>2. QED
      BY <1>1, <1>5, <2>1, OwnOnChain DEF InitCursor, Forgotten, RestInv
  <1>6. \A latest : Answer(latest) => faults' \in 0..MaxFaults
    BY <1>1, <1>2 DEF Answer, RestInv
  <1>7. CASE BootUp
    <2>1. dropped' \subseteq Txs /\ excused' \subseteq Txs /\ faults' \in 0..MaxFaults
      BY <1>5, <1>6, <1>7 DEF BootUp
    <2>2. UNCHANGED <<cooling, seen, ledger, late, handled, restarts>>
      BY <1>7 DEF BootUp
    <2>3. QED
      BY <1>1, <2>1, <2>2 DEF RestInv, ledger
  <1>8. ASSUME NEW class \in Classes, BootFails(class) \/ \E s \in Slots : RpcFails(s, class) PROVE RestInv'
    <2>1. CoolDown(class) /\ faults' \in 0..MaxFaults /\ UNCHANGED <<seen, ledger, notes, restarts>>
      BY <1>2, <1>8 DEF BootFails, RpcFails
    <2>2. cooling' \in BOOLEAN
      BY <2>1 DEF CoolDown, CoolsFor
    <2>3. QED
      BY <1>1, <2>1, <2>2 DEF RestInv, ledger, notes
  <1>9. CASE Restart
    <2>1. restarts' \in 0..MaxRestarts /\ excused' \subseteq Txs /\ cooling' = FALSE /\ seen' = <<>>
      BY <1>1, <1>9 DEF Restart, RestInv
    <2>2. UNCHANGED <<ledger, late, handled, dropped, faults>>
      BY <1>9 DEF Restart
    <2>3. seen' \in Seq(Txs)
      BY <2>1
    <2>4. QED
      BY <1>1, <2>1, <2>2, <2>3 DEF RestInv, ledger
  <1>10. ASSUME NEW s \in Slots, Poll(s) PROVE RestInv'
    <2>1. dropped' \subseteq Txs /\ excused' \subseteq Txs /\ faults' \in 0..MaxFaults
      BY <1>1, <1>5, <1>6, <1>10 DEF Poll, RestInv
    <2>2. UNCHANGED <<cooling, seen, ledger, late, handled, restarts>>
      BY <1>10 DEF Poll
    <2>3. QED
      BY <1>1, <2>1, <2>2 DEF RestInv, ledger
  <1>11. ASSUME NEW s \in Slots, Start(s) \/ Fetch(s) \/ PassOver(s) \/ ListPair(s) PROVE RestInv'
    <2>1. UNCHANGED <<cooling, seen, ledger, notes, faults, restarts>>
      BY <1>11 DEF Start, Fetch, PassOver, ListPair
    <2>2. QED
      BY <1>1, <2>1 DEF RestInv, ledger, notes
  <1>12. ASSUME NEW s \in Slots, End(s) PROVE RestInv'
    <2>1. excused' \subseteq Txs /\ UNCHANGED <<cooling, seen, ledger, late, handled, dropped, faults, restarts>>
      BY <1>1, <1>12 DEF End, Forgotten, RestInv
    <2>2. QED
      BY <1>1, <2>1 DEF RestInv, ledger
  <1>13. ASSUME NEW s \in Slots, Malformed(s) PROVE RestInv'
    <2>1. tick[s].block \in Blocks
      BY <1>13, ChainFacts DEF Malformed, WatchInv, CursorInv, TicksInv, TickOK, Blocks
    <2>2. dropped' \subseteq Txs /\ faults' \in 0..MaxFaults /\ UNCHANGED <<cooling, seen, ledger, late, handled, excused, restarts>>
      BY <1>1, <1>2, <1>13, <2>1, OwnOnChain DEF Malformed, RestInv
    <2>3. QED
      BY <1>1, <2>2 DEF RestInv, ledger
  <1>14. ASSUME NEW s \in Slots, HandlerFails(s) \/ SkipReverted(s) \/ RecordTrade(s) \/ ApplyFill(s) \/ UpsertFloor(s) \/ CancelSingle(s)
         PROVE  RestInv'
    <2>1. tick[s].phase \in Busy
      BY <1>14 DEF HandlerFails, SkipReverted, RecordTrade, ApplyFill, UpsertFloor, CancelSingle, Handles, Busy
    <2>2. Tx(s) \in Txs
      BY <2>1, InHand
    <2>3. seen \in Seq(Txs) /\ Append(seen, Tx(s)) \in Seq(Txs)
      BY <1>1, <2>2, AppendProperties DEF RestInv
    <2>4. CASE HandlerFails(s)
      <3>1. dropped' \subseteq Txs /\ excused' \subseteq Txs /\ faults' \in 0..MaxFaults
        BY <1>1, <1>2, <2>2, <2>4 DEF HandlerFails, RestInv
      <3>2. UNCHANGED <<cooling, seen, ledger, late, handled, restarts>>
        BY <2>4 DEF HandlerFails
      <3>3. QED
        BY <1>1, <3>1, <3>2 DEF RestInv, ledger
    <2>5. CASE SkipReverted(s)
      BY <1>1, <2>2, <2>3, <2>5 DEF SkipReverted, RestInv, ledger
    <2>6. CASE RecordTrade(s)
      <3>1. trades' \in [Txs -> Nat] /\ faults' \in 0..MaxFaults
        BY <1>1, <1>2, <2>2, <2>6 DEF RecordTrade, RestInv
      <3>2. UNCHANGED <<cooling, seen, applied, placed, floor, notes, restarts>>
        BY <2>6 DEF RecordTrade
      <3>3. QED
        BY <1>1, <3>1, <3>2 DEF RestInv, notes
    <2>7. CASE ApplyFill(s)
      <3>1. Len(seen) >= SeenCap => Head(seen) \in Txs /\ Append(Tail(seen), Tx(s)) \in Seq(Txs)
        <4>1. Len(seen) >= SeenCap => seen # <<>>
          BY BoundsAssumption, EmptySeq
        <4>2. QED
          BY <2>2, <2>3, <4>1, HeadTailProperties, AppendProperties
      <3>2. seen' \in Seq(Txs) /\ excused' \subseteq Txs /\ handled' \subseteq Txs
        BY <1>1, <2>2, <2>3, <2>7, <3>1 DEF ApplyFill, RestInv
      <3>3. applied' \in [Txs -> Nat]
        BY <1>1, <2>2, <2>7 DEF ApplyFill, RestInv
      <3>4. UNCHANGED <<cooling, trades, placed, floor, late, dropped, faults, restarts>>
        BY <2>7 DEF ApplyFill
      <3>5. QED
        BY <1>1, <3>2, <3>3, <3>4 DEF RestInv
    <2>8. CASE UpsertFloor(s)
      <3>1. floor' \in Nat /\ handled' \subseteq Txs /\ dropped' \subseteq Txs /\ faults' \in 0..MaxFaults
        BY <1>1, <1>2, <2>2, <2>8, ChainFacts DEF UpsertFloor, Raised, RestInv
      <3>2. UNCHANGED <<cooling, seen, trades, applied, placed, late, excused, restarts>>
        BY <2>8 DEF UpsertFloor
      <3>3. QED
        BY <1>1, <3>1, <3>2 DEF RestInv
    <2>9. CASE CancelSingle(s)
      BY <1>1, <2>2, <2>9 DEF CancelSingle, RestInv
    <2>10. QED
      BY <1>14, <2>4, <2>5, <2>6, <2>7, <2>8, <2>9
  <1>15. ASSUME NEW s \in Slots, CancelPair(s) PROVE RestInv'
    <2>1. tick[s].victims \subseteq Orders
      BY DEF WatchInv, TicksInv, TickOK
    <2>2. placed' \subseteq Orders /\ late' \subseteq Orders /\ faults' \in 0..MaxFaults
      BY <1>1, <1>2, <1>15, <2>1 DEF CancelPair, RestInv
    <2>3. UNCHANGED <<cooling, seen, trades, applied, floor, handled, dropped, excused, restarts>>
      BY <1>15 DEF CancelPair
    <2>4. QED
      BY <1>1, <2>2, <2>3 DEF RestInv
  <1>16. QED
    BY <1>3, <1>4, <1>7, <1>8, <1>9, <1>10, <1>11, <1>12, <1>13, <1>14, <1>15 DEF Next, Scan, FillStep, CancelStep

\* Cursor and ticks keep to the blocks mined, whatever overlaps, fails, lags
\* behind and restarts.
THEOREM Watching == Spec => []WatchInv
  <1>1. Init => WatchInv
    <2> SUFFICES ASSUME Init PROVE WatchInv
      OBVIOUS
    <2>1. CursorInv
      BY ChainFacts DEF Init, CursorInv
    <2>2. RestInv
      <3>1. trades \in [Txs -> Nat] /\ applied \in [Txs -> Nat] /\ seen \in Seq(Txs)
        BY DEF Init
      <3>2. floor \in Nat /\ faults \in 0..MaxFaults /\ restarts \in 0..MaxRestarts
        <4>1. floor = 0 /\ faults = 0 /\ restarts = 0
          BY DEF Init
        <4>2. QED
          BY <4>1, BoundsAssumption
      <3>3. placed \subseteq Orders /\ late \subseteq Orders /\ handled \subseteq Txs /\ dropped \subseteq Txs /\ excused \subseteq Txs
        BY DEF Init
      <3>4. cooling \in BOOLEAN
        BY DEF Init
      <3>5. QED
        BY <3>1, <3>2, <3>3, <3>4 DEF RestInv
    <2>3. TickOK(Off)
      BY DEF Init, TickOK, Off, Phases, Busy
    <2>4. TicksInv
      BY <2>3 DEF Init, TicksInv
    <2>5. QED
      BY <2>1, <2>2, <2>4 DEF WatchInv
  <1>2. WatchInv /\ [Next]_vars => WatchInv'
    <2> SUFFICES ASSUME WatchInv, [Next]_vars PROVE WatchInv'
      OBVIOUS
    <2>1. TicksInv'
      BY ScanKeepsTicks, BootKeepsTicks DEF Next
    <2>2. QED
      BY <2>1, CursorKept, RestKept DEF WatchInv
  <1>3. QED
    BY <1>1, <1>2, PTL DEF Spec

\* Types; the cursor in the file is one that loads, or zero.
THEOREM Typed == Spec => []TypeOK
  <1>1. WatchInv => TypeOK
    <2> SUFFICES ASSUME WatchInv PROVE TypeOK
      OBVIOUS
    <2>1. tick \in [Slots -> [phase : Phases, block : 0..Len(Chain) + 1, target : 0..Len(Chain),
                              todo : SUBSET Nat, victims : SUBSET Orders]]
      <3>1. 0..head + 1 \subseteq 0..Len(Chain) + 1 /\ 0..head \subseteq 0..Len(Chain)
        BY ChainFacts DEF WatchInv, CursorInv
      <3>2. QED
        BY <3>1 DEF WatchInv, TicksInv, TickOK
    <2>2. QED
      BY <2>1 DEF WatchInv, CursorInv, RestInv, TypeOK
  <1>2. QED
    BY <1>1, Watching, PTL
-----------------------------------------------------------------------------
\* What lies behind the file's cursor, behind a scan's block, and before the
\* transaction in hand in that block, was handled or given up.
Done == handled \cup dropped
PassedOK(r) ==
  /\ r.phase \in Busy \cup {"fetching"} => OwnUpTo(r.block - 1) \subseteq Done
  /\ r.phase \in Busy => \A k \in Own(r.block) \ r.todo : Chain[r.block][k] \in Done
PassedInv ==
  /\ OwnUpTo(file) \subseteq Done /\ Range(seen) \subseteq handled
  /\ \A s \in Slots : PassedOK(tick[s])

LEMMA OwnUpToKept == on' = on => \A n : OwnUpTo(n)' = OwnUpTo(n)
  BY OwnKept DEF OwnUpTo

LEMMA OwnUpToNext ==
  /\ OwnUpTo(0) = {}
  /\ \A n \in Nat : OwnUpTo(n + 1) = OwnUpTo(n) \cup OwnTxs(n + 1)
  /\ \A m, n \in Nat : m <= n => OwnUpTo(m) \subseteq OwnUpTo(n)
  <1>1. OwnUpTo(0) = {}
    BY DEF OwnUpTo
  <1>2. ASSUME NEW n \in Nat PROVE OwnUpTo(n + 1) = OwnUpTo(n) \cup OwnTxs(n + 1)
    <2>1. 1..n + 1 = (1..n) \cup {n + 1}
      OBVIOUS
    <2>2. QED
      BY <2>1 DEF OwnUpTo
  <1>3. ASSUME NEW m \in Nat, NEW n \in Nat, m <= n PROVE OwnUpTo(m) \subseteq OwnUpTo(n)
    <2>1. 1..m \subseteq 1..n
      BY <1>3
    <2>2. QED
      BY <2>1 DEF OwnUpTo
  <1>4. QED
    BY <1>1, <1>2, <1>3

\* The ticks a step leaves alone have passed no less than before.
LEMMA OthersPassed ==
  ASSUME WatchInv, PassedInv, on' = on, Done \subseteq Done', NEW s \in Slots, NEW r, tick' = [tick EXCEPT ![s] = r],
         PassedOK(r)', OwnUpTo(file)' \subseteq Done', (Range(seen) \subseteq handled)'
  PROVE  PassedInv'
  <1>1. tick'[s] = r /\ \A u \in Slots : u # s => tick'[u] = tick[u]
    BY DEF WatchInv, TicksInv
  <1>2. ASSUME NEW q, PassedOK(q) PROVE PassedOK(q)'
    <2>1. q.phase \in Busy \cup {"fetching"} => OwnUpTo(q.block - 1)' \subseteq Done'
      BY <1>2, OwnUpToKept DEF PassedOK
    <2>2. q.phase \in Busy => \A k \in Own(q.block)' \ q.todo : Chain[q.block][k] \in Done'
      BY <1>2, OwnKept DEF PassedOK
    <2>3. QED
      BY <2>1, <2>2 DEF PassedOK
  <1>3. QED
    BY <1>1, <1>2 DEF PassedInv

\* A scan that goes on has the rest of its block, or all of it, behind it.
LEMMA RestPassed ==
  ASSUME WatchInv, PassedInv, on' = on, Done \subseteq Done', NEW s \in Slots, NEW todo, NEW r, r = Rest(s, todo),
         tick[s].phase \in Busy \cup {"fetching"}, tick[s].block <= tick[s].target,
         \A k \in Own(tick[s].block) \ todo : Chain[tick[s].block][k] \in Done'
  PROVE  PassedOK(r)'
  <1>1. PICK b : b = tick[s].block
    OBVIOUS
  <1>2. b \in Nat \ {0} /\ OwnUpTo(b - 1)' \subseteq Done' /\ TickOK(tick[s])
    BY <1>1, OwnUpToKept DEF WatchInv, CursorInv, TicksInv, TickOK, PassedInv, PassedOK
  <1>3. CASE todo = {}
    <2>1. r.phase = "fetching" /\ r.block = b + 1
      BY <1>1, <1>3 DEF Rest, Off
    <2>2. OwnTxs(b) \subseteq Done'
      BY <1>1, <1>3 DEF OwnTxs
    <2>3. OwnUpTo(b) \subseteq Done'
      <3>1. b - 1 \in Nat /\ (b - 1) + 1 = b
        BY <1>2
      <3>2. OwnUpTo(b - 1) \subseteq Done'
        BY <1>2, OwnUpToKept
      <3>3. QED
        BY <2>2, <3>1, <3>2, OwnUpToNext
    <2>4. r.block - 1 = b
      BY <1>2, <2>1
    <2>5. OwnUpTo(r.block - 1)' \subseteq Done'
      BY <2>3, <2>4, OwnUpToKept
    <2>6. QED
      BY <2>1, <2>5 DEF PassedOK, Busy
  <1>4. CASE todo # {}
    <2>1. r.phase = "handling" /\ r.block = b /\ r.todo = todo
      BY <1>1, <1>2, <1>4 DEF Rest, TickOK
    <2>2. \A k \in Own(r.block)' \ r.todo : Chain[r.block][k] \in Done'
      BY <1>1, <2>1, OwnKept
    <2>3. QED
      BY <1>2, <2>1, <2>2 DEF PassedOK
  <1>5. QED
    BY <1>3, <1>4

\* A transaction handled or given up is behind the scan.
LEMMA AdvancePassed ==
  ASSUME WatchInv, PassedInv, UNCHANGED <<on, file>>, Done \subseteq Done', NEW s \in Slots, tick[s].phase \in Busy, Advance(s),
         Tx(s) \in Done', (Range(seen) \subseteq handled)'
  PROVE  PassedInv'
  <1>1. PICK r : r = Rest(s, Left(s))
    OBVIOUS
  <1>2. tick[s].block <= tick[s].target
    BY DEF WatchInv, TicksInv, TickOK
  <1>3. \A k \in Own(tick[s].block) \ Left(s) : Chain[tick[s].block][k] \in Done'
    BY InHand DEF PassedInv, PassedOK, Left
  <1>4. PassedOK(r)'
    BY <1>1, <1>2, <1>3, RestPassed
  <1>5. tick' = [tick EXCEPT ![s] = r]
    BY <1>1 DEF Advance, TickTo
  <1>6. OwnUpTo(file)' \subseteq Done'
    BY OwnUpToKept DEF PassedInv, OwnUpTo
  <1>7. QED
    BY <1>4, <1>5, <1>6, OthersPassed

\* A cursor that resumes, starts near the head or moves back leaves nothing behind.
LEMMA StartPassed ==
  ASSUME WatchInv, PassedInv, NEW latest \in 0..head, InitCursor(latest), UNCHANGED <<on, handled>>
  PROVE  Done \subseteq Done' /\ OwnUpTo(file)' \subseteq Done'
  <1>1. file \in Nat /\ Anchor(latest) \in Nat /\ Anchor(latest) <= latest /\ latest \in Nat
    BY DEF WatchInv, CursorInv, Anchor
  <1>2. \A n : OwnUpTo(n)' = OwnUpTo(n)
    BY OwnUpToKept
  <1>3. CASE file > 0 /\ file <= latest
    <2>1. UNCHANGED <<file, dropped>>
      BY <1>3 DEF InitCursor
    <2>2. OwnUpTo(file)' = OwnUpTo(file)
      BY <2>1 DEF OwnUpTo, OwnTxs, Own
    <2>3. QED
      BY <2>1, <2>2 DEF PassedInv, Done
  <1>4. CASE ~(file > 0 /\ file <= latest)
    <2>1. PICK a : a = Anchor(latest)
      OBVIOUS
    <2>2. file' = a /\ dropped' = IF file = 0 THEN dropped \cup (OwnUpTo(a) \ handled) ELSE dropped
      BY <1>4, <2>1 DEF InitCursor
    <2>3. Done \subseteq Done'
      BY <2>2 DEF Done
    <2>4. OwnUpTo(file)' = OwnUpTo(a)
      BY <2>2, <1>2 DEF OwnUpTo
    <2>5. OwnUpTo(a) \subseteq Done'
      <3>1. CASE file = 0
        BY <2>2, <3>1 DEF Done
      <3>2. CASE file # 0
        BY <1>1, <1>4, <2>1, <2>3, <3>2, OwnUpToNext DEF PassedInv
      <3>3. QED
        BY <3>1, <3>2
    <2>6. QED
      BY <2>3, <2>4, <2>5
  <1>5. QED
    BY <1>3, <1>4

\* A tick that holds no range has passed nothing.
LEMMA IdlePassed ==
  ASSUME WatchInv, PassedInv, UNCHANGED <<on, file, seen>>, Done \subseteq Done', handled \subseteq handled', NEW s \in Slots,
         NEW r, tick' = [tick EXCEPT ![s] = r], r.phase \in {"off", "polling"}
  PROVE  PassedInv'
  <1>1. PassedOK(r)'
    BY DEF PassedOK, Busy
  <1>2. OwnUpTo(file)' \subseteq Done' /\ (Range(seen) \subseteq handled)'
    BY DEF PassedInv, OwnUpTo, OwnTxs, Own
  <1>3. QED
    BY <1>1, <1>2, OthersPassed

\* The steps between two transactions.
LEMMA ScanPassed ==
  ASSUME WatchInv, PassedInv, NEW s \in Slots,
         Start(s) \/ Poll(s) \/ Fetch(s) \/ End(s) \/ Malformed(s) \/ \E class \in Classes : RpcFails(s, class)
  PROVE  PassedInv'
  <1>1. UNCHANGED <<on, seen, handled>>
    BY DEF Start, Poll, Fetch, End, Malformed, RpcFails, notes
  <1>2. (Range(seen) \subseteq handled)'
    BY <1>1 DEF PassedInv
  <1>3. CASE Start(s)
    <2>1. PICK r : r = [Off EXCEPT !.phase = "polling"]
      OBVIOUS
    <2>2. r.phase = "polling" /\ tick' = [tick EXCEPT ![s] = r] /\ Done' = Done /\ file' = file
      BY <1>3, <2>1 DEF Start, TickTo, Off, Done, notes
    <2>3. QED
      BY <1>1, <2>2, IdlePassed
  <1>4. CASE \E class \in Classes : RpcFails(s, class)
    <2>1. tick' = [tick EXCEPT ![s] = Off] /\ Done' = Done /\ file' = file
      BY <1>4 DEF RpcFails, Stop, TickTo, Done, notes
    <2>2. QED
      BY <1>1, <2>1, IdlePassed DEF Off
  <1>5. CASE End(s)
    <2>1. PICK n : n = tick[s].target
      OBVIOUS
    <2>2. /\ tick[s].phase = "fetching" /\ tick[s].block > n /\ file' = n /\ Done' = Done /\ tick' = [tick EXCEPT ![s] = Off]
          /\ tick[s].block \in Nat /\ n \in Nat
      BY <1>5, <2>1 DEF End, Stop, TickTo, Done, WatchInv, CursorInv, TicksInv, TickOK
    <2>3. OwnUpTo(tick[s].block - 1) \subseteq Done
      BY <2>2 DEF PassedInv, PassedOK
    <2>4. OwnUpTo(n) \subseteq Done'
      BY <2>2, <2>3, OwnUpToNext
    <2>5. OwnUpTo(file)' \subseteq Done'
      BY <1>1, <2>2, <2>4, OwnKept DEF OwnUpTo
    <2>6. PassedOK(Off)'
      BY DEF PassedOK, Off, Busy
    <2>7. QED
      BY <1>1, <1>2, <2>2, <2>5, <2>6, OthersPassed
  <1>6. CASE Fetch(s) \/ Malformed(s)
    <2>1. PICK b : b = tick[s].block
      OBVIOUS
    <2>2. tick[s].phase = "fetching" /\ tick[s].block <= tick[s].target /\ file' = file
      BY <1>6 DEF Fetch, Malformed
    <2>3. OwnUpTo(file)' = OwnUpTo(file)
      BY <1>1, <2>2 DEF OwnUpTo, OwnTxs, Own
    <2>4. \E todo : /\ TickTo(s, Rest(s, todo)) /\ Done \subseteq Done'
                    /\ \A k \in Own(b) \ todo : Chain[b][k] \in Done'
      <3>1. CASE Fetch(s)
        BY <2>1, <3>1 DEF Fetch, Done, notes
      <3>2. CASE Malformed(s)
        <4>1. TickTo(s, Rest(s, {})) /\ dropped' = dropped \cup (OwnTxs(b) \ handled) /\ handled' = handled
          BY <2>1, <3>2 DEF Malformed
        <4>2. OwnTxs(b) \subseteq Done' /\ Done \subseteq Done'
          BY <4>1 DEF Done
        <4>3. \A k \in Own(b) : Chain[b][k] \in Done'
          BY <4>2 DEF OwnTxs
        <4>4. QED
          BY <4>1, <4>2, <4>3
      <3>3. QED
        BY <1>6, <3>1, <3>2
    <2>5. PICK todo, r : /\ r = Rest(s, todo) /\ TickTo(s, r) /\ Done \subseteq Done'
                         /\ \A k \in Own(b) \ todo : Chain[b][k] \in Done'
      BY <2>4
    <2>6. PassedOK(r)'
      BY <1>1, <2>1, <2>2, <2>5, RestPassed
    <2>7. QED
      BY <1>1, <1>2, <2>3, <2>5, <2>6, OthersPassed DEF TickTo, PassedInv
  <1>7. CASE Poll(s)
    <2>1. PICK latest \in 0..head :
            /\ IF boot = "degraded" THEN InitCursor(latest) ELSE UNCHANGED <<cursor, file, dropped, excused>>
            /\ IF on = "cancel" /\ latest <= cursor' THEN Stop(s)
               ELSE TickTo(s, [Off EXCEPT !.phase = "fetching", !.block = cursor' + 1, !.target = Target(latest, cursor')])
      BY <1>7 DEF Poll
    <2>2. Done \subseteq Done' /\ OwnUpTo(file)' \subseteq Done'
      <3>1. CASE boot = "degraded"
        BY <1>1, <2>1, <3>1, StartPassed
      <3>2. CASE boot # "degraded"
        <4>1. UNCHANGED <<file, dropped>>
          BY <2>1, <3>2
        <4>2. QED
          BY <1>1, <4>1 DEF PassedInv, Done, OwnUpTo, OwnTxs, Own
      <3>3. QED
        BY <3>1, <3>2
    <2>3. cursor' = file' /\ cursor' \in Nat
      <3>1. boot' = "up"
        BY <1>7 DEF Poll
      <3>2. CursorInv'
        BY <1>7, PollKeeps
      <3>3. QED
        BY <3>1, <3>2 DEF CursorInv
    <2>4. CASE Stop(s)
      <3>1. PassedOK(Off)' /\ tick' = [tick EXCEPT ![s] = Off]
        BY <2>4 DEF PassedOK, Off, Busy, Stop, TickTo
      <3>2. QED
        BY <1>1, <1>2, <2>2, <3>1, OthersPassed
    <2>5. CASE TickTo(s, [Off EXCEPT !.phase = "fetching", !.block = cursor' + 1, !.target = Target(latest, cursor')])
      <3>1. PICK c, r : c = cursor' /\ r = [Off EXCEPT !.phase = "fetching", !.block = c + 1, !.target = Target(latest, c)]
        OBVIOUS
      <3>2. r.phase = "fetching" /\ r.block - 1 = c /\ tick' = [tick EXCEPT ![s] = r]
        BY <2>3, <2>5, <3>1 DEF Off, TickTo
      <3>3. OwnUpTo(r.block - 1)' \subseteq Done'
        BY <1>1, <2>2, <2>3, <3>1, <3>2 DEF OwnUpTo
      <3>4. PassedOK(r)'
        BY <3>2, <3>3 DEF PassedOK, Busy
      <3>5. QED
        BY <1>1, <1>2, <2>2, <3>2, <3>4, OthersPassed
    <2>6. QED
      BY <2>1, <2>4, <2>5
  <1>8. QED
    BY <1>3, <1>4, <1>5, <1>6, <1>7

\* What is handled stays handled, and `seen` holds nothing else.
LEMMA SeenHandled ==
  ASSUME WatchInv, PassedInv, NEW s \in Slots, tick[s].phase \in Busy,
         PassOver(s) \/ SkipReverted(s) \/ RecordTrade(s) \/ ApplyFill(s) \/ HandlerFails(s) \/ CancelStep(s)
  PROVE  handled \subseteq handled' /\ dropped \subseteq dropped' /\ (Range(seen) \subseteq handled)'
  <1>1. seen \in Seq(Txs) /\ Tx(s) \in Txs
    BY InHand DEF WatchInv, RestInv
  <1>2. \A q \in Seq(Txs) : Range(q) \subseteq handled => Range(Append(q, Tx(s))) \subseteq handled \cup {Tx(s)}
    BY <1>1, RangeAppend
  <1>3. CASE SkipReverted(s)
    BY <1>1, <1>2, <1>3 DEF SkipReverted, PassedInv
  <1>4. CASE ApplyFill(s)
    <2>1. handled' = handled \cup {Tx(s)} /\ dropped' = dropped
          /\ seen' = Append(IF Len(seen) >= SeenCap THEN Tail(seen) ELSE seen, Tx(s))
      BY <1>4 DEF ApplyFill
    <2>2. CASE Len(seen) >= SeenCap
      <3>1. seen # <<>>
        BY <2>2, BoundsAssumption, EmptySeq
      <3>2. Tail(seen) \in Seq(Txs) /\ Range(Tail(seen)) \subseteq handled
        BY <1>1, <3>1, RangeHeadTail DEF PassedInv
      <3>3. QED
        BY <1>2, <2>1, <2>2, <3>2
    <2>3. CASE ~(Len(seen) >= SeenCap)
      BY <1>1, <1>2, <2>1, <2>3 DEF PassedInv
    <2>4. QED
      BY <2>2, <2>3
  <1>5. CASE PassOver(s) \/ RecordTrade(s) \/ HandlerFails(s) \/ CancelStep(s)
    <2>1. seen' = seen /\ handled \subseteq handled' /\ dropped \subseteq dropped'
      BY <1>5 DEF PassOver, RecordTrade, HandlerFails, CancelStep, ListPair, CancelPair, UpsertFloor, CancelSingle, notes
    <2>2. QED
      BY <2>1 DEF PassedInv
  <1>6. QED
    BY <1>3, <1>4, <1>5

\* On to the next await with the transaction in hand.
Moves(s, r, phase) ==
  tick' = [tick EXCEPT ![s] = r] /\ r.phase = phase /\ r.block = tick[s].block /\ r.todo = tick[s].todo

LEMMA PhaseStep ==
  ASSUME WatchInv, NEW s \in Slots
  PROVE  /\ RecordTrade(s) => \E r : Moves(s, r, "applying")
         /\ ListPair(s) => \E r : Moves(s, r, "cancelling") /\ r.victims = {o \in placed : Invalidated(o, Tx(s))}
         /\ CancelPair(s) => \E r : Moves(s, r, "flooring")
  <1>1. tick[s] \in [phase : Phases, block : 0..head + 1, target : 0..head, todo : SUBSET Nat, victims : SUBSET Orders]
    BY DEF WatchInv, TicksInv, TickOK
  <1>2. ASSUME RecordTrade(s) PROVE \E r : Moves(s, r, "applying")
    <2>1. PICK r : r = [tick[s] EXCEPT !.phase = "applying"]
      OBVIOUS
    <2>2. tick' = [tick EXCEPT ![s] = r]
      BY <1>2, <2>1 DEF RecordTrade, TickTo
    <2>3. r.phase = "applying" /\ r.block = tick[s].block /\ r.todo = tick[s].todo
      BY ONLY <1>1, <2>1
    <2>4. QED
      BY <2>2, <2>3 DEF Moves
  <1>3. ASSUME ListPair(s)
        PROVE  \E r : Moves(s, r, "cancelling") /\ r.victims = {o \in placed : Invalidated(o, Tx(s))}
    <2>1. PICK victims, r : /\ victims = {o \in placed : Invalidated(o, Tx(s))}
                            /\ r = [tick[s] EXCEPT !.phase = "cancelling", !.victims = victims]
      OBVIOUS
    <2>2. tick' = [tick EXCEPT ![s] = r]
      BY <1>3, <2>1 DEF ListPair, TickTo
    <2>3. r.phase = "cancelling" /\ r.block = tick[s].block /\ r.todo = tick[s].todo /\ r.victims = victims
      BY ONLY <1>1, <2>1
    <2>4. QED
      BY <2>1, <2>2, <2>3 DEF Moves
  <1>4. ASSUME CancelPair(s) PROVE \E r : Moves(s, r, "flooring")
    <2>1. PICK r : r = [tick[s] EXCEPT !.phase = "flooring"]
      OBVIOUS
    <2>2. tick' = [tick EXCEPT ![s] = r]
      BY <1>4, <2>1 DEF CancelPair, TickTo
    <2>3. r.phase = "flooring" /\ r.block = tick[s].block /\ r.todo = tick[s].todo
      BY ONLY <1>1, <2>1
    <2>4. QED
      BY <2>2, <2>3 DEF Moves
  <1>5. QED
    BY <1>2, <1>3, <1>4

\* The handling of a transaction.
LEMMA HandlePassed ==
  ASSUME WatchInv, PassedInv, NEW s \in Slots,
         FillStep(s) \/ CancelStep(s) \/ HandlerFails(s)
  PROVE  PassedInv'
  <1>1. tick[s].phase \in Busy /\ UNCHANGED <<on, file>>
    BY DEF FillStep, PassOver, SkipReverted, RecordTrade, ApplyFill, CancelStep, ListPair, CancelPair, UpsertFloor, CancelSingle,
           HandlerFails, Handles, Busy
  <1>2. Done \subseteq Done' /\ (Range(seen) \subseteq handled)'
    BY <1>1, SeenHandled DEF FillStep, Done
  <1>3. CASE PassOver(s) \/ SkipReverted(s) \/ ApplyFill(s) \/ HandlerFails(s) \/ UpsertFloor(s) \/ CancelSingle(s)
    <2>1. Advance(s)
      BY <1>3 DEF PassOver, SkipReverted, ApplyFill, HandlerFails, UpsertFloor, CancelSingle
    <2>2. Tx(s) \in Done'
      <3>1. CASE PassOver(s)
        BY <1>2, <3>1 DEF PassOver, Seen, PassedInv, Done
      <3>2. CASE SkipReverted(s) \/ ApplyFill(s) \/ CancelSingle(s)
        BY <3>2 DEF SkipReverted, ApplyFill, CancelSingle, Done
      <3>3. CASE HandlerFails(s) \/ UpsertFloor(s)
        BY <3>3 DEF HandlerFails, UpsertFloor, Done
      <3>4. QED
        BY <1>3, <3>1, <3>2, <3>3
    <2>3. QED
      BY <1>1, <1>2, <2>1, <2>2, AdvancePassed
  <1>4. CASE RecordTrade(s) \/ ListPair(s) \/ CancelPair(s)
    <2>1. TickOK(tick[s]) /\ PassedOK(tick[s])
      BY DEF WatchInv, TicksInv, PassedInv
    <2>2. PICK r : /\ tick' = [tick EXCEPT ![s] = r]
                   /\ r.phase \in Busy /\ r.block = tick[s].block /\ r.todo = tick[s].todo
      BY <1>4, PhaseStep DEF Moves, Busy
    <2>3. PassedOK(r)'
      <3>1. OwnUpTo(r.block - 1) \subseteq Done /\ \A k \in Own(r.block) \ r.todo : Chain[r.block][k] \in Done
        BY <1>1, <2>1, <2>2 DEF PassedOK
      <3>2. OwnUpTo(r.block - 1)' \subseteq Done' /\ \A k \in Own(r.block)' \ r.todo : Chain[r.block][k] \in Done'
        BY <1>1, <1>2, <3>1, OwnKept, OwnUpToKept
      <3>3. QED
        BY <3>2 DEF PassedOK
    <2>4. OwnUpTo(file)' \subseteq Done'
      BY <1>1, <1>2 DEF PassedInv, OwnUpTo, OwnTxs, Own
    <2>5. QED
      BY <1>1, <1>2, <2>2, <2>3, <2>4, OthersPassed
  <1>5. QED
    BY <1>3, <1>4 DEF FillStep, CancelStep

\* Mining, placing, boots and restarts.
LEMMA BootPassed ==
  ASSUME WatchInv, PassedInv,
         Mine \/ CoolOver \/ BootUp \/ Restart \/ (\E o \in Orders : Place(o)) \/ (\E class \in Classes : BootFails(class))
           \/ UNCHANGED vars
  PROVE  PassedInv'
  <1>1. UNCHANGED <<on, handled>>
    BY DEF Mine, CoolOver, BootUp, Restart, Place, BootFails, vars, notes
  <1>2. PassedOK(Off)'
    BY DEF PassedOK, Off, Busy
  <1>3. CASE Mine \/ CoolOver \/ (\E o \in Orders : Place(o)) \/ (\E class \in Classes : BootFails(class)) \/ UNCHANGED vars
    <2>1. UNCHANGED <<file, tick, seen, dropped>>
      BY <1>3 DEF Mine, CoolOver, Place, BootFails, vars, scan, notes
    <2>2. QED
      BY <1>1, <2>1 DEF PassedInv, PassedOK, OwnUpTo, OwnTxs, Own, Done
  <1>4. CASE Restart
    <2>1. UNCHANGED <<file, dropped>> /\ seen' = <<>> /\ tick' = [s \in Slots |-> Off]
      BY <1>4 DEF Restart
    <2>2. Range(<<>>) = {}
      BY DEF Range
    <2>3. OwnUpTo(file)' \subseteq Done'
      BY <1>1, <2>1 DEF PassedInv, Done, OwnUpTo, OwnTxs, Own
    <2>4. QED
      BY <1>2, <2>1, <2>2, <2>3 DEF PassedInv
  <1>5. CASE BootUp
    <2>1. tick' = tick /\ seen' = seen /\ \A s \in Slots : tick[s] = Off
      BY <1>5 DEF BootUp, WatchInv, TicksInv
    <2>2. OwnUpTo(file)' \subseteq Done'
      BY <1>1, <1>5, StartPassed DEF BootUp
    <2>3. QED
      BY <1>1, <1>2, <2>1, <2>2 DEF PassedInv
  <1>6. QED
    BY <1>3, <1>4, <1>5

\* cancel-watcher.service.ts:162: the persisted cursor never stands past a fill
\* or cancel that was neither handled nor given up with a log line.
THEOREM NothingPassedBy == Spec => []NothingSkipped
  <1>1. Init => PassedInv
    <2> SUFFICES ASSUME Init PROVE PassedInv
      OBVIOUS
    <2>1. file = 0 /\ Range(seen) = {} /\ \A s \in Slots : tick[s] = Off
      BY DEF Init, Range
    <2>2. PassedOK(Off)
      BY DEF PassedOK, Off, Busy
    <2>3. QED
      BY <2>1, <2>2, OwnUpToNext DEF PassedInv
  <1>2. WatchInv /\ PassedInv /\ [Next]_vars => PassedInv'
    BY ScanPassed, HandlePassed, BootPassed DEF Next, Scan
  <1>3. PassedInv => NothingSkipped
    BY DEF PassedInv, NothingSkipped, Done
  <1>4. QED
    BY <1>1, <1>2, <1>3, Watching, PTL DEF Spec
-----------------------------------------------------------------------------
\* The floor is at or above every pair cancel handled; what stands below one
\* that is being applied is among its victims, or came too late for it.
Standing == placed \ late
ClearedOK(r) ==
  /\ r.phase = "cancelling" => \A o \in Standing \ r.victims : Salt[o] >= Salt[TxOf(r)]
  /\ r.phase = "flooring" => \A o \in Standing : Salt[o] >= Salt[TxOf(r)]
FloorInv ==
  /\ \A t \in handled : Kind[t] = "pair" => Salt[t] <= floor
  /\ \A o \in Standing : Salt[o] >= floor
  /\ \A s \in Slots : ClearedOK(tick[s])

\* A tick's step after which no more orders stand.
LEMMA OthersCleared ==
  ASSUME WatchInv, FloorInv, NEW s \in Slots, NEW r, tick' = [tick EXCEPT ![s] = r],
         Standing' \subseteq Standing, ClearedOK(r)',
         \A t \in handled' : Kind[t] = "pair" => Salt[t] <= floor',
         \A o \in Standing' : Salt[o] >= floor'
  PROVE  FloorInv'
  <1>1. tick'[s] = r /\ \A u \in Slots : u # s => tick'[u] = tick[u]
    BY DEF WatchInv, TicksInv
  <1>2. ASSUME NEW q, ClearedOK(q) PROVE ClearedOK(q)'
    BY <1>2 DEF ClearedOK, TxOf
  <1>3. QED
    BY <1>1, <1>2 DEF FloorInv

\* Steps of a tick that apply no pair cancel.
LEMMA ElsewhereCleared ==
  ASSUME WatchInv, FloorInv, NEW s \in Slots, NEW r, tick' = [tick EXCEPT ![s] = r],
         r.phase \notin {"cancelling", "flooring"}, floor' = floor, Standing' \subseteq Standing,
         \A t \in handled' : t \in handled \/ Kind[t] # "pair"
  PROVE  FloorInv'
  <1>1. ClearedOK(r)'
    BY DEF ClearedOK
  <1>2. QED
    BY <1>1, OthersCleared DEF FloorInv

\* A tick that begins, ends or fetches applies none yet.
LEMMA ScanCleared ==
  ASSUME WatchInv, FloorInv, NEW s \in Slots,
         Start(s) \/ Poll(s) \/ Fetch(s) \/ End(s) \/ Malformed(s) \/ HandlerFails(s) \/ \E class \in Classes : RpcFails(s, class)
  PROVE  FloorInv'
  <1>1. UNCHANGED <<placed, late, floor, handled>>
    BY DEF Start, Poll, Fetch, End, Malformed, HandlerFails, RpcFails, ledger, notes
  <1>2. \E r : tick' = [tick EXCEPT ![s] = r] /\ r.phase \in {"off", "polling", "fetching", "handling"}
    <2>1. CASE Start(s)
      <3>1. PICK q : q = [Off EXCEPT !.phase = "polling"]
        OBVIOUS
      <3>2. q.phase = "polling"
        BY <3>1 DEF Off
      <3>3. tick' = [tick EXCEPT ![s] = q]
        BY <2>1, <3>1 DEF Start, TickTo
      <3>4. QED
        BY <3>2, <3>3
    <2>2. CASE End(s) \/ \E class \in Classes : RpcFails(s, class)
      BY <2>2 DEF End, RpcFails, Stop, TickTo, Off
    <2>3. CASE Poll(s)
      <3>1. PICK c, n : Stop(s) \/ TickTo(s, [Off EXCEPT !.phase = "fetching", !.block = c, !.target = n])
        BY <2>3 DEF Poll
      <3>2. PICK q : q = [Off EXCEPT !.phase = "fetching", !.block = c, !.target = n]
        OBVIOUS
      <3>3. q.phase = "fetching" /\ Off.phase = "off"
        BY <3>2 DEF Off
      <3>4. QED
        BY <3>1, <3>2, <3>3 DEF Stop, TickTo
    <2>4. ASSUME NEW todo, TickTo(s, Rest(s, todo))
          PROVE  \E r : tick' = [tick EXCEPT ![s] = r] /\ r.phase \in {"off", "polling", "fetching", "handling"}
      <3>1. PICK r : r = Rest(s, todo)
        OBVIOUS
      <3>2. tick' = [tick EXCEPT ![s] = r]
        BY <2>4, <3>1 DEF TickTo
      <3>3. r.phase \in {"fetching", "handling"}
        <4>1. tick[s] \in [phase : Phases, block : 0..head + 1, target : 0..head, todo : SUBSET Nat, victims : SUBSET Orders]
          BY DEF WatchInv, TicksInv, TickOK
        <4>2. QED
          BY <3>1, <4>1 DEF Rest, Off
      <3>4. QED
        BY <3>2, <3>3
    <2>5. QED
      BY <2>1, <2>2, <2>3, <2>4 DEF Fetch, Malformed, HandlerFails, Advance
  <1>3. PICK r : tick' = [tick EXCEPT ![s] = r] /\ r.phase \in {"off", "polling", "fetching", "handling"}
    BY <1>2
  <1>4. QED
    BY <1>1, <1>3, ElsewhereCleared DEF Standing

\* After a transaction the tick goes on to the next one.
LEMMA AdvancePhase ==
  ASSUME WatchInv, NEW s \in Slots, Advance(s)
  PROVE  \E r : tick' = [tick EXCEPT ![s] = r] /\ r.phase \in {"fetching", "handling"}
  <1>1. PICK todo, r : todo = Left(s) /\ r = Rest(s, todo)
    OBVIOUS
  <1>2. tick' = [tick EXCEPT ![s] = r]
    BY <1>1 DEF Advance, TickTo
  <1>3. tick[s] \in [phase : Phases, block : 0..head + 1, target : 0..head, todo : SUBSET Nat, victims : SUBSET Orders]
    BY DEF WatchInv, TicksInv, TickOK
  <1>4. r.phase \in {"fetching", "handling"}
    BY <1>1, <1>3 DEF Rest, Off
  <1>5. QED
    BY <1>2, <1>4

\* The handling of a fill or a single cancel raises no floor and needs none.
LEMMA FillCleared ==
  ASSUME WatchInv, FloorInv, NEW s \in Slots, FillStep(s) \/ CancelSingle(s)
  PROVE  FloorInv'
  <1>1. floor' = floor /\ Standing' \subseteq Standing
    BY DEF FillStep, PassOver, SkipReverted, RecordTrade, ApplyFill, CancelSingle, ledger, notes, Standing
  <1>2. tick[s].phase \in Busy
    BY DEF FillStep, PassOver, SkipReverted, RecordTrade, ApplyFill, CancelSingle, Handles, Busy
  <1>3. handled' = handled \/ (handled' = handled \cup {Tx(s)} /\ Kind[Tx(s)] # "pair")
    <2>1. ApplyFill(s) => Kind[Tx(s)] \in {"fill", "reverted"}
      BY <1>2, InHand DEF ApplyFill, Handles, WatchInv, TicksInv, TickOK
    <2>2. QED
      BY <2>1 DEF FillStep, PassOver, SkipReverted, RecordTrade, ApplyFill, CancelSingle, notes
  <1>4. CASE RecordTrade(s)
    BY <1>1, <1>3, <1>4, PhaseStep, ElsewhereCleared DEF Moves
  <1>5. CASE ~RecordTrade(s)
    <2>1. Advance(s)
      BY <1>5 DEF FillStep, PassOver, SkipReverted, ApplyFill, CancelSingle
    <2>2. PICK r : tick' = [tick EXCEPT ![s] = r] /\ r.phase \in {"fetching", "handling"}
      BY <2>1, AdvancePhase
    <2>3. QED
      BY <1>1, <1>3, <2>2, ElsewhereCleared
  <1>6. QED
    BY <1>4, <1>5

\* The three steps of a pair cancel.
LEMMA PairCleared ==
  ASSUME WatchInv, FloorInv, NEW s \in Slots, ListPair(s) \/ CancelPair(s) \/ UpsertFloor(s)
  PROVE  FloorInv'
  <1>1. /\ tick[s].phase \in Busy /\ Tx(s) = TxOf(tick[s]) /\ Tx(s) \in Txs /\ floor \in Nat /\ Salt[Tx(s)] \in Nat
        /\ \A o \in Standing : Salt[o] \in Nat
    <2>1. tick[s].phase \in Busy
      BY DEF ListPair, CancelPair, UpsertFloor, Handles, Busy
    <2>2. QED
      BY <2>1, InHand, ChainFacts DEF WatchInv, RestInv, Standing
  <1>2. CASE ListPair(s)
    <2>1. PICK r : Moves(s, r, "cancelling") /\ r.victims = {o \in placed : Invalidated(o, Tx(s))}
      BY <1>2, PhaseStep
    <2>2. UNCHANGED <<placed, late, floor, handled>>
      BY <1>2 DEF ListPair, ledger, notes
    <2>3. TxOf(r) = Tx(s)
      BY <1>1, <2>1 DEF Moves, TxOf
    <2>4. \A o \in Standing \ r.victims : Salt[o] >= Salt[TxOf(r)]
      BY <1>1, <2>1, <2>3 DEF Standing, Invalidated
    <2>5. ClearedOK(r)'
      BY <2>1, <2>2, <2>4 DEF ClearedOK, Standing, Moves, TxOf
    <2>6. Standing' = Standing
      BY <2>2 DEF Standing
    <2>7. QED
      BY <2>1, <2>2, <2>5, <2>6, OthersCleared DEF Moves, FloorInv
  <1>3. CASE CancelPair(s)
    <2>1. PICK r : Moves(s, r, "flooring")
      BY <1>3, PhaseStep
    <2>2. PICK failed \in SUBSET tick[s].victims :
            placed' = (placed \ tick[s].victims) \cup (failed \cap placed) /\ late' = (late \ tick[s].victims) \cup failed
      BY <1>3 DEF CancelPair
    <2>3. UNCHANGED <<floor, handled>> /\ tick[s].phase = "cancelling"
      BY <1>3 DEF CancelPair, Handles
    <2>4. Standing' \subseteq Standing \ tick[s].victims
      BY <2>2 DEF Standing
    <2>5. \A o \in Standing' : Salt[o] >= Salt[Tx(s)]
      BY <1>1, <2>3, <2>4 DEF FloorInv, ClearedOK
    <2>6. TxOf(r)' = Tx(s)
      BY <1>1, <2>1 DEF Moves, TxOf
    <2>7. ClearedOK(r)'
      BY <2>1, <2>5, <2>6 DEF ClearedOK, Moves
    <2>8. QED
      BY <2>1, <2>3, <2>4, <2>7, OthersCleared DEF Moves, FloorInv
  <1>4. CASE UpsertFloor(s)
    <2>1. Advance(s) /\ UNCHANGED <<placed, late>> /\ tick[s].phase = "flooring"
      BY <1>4 DEF UpsertFloor, Handles
    <2>2. PICK r : tick' = [tick EXCEPT ![s] = r] /\ r.phase \in {"fetching", "handling"}
      BY <2>1, AdvancePhase
    <2>3. Standing' = Standing /\ ClearedOK(r)'
      BY <2>1, <2>2 DEF Standing, ClearedOK
    <2>4. CASE floor' = Raised(Salt[Tx(s)]) /\ handled' = handled \cup {Tx(s)}
      <3>1. floor' >= floor /\ floor' >= Salt[Tx(s)] /\ floor' \in {floor, Salt[Tx(s)]}
        BY <1>1, <2>4 DEF Raised
      <3>2. \A o \in Standing : Salt[o] >= floor'
        BY <1>1, <2>1, <3>1 DEF FloorInv, ClearedOK
      <3>3. \A t \in handled : Kind[t] = "pair" => Salt[t] <= floor'
        BY <1>1, <3>1, ChainFacts DEF FloorInv, WatchInv, RestInv
      <3>4. QED
        BY <2>2, <2>3, <2>4, <3>1, <3>2, <3>3, <1>1, OthersCleared
    <2>5. CASE UNCHANGED <<floor, handled>>
      BY <2>2, <2>3, <2>5, OthersCleared DEF FloorInv
    <2>6. QED
      BY <1>4, <2>4, <2>5 DEF UpsertFloor
  <1>5. QED
    BY <1>2, <1>3, <1>4

\* An order placed below a floor, or below a cancel that has its victims, is late.
LEMMA PlaceCleared ==
  ASSUME WatchInv, FloorInv, NEW p \in Orders, Place(p)
  PROVE  FloorInv'
  <1>1. UNCHANGED <<tick, floor, handled>> /\ placed' = placed \cup {p} /\ late \subseteq late' /\ (TooLate(p) => p \in late')
    BY DEF Place, scan
  <1>2. \A o \in Standing' : o \in Standing \/ (o = p /\ ~TooLate(p))
    BY <1>1 DEF Standing
  <1>3. floor \in Nat /\ Salt[p] \in Nat /\ \A s \in Slots : tick[s].phase \in Busy => Tx(s) = TxOf(tick[s]) /\ Salt[Tx(s)] \in Nat
    BY InHand, ChainFacts DEF WatchInv, RestInv
  <1>4. \A o \in Standing' : Salt[o] >= floor'
    BY <1>1, <1>2, <1>3 DEF FloorInv, TooLate
  <1>5. ASSUME NEW s \in Slots PROVE ClearedOK(tick[s])'
    <2>1. TxOf(tick[s])' = TxOf(tick[s]) /\ tick'[s] = tick[s]
      BY <1>1 DEF TxOf
    <2>2. tick[s].phase \in {"cancelling", "flooring"} =>
            Tx(s) = TxOf(tick[s]) /\ Salt[Tx(s)] \in Nat /\ (~TooLate(p) => Salt[p] >= Salt[Tx(s)])
      BY <1>3 DEF TooLate, Busy
    <2>3. ClearedOK(tick[s])
      BY DEF FloorInv
    <2>4. tick[s].phase = "cancelling" => \A o \in Standing' \ tick[s].victims : Salt[o] >= Salt[TxOf(tick[s])]
      BY <1>2, <2>2, <2>3 DEF ClearedOK
    <2>5. tick[s].phase = "flooring" => \A o \in Standing' : Salt[o] >= Salt[TxOf(tick[s])]
      BY <1>2, <2>2, <2>3 DEF ClearedOK
    <2>6. QED
      BY <2>1, <2>4, <2>5 DEF ClearedOK
  <1>6. QED
    BY <1>1, <1>4, <1>5 DEF FloorInv

\* cancel-pair-floor.repository.ts:26: the floor is never below a pair cancel
\* that was handled, and what is PLACED below it came after the cancel had
\* listed its orders, with any overlap, repetition and order of the events.
THEOREM FloorStands == Spec => []FloorHolds
  <1>1. Init => FloorInv
    <2> SUFFICES ASSUME Init PROVE FloorInv
      OBVIOUS
    <2>1. handled = {} /\ placed = {} /\ \A s \in Slots : tick[s] = Off
      BY DEF Init
    <2>2. QED
      BY <2>1 DEF FloorInv, Standing, ClearedOK, Off
  <1>2. WatchInv /\ FloorInv /\ [Next]_vars => FloorInv'
    <2> SUFFICES ASSUME WatchInv, FloorInv, [Next]_vars PROVE FloorInv'
      OBVIOUS
    <2>1. CASE Mine \/ CoolOver \/ (\E class \in Classes : BootFails(class)) \/ UNCHANGED vars \/ BootUp \/ Restart
      <3>1. UNCHANGED <<placed, late, floor, handled>> /\ (tick' = tick \/ tick' = [s \in Slots |-> Off])
        BY <2>1 DEF Mine, CoolOver, BootFails, BootUp, Restart, vars, scan, ledger, notes
      <3>2. ClearedOK(Off)'
        BY DEF ClearedOK, Off
      <3>3. QED
        BY <3>1, <3>2 DEF FloorInv, Standing, ClearedOK, TxOf
    <2>2. QED
      BY <2>1, ScanCleared, FillCleared, PairCleared, PlaceCleared DEF Next, Scan, CancelStep
  <1>3. FloorInv => FloorHolds
    BY DEF FloorInv, Standing, FloorHolds
  <1>4. QED
    BY <1>1, <1>2, <1>3, Watching, PTL DEF Spec
-----------------------------------------------------------------------------
\* FillWatcher's ticks do not overlap and scan what the file's cursor has not
\* passed; a transaction is recorded at most once, is applied or in hand when
\* it is recorded, and is then in `seen`, in hand, or behind the cursor.
Applying == {TxOf(tick[s]) : s \in {u \in Slots : tick[u].phase = "applying"}}
Counted(t) ==
  /\ trades[t] <= 1 /\ trades[t] = applied[t] + (IF t \in Applying THEN 1 ELSE 0)
  /\ trades[t] > 0 => t \in Range(seen) \/ t \in Applying \/ BlockOf(t) <= file
AloneInv == on = "fill" =>
  /\ \A r, s \in Slots : r # s => tick[r] = Off \/ tick[s] = Off
  /\ \A s \in Slots : tick[s].phase \in Busy \cup {"fetching"} => tick[s].block > file
CountInv == AloneInv /\ \A t \in Txs \ excused : Counted(t)

\* A tick under way is the only one of FillWatcher's.
LEMMA AloneStep ==
  ASSUME WatchInv, AloneInv, on' = on, NEW s \in Slots, NEW r, tick' = [tick EXCEPT ![s] = r],
         tick[s] # Off \/ \A u \in Slots : tick[u] = Off \/ on # "fill",
         on = "fill" /\ r.phase \in Busy \cup {"fetching"} => r.block > file'
  PROVE  AloneInv'
  <1>1. tick'[s] = r /\ \A u \in Slots : u # s => tick'[u] = tick[u]
    BY DEF WatchInv, TicksInv
  <1>2. on = "fill" => \A u \in Slots : u # s => tick[u] = Off
    BY DEF AloneInv
  <1>3. Off.phase \notin Busy \cup {"fetching"}
    BY DEF Off, Busy
  <1>4. QED
    BY <1>1, <1>2, <1>3 DEF AloneInv

\* What is in hand for applying, before and after a step of one tick.
LEMMA ApplyingStep ==
  ASSUME WatchInv, AloneInv, NEW s \in Slots, NEW r, tick' = [tick EXCEPT ![s] = r]
  PROVE  /\ tick[s].phase # "applying" /\ r.phase # "applying" => Applying' = Applying
         /\ tick[s].phase = "applying" => Applying = {Tx(s)}
         /\ tick[s].phase = "applying" /\ r.phase # "applying" => Applying' = {}
         /\ tick[s].phase = "handling" /\ on = "fill" => Applying = {}
         /\ tick[s].phase = "handling" /\ on = "fill" /\ r.phase = "applying" => Applying' = {TxOf(r)}
  <1>1. tick'[s] = r /\ \A u \in Slots : u # s => tick'[u] = tick[u]
    BY DEF WatchInv, TicksInv
  <1>2. tick[s].phase # "applying" /\ r.phase # "applying" => Applying' = Applying
    BY <1>1 DEF Applying, TxOf
  <1>3. tick[s].phase = "applying" => on = "fill" /\ Tx(s) = TxOf(tick[s])
    BY InHand DEF WatchInv, TicksInv, TickOK, Busy
  <1>4. on = "fill" /\ tick[s].phase \in {"applying", "handling"} => \A u \in Slots : u # s => tick[u].phase = "off"
    BY DEF AloneInv, Off
  <1>5. QED
    BY <1>1, <1>2, <1>3, <1>4 DEF Applying, TxOf

\* Nothing is recorded or applied, and nothing known of a record is lost.
LEMMA CountKept ==
  ASSUME WatchInv, CountInv, UNCHANGED <<trades, applied>>, excused \subseteq excused', AloneInv', Applying' = Applying,
         Range(seen) \subseteq Range(seen)',
         \A t \in Txs \ excused' : trades[t] > 0 /\ BlockOf(t) <= file => BlockOf(t) <= file' \/ t \in Range(seen)
  PROVE  CountInv'
  BY DEF CountInv, Counted, BlockOf

\* A cursor that starts anew excuses what lies beyond it.
LEMMA StartCounted ==
  ASSUME WatchInv, CountInv, NEW latest \in 0..head, InitCursor(latest)
  PROVE  /\ excused \subseteq excused'
         /\ \A t \in Txs \ excused' : trades[t] > 0 /\ BlockOf(t) <= file => BlockOf(t) <= file' \/ t \in Range(seen)
  <1>1. CASE file > 0 /\ file <= latest
    BY <1>1 DEF InitCursor
  <1>2. CASE ~(file > 0 /\ file <= latest)
    <2>1. file' = Anchor(latest) /\ excused' = excused \cup Forgotten(Anchor(latest)) /\ Anchor(latest) \in Int
      BY <1>2 DEF InitCursor, Anchor, WatchInv, CursorInv
    <2>2. \A t \in Txs : BlockOf(t) <= file => BlockOf(t) > Anchor(latest) \/ BlockOf(t) <= Anchor(latest)
      <3>1. \A t \in Txs : BlockOf(t) \in Blocks
        BY ChainAssumption DEF BlockOf
      <3>2. QED
        BY <2>1, <3>1, ChainFacts DEF Blocks
    <2>3. QED
      BY <2>1, <2>2 DEF Forgotten
  <1>3. QED
    BY <1>1, <1>2

\* A step of a tick that applies nothing and moves no cursor.
LEMMA QuietCounted ==
  ASSUME WatchInv, CountInv, NEW s \in Slots, NEW r, tick' = [tick EXCEPT ![s] = r],
         tick[s] # Off \/ \A u \in Slots : tick[u] = Off \/ on # "fill",
         tick[s].phase # "applying", r.phase # "applying",
         on = "fill" /\ r.phase \in Busy \cup {"fetching"} => r.block > file,
         UNCHANGED <<on, file, trades, applied>>, excused \subseteq excused', Range(seen) \subseteq Range(seen)'
  PROVE  CountInv'
  <1>1. AloneInv'
    BY AloneStep DEF CountInv
  <1>2. Applying' = Applying
    BY ApplyingStep DEF CountInv
  <1>3. QED
    BY <1>1, <1>2, CountKept

\* Where a tick stands after a block or a transaction.
LEMMA RestStands ==
  ASSUME WatchInv, CountInv, NEW s \in Slots, tick[s].phase \in Busy \cup {"fetching"}, NEW todo, NEW r, r = Rest(s, todo)
  PROVE  r.phase \in {"fetching", "handling"} /\ (on = "fill" => r.block > file)
  <1>1. /\ tick[s] \in [phase : Phases, block : 0..head + 1, target : 0..head, todo : SUBSET Nat, victims : SUBSET Orders]
        /\ tick[s].block \in Nat /\ file \in Nat
    BY DEF WatchInv, CursorInv, TicksInv, TickOK
  <1>2. r.phase \in {"fetching", "handling"} /\ r.block \in {tick[s].block, tick[s].block + 1}
    BY <1>1 DEF Rest, Off
  <1>3. on = "fill" => tick[s].block > file
    BY DEF CountInv, AloneInv
  <1>4. QED
    BY <1>1, <1>2, <1>3

\* The steps of a tick between two transactions.
LEMMA ScanCounted ==
  ASSUME WatchInv, CountInv, NEW s \in Slots,
         Start(s) \/ Poll(s) \/ Fetch(s) \/ End(s) \/ Malformed(s) \/ \E class \in Classes : RpcFails(s, class)
  PROVE  CountInv'
  <1>1. UNCHANGED <<on, seen, trades, applied>>
    BY DEF Start, Poll, Fetch, End, Malformed, RpcFails, ledger
  <1>2. Off.phase = "off" /\ Off.phase \notin Busy \cup {"fetching", "applying"}
    BY DEF Off, Busy
  <1>3. CASE Start(s)
    <2>1. PICK r : r = [Off EXCEPT !.phase = "polling"]
      OBVIOUS
    <2>2. r.phase = "polling"
      BY <2>1 DEF Off
    <2>3. tick' = [tick EXCEPT ![s] = r] /\ tick[s] = Off /\ UNCHANGED <<file, excused>>
          /\ (on = "fill" => \A u \in Slots : tick[u] = Off)
      BY <1>3, <2>1 DEF Start, TickTo, notes
    <2>4. QED
      BY <1>1, <1>2, <2>2, <2>3, QuietCounted DEF Busy
  <1>4. CASE \E class \in Classes : RpcFails(s, class)
    <2>1. tick' = [tick EXCEPT ![s] = Off] /\ UNCHANGED <<file, excused>> /\ tick[s].phase \in {"polling", "fetching"}
      BY <1>4 DEF RpcFails, Stop, TickTo, notes
    <2>2. QED
      BY <1>1, <1>2, <2>1, QuietCounted
  <1>5. CASE Fetch(s) \/ Malformed(s)
    <2>1. PICK todo, r : r = Rest(s, todo) /\ tick' = [tick EXCEPT ![s] = r]
      BY <1>5 DEF Fetch, Malformed, TickTo
    <2>2. tick[s].phase = "fetching" /\ UNCHANGED <<file, excused>>
      BY <1>5 DEF Fetch, Malformed, notes
    <2>3. r.phase \in {"fetching", "handling"} /\ (on = "fill" => r.block > file)
      BY <2>1, <2>2, RestStands
    <2>4. QED
      BY <1>1, <1>2, <2>1, <2>2, <2>3, QuietCounted
  <1>6. CASE End(s)
    <2>1. tick' = [tick EXCEPT ![s] = Off] /\ tick[s].phase = "fetching"
          /\ file' = tick[s].target /\ excused' = excused \cup Forgotten(tick[s].target)
      BY <1>6 DEF End, Stop, TickTo
    <2>2. AloneInv'
      BY <1>1, <1>2, <2>1, AloneStep DEF CountInv
    <2>3. Applying' = Applying
      BY <1>2, <2>1, ApplyingStep DEF CountInv
    <2>4. \A t \in Txs \ excused' : trades[t] > 0 /\ BlockOf(t) <= file => BlockOf(t) <= file' \/ t \in Range(seen)
      <3>1. tick[s].target \in Nat /\ \A t \in Txs : BlockOf(t) \in Nat
        <4>1. \A t \in Txs : BlockOf(t) \in Blocks
          BY ChainAssumption DEF BlockOf
        <4>2. QED
          BY <4>1, ChainFacts DEF Blocks, WatchInv, CursorInv, TicksInv, TickOK
      <3>2. QED
        BY <2>1, <3>1 DEF Forgotten
    <2>5. QED
      BY <1>1, <2>1, <2>2, <2>3, <2>4, CountKept
  <1>7. CASE Poll(s)
    <2>1. PICK latest \in 0..head :
            /\ IF boot = "degraded" THEN InitCursor(latest) ELSE UNCHANGED <<cursor, file, dropped, excused>>
            /\ IF on = "cancel" /\ latest <= cursor' THEN Stop(s)
               ELSE TickTo(s, [Off EXCEPT !.phase = "fetching", !.block = cursor' + 1, !.target = Target(latest, cursor')])
      BY <1>7 DEF Poll
    <2>2. /\ excused \subseteq excused'
          /\ \A t \in Txs \ excused' : trades[t] > 0 /\ BlockOf(t) <= file => BlockOf(t) <= file' \/ t \in Range(seen)
      BY <2>1, StartCounted
    <2>3. cursor' = file' /\ cursor' \in Nat
      <3>1. boot' = "up"
        BY <1>7 DEF Poll
      <3>2. CursorInv'
        BY <1>7, PollKeeps
      <3>3. QED
        BY <3>1, <3>2 DEF CursorInv
    <2>4. PICK r : tick' = [tick EXCEPT ![s] = r] /\ r.phase \in {"off", "fetching"} /\ (r.phase = "fetching" => r.block > file')
      <3>1. CASE Stop(s)
        BY <1>2, <3>1 DEF Stop, TickTo
      <3>2. CASE TickTo(s, [Off EXCEPT !.phase = "fetching", !.block = cursor' + 1, !.target = Target(latest, cursor')])
        <4>1. PICK c, n, r : c = cursor' /\ n = Target(latest, c) /\ r = [Off EXCEPT !.phase = "fetching", !.block = c + 1, !.target = n]
          OBVIOUS
        <4>2. tick' = [tick EXCEPT ![s] = r]
          BY <3>2, <4>1 DEF TickTo
        <4>3. r.phase = "fetching" /\ r.block = c + 1
          BY <4>1 DEF Off
        <4>4. r.block > file'
          BY <2>3, <4>1, <4>3
        <4>5. QED
          BY <4>2, <4>3, <4>4
      <3>3. QED
        BY <2>1, <3>1, <3>2
    <2>5. tick[s].phase = "polling"
      BY <1>7 DEF Poll
    <2>6. AloneInv'
      BY <1>1, <1>2, <2>4, <2>5, AloneStep DEF CountInv, Busy
    <2>7. Applying' = Applying
      BY <2>4, <2>5, ApplyingStep DEF CountInv
    <2>8. QED
      BY <1>1, <2>2, <2>6, <2>7, CountKept
  <1>8. QED
    BY <1>3, <1>4, <1>5, <1>6, <1>7

\* The steps of a transaction that record and apply nothing.
LEMMA PassCounted ==
  ASSUME WatchInv, CountInv, NEW s \in Slots,
         PassOver(s) \/ SkipReverted(s) \/ (HandlerFails(s) /\ tick[s].phase = "handling") \/ CancelStep(s)
  PROVE  CountInv'
  <1>1. /\ tick[s].phase \in Busy \ {"applying"} /\ UNCHANGED <<on, file, trades, applied>> /\ excused' = excused
        /\ (seen' = seen \/ seen' = Append(seen, Tx(s)))
    BY DEF PassOver, SkipReverted, HandlerFails, CancelStep, ListPair, CancelPair, UpsertFloor, CancelSingle, Handles, Busy, ledger, notes
  <1>2. Range(seen) \subseteq Range(seen)'
    <2>1. seen \in Seq(Txs) /\ Tx(s) \in Txs
      BY <1>1, InHand DEF WatchInv, RestInv
    <2>2. Range(Append(seen, Tx(s))) = Range(seen) \cup {Tx(s)}
      BY <2>1, RangeAppend
    <2>3. QED
      BY <1>1, <2>2
  <1>3. PICK r : tick' = [tick EXCEPT ![s] = r] /\ r.phase # "applying" /\ (on = "fill" => r.block > file)
    <2>1. CASE Advance(s)
      <3>1. PICK r : r = Rest(s, Left(s))
        OBVIOUS
      <3>2. QED
        BY <1>1, <2>1, <3>1, RestStands DEF Advance, TickTo
    <2>2. CASE ListPair(s) \/ CancelPair(s)
      <3>1. PICK r : Moves(s, r, "cancelling") \/ Moves(s, r, "flooring")
        BY <2>2, PhaseStep
      <3>2. on = "fill" => tick[s].block > file
        BY <1>1 DEF CountInv, AloneInv
      <3>3. QED
        BY <3>1, <3>2 DEF Moves
    <2>3. QED
      BY <2>1, <2>2 DEF PassOver, SkipReverted, HandlerFails, CancelStep, UpsertFloor, CancelSingle
  <1>4. tick[s] # Off
    BY <1>1 DEF Off, Busy
  <1>5. QED
    BY <1>1, <1>2, <1>3, <1>4, QuietCounted

\* A trade is recorded once: the transaction was neither in hand, nor seen, nor passed.
LEMMA RecordCounted ==
  ASSUME WatchInv, CountInv, NEW s \in Slots, RecordTrade(s)
  PROVE  CountInv'
  <1>1. /\ tick[s].phase = "handling" /\ ~Seen(Tx(s)) /\ Kind[Tx(s)] \in {"fill", "reverted"}
        /\ trades' = [trades EXCEPT ![Tx(s)] = @ + 1] /\ UNCHANGED <<on, file, seen, applied, excused>>
    BY DEF RecordTrade, Handles, notes
  <1>2. PICK r : Moves(s, r, "applying")
    BY PhaseStep
  <1>3. Tx(s) \in Txs /\ BlockOf(Tx(s)) = tick[s].block /\ on = "fill" /\ Tx(s) = TxOf(tick[s])
    BY <1>1, InHand DEF Busy
  <1>4. TxOf(r) = Tx(s) /\ tick' = [tick EXCEPT ![s] = r] /\ r.block = tick[s].block /\ r.phase = "applying"
    BY <1>2, <1>3 DEF Moves, TxOf
  <1>5. tick[s].block > file /\ file \in Nat /\ tick[s].block \in Nat
    BY <1>1, <1>3 DEF CountInv, AloneInv, Busy, WatchInv, CursorInv, TicksInv, TickOK
  <1>6. AloneInv'
    <2>1. tick[s] # Off
      BY <1>1 DEF Off
    <2>2. QED
      BY <1>1, <1>4, <1>5, <2>1, AloneStep DEF CountInv
  <1>7. Applying = {} /\ Applying' = {Tx(s)}
    BY <1>1, <1>3, <1>4, ApplyingStep DEF CountInv
  <1>8. trades \in [Txs -> Nat] /\ applied \in [Txs -> Nat]
    BY DEF WatchInv, RestInv
  <1>9. ASSUME NEW t \in Txs \ excused PROVE Counted(t)'
    <2>1. Counted(t)
      BY DEF CountInv
    <2>2. CASE t = Tx(s)
      <3>1. trades[t] = 0 /\ applied[t] = 0
        BY <1>1, <1>3, <1>5, <1>7, <1>8, <2>1, <2>2 DEF Counted, Seen
      <3>2. trades'[t] = 1 /\ applied'[t] = 0 /\ t \in Applying'
        BY <1>1, <1>7, <1>8, <2>2, <3>1
      <3>3. QED
        BY <3>2 DEF Counted
    <2>3. CASE t # Tx(s)
      <3>1. trades'[t] = trades[t] /\ t \notin Applying /\ t \notin Applying'
        BY <1>1, <1>7, <1>8, <2>3
      <3>2. QED
        BY <1>1, <2>1, <3>1 DEF Counted, BlockOf
    <2>4. QED
      BY <2>2, <2>3
  <1>10. QED
    BY <1>1, <1>6, <1>9 DEF CountInv

\* What is applied was recorded once, and is seen from now on; what is
\* evicted, or fails on the way, is excused.
LEMMA ApplyCounted ==
  ASSUME WatchInv, CountInv, NEW s \in Slots, ApplyFill(s) \/ (HandlerFails(s) /\ tick[s].phase = "applying")
  PROVE  CountInv'
  <1>1. tick[s].phase = "applying" /\ UNCHANGED <<on, file, trades>> /\ Advance(s) /\ excused \subseteq excused'
    <2>1. CASE ApplyFill(s)
      BY <2>1 DEF ApplyFill, Handles
    <2>2. CASE HandlerFails(s) /\ tick[s].phase = "applying"
      BY <2>2 DEF HandlerFails, ledger
    <2>3. QED
      BY <2>1, <2>2
  <1>2. PICK r : r = Rest(s, Left(s))
    OBVIOUS
  <1>3. tick' = [tick EXCEPT ![s] = r] /\ r.phase \in {"fetching", "handling"} /\ (on = "fill" => r.block > file)
    BY <1>1, <1>2, RestStands DEF Advance, TickTo, Busy
  <1>4. AloneInv'
    <2>1. tick[s] # Off
      BY <1>1 DEF Off
    <2>2. QED
      BY <1>1, <1>3, <2>1, AloneStep DEF CountInv
  <1>5. Applying = {Tx(s)} /\ Applying' = {} /\ Tx(s) \in Txs
    BY <1>1, <1>3, ApplyingStep, InHand DEF CountInv, Busy
  <1>6. trades \in [Txs -> Nat] /\ applied \in [Txs -> Nat] /\ seen \in Seq(Txs)
    BY DEF WatchInv, RestInv
  <1>7. CASE HandlerFails(s)
    <2>1. UNCHANGED <<applied, seen>> /\ excused' = excused \cup {Tx(s)}
      BY <1>1, <1>7 DEF HandlerFails, Handles, ledger
    <2>2. ASSUME NEW t \in Txs \ excused' PROVE Counted(t)'
      <3>1. Counted(t) /\ t \notin Applying /\ t \notin Applying'
        BY <1>5, <2>1 DEF CountInv
      <3>2. QED
        BY <1>1, <2>1, <3>1 DEF Counted, BlockOf
    <2>3. QED
      BY <1>4, <2>2 DEF CountInv
  <1>8. CASE ApplyFill(s)
    <2>1. /\ applied' = [applied EXCEPT ![Tx(s)] = @ + 1]
          /\ Len(seen) >= SeenCap => seen' = Append(Tail(seen), Tx(s)) /\ excused' = excused \cup {Head(seen)}
          /\ ~(Len(seen) >= SeenCap) => seen' = Append(seen, Tx(s))
      BY <1>8 DEF ApplyFill
    <2>2. Tx(s) \in Range(seen') /\ \A t \in Txs \ excused' : t \in Range(seen) => t \in Range(seen')
      <3>1. CASE Len(seen) >= SeenCap
        <4>1. seen # <<>>
          BY <3>1, BoundsAssumption, EmptySeq
        <4>2. Tail(seen) \in Seq(Txs) /\ Range(seen) = {Head(seen)} \cup Range(Tail(seen))
          BY <1>6, <4>1, RangeHeadTail
        <4>3. Range(Append(Tail(seen), Tx(s))) = Range(Tail(seen)) \cup {Tx(s)}
          <5>1. PICK q \in Seq(Txs) : q = Tail(seen)
            BY <4>2
          <5>2. Range(Append(q, Tx(s))) = Range(q) \cup {Tx(s)}
            BY <1>5, RangeAppend
          <5>3. QED
            BY <5>1, <5>2
        <4>4. QED
          BY <2>1, <3>1, <4>2, <4>3
      <3>2. CASE ~(Len(seen) >= SeenCap)
        <4>1. Range(Append(seen, Tx(s))) = Range(seen) \cup {Tx(s)}
          BY <1>5, <1>6, RangeAppend
        <4>2. QED
          BY <2>1, <3>2, <4>1
      <3>3. QED
        BY <3>1, <3>2
    <2>3. ASSUME NEW t \in Txs \ excused' PROVE Counted(t)'
      <3>1. Counted(t)
        BY <1>1 DEF CountInv
      <3>2. CASE t = Tx(s)
        <4>1. trades[t] = 1 /\ applied[t] = 0
          BY <1>5, <1>6, <3>1, <3>2 DEF Counted
        <4>2. trades'[t] = 1 /\ applied'[t] = 1 /\ t \notin Applying' /\ t \in Range(seen')
          BY <1>1, <1>5, <1>6, <2>1, <2>2, <3>2, <4>1
        <4>3. QED
          BY <4>2 DEF Counted
      <3>3. CASE t # Tx(s)
        <4>1. applied'[t] = applied[t] /\ t \notin Applying /\ t \notin Applying'
          BY <1>5, <1>6, <2>1, <3>3
        <4>2. QED
          BY <1>1, <2>2, <3>1, <4>1 DEF Counted, BlockOf
      <3>4. QED
        BY <3>2, <3>3
    <2>4. QED
      BY <1>4, <2>3 DEF CountInv
  <1>9. QED
    BY <1>7, <1>8

\* Mining and cooling; boots and restarts, which leave no tick under way.
LEMMA BootCounted ==
  ASSUME WatchInv, CountInv,
         Mine \/ CoolOver \/ BootUp \/ Restart \/ (\E o \in Orders : Place(o)) \/ (\E class \in Classes : BootFails(class))
           \/ UNCHANGED vars
  PROVE  CountInv'
  <1>1. UNCHANGED <<on, trades, applied>>
    BY DEF Mine, CoolOver, BootUp, Restart, Place, BootFails, vars, ledger
  <1>2. Off.phase \notin Busy \cup {"fetching", "applying"}
    BY DEF Off, Busy
  <1>3. CASE Mine \/ CoolOver \/ (\E o \in Orders : Place(o)) \/ (\E class \in Classes : BootFails(class)) \/ UNCHANGED vars
    <2>1. UNCHANGED <<file, tick, seen, excused>>
      BY <1>3 DEF Mine, CoolOver, Place, BootFails, vars, scan, notes
    <2>2. QED
      BY <1>1, <2>1 DEF CountInv, AloneInv, Counted, Applying, TxOf, BlockOf
  <1>4. CASE BootUp
    <2>1. UNCHANGED <<tick, seen>> /\ \A s \in Slots : tick[s] = Off
      BY <1>4 DEF BootUp, WatchInv, TicksInv
    <2>2. /\ excused \subseteq excused'
          /\ \A t \in Txs \ excused' : trades[t] > 0 /\ BlockOf(t) <= file => BlockOf(t) <= file' \/ t \in Range(seen)
      BY <1>4, StartCounted DEF BootUp
    <2>3. AloneInv' /\ Applying' = Applying
      BY <1>2, <2>1 DEF AloneInv, Applying, TxOf
    <2>4. QED
      BY <1>1, <2>1, <2>2, <2>3, CountKept
  <1>5. CASE Restart
    <2>1. /\ tick' = [s \in Slots |-> Off] /\ file' = file
          /\ excused' = excused \cup {t \in Txs : trades[t] > 0 /\ BlockOf(t) > file}
      BY <1>5 DEF Restart
    <2>2. AloneInv' /\ Applying' = {}
      BY <1>2, <2>1 DEF AloneInv, Applying
    <2>3. ASSUME NEW t \in Txs \ excused' PROVE Counted(t)'
      <3>1. Counted(t) /\ ~(trades[t] > 0 /\ BlockOf(t) > file)
        BY <2>1 DEF CountInv
      <3>2. file \in Nat /\ BlockOf(t) \in Nat /\ trades[t] \in Nat /\ applied[t] \in Nat
        <4>1. BlockOf(t) \in Blocks
          BY ChainAssumption DEF BlockOf
        <4>2. QED
          BY <4>1, ChainFacts DEF Blocks, WatchInv, CursorInv, RestInv
      <3>3. t \notin Applying
        <4>1. SUFFICES ASSUME NEW s \in Slots, tick[s].phase = "applying", t = TxOf(tick[s]) PROVE FALSE
          BY DEF Applying
        <4>2. on = "fill" /\ BlockOf(t) = tick[s].block /\ t \in Applying
          BY <4>1, InHand DEF Busy, WatchInv, TicksInv, TickOK, Applying
        <4>3. tick[s].block > file
          BY <4>1, <4>2 DEF CountInv, AloneInv, Busy
        <4>4. trades[t] > 0
          BY <3>1, <3>2, <4>2 DEF Counted
        <4>5. QED
          BY <3>1, <4>2, <4>3, <4>4
      <3>4. QED
        BY <1>1, <2>1, <2>2, <3>1, <3>2, <3>3 DEF Counted, BlockOf
    <2>4. QED
      BY <2>2, <2>3 DEF CountInv
  <1>6. QED
    BY <1>3, <1>4, <1>5

\* fill-watcher.service.ts, `seen`: after errors, rescans, lagging nodes and
\* restarts no fill is counted twice and none is recorded without being
\* applied, unless a handler threw in between or the memory of it was lost.
THEOREM FillsCountOnce == Spec => []CountedOnce
  <1>1. Init => CountInv
    <2> SUFFICES ASSUME Init PROVE CountInv
      OBVIOUS
    <2>1. (\A s \in Slots : tick[s] = Off) /\ Off.phase \notin Busy \cup {"fetching", "applying"}
      BY DEF Init, Off, Busy
    <2>2. AloneInv /\ Applying = {}
      BY <2>1 DEF AloneInv, Applying
    <2>3. \A t \in Txs : trades[t] = 0 /\ applied[t] = 0
      BY DEF Init
    <2>4. QED
      BY <2>2, <2>3 DEF CountInv, Counted
  <1>2. WatchInv /\ CountInv /\ [Next]_vars => CountInv'
    <2>1. \A s \in Slots : HandlerFails(s) => tick[s].phase \in {"handling", "applying"}
      BY DEF HandlerFails, Handles
    <2>2. QED
      BY <2>1, ScanCounted, PassCounted, RecordCounted, ApplyCounted, BootCounted DEF Next, Scan, FillStep
  <1>3. WatchInv /\ CountInv => CountedOnce
    <2> SUFFICES ASSUME WatchInv, CountInv, NEW t \in Txs \ excused
                 PROVE  trades[t] <= 1 /\ (trades[t] = applied[t] \/ \E s \in Slots : Handles(s, "applying") /\ Tx(s) = t)
      BY DEF CountedOnce
    <2>1. Counted(t) /\ trades[t] \in Nat /\ applied[t] \in Nat
      BY DEF CountInv, WatchInv, RestInv
    <2>2. t \in Applying => \E s \in Slots : Handles(s, "applying") /\ Tx(s) = t
      BY DEF Applying, Handles, TxOf, Tx, First
    <2>3. QED
      BY <2>1, <2>2 DEF Counted
  <1>4. QED
    BY <1>1, <1>2, <1>3, Watching, PTL DEF Spec
=============================================================================
