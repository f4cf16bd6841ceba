--------------------------- MODULE MarketFeed_proofs ---------------------------
(***************************************************************************)
(* Proofs about MarketFeed, for any browsers, markets, overlapping runs of *)
(* the broadcast loop, pages opened, connections and reloads.              *)
(***************************************************************************)
EXTENDS MarketFeed, SequenceTheorems, FiniteSetTheorems, TLAPS

Books == [symbol : Symbols \cup {None}, fresh : BOOLEAN]
Messages == [kind : {"subscribe", "unsubscribe"}, symbol : Symbols]

\* What a client may have sent by its n-th connection.
Sendings(c, n) == [msg : Messages, socket : {c} \X (1..n)]

\* A socket that is up has nothing waiting for it.
PageInv ==
  /\ page \in [Clients -> Symbols \cup {None}]
  /\ shown \in [Clients -> Books] /\ rest \in [Clients -> Books]
  /\ once \in [Clients -> Seq(Symbols)] /\ buffer \in [Clients -> Seq(Messages)]
  /\ up \in [Clients -> BOOLEAN] /\ conn \in [Clients -> 0..MaxConnects]
  /\ \A c \in Clients : up[c] => buffer[c] = <<>> /\ once[c] = <<>> /\ conn[c] > 0

\* A message belongs to a connection its client has had.
QueueInv ==
  /\ pending = [c \in Clients |-> pending[c]]
  /\ \A c \in Clients : pending[c] \in Seq(Sendings(c, conn[c]))

GatewayInv ==
  /\ subs \in [Sockets -> SUBSET Symbols] /\ refCount \in [Symbols -> Nat]
  /\ noticed \subseteq Sockets /\ overtaken \subseteq Clients
  /\ \A k \in Sockets : k[2] > conn[k[1]] => subs[k] = {}

LoopInv == loop \in [Loops -> [todo : SUBSET Symbols, read : Books]]

FeedInv == PageInv /\ QueueInv /\ GatewayInv /\ LoopInv

-----------------------------------------------------------------------------
\* The operators the handlers are built from.

LEMMA BookType == Nothing \in Books /\ \A s \in Symbols : Book(s) \in Books
BY DEF Nothing, Book, Books

LEMMA AgedType ==
  ASSUME NEW b \in Books, NEW s
  PROVE  Aged(b, s) \in Books
BY DEF Aged, Books

LEMMA MessageType == \A s \in Symbols : Sub(s) \in Messages /\ Unsub(s) \in Messages
BY DEF Sub, Unsub, Messages

LEMMA OneMessage ==
  ASSUME NEW m \in Messages
  PROVE  <<m>> \in Seq(Messages)
OBVIOUS

\* A message keeps its place and gets its socket.
LEMMA SentType ==
  ASSUME NEW c, NEW n \in Nat, NEW k \in {c} \X (1..n), NEW msgs \in Seq(Messages)
  PROVE  Sent(k, msgs) \in Seq(Sendings(c, n))
<1>1. \A i \in 1..Len(msgs) : msgs[i] \in Messages
  OBVIOUS
<1>2. \A i \in 1..Len(msgs) : [msg |-> msgs[i], socket |-> k] \in Sendings(c, n)
  BY <1>1 DEF Sendings
<1>3. DOMAIN msgs = 1..Len(msgs) /\ Len(msgs) \in Nat
  OBVIOUS
<1>4. Sent(k, msgs) = [i \in 1..Len(msgs) |-> [msg |-> msgs[i], socket |-> k]]
  BY <1>3 DEF Sent
<1> QED
  BY <1>2, <1>3, <1>4, IsASeq

\* What was sent stays sent when the client connects again.
LEMMA SendingsGrow ==
  ASSUME NEW c, NEW n \in Nat, NEW q \in Seq(Sendings(c, n))
  PROVE  q \in Seq(Sendings(c, n + 1))
<1>1. Sendings(c, n) \subseteq Sendings(c, n + 1)
  <2>1. 1..n \subseteq 1..(n + 1)
    OBVIOUS
  <2> QED
    BY <2>1 DEF Sendings
<1> QED
  BY <1>1

LEMMA RemoveType ==
  ASSUME NEW S, NEW q \in Seq(S), NEW n \in 1..Len(q)
  PROVE  RemoveAt(q, n) \in Seq(S)
<1>1. SubSeq(q, 1, n - 1) \in Seq(S) /\ SubSeq(q, n + 1, Len(q)) \in Seq(S)
  BY SubSeqProperties
<1> QED
  BY <1>1, ConcatProperties DEF RemoveAt

LEMMA LessType ==
  ASSUME NEW n \in Nat
  PROVE  Less(n) \in Nat /\ Less(n) <= n /\ n <= Less(n) + 1
BY DEF Less

\* The connection a client that is up has.
LEMMA SocketOpen ==
  ASSUME PageInv, BoundsAssumption, NEW c \in Clients, up[c]
  PROVE  Socket(c) \in {c} \X (1..conn[c]) /\ Socket(c) \in Sockets
<1>1. conn[c] \in 0..MaxConnects /\ conn[c] > 0 /\ MaxConnects \in Nat
  BY DEF PageInv, BoundsAssumption
<1> QED
  BY <1>1 DEF Socket, Sockets

-----------------------------------------------------------------------------
LEMMA FeedInit == Init /\ BoundsAssumption => FeedInv
<1> SUFFICES ASSUME Init, BoundsAssumption
             PROVE  FeedInv
  OBVIOUS
<1> USE DEF Init
<1>1. PageInv
  BY BookType DEF PageInv, BoundsAssumption
<1>2. QueueInv
  BY DEF QueueInv
<1>3. GatewayInv
  BY DEF GatewayInv
<1>4. LoopInv
  <2>1. Asleep \in [todo : SUBSET Symbols, read : Books]
    BY BookType DEF Asleep
  <2> QED
    BY <2>1 DEF LoopInv
<1> QED
  BY <1>1, <1>2, <1>3, <1>4 DEF FeedInv

\* One more message of a client that is up.
LEMMA QueueGrows ==
  ASSUME FeedInv, BoundsAssumption, NEW c \in Clients, up[c], NEW m \in Messages,
         pending' = [pending EXCEPT ![c] = @ \o Sent(Socket(c), <<m>>)], UNCHANGED conn
  PROVE  QueueInv'
<1>1. conn[c] \in Nat /\ pending[c] \in Seq(Sendings(c, conn[c]))
  BY DEF FeedInv, PageInv, QueueInv, BoundsAssumption
<1>2. Socket(c) \in {c} \X (1..conn[c])
  BY SocketOpen DEF FeedInv
<1>3. <<m>> \in Seq(Messages)
  BY OneMessage
<1>4. Sent(Socket(c), <<m>>) \in Seq(Sendings(c, conn[c]))
  BY <1>1, <1>2, <1>3, SentType
<1>5. pending[c] \o Sent(Socket(c), <<m>>) \in Seq(Sendings(c, conn[c]))
  BY <1>1, <1>4, ConcatProperties
<1> QED
  BY <1>5 DEF FeedInv, QueueInv

LEMMA OpenTyped ==
  ASSUME FeedInv, BoundsAssumption, NEW c \in Clients, NEW s \in Symbols, Open(c, s)
  PROVE  FeedInv'
<1> USE DEF FeedInv, Open, Waits
<1>1. PageInv'
  <2>1. page' \in [Clients -> Symbols \cup {None}]
    BY DEF PageInv
  <2>2. once' \in [Clients -> Seq(Symbols)]
    <3>1. Append(once[c], s) \in Seq(Symbols)
      BY DEF PageInv
    <3> QED
      BY <3>1 DEF PageInv
  <2>3. \A d \in Clients : up[d] => once'[d] = <<>>
    BY DEF PageInv
  <2> QED
    BY <2>1, <2>2, <2>3 DEF PageInv
<1>2. QueueInv'
  <2>1. CASE up[c]
    <3>1. Sub(s) \in Messages
      BY MessageType
    <3> QED
      BY <2>1, <3>1, QueueGrows
  <2>2. CASE ~up[c]
    BY <2>2 DEF QueueInv
  <2> QED
    BY <2>1, <2>2
<1>3. GatewayInv'
  BY DEF GatewayInv, server
<1>4. LoopInv'
  BY DEF LoopInv
<1> QED
  BY <1>1, <1>2, <1>3, <1>4

LEMMA LeaveTyped ==
  ASSUME FeedInv, BoundsAssumption, NEW c \in Clients, Leave(c)
  PROVE  FeedInv'
<1> USE DEF FeedInv, Leave
<1>1. Unsub(page[c]) \in Messages
  BY MessageType DEF PageInv
<1>2. PageInv'
  <2>1. Append(buffer[c], Unsub(page[c])) \in Seq(Messages)
    BY <1>1 DEF PageInv
  <2>2. buffer' \in [Clients -> Seq(Messages)] /\ \A d \in Clients : up[d] => buffer'[d] = <<>>
    BY <2>1 DEF PageInv
  <2>3. page' \in [Clients -> Symbols \cup {None}] /\ shown' \in [Clients -> Books] /\ rest' \in [Clients -> Books]
    BY BookType DEF PageInv
  <2> QED
    BY <2>2, <2>3 DEF PageInv
<1>3. QueueInv'
  <2>1. CASE up[c]
    BY <1>1, <2>1, QueueGrows
  <2>2. CASE ~up[c]
    BY <2>2 DEF QueueInv
  <2> QED
    BY <2>1, <2>2
<1>4. GatewayInv'
  BY DEF GatewayInv, server, notes
<1>5. LoopInv'
  BY DEF LoopInv
<1> QED
  BY <1>2, <1>3, <1>4, <1>5

LEMMA ConnectTyped ==
  ASSUME FeedInv, BoundsAssumption, NoneAssumption, NEW c \in Clients, Connect(c)
  PROVE  FeedInv'
<1> USE DEF FeedInv, Connect
<1>1. conn[c] \in Nat /\ conn[c] + 1 \in 0..MaxConnects /\ MaxConnects \in Nat
  BY DEF PageInv, BoundsAssumption
<1>2. PageInv'
  <2>1. conn' \in [Clients -> 0..MaxConnects] /\ up' \in [Clients -> BOOLEAN]
    BY <1>1 DEF PageInv
  <2>2. once' \in [Clients -> Seq(Symbols)] /\ buffer' \in [Clients -> Seq(Messages)]
    BY DEF PageInv
  <2>3. \A d \in Clients : up'[d] => buffer'[d] = <<>> /\ once'[d] = <<>> /\ conn'[d] > 0
    BY <1>1 DEF PageInv
  <2> QED
    BY <2>1, <2>2, <2>3 DEF PageInv
<1>3. PICK asks : asks = [n \in DOMAIN once[c] |-> Sub(once[c][n])]
  OBVIOUS
<1>4. asks \in Seq(Messages)
  <2>1. DOMAIN once[c] = 1..Len(once[c]) /\ Len(once[c]) \in Nat
    BY DEF PageInv
  <2>2. \A n \in 1..Len(once[c]) : once[c][n] \in Symbols
    BY DEF PageInv
  <2>3. \A n \in 1..Len(once[c]) : Sub(once[c][n]) \in Messages
    BY <2>2, MessageType
  <2> QED
    BY <1>3, <2>1, <2>3, IsASeq
<1>5. OnReconnect(c) \in Seq(Messages)
  <2>1. CASE page[c] = None
    BY <2>1 DEF OnReconnect
  <2>2. CASE page[c] # None
    <3>1. Sub(page[c]) \in Messages
      BY <2>2, MessageType DEF PageInv
    <3> QED
      BY <2>2, <3>1 DEF OnReconnect
  <2> QED
    BY <2>1, <2>2
<1>6. buffer[c] \o (asks \o OnReconnect(c)) \in Seq(Messages)
  <2>1. buffer[c] \in Seq(Messages)
    BY DEF PageInv
  <2> QED
    BY <1>4, <1>5, <2>1, ConcatProperties
<1>7. <<c, conn'[c]>> \in {c} \X (1..(conn[c] + 1))
  BY <1>1 DEF PageInv
<1>8. Sent(<<c, conn'[c]>>, buffer[c] \o (asks \o OnReconnect(c))) \in Seq(Sendings(c, conn[c] + 1))
  <2>1. PICK n, k, msgs : n = conn[c] + 1 /\ k = <<c, conn'[c]>> /\ msgs = buffer[c] \o (asks \o OnReconnect(c))
    OBVIOUS
  <2>2. n \in Nat /\ k \in {c} \X (1..n) /\ msgs \in Seq(Messages)
    BY <1>1, <1>6, <1>7, <2>1
  <2>3. Sent(k, msgs) \in Seq(Sendings(c, n))
    BY ONLY <2>2, SentType
  <2> QED
    BY ONLY <2>1, <2>3
<1>9. QueueInv'
  <2>1. pending[c] \in Seq(Sendings(c, conn[c] + 1))
    BY <1>1, SendingsGrow DEF QueueInv
  <2>2. PICK q : q = pending[c] \o Sent(<<c, conn'[c]>>, buffer[c] \o (asks \o OnReconnect(c)))
    OBVIOUS
  <2>3. q \in Seq(Sendings(c, conn[c] + 1))
    BY <1>8, <2>1, <2>2, ConcatProperties
  <2>4. pending' = [pending EXCEPT ![c] = q]
    BY <1>3, <2>2
  <2>5. conn' = [conn EXCEPT ![c] = @ + 1] /\ conn = [d \in Clients |-> conn[d]]
    BY DEF PageInv
  <2> QED
    BY ONLY QueueInv, <2>3, <2>4, <2>5 DEF QueueInv
<1>10. GatewayInv'
  <2>1. \A d \in Clients : conn'[d] >= conn[d]
    BY <1>1 DEF PageInv
  <2>2. \A k \in Sockets : k[2] > conn'[k[1]] => k[2] > conn[k[1]]
    <3>1. SUFFICES ASSUME NEW k \in Sockets, k[2] > conn'[k[1]]
                   PROVE  k[2] > conn[k[1]]
      OBVIOUS
    <3>2. k[1] \in Clients /\ k[2] \in Nat
      BY DEF Sockets
    <3>3. conn[k[1]] \in Nat /\ conn'[k[1]] \in Nat
      BY <1>2, <3>2 DEF PageInv
    <3> QED
      BY <2>1, <3>1, <3>2, <3>3
  <2> QED
    BY <2>2 DEF GatewayInv, server, notes
<1>11. LoopInv'
  BY DEF LoopInv
<1> QED
  BY <1>2, <1>9, <1>10, <1>11

LEMMA LoseTyped ==
  ASSUME FeedInv, BoundsAssumption, NEW c \in Clients, Lose(c)
  PROVE  FeedInv'
<1> USE DEF FeedInv, Lose
<1>1. PageInv'
  BY DEF PageInv
<1>2. QueueInv'
  <2>1. PICK n \in 0..Len(pending[c]) : pending' = [pending EXCEPT ![c] = SubSeq(@, 1, n)]
    OBVIOUS
  <2>2. pending[c] \in Seq(Sendings(c, conn[c])) /\ Len(pending[c]) \in Nat
    BY DEF QueueInv
  <2>3. SubSeq(pending[c], 1, n) \in Seq(Sendings(c, conn[c]))
    BY <2>1, <2>2, SubSeqProperties
  <2> QED
    BY <2>1, <2>3 DEF QueueInv
<1>3. GatewayInv'
  BY DEF GatewayInv, server, notes
<1>4. LoopInv'
  BY DEF LoopInv
<1> QED
  BY <1>1, <1>2, <1>3, <1>4

\* The page's own read.
LEMMA ReloadTyped ==
  ASSUME FeedInv, NEW c \in Clients, AskBook(c) \/ ShowBook(c)
  PROVE  FeedInv'
<1>1. CASE AskBook(c)
  <2>1. Book(page[c]) \in Books
    BY <1>1, BookType DEF AskBook, FeedInv, PageInv
  <2>2. PageInv'
    BY <1>1, <2>1 DEF AskBook, FeedInv, PageInv, client
  <2>3. QueueInv' /\ GatewayInv' /\ LoopInv'
    BY <1>1 DEF AskBook, FeedInv, QueueInv, GatewayInv, LoopInv, client, server
  <2> QED
    BY <2>2, <2>3 DEF FeedInv
<1>2. CASE ShowBook(c)
  <2>1. PageInv'
    BY <1>2, BookType DEF ShowBook, FeedInv, PageInv
  <2>2. QueueInv' /\ GatewayInv' /\ LoopInv'
    BY <1>2 DEF ShowBook, FeedInv, QueueInv, GatewayInv, LoopInv, server, notes
  <2> QED
    BY <2>1, <2>2 DEF FeedInv
<1> QED
  BY <1>1, <1>2

-----------------------------------------------------------------------------
\* The gateway: what a handler finishes is a subscription of its own socket.

LEMMA Queued ==
  ASSUME FeedInv, BoundsAssumption, NEW c \in Clients, NEW n \in DOMAIN pending[c]
  PROVE  /\ pending[c][n].msg \in Messages
         /\ pending[c][n].socket \in Sockets
         /\ pending[c][n].socket[1] = c /\ pending[c][n].socket[2] <= conn[c]
<1>1. conn[c] \in 0..MaxConnects /\ MaxConnects \in Nat /\ pending[c] \in Seq(Sendings(c, conn[c]))
  BY DEF FeedInv, PageInv, QueueInv, BoundsAssumption
<1>2. pending[c][n] \in Sendings(c, conn[c])
  BY <1>1
<1>3. {c} \X (1..conn[c]) \subseteq Sockets
  BY <1>1 DEF Sockets
<1> QED
  BY <1>1, <1>2, <1>3 DEF Sendings

LEMMA SubscribeTyped ==
  ASSUME GatewayInv, NEW k \in Sockets, NEW s \in Symbols, Subscribe(k, s)
  PROVE  subs' \in [Sockets -> SUBSET Symbols] /\ refCount' \in [Symbols -> Nat]
BY DEF GatewayInv, Subscribe

LEMMA UnsubscribeTyped ==
  ASSUME GatewayInv, NEW k \in Sockets, NEW s \in Symbols, Unsubscribe(k, s)
  PROVE  subs' \in [Sockets -> SUBSET Symbols] /\ refCount' \in [Symbols -> Nat]
<1>1. Less(refCount[s]) \in Nat
  BY LessType DEF GatewayInv
<1> QED
  BY <1>1 DEF GatewayInv, Unsubscribe

LEMMA FinishTyped ==
  ASSUME FeedInv, BoundsAssumption, NEW c \in Clients, Finish(c)
  PROVE  FeedInv'
<1>1. PICK n \in DOMAIN pending[c] :
        /\ pending' = [pending EXCEPT ![c] = RemoveAt(@, n)]
        /\ IF pending[c][n].msg.kind = "subscribe" THEN Subscribe(pending[c][n].socket, pending[c][n].msg.symbol)
           ELSE Unsubscribe(pending[c][n].socket, pending[c][n].msg.symbol)
        /\ overtaken' = IF n > 1 THEN overtaken \cup {c} ELSE overtaken
        /\ UNCHANGED <<client, noticed, loop, rest, opens, reloads>>
  BY DEF Finish
<1>2. PICK k, s : k = pending[c][n].socket /\ s = pending[c][n].msg.symbol
  OBVIOUS
<1>3. k \in Sockets /\ s \in Symbols /\ k[1] = c /\ k[2] <= conn[c]
  BY <1>2, Queued DEF Messages
<1>4. PageInv'
  BY <1>1 DEF FeedInv, PageInv, client
<1>5. QueueInv'
  <2>1. pending[c] \in Seq(Sendings(c, conn[c])) /\ n \in 1..Len(pending[c])
    BY DEF FeedInv, QueueInv
  <2>2. RemoveAt(pending[c], n) \in Seq(Sendings(c, conn[c]))
    BY <2>1, RemoveType
  <2> QED
    BY <1>1, <2>2 DEF FeedInv, QueueInv, client
<1>6. GatewayInv'
  <2>1. subs' \in [Sockets -> SUBSET Symbols] /\ refCount' \in [Symbols -> Nat]
    BY <1>1, <1>2, <1>3, SubscribeTyped, UnsubscribeTyped DEF FeedInv
  <2>2. \A j \in Sockets : j # k => subs'[j] = subs[j]
    BY <1>1, <1>2, <1>3 DEF FeedInv, GatewayInv, Subscribe, Unsubscribe
  <2>3. \A j \in Sockets : j[2] > conn[j[1]] => j # k
    <3>1. conn[c] \in Nat /\ k[2] \in Nat
      BY <1>3 DEF FeedInv, PageInv, Sockets
    <3> QED
      BY <1>3, <3>1
  <2> QED
    BY <1>1, <2>1, <2>2, <2>3 DEF FeedInv, GatewayInv, client
<1>7. LoopInv'
  BY <1>1 DEF FeedInv, LoopInv
<1> QED
  BY <1>4, <1>5, <1>6, <1>7 DEF FeedInv

LEMMA DropTyped ==
  ASSUME FeedInv, BoundsAssumption, NEW k \in Sockets, Drop(k)
  PROVE  FeedInv'
<1> USE DEF FeedInv, Drop
<1>1. PageInv' /\ QueueInv' /\ LoopInv'
  BY DEF PageInv, QueueInv, LoopInv, client, notes
<1>2. \A s \in Symbols : Less(refCount[s]) \in Nat
  BY LessType DEF GatewayInv
<1>3. GatewayInv'
  <2>1. refCount' \in [Symbols -> Nat]
    BY <1>2 DEF GatewayInv
  <2>2. subs' \in [Sockets -> SUBSET Symbols] /\ \A j \in Sockets : subs'[j] \subseteq subs[j]
    BY DEF GatewayInv
  <2> QED
    BY <2>1, <2>2 DEF GatewayInv, client, notes
<1> QED
  BY <1>1, <1>3

\* The broadcast loop.
LEMMA LoopTyped ==
  ASSUME FeedInv, NEW l \in Loops, LoopStep(l)
  PROVE  FeedInv'
<1>1. CASE Wake(l)
  <2>1. Active \subseteq Symbols
    BY DEF Active
  <2>2. LoopInv'
    BY <1>1, <2>1 DEF Wake, FeedInv, LoopInv
  <2>3. PageInv' /\ QueueInv' /\ GatewayInv'
    BY <1>1 DEF Wake, FeedInv, PageInv, QueueInv, GatewayInv, client, server, notes
  <2> QED
    BY <2>2, <2>3 DEF FeedInv
<1>2. CASE ReadRows(l)
  <2>1. PICK s \in loop[l].todo : loop' = [loop EXCEPT ![l] = [todo |-> @.todo \ {s}, read |-> Book(s)]]
    BY <1>2 DEF ReadRows
  <2>2. loop[l].todo \subseteq Symbols
    BY DEF FeedInv, LoopInv
  <2>3. [todo |-> loop[l].todo \ {s}, read |-> Book(s)] \in [todo : SUBSET Symbols, read : Books]
    BY <2>1, <2>2, BookType
  <2>4. LoopInv'
    BY <2>1, <2>3 DEF FeedInv, LoopInv
  <2>5. PageInv' /\ QueueInv' /\ GatewayInv'
    BY <1>2 DEF ReadRows, FeedInv, PageInv, QueueInv, GatewayInv, client, server, notes
  <2> QED
    BY <2>4, <2>5 DEF FeedInv
<1>3. CASE Emit(l)
  <2>1. PICK book : book = loop[l].read
    OBVIOUS
  <2>2. book \in Books
    BY <2>1 DEF FeedInv, LoopInv
  <2>3. shown' = [c \in Clients |-> IF Listening(c, book.symbol) THEN book ELSE shown[c]]
    BY <1>3, <2>1 DEF Emit
  <2>4. shown' \in [Clients -> Books]
    BY <2>2, <2>3 DEF FeedInv, PageInv
  <2>5. PageInv'
    BY <1>3, <2>4 DEF Emit, FeedInv, PageInv
  <2>6. LoopInv'
    BY <1>3, BookType DEF Emit, FeedInv, LoopInv
  <2>7. QueueInv' /\ GatewayInv'
    BY <1>3 DEF Emit, FeedInv, QueueInv, GatewayInv, server, notes
  <2> QED
    BY <2>5, <2>6, <2>7 DEF FeedInv
<1> QED
  BY <1>1, <1>2, <1>3 DEF LoopStep

LEMMA ChangeTyped ==
  ASSUME FeedInv, NEW s \in Symbols, ChangeBook(s)
  PROVE  FeedInv'
<1> USE DEF FeedInv, ChangeBook
<1>1. PageInv'
  <2>1. \A c \in Clients : Aged(shown[c], s) \in Books /\ Aged(rest[c], s) \in Books
    BY AgedType DEF PageInv
  <2>2. shown' \in [Clients -> Books] /\ rest' \in [Clients -> Books]
    BY <2>1
  <2> QED
    BY <2>2 DEF PageInv
<1>2. LoopInv'
  <2>1. \A l \in Loops : Aged(loop[l].read, s) \in Books
    BY AgedType DEF LoopInv
  <2> QED
    BY <2>1 DEF LoopInv
<1>3. QueueInv' /\ GatewayInv'
  BY DEF QueueInv, GatewayInv, server, notes
<1> QED
  BY <1>1, <1>2, <1>3

LEMMA FeedStep == FeedInv /\ BoundsAssumption /\ NoneAssumption /\ [Next]_vars => FeedInv'
<1> SUFFICES ASSUME FeedInv, BoundsAssumption, NoneAssumption, [Next]_vars
             PROVE  FeedInv'
  OBVIOUS
<1>1. ASSUME NEW c \in Clients, ClientStep(c)
      PROVE  FeedInv'
  BY <1>1, OpenTyped, LeaveTyped, ConnectTyped, LoseTyped, ReloadTyped, FinishTyped DEF ClientStep
<1>2. ASSUME NEW k \in Sockets, Drop(k)
      PROVE  FeedInv'
  BY <1>2, DropTyped
<1>3. ASSUME NEW l \in Loops, LoopStep(l)
      PROVE  FeedInv'
  BY <1>3, LoopTyped
<1>4. ASSUME NEW s \in Symbols, ChangeBook(s)
      PROVE  FeedInv'
  BY <1>4, ChangeTyped
<1>5. CASE UNCHANGED vars
  BY <1>5 DEF vars, client, server, notes, FeedInv, PageInv, QueueInv, GatewayInv, LoopInv
<1> QED
  BY <1>1, <1>2, <1>3, <1>4, <1>5 DEF Next

LEMMA FeedInvariant == Spec => []FeedInv
BY FeedInit, FeedStep, BoundsAssumption, NoneAssumption, PTL DEF Spec

\* The page's state and the gateway's maps hold what their types say, and a
\* socket that was never opened has no subscription.
THEOREM Typed == Spec => []TypeOK
<1>1. FeedInv => TypeOK
  <2> SUFFICES ASSUME FeedInv
               PROVE  TypeOK
    OBVIOUS
  <2> QED
    BY DEF FeedInv, PageInv, GatewayInv, TypeOK, Books
<1> QED
  BY <1>1, FeedInvariant, PTL

-----------------------------------------------------------------------------
\* The counter: a subscription adds to a symbol's sockets at most the one the
\* counter counts; what takes one off the counter takes a socket off the symbol.

Subscribers(s) == {k \in Sockets : s \in subs[k]}

LEMMA SubscribersFinite ==
  ASSUME ClientsAssumption, BoundsAssumption
  PROVE  \A s \in Symbols : IsFiniteSet(Subscribers(s)) /\ Cardinality(Subscribers(s)) \in Nat
<1>1. MaxConnects \in Int
  BY DEF BoundsAssumption
<1>2. IsFiniteSet(1..MaxConnects)
  BY <1>1, FS_Interval
<1>3. IsFiniteSet(Sockets)
  BY <1>2, FS_Product DEF Sockets, ClientsAssumption
<1>4. \A s \in Symbols : Subscribers(s) \in SUBSET Sockets
  BY DEF Subscribers
<1>5. \A s \in Symbols : IsFiniteSet(Subscribers(s))
  BY <1>3, <1>4, FS_Subset
<1> QED
  BY <1>5, FS_CardinalityType

CoversInv == \A s \in Symbols : Cardinality(Subscribers(s)) <= refCount[s]

\* Each symbol's sockets and count, before and after a step of the gateway.
LEMMA OneMore ==
  ASSUME NEW A, NEW B, NEW k, IsFiniteSet(A), B = A \/ B = A \cup {k},
         NEW m \in Nat, NEW n \in Nat, Cardinality(A) \in Nat, Cardinality(A) <= m, n = m + 1
  PROVE  Cardinality(B) <= n
<1>1. Cardinality(A \cup {k}) = IF k \in A THEN Cardinality(A) ELSE Cardinality(A) + 1
  BY FS_AddElement
<1> QED
  BY <1>1

LEMMA OneLess ==
  ASSUME NEW A, NEW B, NEW k \in A, IsFiniteSet(A), B = A \ {k},
         NEW m \in Nat, Cardinality(A) \in Nat, Cardinality(A) <= m
  PROVE  Cardinality(B) <= Less(m)
<1>1. Cardinality(B) = Cardinality(A) - 1
  BY FS_RemoveElement
<1>2. m <= Less(m) + 1 /\ Less(m) \in Nat
  BY LessType
<1>3. PICK a, b, l : a = Cardinality(A) /\ b = Cardinality(B) /\ l = Less(m)
  OBVIOUS
<1> QED
  BY <1>1, <1>2, <1>3

LEMMA SubscribeCovers ==
  ASSUME GatewayInv, CoversInv, ClientsAssumption, BoundsAssumption,
         NEW k \in Sockets, NEW s \in Symbols, Subscribe(k, s)
  PROVE  CoversInv'
<1> SUFFICES ASSUME NEW t \in Symbols
             PROVE  Cardinality(Subscribers(t)') <= refCount'[t]
  BY DEF CoversInv
<1>1. refCount[t] \in Nat /\ refCount' = [refCount EXCEPT ![s] = @ + 1] /\ t \in DOMAIN refCount
  BY DEF GatewayInv, Subscribe
<1>2. subs' = [subs EXCEPT ![k] = @ \cup {s}] /\ subs = [j \in Sockets |-> subs[j]]
  BY DEF GatewayInv, Subscribe
<1>3. PICK A, B : A = Subscribers(t) /\ B = Subscribers(t)'
  OBVIOUS
<1>4. IsFiniteSet(A) /\ Cardinality(A) \in Nat /\ Cardinality(A) <= refCount[t]
  BY <1>3, SubscribersFinite DEF CoversInv
<1>5. CASE t = s
  <2>1. B = A \cup {k}
    BY <1>2, <1>3, <1>5 DEF Subscribers
  <2>2. PICK m, n : m = refCount[t] /\ n = refCount'[t]
    OBVIOUS
  <2>3. m \in Nat /\ n \in Nat /\ n = m + 1
    BY <1>1, <1>5, <2>2
  <2>4. Cardinality(A) <= m
    BY <1>4, <2>2
  <2>5. Cardinality(B) <= n
    BY ONLY <1>4, <2>1, <2>3, <2>4, OneMore
  <2> QED
    BY <1>3, <2>2, <2>5
<1>6. CASE t # s
  <2>1. B = A
    BY <1>2, <1>3, <1>6 DEF Subscribers
  <2>2. refCount'[t] = refCount[t]
    BY <1>1, <1>6
  <2> QED
    BY <1>3, <1>4, <2>1, <2>2
<1> QED
  BY <1>5, <1>6

LEMMA UnsubscribeCovers ==
  ASSUME GatewayInv, CoversInv, ClientsAssumption, BoundsAssumption,
         NEW k \in Sockets, NEW s \in Symbols, Unsubscribe(k, s)
  PROVE  CoversInv'
<1> SUFFICES ASSUME NEW t \in Symbols
             PROVE  Cardinality(Subscribers(t)') <= refCount'[t]
  BY DEF CoversInv
<1>1. subs' = [subs EXCEPT ![k] = @ \ {s}] /\ subs = [j \in Sockets |-> subs[j]]
  BY DEF GatewayInv, Unsubscribe
<1>2. refCount' = IF s \in subs[k] THEN [refCount EXCEPT ![s] = Less(@)] ELSE refCount
  BY DEF Unsubscribe
<1>3. PICK A, B : A = Subscribers(t) /\ B = Subscribers(t)'
  OBVIOUS
<1>4. PICK m : m = refCount[t]
  OBVIOUS
<1>5. IsFiniteSet(A) /\ Cardinality(A) \in Nat /\ Cardinality(A) <= m
  BY <1>3, <1>4, SubscribersFinite DEF CoversInv
<1>6. m \in Nat /\ t \in DOMAIN refCount
  BY <1>4 DEF GatewayInv
<1>7. CASE t = s /\ s \in subs[k]
  <2>1. B = A \ {k} /\ k \in A
    BY <1>1, <1>3, <1>7 DEF Subscribers
  <2>2. Cardinality(B) <= Less(m)
    BY ONLY <1>5, <1>6, <2>1, OneLess
  <2>3. refCount'[t] = Less(m)
    BY <1>2, <1>4, <1>6, <1>7
  <2> QED
    BY <1>3, <2>2, <2>3
<1>8. CASE ~(t = s /\ s \in subs[k])
  <2>1. B = A
    BY <1>1, <1>3, <1>8 DEF Subscribers
  <2>2. refCount'[t] = m
    BY <1>2, <1>4, <1>6, <1>8
  <2> QED
    BY <1>3, <1>5, <2>1, <2>2
<1> QED
  BY <1>7, <1>8

LEMMA DropCovers ==
  ASSUME GatewayInv, CoversInv, ClientsAssumption, BoundsAssumption, NEW k \in Sockets, Drop(k)
  PROVE  CoversInv'
<1> SUFFICES ASSUME NEW t \in Symbols
             PROVE  Cardinality(Subscribers(t)') <= refCount'[t]
  BY DEF CoversInv
<1>1. subs' = [subs EXCEPT ![k] = {}] /\ subs = [j \in Sockets |-> subs[j]]
  BY DEF GatewayInv, Drop
<1>2. refCount'[t] = IF t \in subs[k] THEN Less(refCount[t]) ELSE refCount[t]
  BY DEF Drop
<1>3. PICK A, B : A = Subscribers(t) /\ B = Subscribers(t)'
  OBVIOUS
<1>4. PICK m : m = refCount[t]
  OBVIOUS
<1>5. IsFiniteSet(A) /\ Cardinality(A) \in Nat /\ Cardinality(A) <= m
  BY <1>3, <1>4, SubscribersFinite DEF CoversInv
<1>6. m \in Nat
  BY <1>4 DEF GatewayInv
<1>7. CASE t \in subs[k]
  <2>1. B = A \ {k} /\ k \in A
    BY <1>1, <1>3, <1>7 DEF Subscribers
  <2>2. Cardinality(B) <= Less(m)
    BY ONLY <1>5, <1>6, <2>1, OneLess
  <2> QED
    BY <1>2, <1>3, <1>4, <1>7, <2>2
<1>8. CASE t \notin subs[k]
  <2>1. B = A
    BY <1>1, <1>3, <1>8 DEF Subscribers
  <2> QED
    BY <1>2, <1>3, <1>4, <1>5, <1>8, <2>1
<1> QED
  BY <1>7, <1>8

LEMMA CoversStep ==
  FeedInv /\ CoversInv /\ ClientsAssumption /\ BoundsAssumption /\ [Next]_vars => CoversInv'
<1> SUFFICES ASSUME FeedInv, CoversInv, ClientsAssumption, BoundsAssumption, [Next]_vars
             PROVE  CoversInv'
  OBVIOUS
<1>1. CASE UNCHANGED <<subs, refCount>>
  BY <1>1 DEF CoversInv, Subscribers
<1>2. ASSUME NEW c \in Clients, Finish(c)
      PROVE  CoversInv'
  <2>1. PICK n \in DOMAIN pending[c] :
          IF pending[c][n].msg.kind = "subscribe" THEN Subscribe(pending[c][n].socket, pending[c][n].msg.symbol)
          ELSE Unsubscribe(pending[c][n].socket, pending[c][n].msg.symbol)
    BY <1>2 DEF Finish
  <2>2. pending[c][n].socket \in Sockets /\ pending[c][n].msg.symbol \in Symbols
    BY Queued DEF Messages
  <2> QED
    BY <2>1, <2>2, SubscribeCovers, UnsubscribeCovers DEF FeedInv
<1>3. ASSUME NEW k \in Sockets, Drop(k)
      PROVE  CoversInv'
  BY <1>3, DropCovers DEF FeedInv
<1>4. ASSUME NEW c \in Clients, ClientStep(c), ~Finish(c)
      PROVE  UNCHANGED <<subs, refCount>>
  BY <1>4 DEF ClientStep, Open, Leave, Connect, Lose, AskBook, ShowBook, server
<1>5. ASSUME NEW l \in Loops, LoopStep(l)
      PROVE  UNCHANGED <<subs, refCount>>
  BY <1>5 DEF LoopStep, Wake, ReadRows, Emit, server
<1>6. ASSUME NEW s \in Symbols, ChangeBook(s)
      PROVE  UNCHANGED <<subs, refCount>>
  BY <1>6 DEF ChangeBook, server
<1>7. UNCHANGED vars => UNCHANGED <<subs, refCount>>
  BY DEF vars, server
<1> QED
  BY <1>1, <1>2, <1>3, <1>4, <1>5, <1>6, <1>7 DEF Next

\* The gateway's refCount is never below the sockets subscribed to a symbol, in
\* whatever order the handlers of a socket finish and whenever its disconnect
\* is handled: as long as a socket is in a symbol's set, the broadcast loop
\* finds the symbol.
THEOREM CountHolds == Spec => []CountCovers
<1>1. Init /\ BoundsAssumption => CoversInv
  <2> SUFFICES ASSUME Init, BoundsAssumption
               PROVE  CoversInv
    OBVIOUS
  <2>1. \A s \in Symbols : Subscribers(s) = {} /\ refCount[s] = 0
    BY DEF Init, Subscribers
  <2> QED
    BY <2>1, FS_EmptySet DEF CoversInv
<1>2. CoversInv => CountCovers
  BY DEF CoversInv, CountCovers, Subscribers
<1> QED
  BY <1>1, <1>2, CoversStep, FeedInvariant, BoundsAssumption, ClientsAssumption, PTL DEF Spec
=============================================================================
