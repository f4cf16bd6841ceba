----------------------------- MODULE MarketFeed -----------------------------
(***************************************************************************)
(* The order book of a market page over Socket.IO: subscribeBook in the    *)
(* browser, the PublicWsGateway's handlers and its broadcast loop.         *)
(*                                                                         *)
(* A handler awaits the market's canonical symbol before it does anything, *)
(* so handlers of one socket may finish in another order than they came;   *)
(* join and leave are synchronous with the in-memory adapter.  A broadcast *)
(* reaches the page when it is emitted: its delay lies between the read    *)
(* and the emit.  The trades and orders feeds are left out.                *)
(***************************************************************************)
EXTENDS Naturals, Sequences, FiniteSets, SequencesExt

CONSTANTS
  Clients, Symbols,
  Loops,          \* runs of the broadcast loop that may overlap
  None,           \* no symbol
  MaxOpens, MaxReloads,   \* bounds, over all clients
  MaxConnects             \* bound on each client's connections

ASSUME NoneAssumption == None \notin Symbols
ASSUME ClientsAssumption == IsFiniteSet(Clients)
ASSUME BoundsAssumption == {MaxOpens, MaxConnects, MaxReloads} \subseteq Nat

Sockets == Clients \X (1..MaxConnects)

VARIABLES
  page, shown,     \* the mounted market page and the book it shows
  once, buffer,    \* one-shot connect handlers; what is emitted while down
  up, conn,        \* connected; how many times so far
  pending,         \* messages sent, on their way or awaiting the symbol
  subs, refCount,  \* subsBySocket, refCount
  noticed,         \* sockets whose disconnect the server has handled
  loop,            \* the broadcast loops
  rest,            \* a reload in flight
  overtaken,       \* clients a handler of which overtook an earlier one
  opens, reloads

client == <<page, shown, once, buffer, up, conn>>
server == <<subs, refCount, noticed>>
notes  == <<overtaken, opens, reloads>>
vars   == <<client, pending, server, loop, rest, notes>>

\* A book as it was read: whether it still is the market's book.
Nothing == [symbol |-> None, fresh |-> FALSE]
Book(s) == [symbol |-> s, fresh |-> TRUE]
Aged(book, s) == IF book.symbol = s THEN [book EXCEPT !.fresh = FALSE] ELSE book

Asleep == [todo |-> {}, read |-> Nothing]
Sub(s) == [kind |-> "subscribe", symbol |-> s]
Unsub(s) == [kind |-> "unsubscribe", symbol |-> s]

Init ==
  /\ page = [c \in Clients |-> None] /\ shown = [c \in Clients |-> Nothing]
  /\ once = [c \in Clients |-> <<>>] /\ buffer = [c \in Clients |-> <<>>]
  /\ up = [c \in Clients |-> FALSE] /\ conn = [c \in Clients |-> 0]
  /\ pending = [c \in Clients |-> <<>>]
  /\ subs = [k \in Sockets |-> {}] /\ refCount = [s \in Symbols |-> 0] /\ noticed = {}
  /\ loop = [l \in Loops |-> Asleep]
  /\ rest = [c \in Clients |-> Nothing]
  /\ overtaken = {} /\ opens = 0 /\ reloads = 0

Socket(c) == <<c, conn[c]>>
Sent(k, msgs) == [n \in DOMAIN msgs |-> [msg |-> msgs[n], socket |-> k]]

-----------------------------------------------------------------------------
\* The browser: one socket for all pages it visits.

\* Mutant of Waits: the subscription always waits for a connect.
WaitsAlways(c) == TRUE
Waits(c) == ~up[c]

\* subscribeBook: emit now, or once connected; and on every connect.
Open(c, s) ==
  /\ page[c] = None /\ opens < MaxOpens /\ opens' = opens + 1
  /\ page' = [page EXCEPT ![c] = s]
  /\ IF Waits(c) THEN once' = [once EXCEPT ![c] = Append(@, s)] /\ UNCHANGED pending
     ELSE pending' = [pending EXCEPT ![c] = @ \o Sent(Socket(c), <<Sub(s)>>)] /\ UNCHANGED once
  /\ UNCHANGED <<shown, buffer, up, conn, server, loop, rest, overtaken, reloads>>

\* The cleanup: the reconnect handler goes, a one-shot handler stays; an emit
\* while the socket is down is buffered.
Leave(c) ==
  /\ page[c] # None
  /\ page' = [page EXCEPT ![c] = None] /\ shown' = [shown EXCEPT ![c] = Nothing]
  /\ rest' = [rest EXCEPT ![c] = Nothing]
  /\ IF up[c] THEN pending' = [pending EXCEPT ![c] = @ \o Sent(Socket(c), <<Unsub(page[c])>>)] /\ UNCHANGED buffer
     ELSE buffer' = [buffer EXCEPT ![c] = Append(@, Unsub(page[c]))] /\ UNCHANGED pending
  /\ UNCHANGED <<once, up, conn, server, loop, notes>>

\* Mutant of OnReconnect: a page subscribes when it opens and never again.
OnReconnectNever(c) == <<>>
OnReconnect(c) == IF page[c] = None THEN <<>> ELSE <<Sub(page[c])>>

\* The buffer is sent first, then the connect handlers run.
Connect(c) ==
  /\ ~up[c] /\ conn[c] < MaxConnects
  /\ up' = [up EXCEPT ![c] = TRUE] /\ conn' = [conn EXCEPT ![c] = @ + 1]
  /\ LET subscribes == [n \in DOMAIN once[c] |-> Sub(once[c][n])] \o OnReconnect(c)
     IN pending' = [pending EXCEPT ![c] = @ \o Sent(<<c, conn'[c]>>, buffer[c] \o subscribes)]
  /\ buffer' = [buffer EXCEPT ![c] = <<>>] /\ once' = [once EXCEPT ![c] = <<>>]
  /\ UNCHANGED <<page, shown, server, loop, rest, notes>>

\* The last messages sent may be lost with the connection.
Lose(c) ==
  /\ up[c] /\ up' = [up EXCEPT ![c] = FALSE]
  /\ \E n \in 0..Len(pending[c]) :
       /\ \A m \in n + 1..Len(pending[c]) : pending[c][m].socket = Socket(c)
       /\ pending' = [pending EXCEPT ![c] = SubSeq(@, 1, n)]
  /\ UNCHANGED <<page, shown, once, buffer, conn, server, loop, rest, notes>>

\* The page's own read of the book: on load, and on every ste:refresh.
AskBook(c) ==
  /\ page[c] # None /\ rest[c] = Nothing /\ reloads < MaxReloads /\ reloads' = reloads + 1
  /\ rest' = [rest EXCEPT ![c] = Book(page[c])]
  /\ UNCHANGED <<client, pending, server, loop, overtaken, opens>>

\* The answer, or an error: the page then shows no book.
ShowBook(c) ==
  /\ rest[c] # Nothing /\ rest' = [rest EXCEPT ![c] = Nothing]
  /\ \E answer \in {rest[c], Nothing} : shown' = [shown EXCEPT ![c] = answer]
  /\ UNCHANGED <<page, once, buffer, up, conn, pending, server, loop, notes>>

-----------------------------------------------------------------------------
\* The gateway.

\* Math.max(0, (refCount.get(symbol) ?? 1) - 1).
Less(n) == IF n = 0 THEN 0 ELSE n - 1

Subscribe(k, s) ==
  /\ subs' = [subs EXCEPT ![k] = @ \cup {s}]
  /\ refCount' = [refCount EXCEPT ![s] = @ + 1]

\* Mutant of Unsubscribe: no look at the socket's set, as in the trades feed.
UnsubscribeBlindly(k, s) ==
  /\ subs' = [subs EXCEPT ![k] = @ \ {s}]
  /\ refCount' = [refCount EXCEPT ![s] = Less(@)]
Unsubscribe(k, s) ==
  /\ subs' = [subs EXCEPT ![k] = @ \ {s}]
  /\ refCount' = IF s \in subs[k] THEN [refCount EXCEPT ![s] = Less(@)] ELSE refCount

\* The rest of a handler, once the symbol is known; also for a socket that is gone.
Finish(c) ==
  \E n \in DOMAIN pending[c] :
    LET h == pending[c][n]
    IN /\ pending' = [pending EXCEPT ![c] = RemoveAt(@, n)]
       /\ IF h.msg.kind = "subscribe" THEN Subscribe(h.socket, h.msg.symbol) ELSE Unsubscribe(h.socket, h.msg.symbol)
       /\ overtaken' = IF n > 1 THEN overtaken \cup {c} ELSE overtaken
       /\ UNCHANGED <<client, noticed, loop, rest, opens, reloads>>

\* handleDisconnect, which may come after the client is back.
Drop(k) ==
  /\ k \notin noticed /\ k[2] <= conn[k[1]] /\ (k[2] = conn[k[1]] => ~up[k[1]])
  /\ noticed' = noticed \cup {k}
  /\ refCount' = [s \in Symbols |-> IF s \in subs[k] THEN Less(refCount[s]) ELSE refCount[s]]
  /\ subs' = [subs EXCEPT ![k] = {}]
  /\ UNCHANGED <<client, pending, loop, rest, notes>>

-----------------------------------------------------------------------------
\* tick: every second, whether or not the last one is done.

Active == {s \in Symbols : refCount[s] > 0}

Wake(l) ==
  /\ loop[l] = Asleep /\ Active # {}
  /\ loop' = [loop EXCEPT ![l].todo = Active]
  /\ UNCHANGED <<client, pending, server, rest, notes>>

ReadRows(l) ==
  /\ loop[l].read = Nothing
  /\ \E s \in loop[l].todo :
       loop' = [loop EXCEPT ![l] = [todo |-> @.todo \ {s}, read |-> Book(s)]]
  /\ UNCHANGED <<client, pending, server, rest, notes>>

\* To the room; the page shows any book that comes over its socket.  It would pass
\* over one with an earlier ts than the last, but ts is taken at the emit, a socket
\* keeps the order of its emits, and the page finds no ts in the answer it reads
\* itself (it is inside l2): none is ever earlier.
Listening(c, s) == up[c] /\ page[c] # None /\ s \in subs[Socket(c)]
Emit(l) ==
  LET book == loop[l].read
  IN /\ book # Nothing
     /\ shown' = [c \in Clients |-> IF Listening(c, book.symbol) THEN book ELSE shown[c]]
     /\ loop' = [loop EXCEPT ![l].read = Nothing]
     /\ UNCHANGED <<page, once, buffer, up, conn, pending, server, rest, notes>>

\* Orders are placed, filled, cancelled: what was read before is old.
ChangeBook(s) ==
  /\ shown' = [c \in Clients |-> Aged(shown[c], s)] /\ rest' = [c \in Clients |-> Aged(rest[c], s)]
  /\ loop' = [l \in Loops |-> [loop[l] EXCEPT !.read = Aged(@, s)]]
  /\ UNCHANGED <<page, once, buffer, up, conn, pending, server, notes>>

ClientStep(c) ==
  \/ \E s \in Symbols : Open(c, s)
  \/ Leave(c) \/ Connect(c) \/ Lose(c) \/ AskBook(c) \/ ShowBook(c) \/ Finish(c)
LoopStep(l) == Wake(l) \/ ReadRows(l) \/ Emit(l)

Next ==
  \/ \E c \in Clients : ClientStep(c)
  \/ \E k \in Sockets : Drop(k)
  \/ \E l \in Loops : LoopStep(l)
  \/ \E s \in Symbols : ChangeBook(s)

Spec == Init /\ [][Next]_vars

\* The network, the database and the interval timer keep going, the user and
\* the connection need not.
Fairness ==
  /\ \A c \in Clients : WF_vars(Finish(c)) /\ WF_vars(ShowBook(c))
  /\ \A l \in Loops : WF_vars(LoopStep(l))
FairSpec == Spec /\ Fairness

-----------------------------------------------------------------------------
\* The gateway's maps and the page's state hold what their types say; a socket
\* that has not been opened has no subscriptions.
TypeOK ==
  /\ \A c \in Clients :
       /\ page[c] \in Symbols \cup {None} /\ conn[c] \in 0..MaxConnects
       /\ shown[c].symbol \in Symbols \cup {None}
       /\ (up[c] => buffer[c] = <<>> /\ once[c] = <<>>)
  /\ \A k \in Sockets : subs[k] \subseteq Symbols /\ (k[2] > conn[k[1]] => subs[k] = {})
  /\ \A s \in Symbols : refCount[s] \in Nat
  /\ overtaken \subseteq Clients /\ noticed \subseteq Sockets

\* PublicWsGateway's refCount: it may count too many, after a doubled subscribe
\* or one that finishes after its socket is gone, and never too few: every
\* socket in a book room is served by the broadcast loop.
CountCovers == \A s \in Symbols : Cardinality({k \in Sockets : s \in subs[k]}) <= refCount[s]

\* subscribeBook "mantener suscripción cuando el socket se reconecta": a page
\* that stays open on a connection that stays up comes to show its market's
\* book as it is, and keeps showing it, unless one of its handlers overtook
\* another, or the socket still carries another page's subscription.
Steady(c, s) == page[c] = s /\ up[c] /\ c \notin overtaken /\ subs[Socket(c)] \subseteq {s}
FeedSettles ==
  \A c \in Clients, s \in Symbols :
    <>[]Steady(c, s) /\ <>[][~ChangeBook(s)]_vars => <>[](shown[c] = Book(s))
=============================================================================
