----------------------------- MODULE OrderMatch -----------------------------
(***************************************************************************)
(* The negotiation of an order before its swap.  Alice asks with a         *)
(* request; a Bob who has a pair of utxos for it reserves them and answers *)
(* reserved; Alice takes one of the answers and sends connect; that Bob    *)
(* starts his side of the swap and says connected; Alice starts hers.      *)
(*                                                                         *)
(* A node's message threads check what comes in, wait for a mutex and      *)
(* queue it as a command; its trades loop takes the commands, keeps an     *)
(* entry for every aliceid it hears of and connects the best quotes; the   *)
(* user's commands come on another thread.  Between the tests and what is  *)
(* done about them the others may run.  The same struct travels in all     *)
(* four messages.                                                          *)
(*                                                                         *)
(* Time counts in LP_AUTOTRADE_TIMEOUTs.  The two utxos of a side are      *)
(* reserved, checked and freed together and are one coin here; Alice's is  *)
(* the aliceid of her order.  All orders are for one pair of currencies.   *)
(***************************************************************************)
EXTENDS Integers, Sequences, FiniteSets

CONSTANTS
  Alices,       \* the nodes that buy
  Bobs,         \* the nodes that sell
  CoinsOf,      \* what each node has
  Orders,       \* how many orders each Alice places, and
  BuyTimes,     \* bound: when
  MayCancel,    \* the orders that may be cancelled
  MayFail,      \* the nodes that may fail to start a swap
  Timeout,      \* how long an order looks for quotes
  QueueTime,    \* the age at which a command without an entry is dropped
  ReserveTime,  \* LP_RESERVETIME
  LockTime,     \* how long Alice's coin is locked for an order
  PurgeTime,    \* how long an entry of the table lives
  RenewTime,    \* how long a running swap holds its coin at a time
  MaxAge,       \* the age up to which each kind of message arrives
  MaxQueue,     \* bound: commands waiting at a node
  MaxBusy,      \* bound: nodes with commands waiting
  MaxTime       \* bound: the end of time

Node == Alices \cup Bobs
Coin == UNION {CoinsOf[n] : n \in Node}
Aliceid == UNION {CoinsOf[a] : a \in Alices}
Kind == {"request", "reserved", "connect", "connected"}
None == 0

ASSUME OrderAssumption ==
  /\ Alices \subseteq Nat \ {None} /\ Bobs \subseteq Nat \ {None}
  /\ Alices \cap Bobs = {}
  /\ CoinsOf \in [Node -> SUBSET (Nat \ {None})]
  /\ \A m, n \in Node : m # n => CoinsOf[m] \cap CoinsOf[n] = {}
  /\ Orders \in [Alices -> Nat]
  /\ BuyTimes \in [Alices -> SUBSET Nat]
  /\ MayCancel \subseteq Alices \X Nat
  /\ MayFail \subseteq Node
  /\ {Timeout, QueueTime, ReserveTime, LockTime, PurgeTime, RenewTime} \subseteq Nat \ {0}
  /\ Timeout < QueueTime /\ QueueTime < ReserveTime
  /\ ReserveTime < LockTime /\ LockTime < PurgeTime
  /\ MaxAge \in [Kind -> Nat]
  /\ MaxQueue \in Nat /\ MaxBusy \in Nat
  /\ MaxTime \in Nat

VARIABLES
  now,        \* time(NULL)
  net,        \* the messages that were sent
  heard,      \* what has passed the tests and waits for LP_tradesmutex
  queue,      \* LP_tradesQ
  trades,     \* LP_trades
  chosen,     \* the aliceid whose quote the trades loop is about to take
  held,       \* whether LP_tradesmutex was left locked
  rqs,        \* the connects and connecteds that came in
  query,      \* LP_Alicequery, LP_Alicemaxprice, Alice_expiration, the price
  inuse,      \* LP_inuse
  swaps,      \* the swaps a node has started
  cancelled   \* the orders that were cancelled

loop == <<heard, queue, trades, chosen, held>>
vars == <<now, net, loop, rqs, query, inuse, swaps, cancelled>>

Order == [alice : Alices \cup {None}, coin : Aliceid \cup {None}, uuid : Nat, timestamp : Nat]
NoOrder == [alice |-> None, coin |-> None, uuid |-> 0, timestamp |-> 0]

(* struct LP_quoteinfo                                                     *)
Quote == [order : Order, bob : Bobs \cup {None}, coin : Coin \cup {None}, quotetime : Nat]
NoQuote == [order |-> NoOrder, bob |-> None, coin |-> None, quotetime |-> 0]

Message == [method : Kind, quote : Quote]
Command == [method : Kind, quote : Quote, cancelled : BOOLEAN]

(* struct LP_trade.  best is the quote of the best price so far.           *)
Trade == [live : BOOLEAN, uuid : Nat, best : Quote, connectsent : BOOLEAN,
          negotiationdone : BOOLEAN, cancelled : BOOLEAN, first : Nat]
NoTrade == [live |-> FALSE, uuid |-> 0, best |-> NoQuote, connectsent |-> FALSE,
            negotiationdone |-> FALSE, cancelled |-> FALSE, first |-> 0]

(* order is NoOrder when there is none; expiration 0 is none.  asking is   *)
(* LP_Alicemaxprice # 0, bid whether a price is set.                       *)
Query == [order : Order, expiration : Nat, asking : BOOLEAN, bid : BOOLEAN, placed : Nat]
NoQuery == [order |-> NoOrder, expiration |-> 0, asking |-> FALSE, bid |-> FALSE, placed |-> 0]

Hold == [until : Nat, otherpub : Node \cup {None}]
Free == [until |-> 0, otherpub |-> None]

Init ==
  /\ now = 1
  /\ net = {}
  /\ heard = [n \in Node |-> {}]
  /\ queue = [n \in Node |-> <<>>]
  /\ chosen = [a \in Alices |-> None]
  /\ trades = [n \in Node |-> [c \in Aliceid |-> NoTrade]]
  /\ held = [n \in Node |-> FALSE]
  /\ rqs = [n \in Node |-> {}]
  /\ query = [a \in Alices |-> NoQuery]
  /\ inuse = [c \in Coin |-> Free]
  /\ swaps = [n \in Node |-> <<>>]
  /\ cancelled = {}

(* LP_allocated                                                            *)
Allocated(c) == now < inuse[c].until

(* LP_alicequery_clear                                                     *)
Cleared(q) == [q EXCEPT !.order = NoOrder, !.expiration = 0, !.asking = FALSE]

-----------------------------------------------------------------------------
(* What Alice's user does.                                                 *)

(* LP_autobuy, LP_trade and LP_query: one pending request at a time, with  *)
(* a coin that is not in use.                                              *)
Buy(a, c) ==
  /\ query[a].placed < Orders[a]
  /\ now \in BuyTimes[a]
  /\ query[a].expiration <= now
  /\ ~Allocated(c)
  /\ LET o == [alice |-> a, coin |-> c, uuid |-> query[a].placed + 1, timestamp |-> now]
     IN  /\ query' = [query EXCEPT ![a] =
              [order |-> o, expiration |-> now + Timeout, asking |-> TRUE, bid |-> TRUE,
               placed |-> o.uuid]]
         /\ net' = net \cup {[method |-> "request", quote |-> [NoQuote EXCEPT !.order = o]]}
  /\ inuse' = [inuse EXCEPT ![c] = [until |-> now + LockTime, otherpub |-> None]]
  /\ UNCHANGED <<now, loop, rqs, swaps, cancelled>>

(* LP_alice_eligible, which LP_swapsloop calls when no swap is pending.    *)
Expire(a) ==
  /\ query[a].expiration # 0
  /\ now > query[a].expiration
  /\ query' = [query EXCEPT ![a] = Cleared(@)]
  /\ UNCHANGED <<now, net, loop, rqs, inuse, swaps, cancelled>>

(* swapstatus forgets the expiration of an old order and nothing else.     *)
Status(a) ==
  /\ query[a].expiration # 0
  /\ now >= query[a].expiration
  /\ query' = [query EXCEPT ![a].expiration = 0]
  /\ UNCHANGED <<now, net, loop, rqs, inuse, swaps, cancelled>>

MarkTrades(a, u) ==
  [c \in Aliceid |->
     IF trades[a][c].live /\ trades[a][c].uuid = u
     THEN [trades[a][c] EXCEPT !.cancelled = TRUE] ELSE trades[a][c]]

MarkQueue(a, u) ==
  [i \in DOMAIN queue[a] |->
     IF queue[a][i].quote.order.uuid = u
     THEN [queue[a][i] EXCEPT !.cancelled = TRUE] ELSE queue[a][i]]

(* LP_cancel_order, whatever the loop and the message threads are doing.   *)
Cancel(a, u) ==
  /\ <<a, u>> \in MayCancel
  /\ trades' = [trades EXCEPT ![a] = MarkTrades(a, u)]
  /\ queue' = [queue EXCEPT ![a] = MarkQueue(a, u)]
  /\ query' = IF query[a].order.uuid = u THEN [query EXCEPT ![a] = Cleared(@)] ELSE query
  /\ cancelled' = cancelled \cup {<<a, u>>}
  /\ UNCHANGED <<now, net, heard, chosen, held, rqs, inuse, swaps>>

-----------------------------------------------------------------------------
(* What comes in: LP_tradecommand and LP_tradecommandQ.                    *)

(* Who takes a message, and which messages count once.                     *)
Addressed(n, m) ==
  CASE m.method = "request" -> n \in Bobs
    [] m.method = "connect" -> n = m.quote.bob
    [] OTHER -> n = m.quote.order.alice

Once(m) == m.method \in {"connect", "connected"}

Room(n) ==
  /\ Len(queue[n]) + Cardinality(heard[n]) < MaxQueue
  /\ Cardinality({k \in Node \ {n} : queue[k] # <<>> \/ heard[k] # {}}) < MaxBusy

(* The tests, without a lock.                                              *)
Hear(n, m) ==
  /\ Addressed(n, m)
  /\ now <= m.quote.order.timestamp + MaxAge[m.method]
  /\ m.method = "reserved" => query[n].asking
  /\ Once(m) => m.quote \notin rqs[n]
  /\ m \notin heard[n]
  /\ Room(n)
  /\ rqs' = IF Once(m) THEN [rqs EXCEPT ![n] = @ \cup {m.quote}] ELSE rqs
  /\ heard' = [heard EXCEPT ![n] = @ \cup {m}]
  /\ UNCHANGED <<now, net, queue, trades, chosen, held, query, inuse, swaps, cancelled>>

Queue(n, m) ==
  /\ m \in heard[n]
  /\ ~held[n]
  /\ heard' = [heard EXCEPT ![n] = @ \ {m}]
  /\ queue' = [queue EXCEPT ![n] =
       Append(@, [method |-> m.method, quote |-> m.quote, cancelled |-> FALSE])]
  /\ UNCHANGED <<now, net, trades, chosen, held, rqs, query, inuse, swaps, cancelled>>

-----------------------------------------------------------------------------
(* The trades loop: LP_tradesloop.                                         *)

Due(n, c) ==
  trades[n][c].live /\ (trades[n][c].cancelled \/ now > trades[n][c].first + PurgeTime)

(* The loop is stuck when it needs a mutex it has left locked itself.      *)
Stuck(n) == held[n] /\ (queue[n] # <<>> \/ \E c \in Aliceid : Due(n, c))

Connectable(a, c) ==
  LET t == trades[a][c]
  IN  /\ t.live /\ ~t.negotiationdone /\ ~t.cancelled
      /\ t.best # NoQuote /\ ~t.connectsent

Uncommitted(t) == t  \* mutant

Committed(t) == [t EXCEPT !.connectsent = TRUE]

(* The loop is not in the middle of a connect.                             *)
Roaming(n) == n \in Alices => chosen[n] = None

(* The loop comes to an entry that is to be connected and sets             *)
(* LP_Alicemaxprice.                                                       *)
Choose(a, c) ==
  /\ Roaming(a)
  /\ Connectable(a, c)
  /\ ~Stuck(a)
  /\ chosen' = [chosen EXCEPT ![a] = c]
  /\ query' = [query EXCEPT ![a].asking = TRUE]
  /\ UNCHANGED <<now, net, heard, queue, trades, held, rqs, inuse, swaps, cancelled>>

Settle(a) ==
  /\ chosen[a] # None
  /\ chosen' = [chosen EXCEPT ![a] = None]
  /\ trades' = [trades EXCEPT ![a][chosen[a]] = Committed(@)]
  /\ UNCHANGED <<now, heard, queue, held, rqs, inuse, swaps, cancelled>>

(* LP_reserved: the best quote so far is taken, and whatever query there   *)
(* is now, it is cleared.                                                  *)
SendConnect(a) ==
  /\ Settle(a)
  /\ net' = net \cup {[method |-> "connect", quote |-> trades[a][chosen[a]].best]}
  /\ query' = [query EXCEPT ![a] = Cleared(@)]

(* Its price is not valid, or LP_Alicemaxprice is lower or cleared again.  *)
Refuse(a) ==
  /\ Settle(a)
  /\ UNCHANGED <<net, query>>

Purge(n, c) ==
  /\ Roaming(n)
  /\ Due(n, c)
  /\ ~held[n]
  /\ trades' = [trades EXCEPT ![n][c] = NoTrade]
  /\ UNCHANGED <<now, net, heard, queue, chosen, held, rqs, query, inuse, swaps, cancelled>>

(* The first command, the entry of its aliceid, and what becomes of that   *)
(* entry when the command is taken.                                        *)
First(n) == Head(queue[n])
Entry(n) == trades[n][First(n).quote.order.coin]

Unwanted(n) ==
  IF Entry(n).live THEN Entry(n).cancelled
  ELSE First(n).cancelled \/ now > First(n).quote.order.timestamp + QueueTime

Reentered(n) ==  \* mutant
  [NoTrade EXCEPT !.live = TRUE, !.uuid = First(n).quote.order.uuid, !.first = now]

Entered(n) ==
  LET u == First(n).quote.order.uuid
  IN  IF Entry(n).live THEN [Entry(n) EXCEPT !.uuid = u]
      ELSE [NoTrade EXCEPT !.live = TRUE, !.uuid = u, !.first = now]

Take(n, method) ==
  /\ Roaming(n)
  /\ ~held[n]
  /\ queue[n] # <<>>
  /\ First(n).method = method
  /\ ~Unwanted(n)
  /\ queue' = [queue EXCEPT ![n] = Tail(@)]
  /\ UNCHANGED <<now, heard, chosen, held, rqs, cancelled>>

Enter(n, t) == trades' = [trades EXCEPT ![n][First(n).quote.order.coin] = t]

(* A command of a cancelled entry, and an expired or cancelled one without *)
(* an entry, is dropped.  Both ways skip the unlock.                       *)
Drop(n) ==
  /\ Roaming(n)
  /\ ~held[n]
  /\ queue[n] # <<>>
  /\ Unwanted(n)
  /\ queue' = [queue EXCEPT ![n] = Tail(@)]
  /\ Enter(n, NoTrade)
  /\ held' = [held EXCEPT ![n] = TRUE]
  /\ UNCHANGED <<now, net, heard, chosen, rqs, query, inuse, swaps, cancelled>>

(* LP_unavailableset by Bob for an order.                                  *)
Unreserved(o) == [until |-> o.timestamp - ReserveTime, otherpub |-> o.alice]  \* mutant

Reservation(o) == [until |-> o.timestamp + ReserveTime, otherpub |-> o.alice]

(* LP_trades_gotrequest: Bob may have no price, no coin, or be too late.   *)
Request(b) ==
  /\ Take(b, "request")
  /\ Enter(b, Entered(b))
  /\ LET o == First(b).quote.order
     IN  \/ UNCHANGED <<inuse, net>>
         \/ \E c \in CoinsOf[b] :
              /\ ~Allocated(c)
              /\ inuse' = [inuse EXCEPT ![c] = Reservation(o)]
              /\ net' = net \cup {[method |-> "reserved", quote |->
                   [order |-> o, bob |-> b, coin |-> c, quotetime |-> now]]}
  /\ UNCHANGED <<query, swaps>>

(* LP_trades_bestpricecheck: a later quote may be better or not.           *)
Reserved(a) ==
  /\ Take(a, "reserved")
  /\ LET t == Entered(a)
         q == First(a).quote
     IN  \/ ~t.connectsent /\ Enter(a, [t EXCEPT !.best = q])
         \/ (t.connectsent \/ t.best # NoQuote) /\ Enter(a, t)
  /\ UNCHANGED <<net, query, inuse, swaps>>

(* LP_reservation_check: the hold may have lapsed.                         *)
ReservedFor(c, a) == inuse[c].otherpub = a

(* A node's swap of a quote.                                               *)
Starts(n, q) == swaps' = [swaps EXCEPT ![n] = Append(@, [quote |-> q, running |-> TRUE])]

(* What Bob sends back, with the terms he has started on.                  *)
OldTerms(q) ==  \* mutant
  [method |-> "connected", quote |-> [q EXCEPT !.quotetime = q.order.timestamp]]

Confirmation(q) == [method |-> "connected", quote |-> q]

(* LP_trades_gotconnect and LP_connectstartbob, which sets the quotetime.  *)
Connect(b) ==
  /\ Take(b, "connect")
  /\ Enter(b, [Entered(b) EXCEPT !.negotiationdone = TRUE])
  /\ LET q == [First(b).quote EXCEPT !.quotetime = now]
     IN  \/ /\ ~Entry(b).negotiationdone
            /\ ReservedFor(q.coin, q.order.alice)
            /\ Starts(b, q)
            /\ net' = net \cup {Confirmation(q)}
            /\ inuse' = inuse
         \/ /\ ~Entry(b).negotiationdone
            /\ ReservedFor(q.coin, q.order.alice)
            /\ b \in MayFail
            /\ inuse' \in {inuse, [inuse EXCEPT ![q.coin] = Free]}
            /\ UNCHANGED <<net, swaps>>
         \/ /\ Entry(b).negotiationdone \/ ~ReservedFor(q.coin, q.order.alice)
            /\ UNCHANGED <<net, inuse, swaps>>
  /\ UNCHANGED query

(* LP_trades_gotconnected.  The quote may not validate; then nothing else  *)
(* is done.  LP_connectedalice: a query of another order takes the price   *)
(* away before it is asked for, and a failure frees her coin, though not   *)
(* every one does.                                                         *)
Connected(a) ==
  /\ Take(a, "connected")
  /\ Enter(a, [Entered(a) EXCEPT !.negotiationdone = TRUE])
  /\ \/ /\ Entry(a).negotiationdone \/ a \in MayFail
        /\ UNCHANGED <<query, inuse, swaps>>
     \/ /\ ~Entry(a).negotiationdone
        /\ query' = [query EXCEPT ![a] = [Cleared(@) EXCEPT !.bid = FALSE]]
        /\ LET q == First(a).quote
               freed == [inuse EXCEPT ![q.order.coin] = Free]
           IN  \/ /\ query[a].bid /\ query[a].order = NoOrder
                  /\ Starts(a, q)
                  /\ inuse' = inuse
               \/ /\ ~query[a].bid \/ query[a].order # NoOrder
                  /\ inuse' = freed
                  /\ swaps' = swaps
               \/ /\ a \in MayFail
                  /\ inuse' \in {inuse, freed}
                  /\ swaps' = swaps
  /\ net' = net

-----------------------------------------------------------------------------
(* A running swap, as far as it holds coins.                               *)

Other(n, q) == IF n = q.bob THEN q.order.alice ELSE q.bob
CoinOf(n, q) == IF n = q.bob THEN q.coin ELSE q.order.coin
Running(n) == {i \in DOMAIN swaps[n] : swaps[n][i].running}

(* LP_bobloop, LP_aliceloop: from the first payment on, and every ten      *)
(* seconds while they wait for confirmations.  In the handshake before,    *)
(* and while they wait for the other's messages, they do not: when it      *)
(* happens is left open, and a hold may lapse while the swap runs.         *)
Renew(n, i) ==
  /\ i \in Running(n)
  /\ LET q == swaps[n][i].quote
     IN  inuse' = [inuse EXCEPT ![CoinOf(n, q)] =
           [until |-> now + RenewTime, otherpub |-> Other(n, q)]]
  /\ UNCHANGED <<now, net, loop, rqs, query, swaps, cancelled>>

(* basilisk_swap_finished                                                  *)
End(n, i) ==
  /\ i \in Running(n)
  /\ swaps' = [swaps EXCEPT ![n][i].running = FALSE]
  /\ inuse' = [inuse EXCEPT ![CoinOf(n, swaps[n][i].quote)] = Free]
  /\ UNCHANGED <<now, net, loop, rqs, query, cancelled>>

(* Time: a thread that is not blocked has run when the next timeout ends.  *)
Idle(n) ==
  /\ queue[n] # <<>> \/ heard[n] # {} => held[n]
  /\ Roaming(n)
  /\ \A c \in Aliceid : ~(Connectable(n, c) /\ ~Stuck(n)) /\ ~(Due(n, c) /\ ~held[n])

Tick ==
  /\ now < MaxTime
  /\ \A n \in Node : Idle(n)
  /\ now' = now + 1
  /\ UNCHANGED <<net, loop, rqs, query, inuse, swaps, cancelled>>

-----------------------------------------------------------------------------
Next ==
  \/ \E a \in Alices :
       \/ \E c \in CoinsOf[a] : Buy(a, c) \/ Choose(a, c)
       \/ SendConnect(a) \/ Refuse(a)
       \/ Expire(a) \/ Status(a)
       \/ \E u \in 1 .. query[a].placed : Cancel(a, u)
       \/ Reserved(a) \/ Connected(a)
  \/ \E b \in Bobs : Request(b) \/ Connect(b)
  \/ \E n \in Node :
       \/ \E m \in net : Hear(n, m) \/ Queue(n, m)
       \/ Drop(n)
       \/ \E c \in Aliceid : Purge(n, c)
       \/ \E i \in DOMAIN swaps[n] : Renew(n, i) \/ End(n, i)
  \/ Tick

Spec == Init /\ [][Next]_vars

(* The loop goes round for ever.                                           *)
Looping(n) == Drop(n) \/ (n \in Bobs /\ (Request(n) \/ Connect(n)))
              \/ (n \in Alices /\ (Reserved(n) \/ Connected(n) \/ SendConnect(n) \/ Refuse(n)))

FairSpec == Spec /\ \A n \in Node : WF_vars(Looping(n))

-----------------------------------------------------------------------------
(* Properties.                                                             *)

TypeOK ==
  /\ now \in Nat
  /\ net \subseteq Message
  /\ heard \in [Node -> SUBSET Message]
  /\ queue \in [Node -> Seq(Command)]
  /\ trades \in [Node -> [Aliceid -> Trade]]
  /\ chosen \in [Alices -> Aliceid \cup {None}]
  /\ held \in [Node -> BOOLEAN]
  /\ rqs \in [Node -> SUBSET Quote]
  /\ query \in [Alices -> Query]
  /\ inuse \in [Coin -> Hold]
  /\ swaps \in [Node -> Seq([quote : Quote, running : BOOLEAN])]
  /\ cancelled \subseteq Alices \X Nat

(* Alice's entry for an order lives: the order is not older than an entry  *)
(* becomes, and no order with this coin was cancelled.                     *)
Kept(o) ==
  /\ now <= o.timestamp + PurgeTime
  /\ \A m \in net :
       m.quote.order.alice = o.alice /\ m.quote.order.coin = o.coin
         => <<o.alice, m.quote.order.uuid>> \notin cancelled

(* An order is filled at most once while it is kept: no node starts two    *)
(* swaps for it, although messages come twice, a Bob may answer a request  *)
(* with several coins, and the coin may be free for another order by then. *)
FilledOnce ==
  \A n \in Node : \A i, j \in DOMAIN swaps[n] :
    swaps[n][i].quote.order = swaps[n][j].quote.order
      => i = j \/ ~Kept(swaps[n][i].quote.order)

(* Alice commits to one Bob: however many answer, and whenever, she sends  *)
(* connect for one quote of an order that is kept.                         *)
OneBob ==
  \A m1, m2 \in net :
    m1.method = "connect" /\ m2.method = "connect" /\ m1.quote.order = m2.quote.order
      => m1 = m2 \/ ~Kept(m1.quote.order)

(* Alice swaps only what a Bob who had reserved for her started on the     *)
(* same terms.                                                             *)
Agreed ==
  \A a \in Alices : \A i \in DOMAIN swaps[a] :
    \E j \in DOMAIN swaps[swaps[a][i].quote.bob] :
      swaps[swaps[a][i].quote.bob][j].quote = swaps[a][i].quote

=============================================================================
