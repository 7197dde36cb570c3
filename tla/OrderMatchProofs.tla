-------------------------- MODULE OrderMatchProofs --------------------------
(***************************************************************************)
(* Proofs about OrderMatch, for every set of nodes, coins and orders and   *)
(* for all times.                                                          *)
(***************************************************************************)
EXTENDS OrderMatch, TLAPS

-----------------------------------------------------------------------------
(* Types.                                                                  *)

LEMMA ConstantTypes ==
  /\ Alices \subseteq Node /\ Bobs \subseteq Node
  /\ Alices \subseteq Nat /\ Bobs \subseteq Nat
  /\ Timeout \in Nat /\ ReserveTime \in Nat /\ LockTime \in Nat
  /\ PurgeTime \in Nat /\ RenewTime \in Nat
  /\ \A n \in Node : CoinsOf[n] \subseteq Coin
  /\ \A a \in Alices : CoinsOf[a] \subseteq Aliceid
BY OrderAssumption DEF Node, Coin, Aliceid

LEMMA EmptyTypes ==
  /\ NoOrder \in Order /\ NoQuote \in Quote /\ NoTrade \in Trade
  /\ NoQuery \in Query /\ Free \in Hold
<1>1. NoOrder \in Order
  BY DEF NoOrder, Order, None
<1>2. NoQuote \in Quote
  BY <1>1 DEF NoQuote, Quote, None
<1>3. NoTrade \in Trade
  BY <1>2 DEF NoTrade, Trade
<1>4. NoQuery \in Query
  BY <1>1 DEF NoQuery, Query
<1>5. Free \in Hold
  BY DEF Free, Hold, None
<1> QED BY <1>1, <1>2, <1>3, <1>4, <1>5

LEMMA ClearedType ==
  ASSUME NEW q \in Query
  PROVE  Cleared(q) \in Query /\ [Cleared(q) EXCEPT !.bid = FALSE] \in Query
BY EmptyTypes DEF Cleared, Query

LEMMA InitType == Init => TypeOK
<1> SUFFICES ASSUME Init PROVE TypeOK
  OBVIOUS
<1>1. /\ now \in Nat /\ net \subseteq Message /\ cancelled \subseteq Alices \X Nat
      /\ queue \in [Node -> Seq(Command)] /\ held \in [Node -> BOOLEAN]
      /\ rqs \in [Node -> SUBSET Quote]
      /\ swaps \in [Node -> Seq([quote : Quote, running : BOOLEAN])]
      /\ heard \in [Node -> SUBSET Message] /\ chosen \in [Alices -> Aliceid \cup {None}]
  BY DEF Init
<1>2. trades \in [Node -> [Aliceid -> Trade]] /\ query \in [Alices -> Query]
      /\ inuse \in [Coin -> Hold]
  BY EmptyTypes DEF Init
<1> QED BY <1>1, <1>2 DEF TypeOK

LEMMA BuyType ==
  ASSUME TypeOK, NEW a \in Alices, NEW c \in CoinsOf[a], Buy(a, c)
  PROVE  TypeOK'
<1> DEFINE o == [alice |-> a, coin |-> c, uuid |-> query[a].placed + 1, timestamp |-> now]
<1>1. query[a] \in Query /\ now \in Nat
  BY DEF TypeOK
<1>2. o \in Order
  BY <1>1, ConstantTypes DEF Order, Query
<1>3. /\ query' = [query EXCEPT ![a] =
              [order |-> o, expiration |-> now + Timeout, asking |-> TRUE, bid |-> TRUE,
               placed |-> o.uuid]]
      /\ net' = net \cup {[method |-> "request", quote |-> [NoQuote EXCEPT !.order = o]]}
      /\ inuse' = [inuse EXCEPT ![c] = [until |-> now + LockTime, otherpub |-> None]]
      /\ UNCHANGED <<now, loop, rqs, swaps, cancelled>>
  BY DEF Buy
<1>4. o.uuid \in Nat
  BY <1>1 DEF Query
<1> HIDE DEF o
<1>5. [order |-> o, expiration |-> now + Timeout, asking |-> TRUE, bid |-> TRUE,
               placed |-> o.uuid] \in Query
  BY <1>1, <1>2, <1>4, ConstantTypes DEF Query
<1>6. query' \in [Alices -> Query]
  BY <1>3, <1>5 DEF TypeOK
<1>7. [NoQuote EXCEPT !.order = o] \in Quote
  BY <1>2, EmptyTypes DEF Quote
<1>8. net' \subseteq Message
  <2>1. [method |-> "request", quote |-> [NoQuote EXCEPT !.order = o]] \in Message
    BY <1>7 DEF Message, Kind
  <2> QED BY <1>3, <2>1 DEF TypeOK
<1>9. inuse' \in [Coin -> Hold]
  BY <1>1, <1>3, ConstantTypes DEF TypeOK, Hold
<1> QED BY <1>3, <1>6, <1>8, <1>9 DEF TypeOK, loop

LEMMA ExpireType ==
  ASSUME TypeOK, NEW a \in Alices, Expire(a) \/ Status(a)
  PROVE  TypeOK'
<1>1. query[a] \in Query
  BY DEF TypeOK
<1>2. [query[a] EXCEPT !.expiration = 0] \in Query
  BY <1>1 DEF Query
<1>3. query' \in [Alices -> Query]
  BY <1>1, <1>2, ClearedType DEF Expire, Status, TypeOK
<1> QED BY <1>3 DEF Expire, Status, TypeOK, loop

LEMMA MarkTradesType ==
  ASSUME TypeOK, NEW a \in Alices, NEW u
  PROVE  MarkTrades(a, u) \in [Aliceid -> Trade]
<1>1. trades[a] \in [Aliceid -> Trade]
  BY ConstantTypes DEF TypeOK
<1>2. \A t \in Trade : [t EXCEPT !.cancelled = TRUE] \in Trade
  BY DEF Trade
<1> QED BY <1>1, <1>2 DEF MarkTrades

(* What waits in the queue keeps its place, its method and its quote.      *)
LEMMA MarkQueueType ==
  ASSUME TypeOK, NEW a \in Alices, NEW u
  PROVE  /\ MarkQueue(a, u) \in Seq(Command)
         /\ DOMAIN MarkQueue(a, u) = DOMAIN queue[a]
         /\ \A i \in DOMAIN queue[a] :
              /\ MarkQueue(a, u)[i].method = queue[a][i].method
              /\ MarkQueue(a, u)[i].quote = queue[a][i].quote
<1>1. queue[a] \in Seq(Command)
  BY ConstantTypes DEF TypeOK
<1>2. \A k \in Command : /\ [k EXCEPT !.cancelled = TRUE] \in Command
                         /\ [k EXCEPT !.cancelled = TRUE].method = k.method
                         /\ [k EXCEPT !.cancelled = TRUE].quote = k.quote
  BY DEF Command
<1>3. \A i \in DOMAIN queue[a] : queue[a][i] \in Command
  BY <1>1
<1>4. DOMAIN queue[a] = 1 .. Len(queue[a]) /\ Len(queue[a]) \in Nat
  BY <1>1
<1>5. MarkQueue(a, u) \in [1 .. Len(queue[a]) -> Command]
  BY <1>2, <1>3, <1>4 DEF MarkQueue
<1>6. MarkQueue(a, u) \in Seq(Command)
  BY <1>4, <1>5
<1> QED BY <1>2, <1>3, <1>6 DEF MarkQueue

LEMMA CancelType ==
  ASSUME TypeOK, NEW a \in Alices, NEW u \in Nat, Cancel(a, u)
  PROVE  TypeOK'
<1>1. trades' \in [Node -> [Aliceid -> Trade]]
  BY MarkTradesType, ConstantTypes DEF Cancel, TypeOK
<1>2. queue' \in [Node -> Seq(Command)]
  BY MarkQueueType, ConstantTypes DEF Cancel, TypeOK
<1>3. query' \in [Alices -> Query]
  BY ClearedType DEF Cancel, TypeOK
<1>4. cancelled' \subseteq Alices \X Nat
  BY DEF Cancel, TypeOK
<1>5. UNCHANGED <<now, net, heard, chosen, held, rqs, inuse, swaps>>
  BY DEF Cancel
<1> QED BY <1>1, <1>2, <1>3, <1>4, <1>5 DEF TypeOK

LEMMA HearType ==
  ASSUME TypeOK, NEW n \in Node, NEW m \in net, Hear(n, m)
  PROVE  TypeOK'
<1>1. m \in Message
  BY DEF TypeOK
<1>2. heard' \in [Node -> SUBSET Message] /\ rqs' \in [Node -> SUBSET Quote]
  BY <1>1 DEF Hear, TypeOK, Message
<1>3. UNCHANGED <<now, net, queue, trades, chosen, held, query, inuse, swaps, cancelled>>
  BY DEF Hear
<1> QED BY <1>2, <1>3 DEF TypeOK

LEMMA QueueType ==
  ASSUME TypeOK, NEW n \in Node, NEW m, Queue(n, m)
  PROVE  TypeOK'
<1>1. m \in Message
  BY DEF TypeOK, Queue
<1>2. [method |-> m.method, quote |-> m.quote, cancelled |-> FALSE] \in Command
  BY <1>1 DEF Message, Command
<1>3. queue' \in [Node -> Seq(Command)] /\ heard' \in [Node -> SUBSET Message]
  BY <1>2 DEF Queue, TypeOK
<1>4. UNCHANGED <<now, net, trades, chosen, held, rqs, query, inuse, swaps, cancelled>>
  BY DEF Queue
<1> QED BY <1>3, <1>4 DEF TypeOK

LEMMA ChooseType ==
  ASSUME TypeOK, NEW a \in Alices, NEW c \in CoinsOf[a], Choose(a, c)
  PROVE  TypeOK'
<1>1. query[a] \in Query
  BY DEF TypeOK
<1>2. [query[a] EXCEPT !.asking = TRUE] \in Query
  BY <1>1 DEF Query
<1>3. query' \in [Alices -> Query]
  BY <1>2 DEF Choose, TypeOK
<1>4. chosen' \in [Alices -> Aliceid \cup {None}]
  BY ConstantTypes DEF Choose, TypeOK
<1>5. UNCHANGED <<now, net, heard, queue, trades, held, rqs, inuse, swaps, cancelled>>
  BY DEF Choose
<1> QED BY <1>3, <1>4, <1>5 DEF TypeOK

(* The entry that a connect is about.                                      *)
LEMMA ChosenType ==
  ASSUME TypeOK, NEW a \in Alices, chosen[a] # None
  PROVE  /\ a \in Node /\ chosen[a] \in Aliceid
         /\ trades[a][chosen[a]] \in Trade
         /\ Committed(trades[a][chosen[a]]) \in Trade
         /\ trades[a][chosen[a]].best \in Quote
<1>1. a \in Node /\ chosen[a] \in Aliceid
  BY ConstantTypes DEF TypeOK
<1>2. trades[a][chosen[a]] \in Trade
  BY <1>1 DEF TypeOK
<1> QED BY <1>1, <1>2 DEF Committed, Trade

LEMMA SettleType ==
  ASSUME TypeOK, NEW a \in Alices, SendConnect(a) \/ Refuse(a)
  PROVE  TypeOK'
<1>1. Settle(a)
  BY DEF SendConnect, Refuse
<1>2. /\ chosen[a] # None /\ chosen' = [chosen EXCEPT ![a] = None]
      /\ trades' = [trades EXCEPT ![a][chosen[a]] = Committed(@)]
      /\ UNCHANGED <<now, heard, queue, held, rqs, inuse, swaps, cancelled>>
  BY <1>1 DEF Settle
<1>3. trades' \in [Node -> [Aliceid -> Trade]]
  BY <1>2, ChosenType DEF TypeOK
<1>4. chosen' \in [Alices -> Aliceid \cup {None}]
  BY <1>2 DEF TypeOK
<1>5. net' \subseteq Message /\ query' \in [Alices -> Query]
  <2>1. CASE Refuse(a)
    BY <2>1 DEF Refuse, TypeOK
  <2>2. CASE SendConnect(a)
    <3>1. [method |-> "connect", quote |-> trades[a][chosen[a]].best] \in Message
      BY <1>2, ChosenType DEF Message, Kind
    <3> QED BY <2>2, <3>1, ClearedType DEF SendConnect, TypeOK
  <2> QED BY <2>1, <2>2
<1> QED BY <1>2, <1>3, <1>4, <1>5 DEF TypeOK

LEMMA PurgeType ==
  ASSUME TypeOK, NEW n \in Node, NEW c \in Aliceid, Purge(n, c)
  PROVE  TypeOK'
<1>1. trades' \in [Node -> [Aliceid -> Trade]]
  BY EmptyTypes DEF Purge, TypeOK
<1> QED BY <1>1 DEF Purge, TypeOK

(* What every command does to the queue and to the table.                  *)
LEMMA FirstType ==
  ASSUME TypeOK, NEW n \in Node, queue[n] # <<>>
  PROVE  /\ First(n) \in Command
         /\ Tail(queue[n]) \in Seq(Command)
         /\ First(n).quote \in Quote
         /\ First(n).quote.order \in Order
<1>1. queue[n] \in Seq(Command)
  BY DEF TypeOK
<1>2. First(n) \in Command /\ Tail(queue[n]) \in Seq(Command)
  BY <1>1 DEF First
<1>3. First(n).quote \in Quote
  BY <1>2 DEF Command
<1> QED BY <1>2, <1>3 DEF Quote

LEMMA EnteredType ==
  ASSUME TypeOK, NEW n \in Node, queue[n] # <<>>, First(n).quote.order.coin \in Aliceid
  PROVE  Entered(n) \in Trade
<1>1. Entry(n) \in Trade
  BY DEF Entry, TypeOK
<1>2. First(n).quote.order.uuid \in Nat /\ now \in Nat
  BY FirstType DEF Order, TypeOK
<1> QED BY <1>1, <1>2, EmptyTypes DEF Entered, Trade

LEMMA EnterType ==
  ASSUME TypeOK, NEW n \in Node, NEW t, Enter(n, t),
         First(n).quote.order.coin \in Aliceid => t \in Trade
  PROVE  trades' \in [Node -> [Aliceid -> Trade]]
BY DEF Enter, TypeOK

LEMMA TakeType ==
  ASSUME TypeOK, NEW n \in Node, NEW k, Take(n, k)
  PROVE  /\ queue[n] # <<>>
         /\ queue' \in [Node -> Seq(Command)]
         /\ UNCHANGED <<now, heard, chosen, held, rqs, cancelled>>
<1>1. queue[n] # <<>> /\ queue' = [queue EXCEPT ![n] = Tail(@)]
      /\ UNCHANGED <<now, heard, chosen, held, rqs, cancelled>>
  BY DEF Take
<1>2. Tail(queue[n]) \in Seq(Command)
  BY <1>1, FirstType
<1> QED BY <1>1, <1>2 DEF TypeOK

LEMMA DropType ==
  ASSUME TypeOK, NEW n \in Node, Drop(n)
  PROVE  TypeOK'
<1>1. /\ queue[n] # <<>> /\ queue' = [queue EXCEPT ![n] = Tail(@)]
      /\ Enter(n, NoTrade) /\ held' = [held EXCEPT ![n] = TRUE]
      /\ UNCHANGED <<now, net, heard, chosen, rqs, query, inuse, swaps, cancelled>>
  BY DEF Drop
<1>2. queue' \in [Node -> Seq(Command)]
  BY <1>1, FirstType DEF TypeOK
<1>3. trades' \in [Node -> [Aliceid -> Trade]]
  BY <1>1, EnterType, EmptyTypes
<1> QED BY <1>1, <1>2, <1>3 DEF TypeOK

LEMMA ReservationType ==
  ASSUME NEW o \in Order
  PROVE  Reservation(o) \in Hold
<1>1. o.timestamp \in Nat /\ o.alice \in Node \cup {None}
  BY ConstantTypes DEF Order
<1>2. o.timestamp + ReserveTime \in Nat
  BY <1>1, ConstantTypes
<1> QED BY <1>1, <1>2 DEF Reservation, Hold

LEMMA RequestType ==
  ASSUME TypeOK, NEW b \in Bobs, Request(b)
  PROVE  TypeOK'
<1> DEFINE o == First(b).quote.order
<1>1. b \in Node
  BY ConstantTypes
<1>2. Take(b, "request") /\ Enter(b, Entered(b)) /\ UNCHANGED <<query, swaps>>
  BY DEF Request
<1>3. queue[b] # <<>> /\ queue' \in [Node -> Seq(Command)]
      /\ UNCHANGED <<now, heard, chosen, held, rqs, cancelled>>
  BY <1>1, <1>2, TakeType
<1>4. o \in Order
  BY <1>1, <1>3, FirstType
<1>5. trades' \in [Node -> [Aliceid -> Trade]]
  BY <1>1, <1>2, <1>3, EnterType, EnteredType
<1>6. Reservation(o) \in Hold
  BY <1>4, ReservationType
<1>7. inuse' \in [Coin -> Hold] /\ net' \subseteq Message
  <2>1. CASE UNCHANGED <<inuse, net>>
    BY <2>1 DEF TypeOK
  <2>2. CASE ~UNCHANGED <<inuse, net>>
    <3> HIDE DEF o
    <3>1. PICK c \in CoinsOf[b] :
            /\ inuse' = [inuse EXCEPT ![c] = Reservation(o)]
            /\ net' = net \cup {[method |-> "reserved", quote |->
                 [order |-> o, bob |-> b, coin |-> c, quotetime |-> now]]}
      BY <2>2 DEF Request, o
    <3>2. [order |-> o, bob |-> b, coin |-> c, quotetime |-> now] \in Quote
      BY <1>1, <1>4, ConstantTypes DEF Quote, TypeOK
    <3>3. [method |-> "reserved", quote |->
                 [order |-> o, bob |-> b, coin |-> c, quotetime |-> now]] \in Message
      BY <3>2 DEF Message, Kind
    <3> QED BY <1>6, <3>1, <3>3 DEF TypeOK
  <2> QED BY <2>1, <2>2
<1> QED BY <1>2, <1>3, <1>5, <1>7 DEF TypeOK

LEMMA ReservedType ==
  ASSUME TypeOK, NEW a \in Alices, Reserved(a)
  PROVE  TypeOK'
<1> DEFINE t == Entered(a)
           q == First(a).quote
<1>1. a \in Node
  BY ConstantTypes
<1>2. Take(a, "reserved") /\ UNCHANGED <<net, query, inuse, swaps>>
  BY DEF Reserved
<1>3. queue[a] # <<>> /\ queue' \in [Node -> Seq(Command)]
      /\ UNCHANGED <<now, heard, chosen, held, rqs, cancelled>>
  BY <1>1, <1>2, TakeType
<1>4. q \in Quote
  BY <1>1, <1>3, FirstType
<1>5. PICK e \in {t, [t EXCEPT !.best = q]} : Enter(a, e)
  BY DEF Reserved
<1>6. First(a).quote.order.coin \in Aliceid => t \in Trade
  BY <1>1, <1>3, EnteredType
<1> HIDE DEF t, q
<1>7. First(a).quote.order.coin \in Aliceid => e \in Trade
  BY <1>4, <1>6 DEF Trade
<1>8. trades' \in [Node -> [Aliceid -> Trade]]
  BY <1>1, <1>5, <1>7, EnterType
<1> QED BY <1>2, <1>3, <1>8 DEF TypeOK

LEMMA StartsType ==
  ASSUME TypeOK, NEW n \in Node, NEW q \in Quote, Starts(n, q)
  PROVE  swaps' \in [Node -> Seq([quote : Quote, running : BOOLEAN])]
<1>1. [quote |-> q, running |-> TRUE] \in [quote : Quote, running : BOOLEAN]
  OBVIOUS
<1>2. swaps[n] \in Seq([quote : Quote, running : BOOLEAN])
  BY DEF TypeOK
<1>3. Append(swaps[n], [quote |-> q, running |-> TRUE])
        \in Seq([quote : Quote, running : BOOLEAN])
  BY <1>1, <1>2
<1> QED BY <1>3 DEF Starts, TypeOK

(* The entry of a connect and of a connected.                              *)
LEMMA DoneType ==
  ASSUME TypeOK, NEW n \in Node, queue[n] # <<>>,
         Enter(n, [Entered(n) EXCEPT !.negotiationdone = TRUE])
  PROVE  trades' \in [Node -> [Aliceid -> Trade]]
<1>1. First(n).quote.order.coin \in Aliceid => Entered(n) \in Trade
  BY EnteredType
<1>2. First(n).quote.order.coin \in Aliceid
        => [Entered(n) EXCEPT !.negotiationdone = TRUE] \in Trade
  BY <1>1 DEF Trade
<1> QED BY <1>2, EnterType

LEMMA ConnectType ==
  ASSUME TypeOK, NEW b \in Bobs, Connect(b)
  PROVE  TypeOK'
<1> DEFINE q == [First(b).quote EXCEPT !.quotetime = now]
<1>1. b \in Node
  BY ConstantTypes
<1>2. /\ Take(b, "connect") /\ UNCHANGED query
      /\ Enter(b, [Entered(b) EXCEPT !.negotiationdone = TRUE])
  BY DEF Connect
<1>3. queue[b] # <<>> /\ queue' \in [Node -> Seq(Command)]
      /\ UNCHANGED <<now, heard, chosen, held, rqs, cancelled>>
  BY <1>1, <1>2, TakeType
<1>4. q \in Quote
  BY <1>1, <1>3, FirstType DEF Quote, TypeOK
<1>5. trades' \in [Node -> [Aliceid -> Trade]]
  BY <1>1, <1>2, <1>3, DoneType
<1>6. /\ swaps' = swaps \/ Starts(b, q)
      /\ net' = net \/ net' = net \cup {Confirmation(q)}
      /\ inuse' = inuse \/ inuse' = [inuse EXCEPT ![q.coin] = Free]
  BY DEF Connect
<1> HIDE DEF q
<1>7. swaps' \in [Node -> Seq([quote : Quote, running : BOOLEAN])]
  BY <1>1, <1>4, <1>6, StartsType DEF TypeOK
<1>8. net' \subseteq Message
  <2>1. Confirmation(q) \in Message
    BY <1>4 DEF Confirmation, Message, Kind
  <2> QED BY <1>6, <2>1 DEF TypeOK
<1>9. inuse' \in [Coin -> Hold]
  BY <1>6, EmptyTypes DEF TypeOK
<1> QED BY <1>2, <1>3, <1>5, <1>7, <1>8, <1>9 DEF TypeOK

LEMMA FreedCoin ==
  ASSUME NEW a \in Alices, Connected(a)
  PROVE  inuse' = inuse \/ inuse' = [inuse EXCEPT ![First(a).quote.order.coin] = Free]
<1>1. CASE UNCHANGED <<query, inuse, swaps>>
  BY <1>1
<1>2. CASE query' = [query EXCEPT ![a] = [Cleared(@) EXCEPT !.bid = FALSE]]
  BY <1>2 DEF Connected
<1> QED BY <1>1, <1>2 DEF Connected

LEMMA ConnectedType ==
  ASSUME TypeOK, NEW a \in Alices, Connected(a)
  PROVE  TypeOK'
<1>1. a \in Node
  BY ConstantTypes
<1>2. /\ Take(a, "connected") /\ net' = net
      /\ Enter(a, [Entered(a) EXCEPT !.negotiationdone = TRUE])
  BY DEF Connected
<1>3. queue[a] # <<>> /\ queue' \in [Node -> Seq(Command)]
      /\ UNCHANGED <<now, heard, chosen, held, rqs, cancelled>>
  BY <1>1, <1>2, TakeType
<1>4. First(a).quote \in Quote
  BY <1>1, <1>3, FirstType
<1>5. trades' \in [Node -> [Aliceid -> Trade]]
  BY <1>1, <1>2, <1>3, DoneType
<1>6. /\ swaps' = swaps \/ Starts(a, First(a).quote)
      /\ query' = query \/ query' = [query EXCEPT ![a] = [Cleared(@) EXCEPT !.bid = FALSE]]
  BY DEF Connected
<1>7. swaps' \in [Node -> Seq([quote : Quote, running : BOOLEAN])]
  BY <1>1, <1>4, <1>6, StartsType DEF TypeOK
<1>8. query' \in [Alices -> Query]
  <2>1. query[a] \in Query
    BY DEF TypeOK
  <2>2. [Cleared(query[a]) EXCEPT !.bid = FALSE] \in Query
    BY <2>1, ClearedType
  <2> QED BY <1>6, <2>2 DEF TypeOK
<1>9. inuse' \in [Coin -> Hold]
  <2>1. inuse' = inuse \/ inuse' = [inuse EXCEPT ![First(a).quote.order.coin] = Free]
    BY FreedCoin
  <2>2. PICK c : inuse' = inuse \/ inuse' = [inuse EXCEPT ![c] = Free]
    BY <2>1
  <2> QED BY <2>2, EmptyTypes DEF TypeOK
<1> QED BY <1>2, <1>3, <1>5, <1>7, <1>8, <1>9 DEF TypeOK

LEMMA RunningType ==
  ASSUME TypeOK, NEW n \in Node, NEW i \in Running(n)
  PROVE  /\ i \in DOMAIN swaps[n]
         /\ swaps[n][i] \in [quote : Quote, running : BOOLEAN]
         /\ Other(n, swaps[n][i].quote) \in Node \cup {None}
<1> DEFINE S == [quote : Quote, running : BOOLEAN]
<1>1. swaps[n] \in Seq(S) /\ i \in DOMAIN swaps[n]
  BY DEF Running, TypeOK
<1>2. swaps[n][i] \in S
  <2> HIDE DEF S
  <2> QED BY <1>1
<1>3. swaps[n][i].quote \in Quote
  BY <1>2
<1> QED BY <1>1, <1>2, <1>3, ConstantTypes DEF Other, Quote, Order

LEMMA RenewType ==
  ASSUME TypeOK, NEW n \in Node, NEW i, Renew(n, i)
  PROVE  TypeOK'
<1>1. i \in Running(n)
  BY DEF Renew
<1>2. [until |-> now + RenewTime, otherpub |-> Other(n, swaps[n][i].quote)] \in Hold
  <2>1. Other(n, swaps[n][i].quote) \in Node \cup {None}
    BY <1>1, RunningType
  <2>2. now + RenewTime \in Nat
    BY ConstantTypes DEF TypeOK
  <2> QED BY <2>1, <2>2 DEF Hold
<1>3. inuse' \in [Coin -> Hold]
  BY <1>2 DEF Renew, TypeOK
<1> QED BY <1>3 DEF Renew, TypeOK, loop

LEMMA EndType ==
  ASSUME TypeOK, NEW n \in Node, NEW i, End(n, i)
  PROVE  TypeOK'
<1>1. i \in Running(n)
  BY DEF End
<1>2. /\ i \in DOMAIN swaps[n]
      /\ [swaps[n][i] EXCEPT !.running = FALSE] \in [quote : Quote, running : BOOLEAN]
  BY <1>1, RunningType
<1>3. swaps[n] \in Seq([quote : Quote, running : BOOLEAN])
  BY DEF TypeOK
<1>4. [swaps[n] EXCEPT ![i].running = FALSE] \in Seq([quote : Quote, running : BOOLEAN])
  BY <1>2, <1>3
<1>5. swaps' \in [Node -> Seq([quote : Quote, running : BOOLEAN])]
  BY <1>4 DEF End, TypeOK
<1>6. inuse' \in [Coin -> Hold]
  BY EmptyTypes DEF End, TypeOK
<1> QED BY <1>5, <1>6 DEF End, TypeOK, loop

(* The actions, and what a step of the specification is.                   *)
LEMMA NextSplit ==
  ASSUME Next
  PROVE  \/ \E a \in Alices :
              \/ \E c \in CoinsOf[a] : Buy(a, c) \/ Choose(a, c)
              \/ SendConnect(a) \/ Refuse(a)
              \/ Expire(a) \/ Status(a)
              \/ \E u \in 1 .. query[a].placed : Cancel(a, u)
              \/ Reserved(a) \/ Connected(a)
         \/ \E b \in Bobs : Request(b) \/ Connect(b)
         \/ \E n \in Node :
              \/ \E m \in net : Hear(n, m) \/ Queue(n, m)
              \/ Drop(n)
              \/ \E c \in Aliceid : Purge(n, c)
              \/ \E i \in DOMAIN swaps[n] : Renew(n, i) \/ End(n, i)
         \/ Tick
BY DEF Next

LEMMA StepType == TypeOK /\ [Next]_vars => TypeOK'
<1> SUFFICES ASSUME TypeOK, [Next]_vars PROVE TypeOK'
  OBVIOUS
<1>1. CASE UNCHANGED vars
  BY <1>1 DEF TypeOK, vars, loop
<1>2. CASE Next
  <2>1. ASSUME NEW a \in Alices, NEW c \in CoinsOf[a], Buy(a, c) \/ Choose(a, c)
        PROVE  TypeOK'
    BY <2>1, BuyType, ChooseType
  <2>2. ASSUME NEW a \in Alices, NEW u \in 1 .. query[a].placed, Cancel(a, u)
        PROVE  TypeOK'
    <3>1. query[a].placed \in Nat
      BY DEF TypeOK, Query
    <3> QED BY <2>2, <3>1, CancelType
  <2>3. ASSUME NEW a \in Alices,
               \/ SendConnect(a) \/ Refuse(a) \/ Expire(a) \/ Status(a)
               \/ Reserved(a) \/ Connected(a)
        PROVE  TypeOK'
    BY <2>3, SettleType, ExpireType, ReservedType, ConnectedType
  <2>4. ASSUME NEW b \in Bobs, Request(b) \/ Connect(b)
        PROVE  TypeOK'
    BY <2>4, RequestType, ConnectType
  <2>5. ASSUME NEW n \in Node, NEW m \in net, Hear(n, m) \/ Queue(n, m)
        PROVE  TypeOK'
    BY <2>5, HearType, QueueType
  <2>6. ASSUME NEW n \in Node, NEW c \in Aliceid, Purge(n, c)
        PROVE  TypeOK'
    BY <2>6, PurgeType
  <2>7. ASSUME NEW n \in Node, NEW i, Drop(n) \/ Renew(n, i) \/ End(n, i)
        PROVE  TypeOK'
    BY <2>7, DropType, RenewType, EndType
  <2>8. CASE Tick
    <3>1. now' = now + 1 /\ UNCHANGED <<net, loop, rqs, query, inuse, swaps, cancelled>>
      BY <2>8 DEF Tick
    <3>2. now' \in Nat
      BY <3>1 DEF TypeOK
    <3> QED BY <3>1, <3>2 DEF TypeOK, loop
  <2>9. ASSUME NEW a \in Alices,
               \/ \E c \in CoinsOf[a] : Buy(a, c) \/ Choose(a, c)
               \/ SendConnect(a) \/ Refuse(a)
               \/ Expire(a) \/ Status(a)
               \/ \E u \in 1 .. query[a].placed : Cancel(a, u)
               \/ Reserved(a) \/ Connected(a)
        PROVE  TypeOK'
    BY <2>1, <2>2, <2>3, <2>9
  <2>10. ASSUME NEW n \in Node,
                \/ \E m \in net : Hear(n, m) \/ Queue(n, m)
                \/ Drop(n)
                \/ \E c \in Aliceid : Purge(n, c)
                \/ \E i \in DOMAIN swaps[n] : Renew(n, i) \/ End(n, i)
         PROVE  TypeOK'
    BY <2>5, <2>6, <2>7, <2>10
  <2> QED BY <1>2, <2>4, <2>8, <2>9, <2>10, NextSplit
<1> QED BY <1>1, <1>2

(* Every variable has its type, whatever the nodes, the orders and the     *)
(* times are.                                                              *)
THEOREM TypeCorrect == Spec => []TypeOK
BY InitType, StepType, PTL DEF Spec
-----------------------------------------------------------------------------
(* What the nodes and the messages have to do with each other.  Started    *)
(* says that the Bob of a quote has started a swap on exactly its terms.   *)
Started(q) == \E j \in DOMAIN swaps[q.bob] : swaps[q.bob][j].quote = q

(* What waits was sent, and to this node, and a connect or a connected was *)
(* counted when it came in.                                                *)
Seen(n, m) == m \in net /\ Addressed(n, m) /\ (Once(m) => m.quote \in rqs[n])

HeardAreSeen == \A n \in Node : \A m \in heard[n] : Seen(n, m)

QueuedAreSeen ==
  \A n \in Node : \A i \in DOMAIN queue[n] :
    Seen(n, [method |-> queue[n][i].method, quote |-> queue[n][i].quote])

SeenAreSent ==
  \A n \in Node : \A q \in rqs[n] :
    \E m \in net : m.quote = q /\ Once(m) /\ Addressed(n, m)

FilledAreSeen ==
  \A n \in Node : \A j \in DOMAIN swaps[n] :
    \E q \in rqs[n] : q.order = swaps[n][j].quote.order

(* Bob says connected only of what he has started.                         *)
Confirmed ==
  \A m \in net : m.method = "connected" => m.quote.bob \in Bobs /\ Started(m.quote)

AgreedWithBob ==
  \A a \in Alices : \A i \in DOMAIN swaps[a] :
    swaps[a][i].quote.bob \in Bobs /\ Started(swaps[a][i].quote)

Traced ==
  /\ HeardAreSeen /\ QueuedAreSeen /\ SeenAreSent /\ FilledAreSeen
  /\ Confirmed /\ AgreedWithBob

(* The kinds of steps, as far as net, heard, queue, rqs and swaps go: a    *)
(* message is heard or queued, or one of these three.                      *)
NetGrows == net \subseteq net' /\ \A m \in net' \ net : m.method # "connected"

Quiet ==
  /\ NetGrows /\ rqs' = rqs /\ heard' = heard
  /\ \A n \in Node :
       /\ DOMAIN queue'[n] = DOMAIN queue[n]
       /\ \A i \in DOMAIN queue[n] : /\ queue'[n][i].method = queue[n][i].method
                                    /\ queue'[n][i].quote = queue[n][i].quote
       /\ DOMAIN swaps'[n] = DOMAIN swaps[n]
       /\ \A j \in DOMAIN swaps[n] : swaps'[n][j].quote = swaps[n][j].quote

Takes(n) ==
  /\ queue[n] # <<>> /\ queue' = [queue EXCEPT ![n] = Tail(@)]
  /\ rqs' = rqs /\ heard' = heard /\ swaps' = swaps /\ NetGrows

Begins(n, q) ==
  /\ queue[n] # <<>> /\ queue' = [queue EXCEPT ![n] = Tail(@)]
  /\ rqs' = rqs /\ heard' = heard /\ Starts(n, q)
  /\ q.order = First(n).quote.order /\ q.bob = First(n).quote.bob
  /\ \/ n \in Bobs /\ First(n).method = "connect" /\ net' = net \cup {Confirmation(q)}
     \/ /\ n \in Alices /\ First(n).method = "connected"
        /\ q = First(n).quote /\ net' = net

LEMMA QuietSteps ==
  ASSUME TypeOK, NEW a \in Alices, NEW c, NEW i,
         \/ Buy(a, c) \/ Choose(a, c) \/ SendConnect(a) \/ Refuse(a)
         \/ Cancel(a, i) \/ Expire(a) \/ Status(a)
  PROVE  Quiet
<1>1. CASE Buy(a, c) \/ Choose(a, c) \/ SendConnect(a) \/ Refuse(a) \/ Expire(a) \/ Status(a)
  <2>1. UNCHANGED <<heard, queue, rqs, swaps>>
    BY <1>1 DEF Buy, Choose, SendConnect, Refuse, Settle, Expire, Status, loop
  <2>2. NetGrows
    BY <1>1 DEF Buy, Choose, SendConnect, Refuse, Expire, Status, NetGrows
  <2> QED BY <2>1, <2>2 DEF Quiet
<1>2. CASE Cancel(a, i)
  <2>1. queue' = [queue EXCEPT ![a] = MarkQueue(a, i)] /\ UNCHANGED <<net, heard, rqs, swaps>>
    BY <1>2 DEF Cancel
  <2> QED BY <2>1, MarkQueueType DEF Quiet, NetGrows, TypeOK
<1> QED BY <1>1, <1>2

LEMMA EndQuiet ==
  ASSUME TypeOK, NEW n \in Node, NEW i, End(n, i)
  PROVE  Quiet
<1>1. /\ i \in DOMAIN swaps[n] /\ UNCHANGED <<net, heard, queue, rqs>>
      /\ swaps' = [swaps EXCEPT ![n][i].running = FALSE]
  BY DEF End, Running, loop
<1>2. swaps[n][i] \in [quote : Quote, running : BOOLEAN]
  BY RunningType DEF End
<1>3. [swaps[n][i] EXCEPT !.running = FALSE].quote = swaps[n][i].quote
  BY <1>2
<1>4. \A m \in Node :
        /\ DOMAIN swaps'[m] = DOMAIN swaps[m]
        /\ \A j \in DOMAIN swaps[m] : swaps'[m][j].quote = swaps[m][j].quote
  BY <1>1, <1>3 DEF TypeOK
<1> QED BY <1>1, <1>4 DEF Quiet, NetGrows

LEMMA TakeSteps ==
  ASSUME TypeOK, NEW n \in Node,
         Drop(n) \/ Reserved(n) \/ Request(n)
  PROVE  Takes(n)
BY DEF Drop, Reserved, Request, Take, Takes, NetGrows

LEMMA ConnectSteps ==
  ASSUME TypeOK, NEW b \in Bobs, Connect(b)
  PROVE  Takes(b) \/ \E q \in Quote : Begins(b, q)
<1> DEFINE q == [First(b).quote EXCEPT !.quotetime = now]
<1>1. /\ queue[b] # <<>> /\ queue' = [queue EXCEPT ![b] = Tail(@)]
      /\ rqs' = rqs /\ heard' = heard /\ First(b).method = "connect"
  BY DEF Connect, Take
<1>2. First(b).quote \in Quote
  BY <1>1, FirstType, ConstantTypes
<1>3. q \in Quote /\ q.order = First(b).quote.order /\ q.bob = First(b).quote.bob
  BY <1>2 DEF Quote, TypeOK
<1>4. (net' = net /\ swaps' = swaps) \/ (net' = net \cup {Confirmation(q)} /\ Starts(b, q))
  BY DEF Connect
<1> HIDE DEF q
<1>5. CASE net' = net /\ swaps' = swaps
  BY <1>1, <1>5 DEF Takes, NetGrows
<1>6. CASE net' = net \cup {Confirmation(q)} /\ Starts(b, q)
  BY <1>1, <1>3, <1>6 DEF Begins
<1> QED BY <1>4, <1>5, <1>6

LEMMA ConnectedSteps ==
  ASSUME TypeOK, NEW a \in Alices, Connected(a)
  PROVE  Takes(a) \/ \E q \in Quote : Begins(a, q)
<1>1. /\ queue[a] # <<>> /\ queue' = [queue EXCEPT ![a] = Tail(@)]
      /\ rqs' = rqs /\ heard' = heard /\ net' = net /\ First(a).method = "connected"
      /\ swaps' = swaps \/ Starts(a, First(a).quote)
  BY DEF Connected, Take
<1>2. First(a).quote \in Quote
  BY <1>1, FirstType, ConstantTypes
<1>3. CASE swaps' = swaps
  BY <1>1, <1>3 DEF Takes, NetGrows
<1>4. CASE Starts(a, First(a).quote)
  BY <1>1, <1>2, <1>4 DEF Begins
<1> QED BY <1>1, <1>3, <1>4

LEMMA StepKinds ==
  ASSUME TypeOK, [Next]_vars
  PROVE  \/ Quiet
         \/ \E n \in Node : \/ \E m \in net : Hear(n, m) \/ Queue(n, m)
                            \/ Takes(n)
                            \/ \E q \in Quote : Begins(n, q)
<1>1. CASE UNCHANGED vars
  BY <1>1 DEF Quiet, NetGrows, vars, loop
<1>2. CASE Tick
  BY <1>2 DEF Tick, Quiet, NetGrows, loop
<1> DEFINE Kinds == \/ Quiet
                     \/ \E n \in Node : \/ \E m \in net : Hear(n, m) \/ Queue(n, m)
                                        \/ Takes(n)
                                        \/ \E q \in Quote : Begins(n, q)
<1>3. ASSUME NEW a \in Alices,
             \/ \E c \in CoinsOf[a] : Buy(a, c) \/ Choose(a, c)
             \/ SendConnect(a) \/ Refuse(a)
             \/ Expire(a) \/ Status(a)
             \/ \E u \in 1 .. query[a].placed : Cancel(a, u)
             \/ Reserved(a) \/ Connected(a)
      PROVE  Kinds
  <2>1. ASSUME NEW c, NEW u,
               \/ Buy(a, c) \/ Choose(a, c) \/ SendConnect(a) \/ Refuse(a)
               \/ Expire(a) \/ Status(a) \/ Cancel(a, u)
        PROVE  Kinds
    BY <2>1, QuietSteps
  <2>2. ASSUME Reserved(a) PROVE Kinds
    BY <2>2, TakeSteps, ConstantTypes
  <2>3. ASSUME Connected(a) PROVE Kinds
    BY <2>3, ConnectedSteps, ConstantTypes
  <2> QED BY <1>3, <2>1, <2>2, <2>3
<1>4. ASSUME NEW b \in Bobs, Request(b) \/ Connect(b)
      PROVE  Kinds
  BY <1>4, TakeSteps, ConnectSteps, ConstantTypes
<1>5. ASSUME NEW n \in Node,
             \/ \E m \in net : Hear(n, m) \/ Queue(n, m)
             \/ Drop(n)
             \/ \E c \in Aliceid : Purge(n, c)
             \/ \E i \in DOMAIN swaps[n] : Renew(n, i) \/ End(n, i)
      PROVE  Kinds
  <2>1. ASSUME NEW c, NEW i, Purge(n, c) \/ Renew(n, i)
        PROVE  Quiet
    <3>1. UNCHANGED <<heard, queue, rqs, swaps, net>>
      BY <2>1 DEF Purge, Renew, loop
    <3> QED BY <3>1 DEF Quiet, NetGrows
  <2>2. ASSUME Drop(n) PROVE Kinds
    BY <2>2, TakeSteps
  <2> QED BY <1>5, <2>1, <2>2, EndQuiet
<1> HIDE DEF Kinds
<1>6. Kinds
  BY <1>1, <1>2, <1>3, <1>4, <1>5, NextSplit DEF Kinds
<1> QED BY <1>6 DEF Kinds

-----------------------------------------------------------------------------
(* Bob has started what Alice swaps.                                       *)

(* No step takes a started swap away.                                      *)
SwapsGrow ==
  \A n \in Node : \A j \in DOMAIN swaps[n] :
    j \in DOMAIN swaps'[n] /\ swaps'[n][j].quote = swaps[n][j].quote

LEMMA StartedStays ==
  ASSUME SwapsGrow, NEW q, q.bob \in Bobs, Started(q)
  PROVE  Started(q)'
BY ConstantTypes DEF SwapsGrow, Started

LEMMA StartsGrow ==
  ASSUME TypeOK, NEW n \in Node, NEW q \in Quote, Starts(n, q)
  PROVE  /\ SwapsGrow
         /\ \A m \in Node \ {n} : swaps'[m] = swaps[m]
         /\ DOMAIN swaps'[n] = DOMAIN swaps[n] \cup {Len(swaps[n]) + 1}
         /\ Len(swaps[n]) + 1 \notin DOMAIN swaps[n]
         /\ swaps'[n][Len(swaps[n]) + 1].quote = q
<1> DEFINE S == [quote : Quote, running : BOOLEAN]
           e == [quote |-> q, running |-> TRUE]
<1>1. swaps \in [Node -> Seq(S)] /\ e \in S /\ e.quote = q
  BY DEF TypeOK
<1>2. swaps' = [swaps EXCEPT ![n] = Append(@, e)]
  BY DEF Starts
<1> HIDE DEF S, e
<1>3. swaps[n] \in Seq(S) /\ swaps'[n] = Append(swaps[n], e)
  BY <1>1, <1>2
<1>4. /\ DOMAIN swaps'[n] = DOMAIN swaps[n] \cup {Len(swaps[n]) + 1}
      /\ Len(swaps[n]) + 1 \notin DOMAIN swaps[n]
      /\ swaps'[n][Len(swaps[n]) + 1] = e
      /\ \A j \in DOMAIN swaps[n] : swaps'[n][j] = swaps[n][j]
  BY <1>1, <1>3
<1>5. \A m \in Node \ {n} : swaps'[m] = swaps[m]
  BY <1>1, <1>2
<1> QED BY <1>1, <1>4, <1>5 DEF SwapsGrow

(* What waits behind the first command.                                    *)
LEMMA TailIndex ==
  ASSUME TypeOK, NEW n \in Node, queue[n] # <<>>, queue' = [queue EXCEPT ![n] = Tail(@)]
  PROVE  /\ 1 \in DOMAIN queue[n] /\ First(n) = queue[n][1]
         /\ \A m \in Node \ {n} : queue'[m] = queue[m]
         /\ \A i \in DOMAIN queue'[n] :
              /\ i + 1 \in DOMAIN queue[n] /\ i + 1 # 1 /\ i \in Nat
              /\ queue'[n][i] = queue[n][i + 1]
<1>1. queue[n] \in Seq(Command) /\ queue'[n] = Tail(queue[n])
  BY DEF TypeOK
<1>2. 1 \in DOMAIN queue[n] /\ First(n) = queue[n][1]
  BY <1>1 DEF First
<1>3. \A i \in DOMAIN queue'[n] :
        /\ i + 1 \in DOMAIN queue[n] /\ i + 1 # 1 /\ i \in Nat
        /\ queue'[n][i] = queue[n][i + 1]
  <2> DEFINE s == queue[n]
  <2>1. s \in Seq(Command) /\ s # <<>> /\ queue'[n] = Tail(s)
    BY <1>1
  <2> HIDE DEF s
  <2>2. /\ Len(s) \in Nat /\ DOMAIN s = 1 .. Len(s)
        /\ Tail(s) \in Seq(Command) /\ Len(Tail(s)) = Len(s) - 1
    BY <2>1
  <2>3. DOMAIN Tail(s) = 1 .. Len(s) - 1
    BY <2>2
  <2>4. \A i \in 1 .. Len(s) - 1 : Tail(s)[i] = s[i + 1]
    BY <2>1, <2>2
  <2>5. \A i \in DOMAIN queue'[n] :
          /\ i + 1 \in DOMAIN s /\ i + 1 # 1 /\ i \in Nat
          /\ queue'[n][i] = s[i + 1]
    BY <2>1, <2>2, <2>3, <2>4
  <2> QED BY <2>5 DEF s
<1> QED BY <1>2, <1>3 DEF TypeOK

LEMMA QueueIndex ==
  ASSUME TypeOK, NEW n \in Node, NEW m, Queue(n, m)
  PROVE  LET last == Len(queue[n]) + 1
         IN  /\ DOMAIN queue'[n] = DOMAIN queue[n] \cup {last}
             /\ last \notin DOMAIN queue[n]
             /\ queue'[n][last] =
                  [method |-> m.method, quote |-> m.quote, cancelled |-> FALSE]
             /\ \A i \in DOMAIN queue[n] : queue'[n][i] = queue[n][i]
             /\ \A k \in Node \ {n} : queue'[k] = queue[k]
<1> DEFINE c == [method |-> m.method, quote |-> m.quote, cancelled |-> FALSE]
<1>1. m \in Message
  BY DEF Queue, TypeOK
<1>2. c \in Command
  BY <1>1 DEF Message, Command
<1>3. queue' = [queue EXCEPT ![n] = Append(@, c)]
  BY DEF Queue
<1> HIDE DEF c
<1>4. queue[n] \in Seq(Command) /\ queue'[n] = Append(queue[n], c)
  BY <1>3 DEF TypeOK
<1>5. LET last == Len(queue[n]) + 1
      IN  /\ DOMAIN queue'[n] = DOMAIN queue[n] \cup {last}
          /\ last \notin DOMAIN queue[n]
          /\ queue'[n][last] = c
          /\ \A i \in DOMAIN queue[n] : queue'[n][i] = queue[n][i]
  BY <1>2, <1>4
<1>6. \A k \in Node \ {n} : queue'[k] = queue[k]
  BY <1>3 DEF TypeOK
<1> QED BY <1>5, <1>6 DEF c

LEMMA InitTraced == Init => Traced
<1> SUFFICES ASSUME Init PROVE Traced
  OBVIOUS
<1>1. /\ net = {}
      /\ \A n \in Node : heard[n] = {} /\ queue[n] = <<>> /\ swaps[n] = <<>> /\ rqs[n] = {}
  BY DEF Init
<1>2. \A n \in Node : DOMAIN queue[n] = {} /\ DOMAIN swaps[n] = {}
  BY <1>1
<1> QED BY <1>1, <1>2, ConstantTypes DEF Traced, HeardAreSeen, QueuedAreSeen, SeenAreSent,
                                        FilledAreSeen, Confirmed, AgreedWithBob

LEMMA SeenStays ==
  ASSUME net \subseteq net', rqs' = rqs, NEW n, NEW m, Seen(n, m)
  PROVE  Seen(n, m)'
BY DEF Seen, Once, Addressed

LEMMA QuietTraced ==
  ASSUME TypeOK, Traced, Quiet
  PROVE  Traced'
<1>1. SwapsGrow
  BY DEF Quiet, SwapsGrow
<1>2. HeardAreSeen' /\ QueuedAreSeen'
  <2>1. \A n \in Node : \A m : Seen(n, m) => Seen(n, m)'
    BY SeenStays DEF Quiet, NetGrows
  <2>2. HeardAreSeen'
    BY <2>1 DEF Quiet, Traced, HeardAreSeen
  <2>3. QueuedAreSeen'
    BY <2>1 DEF Quiet, Traced, QueuedAreSeen
  <2> QED BY <2>2, <2>3
<1>3. SeenAreSent' /\ FilledAreSeen'
  BY DEF Quiet, NetGrows, Traced, SeenAreSent, FilledAreSeen, Once, Addressed
<1>4. Confirmed'
  <2> SUFFICES ASSUME NEW m \in net', m.method = "connected"
               PROVE  m.quote.bob \in Bobs /\ Started(m.quote)'
    BY DEF Confirmed
  <2>1. m \in net
    BY DEF Quiet, NetGrows
  <2> QED BY <1>1, <2>1, StartedStays DEF Traced, Confirmed
<1>5. AgreedWithBob'
  <2> SUFFICES ASSUME NEW a \in Alices, NEW i \in DOMAIN swaps'[a]
               PROVE  /\ swaps'[a][i].quote.bob \in Bobs
                      /\ Started(swaps[a][i].quote)'
    BY DEF AgreedWithBob
  <2>1. i \in DOMAIN swaps[a] /\ swaps'[a][i].quote = swaps[a][i].quote
    BY ConstantTypes DEF Quiet
  <2>2. swaps[a][i].quote.bob \in Bobs /\ Started(swaps[a][i].quote)
    BY <2>1 DEF Traced, AgreedWithBob
  <2>3. PICK j \in DOMAIN swaps[swaps[a][i].quote.bob] :
          swaps[swaps[a][i].quote.bob][j].quote = swaps[a][i].quote
    BY <2>2 DEF Started
  <2> QED BY <1>1, <2>1, <2>2, <2>3, ConstantTypes DEF SwapsGrow, Started
<1> QED BY <1>2, <1>3, <1>4, <1>5 DEF Traced

LEMMA HearTraced ==
  ASSUME TypeOK, Traced, NEW n \in Node, NEW m \in net, Hear(n, m)
  PROVE  Traced'
<1>1. /\ UNCHANGED <<net, queue, swaps>> /\ Addressed(n, m)
      /\ rqs' = IF Once(m) THEN [rqs EXCEPT ![n] = @ \cup {m.quote}] ELSE rqs
      /\ heard' = [heard EXCEPT ![n] = @ \cup {m}]
  BY DEF Hear
<1>2. \A k \in Node : rqs[k] \subseteq rqs'[k] /\ (k # n => rqs'[k] = rqs[k])
  BY <1>1 DEF TypeOK
<1>3. rqs'[n] = IF Once(m) THEN rqs[n] \cup {m.quote} ELSE rqs[n]
  BY <1>1 DEF TypeOK
<1>4. \A k \in Node : \A x : Seen(k, x) => Seen(k, x)'
  BY <1>1, <1>2 DEF Seen, Once, Addressed
<1>5. HeardAreSeen' /\ QueuedAreSeen'
  <2>1. QueuedAreSeen'
    BY <1>1, <1>4 DEF Traced, QueuedAreSeen
  <2>2. Seen(n, m)'
    BY <1>1, <1>3 DEF Seen, Once, Addressed
  <2>3. \A k \in Node : heard'[k] = IF k = n THEN heard[n] \cup {m} ELSE heard[k]
    BY <1>1 DEF TypeOK
  <2>4. HeardAreSeen'
    BY <1>4, <2>2, <2>3 DEF Traced, HeardAreSeen
  <2> QED BY <2>1, <2>4
<1>6. SeenAreSent'
  <2> SUFFICES ASSUME NEW k \in Node, NEW q \in rqs'[k]
               PROVE  \E x \in net : x.quote = q /\ Once(x) /\ Addressed(k, x)
    BY <1>1 DEF SeenAreSent, Once, Addressed
  <2>1. CASE q \in rqs[k]
    BY <2>1 DEF Traced, SeenAreSent
  <2>2. CASE q \notin rqs[k]
    BY <1>1, <1>2, <1>3, <2>2
  <2> QED BY <2>1, <2>2
<1>7. FilledAreSeen'
  BY <1>1, <1>2 DEF Traced, FilledAreSeen
<1>8. Confirmed' /\ AgreedWithBob'
  BY <1>1 DEF Traced, Confirmed, AgreedWithBob, Started
<1> QED BY <1>5, <1>6, <1>7, <1>8 DEF Traced

LEMMA QueueTraced ==
  ASSUME TypeOK, Traced, NEW n \in Node, NEW m, Queue(n, m)
  PROVE  Traced'
<1>1. /\ UNCHANGED <<net, rqs, swaps>> /\ m \in heard[n] /\ m \in Message
      /\ heard' = [heard EXCEPT ![n] = @ \ {m}]
  BY DEF Queue, TypeOK
<1>2. \A k \in Node : \A x : Seen(k, x) => Seen(k, x)'
  BY <1>1, SeenStays
<1>3. HeardAreSeen'
  <2>1. \A k \in Node : heard'[k] \subseteq heard[k]
    BY <1>1 DEF TypeOK
  <2> QED BY <1>2, <2>1 DEF Traced, HeardAreSeen
<1>4. QueuedAreSeen'
  <2> SUFFICES ASSUME NEW k \in Node, NEW i \in DOMAIN queue'[k]
               PROVE  Seen(k, [method |-> queue'[k][i].method, quote |-> queue'[k][i].quote])
    BY <1>2 DEF QueuedAreSeen
  <2>1. CASE k = n /\ i = Len(queue[n]) + 1
    <3>1. queue'[k][i] = [method |-> m.method, quote |-> m.quote, cancelled |-> FALSE]
      BY <2>1, QueueIndex
    <3>2. m = [method |-> m.method, quote |-> m.quote]
      BY <1>1 DEF Message
    <3>3. Seen(n, m)
      BY <1>1 DEF Traced, HeardAreSeen
    <3> QED BY <2>1, <3>1, <3>2, <3>3
  <2>2. CASE ~(k = n /\ i = Len(queue[n]) + 1)
    <3>1. i \in DOMAIN queue[k] /\ queue'[k][i] = queue[k][i]
      BY <2>2, QueueIndex
    <3> QED BY <3>1 DEF Traced, QueuedAreSeen
  <2> QED BY <2>1, <2>2
<1>5. SeenAreSent' /\ FilledAreSeen'
  BY <1>1 DEF Traced, SeenAreSent, FilledAreSeen, Once, Addressed
<1>6. Confirmed' /\ AgreedWithBob'
  BY <1>1 DEF Traced, Confirmed, AgreedWithBob, Started
<1> QED BY <1>3, <1>4, <1>5, <1>6 DEF Traced

(* A command is taken: what is left in the queue is as it was.             *)
LEMMA TailSeen ==
  ASSUME TypeOK, Traced, NEW n \in Node, queue[n] # <<>>, net \subseteq net',
         queue' = [queue EXCEPT ![n] = Tail(@)], rqs' = rqs, heard' = heard
  PROVE  HeardAreSeen' /\ QueuedAreSeen'
<1>1. \A k \in Node : \A m : Seen(k, m) => Seen(k, m)'
  BY SeenStays
<1>2. HeardAreSeen'
  BY <1>1 DEF Traced, HeardAreSeen
<1>3. \A k \in Node : \A i \in DOMAIN queue'[k] :
        \E j \in DOMAIN queue[k] : queue'[k][i] = queue[k][j]
  BY TailIndex
<1>4. QueuedAreSeen'
  BY <1>1, <1>3 DEF Traced, QueuedAreSeen
<1> QED BY <1>2, <1>4

LEMMA TakesTraced ==
  ASSUME TypeOK, Traced, NEW n \in Node, Takes(n)
  PROVE  Traced'
<1>1. /\ queue[n] # <<>> /\ queue' = [queue EXCEPT ![n] = Tail(@)]
      /\ rqs' = rqs /\ heard' = heard /\ swaps' = swaps /\ net \subseteq net'
      /\ \A m \in net' \ net : m.method # "connected"
  BY DEF Takes, NetGrows
<1>2. HeardAreSeen' /\ QueuedAreSeen'
  BY <1>1, TailSeen
<1>3. SeenAreSent' /\ FilledAreSeen'
  BY <1>1 DEF Traced, SeenAreSent, FilledAreSeen, Once, Addressed
<1>4. Confirmed' /\ AgreedWithBob'
  BY <1>1 DEF Traced, Confirmed, AgreedWithBob, Started
<1> QED BY <1>2, <1>3, <1>4 DEF Traced

(* The command a swap begins with.                                         *)
LEMMA BeginsFrom ==
  ASSUME TypeOK, Traced, NEW n \in Node, NEW q \in Quote, Begins(n, q)
  PROVE  /\ 1 \in DOMAIN queue[n] /\ First(n) = queue[n][1] /\ Once(First(n))
         /\ First(n).quote \in rqs[n]
         /\ n \in Bobs => q.bob = n /\ net' = net \cup {Confirmation(q)}
         /\ n \in Alices => q.bob \in Bobs /\ Started(q) /\ net' = net
<1>1. 1 \in DOMAIN queue[n] /\ First(n) = queue[n][1]
  BY TailIndex DEF Begins
<1>2. Once(First(n))
  BY DEF Begins, Once
<1>3. /\ First(n).quote \in rqs[n] /\ Addressed(n, First(n))
      /\ [method |-> First(n).method, quote |-> First(n).quote] \in net
  BY <1>1, <1>2 DEF Traced, QueuedAreSeen, Seen, Once, Addressed
<1>4. ~(n \in Bobs /\ n \in Alices)
  BY OrderAssumption
<1>5. ASSUME n \in Bobs
      PROVE  q.bob = n /\ net' = net \cup {Confirmation(q)}
  BY <1>3, <1>4, <1>5 DEF Begins, Addressed
<1>6. ASSUME n \in Alices
      PROVE  q.bob \in Bobs /\ Started(q) /\ net' = net
  <2>1. First(n).method = "connected" /\ q = First(n).quote /\ net' = net
    BY <1>4, <1>6 DEF Begins
  <2> QED BY <1>3, <2>1 DEF Traced, Confirmed
<1> QED BY <1>1, <1>2, <1>3, <1>5, <1>6

LEMMA BeginsTraced ==
  ASSUME TypeOK, Traced, NEW n \in Node, NEW q \in Quote, Begins(n, q)
  PROVE  Traced'
<1>1. /\ queue[n] # <<>> /\ queue' = [queue EXCEPT ![n] = Tail(@)]
      /\ rqs' = rqs /\ heard' = heard /\ Starts(n, q) /\ q.order = First(n).quote.order
  BY DEF Begins
<1>2. net \subseteq net'
  BY DEF Begins
<1>3. /\ SwapsGrow
      /\ \A m \in Node \ {n} : swaps'[m] = swaps[m]
      /\ DOMAIN swaps'[n] = DOMAIN swaps[n] \cup {Len(swaps[n]) + 1}
      /\ Len(swaps[n]) + 1 \notin DOMAIN swaps[n]
      /\ swaps'[n][Len(swaps[n]) + 1].quote = q
  BY <1>1, StartsGrow
<1>4. HeardAreSeen' /\ QueuedAreSeen'
  BY <1>1, <1>2, TailSeen
<1>5. SeenAreSent'
  BY <1>1, <1>2 DEF Traced, SeenAreSent, Once, Addressed
<1>6. FilledAreSeen'
  <2> SUFFICES ASSUME NEW k \in Node, NEW j \in DOMAIN swaps'[k]
               PROVE  \E x \in rqs[k] : x.order = swaps'[k][j].quote.order
    BY <1>1 DEF FilledAreSeen
  <2>1. CASE j \in DOMAIN swaps[k]
    BY <1>3, <2>1 DEF SwapsGrow, Traced, FilledAreSeen
  <2>2. CASE j \notin DOMAIN swaps[k]
    BY <1>1, <1>3, <2>2, BeginsFrom
  <2> QED BY <2>1, <2>2
<1>7. Confirmed'
  <2> SUFFICES ASSUME NEW m \in net', m.method = "connected"
               PROVE  m.quote.bob \in Bobs /\ Started(m.quote)'
    BY DEF Confirmed
  <2>1. CASE m \in net
    BY <1>3, <2>1, StartedStays DEF Traced, Confirmed
  <2>2. CASE m \notin net
    <3>1. n \in Bobs /\ m = Confirmation(q) /\ q.bob = n
      BY <2>2, BeginsFrom DEF Node
    <3>2. m.quote = q
      BY <3>1 DEF Confirmation
    <3> QED BY <1>3, <3>1, <3>2 DEF Started
  <2> QED BY <2>1, <2>2
<1>8. AgreedWithBob'
  <2> SUFFICES ASSUME NEW a \in Alices, NEW i \in DOMAIN swaps'[a]
               PROVE  /\ swaps'[a][i].quote.bob \in Bobs
                      /\ \E j \in DOMAIN swaps'[swaps'[a][i].quote.bob] :
                           swaps'[swaps'[a][i].quote.bob][j].quote = swaps'[a][i].quote
    BY DEF AgreedWithBob, Started
  <2> DEFINE x == swaps'[a][i].quote
  <2>1. x.bob \in Bobs /\ Started(x)
    <3>1. CASE i \in DOMAIN swaps[a]
      BY <1>3, <3>1, ConstantTypes DEF SwapsGrow, Traced, AgreedWithBob, Started
    <3>2. CASE i \notin DOMAIN swaps[a]
      <4>1. a = n /\ x = q
        BY <1>3, <3>2, ConstantTypes
      <4> QED BY <4>1, BeginsFrom
    <3> QED BY <3>1, <3>2
  <2> QED BY <1>3, <2>1, ConstantTypes DEF SwapsGrow, Started
<1> QED BY <1>4, <1>5, <1>6, <1>7, <1>8 DEF Traced

LEMMA StepTraced == TypeOK /\ Traced /\ [Next]_vars => Traced'
BY StepKinds, QuietTraced, HearTraced, QueueTraced, TakesTraced, BeginsTraced

(* Alice swaps only what the Bob of the quote has started on the same      *)
(* terms, whatever is lost, repeated or late and whoever else answers.     *)
THEOREM SwapsAreAgreed == Spec => []Agreed
<1>1. AgreedWithBob => Agreed
  BY DEF AgreedWithBob, Agreed, Started
<1>2. Traced => Agreed
  BY <1>1 DEF Traced
<1> QED BY <1>2, InitTraced, StepTraced, TypeCorrect, PTL DEF Spec

-----------------------------------------------------------------------------
(* An order for which one connect is sent is filled once.                  *)

(* The connects about an order are one, sent once or several times.        *)
OneConnect(o) ==
  \A m1, m2 \in net :
    m1.method = "connect" /\ m2.method = "connect"
    /\ m1.quote.order = o /\ m2.quote.order = o => m1 = m2

(* m, a message or a command, is a connect or a connected about o.         *)
About(m, o) == Once(m) /\ m.quote.order = o

(* At most one of them waits at a node, and none where the order has been  *)
(* filled.                                                                 *)
HeardOnce(o) ==
  \A n \in Node : \A m1, m2 \in heard[n] : About(m1, o) /\ About(m2, o) => m1 = m2

QueuedOnce(o) ==
  \A n \in Node : \A i, j \in DOMAIN queue[n] :
    About(queue[n][i], o) /\ About(queue[n][j], o) => i = j

HeardNotQueued(o) ==
  \A n \in Node : \A m \in heard[n], i \in DOMAIN queue[n] :
    ~(About(m, o) /\ About(queue[n][i], o))

NotFilled(n, o) == \A j \in DOMAIN swaps[n] : swaps[n][j].quote.order # o

HeardNotFilled(o) ==
  \A n \in Node : \A m \in heard[n] : About(m, o) => NotFilled(n, o)

QueuedNotFilled(o) ==
  \A n \in Node : \A i \in DOMAIN queue[n] : About(queue[n][i], o) => NotFilled(n, o)

Swapped(o) ==
  \A n \in Node : \A i, j \in DOMAIN swaps[n] :
    swaps[n][i].quote.order = o /\ swaps[n][j].quote.order = o => i = j

Filling(o) ==
  /\ HeardOnce(o) /\ QueuedOnce(o) /\ HeardNotQueued(o)
  /\ HeardNotFilled(o) /\ QueuedNotFilled(o) /\ Swapped(o)

(* What a Bob has seen is a connect to him, what an Alice has seen is a    *)
(* connected to her.                                                       *)
LEMMA SeenKinds ==
  ASSUME TypeOK, NEW n \in Node, NEW m \in net, Once(m), Addressed(n, m)
  PROVE  /\ n \in Bobs => m.method = "connect" /\ m.quote.bob = n
         /\ n \in Alices => m.method = "connected"
<1>1. m.quote.bob \in Bobs \cup {None} /\ m.quote.order.alice \in Alices \cup {None}
  BY DEF TypeOK, Message, Quote, Order
<1>2. Alices \cap Bobs = {} /\ None \notin Alices /\ None \notin Bobs
  BY OrderAssumption
<1> QED BY <1>1, <1>2 DEF Once, Addressed

LEMMA BobOfOrder ==
  ASSUME TypeOK, Traced, NEW b \in Bobs, NEW q \in rqs[b]
  PROVE  \E m \in net : m.method = "connect" /\ m.quote = q /\ q.bob = b
BY SeenKinds, ConstantTypes DEF Traced, SeenAreSent

(* While one connect is sent for an order, a second connect or connected   *)
(* about it is the first one again, and does not count.                    *)
LEMMA SeenIsUnique ==
  ASSUME TypeOK, Traced, NEW o, OneConnect(o), Swapped(o),
         NEW n \in Node, NEW q \in rqs[n], NEW m \in net, Addressed(n, m),
         q.order = o, About(m, o)
  PROVE  m.quote = q
<1>1. CASE n \in Bobs
  BY <1>1, BobOfOrder, SeenKinds DEF OneConnect, About
<1>2. CASE n \in Alices
  <2>1. PICK x \in net : x.quote = q /\ Once(x) /\ Addressed(n, x)
    BY DEF Traced, SeenAreSent
  <2>2. x.method = "connected" /\ m.method = "connected"
    BY <1>2, <2>1, SeenKinds DEF About
  <2>3. q.bob \in Bobs /\ Started(q) /\ m.quote.bob \in Bobs /\ Started(m.quote)
    BY <2>1, <2>2 DEF Traced, Confirmed
  <2>4. PICK i \in DOMAIN swaps[q.bob] : swaps[q.bob][i].quote = q
    BY <2>3 DEF Started
  <2>5. PICK j \in DOMAIN swaps[m.quote.bob] : swaps[m.quote.bob][j].quote = m.quote
    BY <2>3 DEF Started
  <2>6. PICK q1 \in rqs[q.bob] : q1.order = o
    BY <2>3, <2>4, ConstantTypes DEF Traced, FilledAreSeen
  <2>7. PICK q2 \in rqs[m.quote.bob] : q2.order = o
    BY <2>3, <2>5, ConstantTypes DEF Traced, FilledAreSeen, About
  <2>8. PICK m1 \in net : m1.method = "connect" /\ m1.quote = q1 /\ q1.bob = q.bob
    BY <2>3, <2>6, BobOfOrder
  <2>9. PICK m2 \in net : m2.method = "connect" /\ m2.quote = q2 /\ q2.bob = m.quote.bob
    BY <2>3, <2>7, BobOfOrder
  <2>10. q.bob = m.quote.bob
    <3>1. m1.quote.order = o /\ m2.quote.order = o
      BY <2>6, <2>7, <2>8, <2>9
    <3>2. m1 = m2
      BY <2>8, <2>9, <3>1 DEF OneConnect
    <3> QED BY <2>8, <2>9, <3>2
  <2>11. i = j
    <3>1. q.bob \in Node
      BY <2>3, ConstantTypes
    <3>2. j \in DOMAIN swaps[q.bob] /\ swaps[q.bob][j].quote = m.quote
      BY <2>5, <2>10
    <3>3. swaps[q.bob][i].quote.order = o /\ swaps[q.bob][j].quote.order = o
      BY <2>4, <3>2 DEF About
    <3> QED BY <3>1, <3>2, <3>3 DEF Swapped
  <2> QED BY <2>4, <2>5, <2>10, <2>11
<1> QED BY <1>1, <1>2 DEF Node

LEMMA InitFilling == ASSUME NEW o, Init PROVE Filling(o)
<1>1. \A n \in Node : heard[n] = {} /\ queue[n] = <<>> /\ swaps[n] = <<>>
  BY DEF Init
<1>2. \A n \in Node : heard[n] = {} /\ DOMAIN queue[n] = {} /\ DOMAIN swaps[n] = {}
  BY <1>1
<1> QED BY <1>2 DEF Filling, HeardOnce, QueuedOnce, HeardNotQueued, HeardNotFilled,
                    QueuedNotFilled, Swapped

LEMMA QuietFilling ==
  ASSUME NEW o, Filling(o), Quiet
  PROVE  Filling(o)'
<1>1. heard' = heard
  BY DEF Quiet
<1>2. \A n \in Node :
        /\ DOMAIN queue'[n] = DOMAIN queue[n]
        /\ \A i \in DOMAIN queue[n] : About(queue'[n][i], o) <=> About(queue[n][i], o)
  BY DEF Quiet, About, Once
<1>3. \A n \in Node : NotFilled(n, o)' <=> NotFilled(n, o)
  BY DEF Quiet, NotFilled
<1>4. Swapped(o)'
  BY DEF Quiet, Filling, Swapped
<1>5. /\ HeardOnce(o)' /\ QueuedOnce(o)' /\ HeardNotQueued(o)'
      /\ HeardNotFilled(o)' /\ QueuedNotFilled(o)'
  BY <1>1, <1>2, <1>3 DEF Filling, HeardOnce, QueuedOnce, HeardNotQueued, HeardNotFilled,
                          QueuedNotFilled
<1> QED BY <1>4, <1>5 DEF Filling

LEMMA HearFilling ==
  ASSUME TypeOK, Traced, NEW o, OneConnect(o), Filling(o),
         NEW n \in Node, NEW m \in net, Hear(n, m)
  PROVE  Filling(o)'
<1>1. /\ UNCHANGED <<queue, swaps>> /\ Addressed(n, m)
      /\ Once(m) => m.quote \notin rqs[n]
      /\ \A k \in Node : heard'[k] = IF k = n THEN heard[n] \cup {m} ELSE heard[k]
  BY DEF Hear, TypeOK
<1>2. ASSUME About(m, o), NEW q \in rqs[n]
      PROVE  q.order # o
  BY <1>1, <1>2, SeenIsUnique DEF Filling, About
<1>3. ASSUME About(m, o), NEW x, Seen(n, x)
      PROVE  ~About(x, o)
  BY <1>2, <1>3 DEF Seen, About
<1>4. About(m, o) => /\ \A x \in heard[n] : ~About(x, o)
                     /\ \A i \in DOMAIN queue[n] : ~About(queue[n][i], o)
  <2>1. ASSUME About(m, o), NEW i \in DOMAIN queue[n]
        PROVE  ~About(queue[n][i], o)
    <3>1. Seen(n, [method |-> queue[n][i].method, quote |-> queue[n][i].quote])
      BY DEF Traced, QueuedAreSeen
    <3>2. ~About([method |-> queue[n][i].method, quote |-> queue[n][i].quote], o)
      BY <1>3, <2>1, <3>1
    <3> QED BY <3>2 DEF About, Once
  <2> QED BY <1>3, <2>1 DEF Traced, HeardAreSeen
<1>5. About(m, o) => NotFilled(n, o)
  BY <1>2 DEF Traced, FilledAreSeen, NotFilled
<1>6. HeardOnce(o)' /\ HeardNotQueued(o)' /\ HeardNotFilled(o)'
  <2>1. HeardOnce(o)'
    BY <1>1, <1>4 DEF Filling, HeardOnce
  <2>2. HeardNotQueued(o)'
    BY <1>1, <1>4 DEF Filling, HeardNotQueued
  <2>3. HeardNotFilled(o)'
    BY <1>1, <1>5 DEF Filling, HeardNotFilled, NotFilled
  <2> QED BY <2>1, <2>2, <2>3
<1>7. QueuedOnce(o)' /\ QueuedNotFilled(o)' /\ Swapped(o)'
  BY <1>1 DEF Filling, QueuedOnce, QueuedNotFilled, Swapped, NotFilled
<1> QED BY <1>6, <1>7 DEF Filling

LEMMA QueueFilling ==
  ASSUME TypeOK, NEW o, Filling(o), NEW n \in Node, NEW m, Queue(n, m)
  PROVE  Filling(o)'
<1> DEFINE last == Len(queue[n]) + 1
<1>1. /\ DOMAIN queue'[n] = DOMAIN queue[n] \cup {last} /\ last \notin DOMAIN queue[n]
      /\ queue'[n][last] = [method |-> m.method, quote |-> m.quote, cancelled |-> FALSE]
      /\ \A i \in DOMAIN queue[n] : queue'[n][i] = queue[n][i]
      /\ \A k \in Node \ {n} : queue'[k] = queue[k]
  BY QueueIndex
<1>2. /\ swaps' = swaps /\ m \in heard[n]
      /\ \A k \in Node : heard'[k] = IF k = n THEN heard[n] \ {m} ELSE heard[k]
  BY DEF Queue, TypeOK
<1>3. About(queue'[n][last], o) <=> About(m, o)
  BY <1>1 DEF About, Once
<1> HIDE DEF last
<1>4. \A i \in DOMAIN queue[n] : ~(About(m, o) /\ About(queue[n][i], o))
  BY <1>2 DEF Filling, HeardNotQueued
<1>5. \A x \in heard'[n] : ~(About(m, o) /\ About(x, o))
  BY <1>2 DEF Filling, HeardOnce
<1>6. HeardOnce(o)'
  BY <1>2 DEF Filling, HeardOnce
<1>7. QueuedOnce(o)'
  <2> SUFFICES ASSUME NEW k \in Node, NEW i \in DOMAIN queue'[k], NEW j \in DOMAIN queue'[k],
                      About(queue'[k][i], o), About(queue'[k][j], o)
               PROVE  i = j
    BY DEF QueuedOnce, About, Once
  <2>1. CASE k # n
    BY <1>1, <2>1 DEF Filling, QueuedOnce
  <2>2. CASE k = n
    BY <1>1, <1>3, <1>4, <2>2 DEF Filling, QueuedOnce
  <2> QED BY <2>1, <2>2
<1>8. HeardNotQueued(o)'
  <2> SUFFICES ASSUME NEW k \in Node, NEW x \in heard'[k], NEW i \in DOMAIN queue'[k]
               PROVE  ~(About(x, o) /\ About(queue'[k][i], o))
    BY DEF HeardNotQueued, About, Once
  <2>1. x \in heard[k]
    BY <1>2
  <2>2. CASE k = n /\ i = last
    BY <1>3, <1>5, <2>2
  <2>3. CASE ~(k = n /\ i = last)
    <3>1. i \in DOMAIN queue[k] /\ queue'[k][i] = queue[k][i]
      BY <1>1, <2>3
    <3> QED BY <2>1, <3>1 DEF Filling, HeardNotQueued
  <2> QED BY <2>2, <2>3
<1>9. HeardNotFilled(o)' /\ Swapped(o)'
  BY <1>2 DEF Filling, HeardNotFilled, NotFilled, Swapped
<1>10. QueuedNotFilled(o)'
  <2> SUFFICES ASSUME NEW k \in Node, NEW i \in DOMAIN queue'[k], About(queue'[k][i], o)
               PROVE  NotFilled(k, o)
    BY <1>2 DEF QueuedNotFilled, NotFilled, About, Once
  <2>1. CASE k = n /\ i = last
    BY <1>2, <1>3, <2>1 DEF Filling, HeardNotFilled
  <2>2. CASE ~(k = n /\ i = last)
    BY <1>1, <2>2 DEF Filling, QueuedNotFilled
  <2> QED BY <2>1, <2>2
<1> QED BY <1>6, <1>7, <1>8, <1>9, <1>10 DEF Filling

(* What is left when a command is taken.                                   *)
LEMMA TailFilling ==
  ASSUME TypeOK, NEW o, Filling(o), NEW n \in Node, queue[n] # <<>>, heard' = heard,
         queue' = [queue EXCEPT ![n] = Tail(@)]
  PROVE  /\ HeardOnce(o)' /\ QueuedOnce(o)' /\ HeardNotQueued(o)'
         /\ \A k \in Node : \A i \in DOMAIN queue'[k] :
              About(queue'[k][i], o) => NotFilled(k, o)
         /\ About(First(n), o) => /\ NotFilled(n, o)
                                  /\ \A m \in heard[n] : ~About(m, o)
                                  /\ \A i \in DOMAIN queue'[n] : ~About(queue'[n][i], o)
<1>1. /\ 1 \in DOMAIN queue[n] /\ First(n) = queue[n][1]
      /\ \A m \in Node \ {n} : queue'[m] = queue[m]
      /\ \A i \in DOMAIN queue'[n] :
           /\ i + 1 \in DOMAIN queue[n] /\ i + 1 # 1 /\ i \in Nat
           /\ queue'[n][i] = queue[n][i + 1]
  BY TailIndex
<1>2. \A k \in Node : \A i \in DOMAIN queue'[k] :
        \E j \in DOMAIN queue[k] : queue'[k][i] = queue[k][j]
  BY <1>1
<1>3. HeardOnce(o)'
  BY DEF Filling, HeardOnce
<1>4. HeardNotQueued(o)'
  BY <1>2 DEF Filling, HeardNotQueued
<1>5. QueuedOnce(o)'
  <2> SUFFICES ASSUME NEW k \in Node, NEW i \in DOMAIN queue'[k], NEW j \in DOMAIN queue'[k],
                      About(queue'[k][i], o), About(queue'[k][j], o)
               PROVE  i = j
    BY DEF QueuedOnce, About, Once
  <2>1. CASE k # n
    BY <1>1, <2>1 DEF Filling, QueuedOnce
  <2>2. CASE k = n
    <3>1. i + 1 = j + 1 /\ i \in Nat /\ j \in Nat
      BY <1>1, <2>2 DEF Filling, QueuedOnce
    <3> QED BY <3>1
  <2> QED BY <2>1, <2>2
<1>6. \A k \in Node : \A i \in DOMAIN queue'[k] :
        About(queue'[k][i], o) => NotFilled(k, o)
  BY <1>2 DEF Filling, QueuedNotFilled
<1>7. ASSUME About(First(n), o)
      PROVE  /\ NotFilled(n, o)
             /\ \A m \in heard[n] : ~About(m, o)
             /\ \A i \in DOMAIN queue'[n] : ~About(queue'[n][i], o)
  <2>1. NotFilled(n, o) /\ \A m \in heard[n] : ~About(m, o)
    BY <1>1, <1>7 DEF Filling, QueuedNotFilled, HeardNotQueued
  <2>2. \A i \in DOMAIN queue'[n] : ~About(queue'[n][i], o)
    BY <1>1, <1>7 DEF Filling, QueuedOnce
  <2> QED BY <2>1, <2>2
<1> QED BY <1>3, <1>4, <1>5, <1>6, <1>7

LEMMA TakesFilling ==
  ASSUME TypeOK, NEW o, Filling(o), NEW n \in Node, Takes(n)
  PROVE  Filling(o)'
<1>1. /\ queue[n] # <<>> /\ queue' = [queue EXCEPT ![n] = Tail(@)]
      /\ swaps' = swaps /\ heard' = heard
  BY DEF Takes
<1>2. /\ HeardOnce(o)' /\ QueuedOnce(o)' /\ HeardNotQueued(o)'
      /\ \A k \in Node : \A i \in DOMAIN queue'[k] :
           About(queue'[k][i], o) => NotFilled(k, o)
  BY <1>1, TailFilling
<1>3. QueuedNotFilled(o)'
  BY <1>1, <1>2 DEF QueuedNotFilled, NotFilled, About, Once
<1>4. HeardNotFilled(o)' /\ Swapped(o)'
  BY <1>1 DEF Filling, HeardNotFilled, Swapped, NotFilled
<1> QED BY <1>2, <1>3, <1>4 DEF Filling

LEMMA BeginsFilling ==
  ASSUME TypeOK, Traced, NEW o, Filling(o), NEW n \in Node, NEW q \in Quote, Begins(n, q)
  PROVE  Filling(o)'
<1> DEFINE last == Len(swaps[n]) + 1
<1>1. /\ queue[n] # <<>> /\ queue' = [queue EXCEPT ![n] = Tail(@)] /\ heard' = heard
      /\ Starts(n, q) /\ q.order = First(n).quote.order
  BY DEF Begins
<1>2. /\ SwapsGrow
      /\ \A m \in Node \ {n} : swaps'[m] = swaps[m]
      /\ DOMAIN swaps'[n] = DOMAIN swaps[n] \cup {last}
      /\ last \notin DOMAIN swaps[n] /\ swaps'[n][last].quote = q
  BY <1>1, StartsGrow
<1> HIDE DEF last
<1>3. Once(First(n))
  BY BeginsFrom
<1>4. /\ HeardOnce(o)' /\ QueuedOnce(o)' /\ HeardNotQueued(o)'
      /\ \A k \in Node : \A i \in DOMAIN queue'[k] :
           About(queue'[k][i], o) => NotFilled(k, o)
      /\ q.order = o => /\ NotFilled(n, o)
                        /\ \A m \in heard[n] : ~About(m, o)
                        /\ \A i \in DOMAIN queue'[n] : ~About(queue'[n][i], o)
  BY <1>1, <1>3, TailFilling DEF About
<1>5. \A k \in Node :
        NotFilled(k, o) /\ ~(k = n /\ q.order = o) => NotFilled(k, o)'
  BY <1>2 DEF NotFilled, SwapsGrow
<1>6. QueuedNotFilled(o)'
  BY <1>4, <1>5 DEF QueuedNotFilled, About, Once
<1>7. HeardNotFilled(o)'
  BY <1>1, <1>4, <1>5 DEF Filling, HeardNotFilled
<1>8. Swapped(o)'
  <2> SUFFICES ASSUME NEW k \in Node, NEW i \in DOMAIN swaps'[k], NEW j \in DOMAIN swaps'[k],
                      swaps'[k][i].quote.order = o, swaps'[k][j].quote.order = o
               PROVE  i = j
    BY DEF Swapped
  <2>1. CASE k # n
    BY <1>2, <2>1 DEF Filling, Swapped
  <2>2. CASE k = n
    <3>1. \A h \in DOMAIN swaps[n] : swaps'[n][h].quote = swaps[n][h].quote
      BY <1>2 DEF SwapsGrow
    <3>2. CASE i \in DOMAIN swaps[n] /\ j \in DOMAIN swaps[n]
      BY <2>2, <3>1, <3>2 DEF Filling, Swapped
    <3>3. CASE i = last \/ j = last
      BY <1>2, <1>4, <2>2, <3>1, <3>3 DEF NotFilled
    <3> QED BY <1>2, <2>2, <3>2, <3>3
  <2> QED BY <2>1, <2>2
<1> QED BY <1>4, <1>6, <1>7, <1>8 DEF Filling

(* Nothing that was sent is unsent.                                        *)
LEMMA SentStays ==
  ASSUME TypeOK, [Next]_vars
  PROVE  net \subseteq net'
<1>1. ASSUME Quiet PROVE net \subseteq net'
  BY <1>1 DEF Quiet, NetGrows
<1>2. ASSUME NEW n \in Node, NEW m \in net, Hear(n, m) \/ Queue(n, m)
      PROVE  net \subseteq net'
  BY <1>2 DEF Hear, Queue
<1>3. ASSUME NEW n \in Node, NEW q \in Quote, Begins(n, q) PROVE net \subseteq net'
  BY <1>3 DEF Begins
<1>4. ASSUME NEW n \in Node, Takes(n) PROVE net \subseteq net'
  BY <1>4 DEF Takes, NetGrows
<1> QED BY <1>1, <1>2, <1>3, <1>4, StepKinds

FilledOrders == \A o : OneConnect(o) => Filling(o)

LEMMA StepFilling == TypeOK /\ Traced /\ FilledOrders /\ [Next]_vars => FilledOrders'
<1> SUFFICES ASSUME TypeOK, Traced, FilledOrders, [Next]_vars, NEW o, OneConnect(o)'
             PROVE  Filling(o)'
  BY DEF FilledOrders
<1>1. OneConnect(o)
  BY SentStays DEF OneConnect
<1>2. Filling(o)
  BY <1>1 DEF FilledOrders
<1>3. CASE Quiet
  BY <1>2, <1>3, QuietFilling
<1>4. ASSUME NEW n \in Node, NEW m \in net, Hear(n, m) PROVE Filling(o)'
  BY <1>1, <1>2, <1>4, HearFilling
<1>5. ASSUME NEW n \in Node, NEW m \in net, Queue(n, m) PROVE Filling(o)'
  BY <1>2, <1>5, QueueFilling
<1>6. ASSUME NEW n \in Node, Takes(n) PROVE Filling(o)'
  BY <1>2, <1>6, TakesFilling
<1>7. ASSUME NEW n \in Node, NEW q \in Quote, Begins(n, q) PROVE Filling(o)'
  BY <1>2, <1>7, BeginsFilling
<1> QED BY <1>3, <1>4, <1>5, <1>6, <1>7, StepKinds

LEMMA FillingHolds == Spec => []FilledOrders
<1>1. Init => FilledOrders
  BY InitFilling DEF FilledOrders
<1> QED BY <1>1, InitTraced, StepTraced, StepFilling, TypeCorrect, PTL DEF Spec

(* However late and however often messages come, and whatever the clocks   *)
(* say: an order for which Alice has sent connect for one quote is filled  *)
(* once by every node, now and later.                                      *)
THEOREM OneConnectFillsOnce ==
  Spec => [](\A o : OneConnect(o) =>
               \A n \in Node : \A i, j \in DOMAIN swaps[n] :
                 swaps[n][i].quote.order = o /\ swaps[n][j].quote.order = o => i = j)
<1>1. FilledOrders =>
        \A o : OneConnect(o) =>
          \A n \in Node : \A i, j \in DOMAIN swaps[n] :
            swaps[n][i].quote.order = o /\ swaps[n][j].quote.order = o => i = j
  BY DEF FilledOrders, Filling, Swapped
<1> QED BY <1>1, FillingHolds, PTL

-----------------------------------------------------------------------------
(* Alice connects one quote of an order while it is kept.                  *)

(* Every message is about an order that an Alice has placed.               *)
Placed(o) == o.alice \in Alices /\ o.coin \in Aliceid /\ o.timestamp <= now

NetIsPlaced == \A m \in net : Placed(m.quote.order)

(* The entry of Alice for the coin c: its uuid is one that was sent, it is *)
(* cancelled when one of the orders with its coin was, and as long as it   *)
(* is to be connected no time passes, unless the loop is stuck for ever.   *)
Table(a, c) ==
  LET t == trades[a][c]
  IN  /\ t.live => \E m \in net : /\ m.quote.order.alice = a /\ m.quote.order.coin = c
                                  /\ m.quote.order.uuid = t.uuid
      /\ t.cancelled => \E m \in net : /\ m.quote.order.alice = a /\ m.quote.order.coin = c
                                       /\ <<a, m.quote.order.uuid>> \in cancelled
      /\ t.live => t.best # NoQuote \/ t.negotiationdone
      /\ t.best # NoQuote => /\ t.best.order.alice = a /\ t.best.order.coin = c
                             /\ t.best.order.timestamp <= now
      /\ t.live /\ ~t.connectsent /\ ~t.negotiationdone /\ ~t.cancelled
           => t.first = now \/ Stuck(a)
      /\ chosen[a] = c => /\ t.live /\ ~t.connectsent /\ t.best # NoQuote
                          /\ t.best.order.timestamp <= t.first

(* The entry of a kept order that was connected knows it.                  *)
Remembers(a) ==
  \A m \in net :
    m.method = "connect" /\ m.quote.order.alice = a /\ Kept(m.quote.order)
      => LET t == trades[a][m.quote.order.coin]
         IN  t.live /\ t.connectsent /\ t.first >= m.quote.order.timestamp

Book(a) == (\A c \in Aliceid : Table(a, c)) /\ Remembers(a)

Booked == NetIsPlaced /\ \A a \in Alices : Book(a)

(* What every step leaves.                                                 *)
Onward == net \subseteq net' /\ cancelled \subseteq cancelled' /\ now <= now'

LEMMA KeptBefore ==
  ASSUME TypeOK, TypeOK', Onward, NEW o \in Order, Kept(o)'
  PROVE  Kept(o)
<1>1. now <= o.timestamp + PurgeTime
  <2>1. now' <= o.timestamp + PurgeTime
    BY DEF Kept
  <2> QED BY <2>1, ConstantTypes DEF Onward, TypeOK, Order
<1>2. \A m \in net :
        m.quote.order.alice = o.alice /\ m.quote.order.coin = o.coin
          => <<o.alice, m.quote.order.uuid>> \notin cancelled
  BY DEF Kept, Onward
<1> QED BY <1>1, <1>2 DEF Kept

(* A step that leaves Alice's entries and her loop alone.                  *)
Rests(a) ==
  /\ trades'[a] = trades[a] /\ chosen'[a] = chosen[a] /\ held'[a] = held[a]
  /\ queue[a] # <<>> => queue'[a] # <<>>
  /\ now' = now

NoConnect == \A m \in net' \ net : m.method # "connect"

LEMMA NetTypes ==
  ASSUME TypeOK, NEW m \in net
  PROVE  /\ m \in Message /\ m.quote \in Quote /\ m.quote.order \in Order
         /\ m.quote.order.timestamp \in Nat /\ m.quote.order.uuid \in Nat
BY DEF TypeOK, Message, Quote, Order

LEMMA TradeTypes ==
  ASSUME TypeOK, NEW n \in Node, NEW c \in Aliceid
  PROVE  /\ trades[n][c] \in Trade /\ trades[n][c].first \in Nat
         /\ trades[n][c].best \in Quote /\ trades[n][c].best.order.timestamp \in Nat
         /\ now \in Nat
<1>1. trades[n][c] \in Trade
  BY DEF TypeOK
<1>2. trades[n][c].best \in Quote
  BY <1>1 DEF Trade
<1> QED BY <1>1, <1>2 DEF Trade, Quote, Order, TypeOK

(* The connects of before are remembered, when the entries are.            *)
LEMMA RemembersStays ==
  ASSUME TypeOK, TypeOK', NetIsPlaced, Onward, NoConnect, NEW a \in Alices, Remembers(a),
         \A c \in Aliceid :
           trades[a][c].live /\ trades[a][c].connectsent =>
             \/ /\ trades'[a][c].live /\ trades'[a][c].connectsent
                /\ trades'[a][c].first = trades[a][c].first
             \/ Due(a, c),
         \A c \in Aliceid : Table(a, c)
  PROVE  Remembers(a)'
<1> SUFFICES ASSUME NEW m \in net', m.method = "connect", m.quote.order.alice = a,
                    Kept(m.quote.order)'
             PROVE  LET t == trades'[a][m.quote.order.coin]
                    IN  t.live /\ t.connectsent /\ t.first >= m.quote.order.timestamp
  BY DEF Remembers
<1>1. m \in net /\ m.quote.order \in Order
  BY NetTypes DEF NoConnect
<1>2. PICK c : c = m.quote.order.coin
  OBVIOUS
<1>3. c \in Aliceid
  BY <1>1, <1>2 DEF NetIsPlaced, Placed
<1>4. Kept(m.quote.order)
  BY <1>1, KeptBefore
<1>5. trades[a][c].live /\ trades[a][c].connectsent
      /\ trades[a][c].first >= m.quote.order.timestamp
  BY <1>1, <1>2, <1>4 DEF Remembers
<1>6. ~Due(a, c)
  <2>1. ~trades[a][c].cancelled
    BY <1>2, <1>3, <1>4 DEF Table, Kept
  <2>2. now <= m.quote.order.timestamp + PurgeTime
    BY <1>4 DEF Kept
  <2>3. ~(now > trades[a][c].first + PurgeTime)
    BY <1>1, <1>3, <1>5, <2>2, NetTypes, TradeTypes, ConstantTypes
  <2> QED BY <2>1, <2>3 DEF Due
<1> QED BY <1>2, <1>3, <1>5, <1>6

LEMMA RestsTable ==
  ASSUME Onward, NEW a, NEW c, Table(a, c), Rests(a)
  PROVE  Table(a, c)'
<1>1. Stuck(a) => Stuck(a)'
  BY DEF Rests, Stuck, Due
<1> QED BY <1>1 DEF Table, Rests, Onward

LEMMA RestsBook ==
  ASSUME TypeOK, TypeOK', NetIsPlaced, Onward, NoConnect, NEW a \in Alices, Book(a), Rests(a)
  PROVE  Book(a)'
<1>1. \A c \in Aliceid : Table(a, c)'
  BY RestsTable DEF Book
<1>2. Remembers(a)'
  BY RemembersStays DEF Book, Rests
<1> QED BY <1>1, <1>2 DEF Book

LEMMA ChooseBook ==
  ASSUME TypeOK, TypeOK', NetIsPlaced, NEW a \in Alices, NEW x \in CoinsOf[a], Book(a),
         Choose(a, x)
  PROVE  Book(a)'
<1>1. /\ UNCHANGED <<now, net, queue, trades, held, cancelled>>
      /\ chosen'[a] = x /\ x \in Aliceid /\ ~Stuck(a)
      /\ LET t == trades[a][x]
         IN  t.live /\ ~t.connectsent /\ ~t.negotiationdone /\ ~t.cancelled /\ t.best # NoQuote
  BY ConstantTypes DEF Choose, Connectable, TypeOK
<1>2. Stuck(a)' <=> Stuck(a)
  BY <1>1 DEF Stuck, Due
<1>3. trades[a][x].best.order.timestamp <= trades[a][x].first
  BY <1>1 DEF Book, Table
<1>4. ASSUME NEW c \in Aliceid
      PROVE  Table(a, c)'
  BY <1>1, <1>2, <1>3, <1>4 DEF Book, Table
<1>5. Remembers(a)'
  BY <1>1 DEF Book, Remembers, Kept
<1> QED BY <1>4, <1>5 DEF Book

LEMMA SettleEntry ==
  ASSUME TypeOK, NEW a \in Alices, Settle(a)
  PROVE  /\ chosen[a] \in Aliceid /\ chosen'[a] = None
         /\ \A c \in Aliceid :
              trades'[a][c] = IF c = chosen[a] THEN Committed(trades[a][c]) ELSE trades[a][c]
         /\ LET t == trades[a][chosen[a]]
            IN  /\ Committed(t).connectsent
                /\ Committed(t).live = t.live /\ Committed(t).uuid = t.uuid
                /\ Committed(t).best = t.best /\ Committed(t).cancelled = t.cancelled
                /\ Committed(t).negotiationdone = t.negotiationdone
                /\ Committed(t).first = t.first
         /\ UNCHANGED <<now, queue, held, cancelled>>
<1>1. /\ chosen[a] # None /\ chosen' = [chosen EXCEPT ![a] = None]
      /\ trades' = [trades EXCEPT ![a][chosen[a]] = Committed(@)]
      /\ UNCHANGED <<now, queue, held, cancelled>>
  BY DEF Settle
<1>2. a \in Node /\ chosen[a] \in Aliceid /\ trades[a][chosen[a]] \in Trade
  BY <1>1, ChosenType
<1>3. chosen'[a] = None
  BY <1>1 DEF TypeOK
<1>4. trades \in [Node -> [Aliceid -> Trade]]
  BY DEF TypeOK
<1>5. \A c \in Aliceid :
        trades'[a][c] = IF c = chosen[a] THEN Committed(trades[a][c]) ELSE trades[a][c]
  BY <1>1, <1>2, <1>4
<1>6. LET t == trades[a][chosen[a]]
      IN  /\ Committed(t).connectsent
          /\ Committed(t).live = t.live /\ Committed(t).uuid = t.uuid
          /\ Committed(t).best = t.best /\ Committed(t).cancelled = t.cancelled
          /\ Committed(t).negotiationdone = t.negotiationdone
          /\ Committed(t).first = t.first
  BY <1>2 DEF Committed, Trade
<1> QED BY <1>1, <1>2, <1>3, <1>5, <1>6

LEMMA SettleTable ==
  ASSUME TypeOK, NEW a \in Alices, Book(a), Settle(a), net \subseteq net',
         NEW c \in Aliceid
  PROVE  Table(a, c)'
<1>1. (\E x \in Aliceid : Due(a, x)) => (\E x \in Aliceid : Due(a, x)')
  BY SettleEntry DEF Due
<1>2. Stuck(a) => Stuck(a)'
  BY <1>1, SettleEntry DEF Stuck
<1>3. c # None
  BY OrderAssumption, ConstantTypes DEF Aliceid
<1>4. CASE c = chosen[a]
  <2> DEFINE t == trades[a][c]
             u == trades'[a][c]
  <2>1. /\ u.connectsent /\ u.live = t.live /\ u.uuid = t.uuid /\ u.best = t.best
        /\ u.cancelled = t.cancelled /\ u.negotiationdone = t.negotiationdone
        /\ chosen'[a] # c /\ now' = now /\ cancelled' = cancelled
    BY <1>3, <1>4, SettleEntry
  <2>2. Table(a, c)
    BY DEF Book
  <2> QED BY <2>1, <2>2 DEF Table
<1>5. CASE c # chosen[a]
  <2>1. /\ trades'[a][c] = trades[a][c] /\ chosen'[a] # c /\ now' = now
        /\ cancelled' = cancelled
    BY <1>3, <1>5, SettleEntry
  <2>2. Table(a, c)
    BY DEF Book
  <2> QED BY <1>2, <2>1, <2>2 DEF Table
<1> QED BY <1>4, <1>5

LEMMA SettleBook ==
  ASSUME TypeOK, TypeOK', NetIsPlaced, NEW a \in Alices, Book(a),
         SendConnect(a) \/ Refuse(a)
  PROVE  /\ Book(a)' /\ Onward
         /\ \A m \in net' \ net : Placed(m.quote.order) /\ m.quote.order.alice = a
<1>1. Settle(a)
  BY DEF SendConnect, Refuse
<1> DEFINE t == trades[a][chosen[a]]
           b == t.best
<1>2. /\ t.live /\ ~t.connectsent /\ b # NoQuote
      /\ b.order.timestamp <= t.first /\ b.order.alice = a /\ b.order.coin = chosen[a]
      /\ b.order.timestamp <= now
  BY <1>1, SettleEntry DEF Book, Table
<1>3. net' = net \/ net' = net \cup {[method |-> "connect", quote |-> b]}
  BY DEF SendConnect, Refuse
<1>4. now' = now /\ cancelled' = cancelled
  BY <1>1, SettleEntry
<1>5. Onward
  BY <1>3, <1>4 DEF Onward, TypeOK
<1>6. \A m \in net' \ net : Placed(m.quote.order) /\ m.quote.order.alice = a
  BY <1>1, <1>2, <1>3, SettleEntry DEF Placed
<1>7. Remembers(a)'
  <2> SUFFICES ASSUME NEW m \in net', m.method = "connect", m.quote.order.alice = a,
                      Kept(m.quote.order)'
               PROVE  LET e == trades'[a][m.quote.order.coin]
                      IN  e.live /\ e.connectsent /\ e.first >= m.quote.order.timestamp
    BY DEF Remembers
  <2>1. CASE m \in net
    <3>1. m.quote.order \in Order /\ m.quote.order.coin \in Aliceid
      BY <2>1, NetTypes DEF NetIsPlaced, Placed
    <3>2. Kept(m.quote.order)
      BY <1>5, <3>1, KeptBefore
    <3>3. LET e == trades[a][m.quote.order.coin]
          IN  e.live /\ e.connectsent /\ e.first >= m.quote.order.timestamp
      BY <2>1, <3>2 DEF Book, Remembers
    <3>4. m.quote.order.coin # chosen[a]
      BY <1>2, <3>3
    <3> QED BY <1>1, <3>1, <3>3, <3>4, SettleEntry
  <2>2. CASE m \notin net
    <3>1. m.quote = b
      BY <1>3, <2>2
    <3>2. /\ trades'[a][chosen[a]] = Committed(t)
          /\ Committed(t).live = t.live /\ Committed(t).connectsent
          /\ Committed(t).first = t.first
      BY <1>1, SettleEntry
    <3>3. t.first \in Nat /\ b.order.timestamp \in Nat
      BY <1>1, SettleEntry, TradeTypes, ConstantTypes
    <3> QED BY <1>2, <3>1, <3>2, <3>3
  <2> QED BY <2>1, <2>2
<1>8. \A c \in Aliceid : Table(a, c)'
  BY <1>1, <1>5, SettleTable DEF Onward
<1> QED BY <1>5, <1>6, <1>7, <1>8 DEF Book

LEMMA CancelBook ==
  ASSUME TypeOK, TypeOK', NetIsPlaced, NEW a \in Alices, NEW u, Book(a), Cancel(a, u)
  PROVE  Book(a)'
<1>1. /\ UNCHANGED <<now, net, chosen, held>> /\ cancelled' = cancelled \cup {<<a, u>>}
      /\ trades'[a] = MarkTrades(a, u) /\ queue'[a] = MarkQueue(a, u)
  BY ConstantTypes DEF Cancel, TypeOK
<1>2. ASSUME NEW c \in Aliceid
      PROVE  LET t == trades[a][c]
                 v == trades'[a][c]
             IN  /\ v.live = t.live /\ v.uuid = t.uuid /\ v.best = t.best
                 /\ v.connectsent = t.connectsent /\ v.first = t.first
                 /\ v.negotiationdone = t.negotiationdone
                 /\ v.cancelled => t.cancelled \/ (t.live /\ t.uuid = u)
                 /\ t.cancelled => v.cancelled
  <2>1. trades[a][c] \in Trade
    BY ConstantTypes, TradeTypes
  <2>2. trades'[a][c] = IF trades[a][c].live /\ trades[a][c].uuid = u
                        THEN [trades[a][c] EXCEPT !.cancelled = TRUE] ELSE trades[a][c]
    BY <1>1 DEF MarkTrades
  <2> QED BY <2>1, <2>2 DEF Trade
<1>3. queue[a] # <<>> => queue'[a] # <<>>
  <2>1. queue[a] \in Seq(Command) /\ queue'[a] \in Seq(Command)
    BY ConstantTypes DEF TypeOK
  <2>2. DOMAIN queue'[a] = DOMAIN queue[a]
    BY <1>1 DEF MarkQueue
  <2>3. queue[a] # <<>> => 1 \in DOMAIN queue[a]
    BY <2>1
  <2>4. 1 \in DOMAIN queue'[a] => queue'[a] # <<>>
    BY <2>1
  <2> QED BY <2>2, <2>3, <2>4
<1>4. \A c \in Aliceid : Due(a, c) => Due(a, c)'
  BY <1>1, <1>2 DEF Due
<1>5. Stuck(a) => Stuck(a)'
  BY <1>1, <1>3, <1>4 DEF Stuck
<1>6. ASSUME NEW c \in Aliceid
      PROVE  Table(a, c)'
  <2> DEFINE t == trades[a][c]
             v == trades'[a][c]
  <2>1. Table(a, c)
    BY DEF Book
  <2>2. v.cancelled => \E m \in net : /\ m.quote.order.alice = a /\ m.quote.order.coin = c
                                      /\ <<a, m.quote.order.uuid>> \in cancelled'
    BY <1>1, <1>2, <2>1 DEF Table
  <2>3. /\ v.live = t.live /\ v.uuid = t.uuid /\ v.best = t.best
        /\ v.connectsent = t.connectsent /\ v.first = t.first
        /\ v.negotiationdone = t.negotiationdone /\ (t.cancelled => v.cancelled)
    BY <1>2
  <2> QED BY <1>1, <1>5, <2>1, <2>2, <2>3 DEF Table
<1>7. Onward /\ NoConnect
  BY <1>1 DEF Onward, NoConnect, TypeOK
<1>8. Remembers(a)'
  BY <1>2, <1>7, RemembersStays DEF Book
<1> QED BY <1>6, <1>8 DEF Book

(* What the loop takes is an order of an Alice, and to her it is her own.  *)
LEMMA FirstIsPlaced ==
  ASSUME TypeOK, Traced, NetIsPlaced, NEW n \in Node, queue[n] # <<>>
  PROVE  /\ [method |-> First(n).method, quote |-> First(n).quote] \in net
         /\ Addressed(n, First(n)) /\ Placed(First(n).quote.order)
<1>1. 1 \in DOMAIN queue[n] /\ First(n) = queue[n][1]
  <2>1. queue[n] \in Seq(Command)
    BY DEF TypeOK
  <2> QED BY <2>1 DEF First
<1>2. Seen(n, [method |-> First(n).method, quote |-> First(n).quote])
  BY <1>1 DEF Traced, QueuedAreSeen
<1> QED BY <1>2 DEF Seen, Addressed, NetIsPlaced

LEMMA EnteredFields ==
  ASSUME TypeOK, NEW n \in Node, queue[n] # <<>>, First(n).quote.order.coin \in Aliceid
  PROVE  /\ Entered(n).live /\ Entered(n).uuid = First(n).quote.order.uuid
         /\ Entered(n).connectsent = (Entry(n).live /\ Entry(n).connectsent)
         /\ Entered(n).negotiationdone = (Entry(n).live /\ Entry(n).negotiationdone)
         /\ Entered(n).cancelled = (Entry(n).live /\ Entry(n).cancelled)
         /\ Entered(n).best = IF Entry(n).live THEN Entry(n).best ELSE NoQuote
         /\ Entered(n).first = IF Entry(n).live THEN Entry(n).first ELSE now
<1>1. Entry(n) \in Trade
  BY DEF TypeOK, Entry
<1>2. CASE Entry(n).live
  BY <1>1, <1>2 DEF Entered, Trade
<1>3. CASE ~Entry(n).live
  BY <1>1, <1>3 DEF Entered, Trade, NoTrade
<1> QED BY <1>2, <1>3

LEMMA EnterChanges ==
  ASSUME TypeOK, NEW n \in Node, NEW t, First(n).quote.order.coin \in Aliceid, Enter(n, t)
  PROVE  /\ trades'[n][First(n).quote.order.coin] = t
         /\ \A c \in Aliceid \ {First(n).quote.order.coin} : trades'[n][c] = trades[n][c]
         /\ \A k \in Node \ {n} : trades'[k] = trades[k]
BY DEF Enter, TypeOK

LEMMA TableSame ==
  ASSUME NEW a, NEW c, Table(a, c), trades'[a][c] = trades[a][c], net' = net,
         now' = now, chosen' = chosen, cancelled' = cancelled, ~Stuck(a)
  PROVE  Table(a, c)'
BY DEF Table

(* An entry that takes in another answer: u is what it becomes.            *)
LEMMA TakeBook ==
  ASSUME TypeOK, TypeOK', Traced, NetIsPlaced, NEW a \in Alices, Book(a),
         Reserved(a) \/ Connected(a),
         NEW c, c = First(a).quote.order.coin
  PROVE  Book(a)'
<1> USE ConstantTypes
<1> DEFINE q == First(a).quote
           s == Entry(a)
           u == trades'[a][c]
<1>1. /\ Roaming(a) /\ ~held[a] /\ queue[a] # <<>> /\ ~Unwanted(a)
      /\ UNCHANGED <<now, chosen, held, cancelled, net>>
      /\ First(a).method \in {"reserved", "connected"}
  BY DEF Reserved, Connected, Take
<1>2. /\ c \in Aliceid /\ q.order.alice = a /\ q.order.coin = c /\ q.order.timestamp <= now
      /\ [method |-> First(a).method, quote |-> q] \in net
  BY <1>1, FirstIsPlaced DEF Addressed, Placed
<1>3. /\ s = trades[a][c] /\ s \in Trade /\ Table(a, c)
  BY <1>2, TradeTypes DEF Entry, Book
<1>4. q # NoQuote
  <2>1. q.order.alice # None
    BY <1>2, OrderAssumption
  <2> QED BY <2>1 DEF NoQuote, NoOrder
<1>5. s.live => ~s.cancelled
  BY <1>1 DEF Unwanted
<1>6. \E t \in Trade :
        /\ t.live /\ t.uuid = q.order.uuid
        /\ t.connectsent = (s.live /\ s.connectsent)
        /\ t.cancelled = FALSE
        /\ t.first = IF s.live THEN s.first ELSE now
        /\ \/ /\ t.best = q /\ ~t.connectsent
              /\ t.negotiationdone = (s.live /\ s.negotiationdone)
           \/ /\ t.best = IF s.live THEN s.best ELSE NoQuote
              /\ \/ t.negotiationdone
                 \/ /\ t.negotiationdone = (s.live /\ s.negotiationdone)
                    /\ t.connectsent \/ t.best # NoQuote
        /\ Enter(a, t)
  <2> DEFINE e == Entered(a)
  <2>1. /\ e \in Trade
        /\ e.live /\ e.uuid = q.order.uuid
        /\ e.connectsent = (s.live /\ s.connectsent)
        /\ e.negotiationdone = (s.live /\ s.negotiationdone)
        /\ e.cancelled = FALSE
        /\ e.best = IF s.live THEN s.best ELSE NoQuote
        /\ e.first = IF s.live THEN s.first ELSE now
    BY <1>1, <1>2, <1>5, EnteredFields, EnteredType
  <2>2. CASE Reserved(a)
    <3>1. \/ ~e.connectsent /\ Enter(a, [e EXCEPT !.best = q])
          \/ (e.connectsent \/ e.best # NoQuote) /\ Enter(a, e)
      BY <2>2 DEF Reserved
    <3>2. q \in Quote
      BY <1>1, FirstType
    <3> HIDE DEF e, q, s
    <3>3. [e EXCEPT !.best = q] \in Trade
      BY <2>1, <3>2 DEF Trade
    <3> QED BY <2>1, <3>1, <3>2, <3>3 DEF Trade
  <2>3. CASE Connected(a)
    <3>1. Enter(a, [e EXCEPT !.negotiationdone = TRUE])
      BY <2>3 DEF Connected
    <3> HIDE DEF e, q, s
    <3>2. [e EXCEPT !.negotiationdone = TRUE] \in Trade
      BY <2>1 DEF Trade
    <3> QED BY <2>1, <3>1, <3>2 DEF Trade
  <2> QED BY <2>2, <2>3
<1>7. /\ \A x \in Aliceid \ {c} : trades'[a][x] = trades[a][x]
      /\ u.live /\ u.uuid = q.order.uuid
      /\ u.connectsent = (s.live /\ s.connectsent)
      /\ u.cancelled = FALSE
      /\ u.first = IF s.live THEN s.first ELSE now
      /\ \/ /\ u.best = q /\ ~u.connectsent
            /\ u.negotiationdone = (s.live /\ s.negotiationdone)
         \/ /\ u.best = IF s.live THEN s.best ELSE NoQuote
            /\ \/ u.negotiationdone
               \/ /\ u.negotiationdone = (s.live /\ s.negotiationdone)
                  /\ u.connectsent \/ u.best # NoQuote
  BY <1>2, <1>6, EnterChanges
<1>8. ~Stuck(a) /\ \A x \in Aliceid : chosen[a] # x
  BY <1>1, OrderAssumption DEF Stuck, Roaming, Aliceid
<1>9. /\ s.live => s.best # NoQuote \/ s.negotiationdone
      /\ s.best # NoQuote => /\ s.best.order.alice = a /\ s.best.order.coin = c
                             /\ s.best.order.timestamp <= now
      /\ s.live /\ ~s.connectsent /\ ~s.negotiationdone => s.first = now
  BY <1>3, <1>5, <1>8 DEF Table
<1> HIDE DEF q, s, u
<1>10. Table(a, c)'
  <2>1. u.live /\ \E m \in net : /\ m.quote.order.alice = a /\ m.quote.order.coin = c
                                 /\ m.quote.order.uuid = u.uuid
    BY <1>2, <1>7
  <2>2. u.best # NoQuote \/ u.negotiationdone
    BY <1>4, <1>7, <1>9
  <2>3. u.best # NoQuote => /\ u.best.order.alice = a /\ u.best.order.coin = c
                            /\ u.best.order.timestamp <= now
    BY <1>2, <1>7, <1>9
  <2>4. ~u.connectsent /\ ~u.negotiationdone => u.first = now
    BY <1>7, <1>9
  <2>5. chosen'[a] # c
    BY <1>1, <1>2, <1>8
  <2>6. ~u.cancelled
    BY <1>7
  <2> QED BY <1>1, <2>1, <2>2, <2>3, <2>4, <2>5, <2>6 DEF Table, u
<1>11. ASSUME NEW x \in Aliceid \ {c}
       PROVE  Table(a, x)'
  <2>1. Table(a, x) /\ trades'[a][x] = trades[a][x]
    BY <1>7, <1>11 DEF Book
  <2> QED BY <1>1, <1>8, <2>1, TableSame
<1>12. Remembers(a)'
  <2>1. Onward /\ NoConnect
    BY <1>1 DEF Onward, NoConnect, TypeOK
  <2>2. \A x \in Aliceid :
          trades[a][x].live /\ trades[a][x].connectsent =>
            /\ trades'[a][x].live /\ trades'[a][x].connectsent
            /\ trades'[a][x].first = trades[a][x].first
    BY <1>3, <1>7 DEF u
  <2> QED BY <2>1, <2>2, RemembersStays DEF Book
<1>13. \A x \in Aliceid : Table(a, x)'
  BY <1>10, <1>11
<1> QED BY <1>12, <1>13 DEF Book

(* An entry that is cleared: nothing is to be remembered of it.            *)
LEMMA ClearBook ==
  ASSUME TypeOK, TypeOK', Traced, NetIsPlaced, NEW a \in Alices, Book(a),
         Drop(a) \/ \E x \in Aliceid : Purge(a, x)
  PROVE  Book(a)'
<1>1. /\ Roaming(a) /\ ~held[a] /\ UNCHANGED <<now, chosen, cancelled, net>>
  BY DEF Drop, Purge
<1>2. PICK c \in Aliceid :
        /\ trades'[a][c] = NoTrade /\ (trades[a][c].live => Due(a, c))
        /\ \A x \in Aliceid \ {c} : trades'[a][x] = trades[a][x]
  <2>1. CASE Drop(a)
    <3>1. queue[a] # <<>> /\ Unwanted(a) /\ Enter(a, NoTrade)
      BY <2>1 DEF Drop
    <3>2. First(a).quote.order.coin \in Aliceid
      BY <3>1, FirstIsPlaced, ConstantTypes DEF Placed
    <3>3. Entry(a).live => Due(a, First(a).quote.order.coin)
      BY <3>1 DEF Unwanted, Due, Entry
    <3> QED BY <3>1, <3>2, <3>3, EnterChanges, ConstantTypes DEF Entry
  <2>2. CASE \E x \in Aliceid : Purge(a, x)
    BY <2>2, ConstantTypes DEF Purge, TypeOK
  <2> QED BY <2>1, <2>2
<1>3. ~Stuck(a) /\ \A x \in Aliceid : chosen[a] # x
  BY <1>1, OrderAssumption, ConstantTypes DEF Stuck, Roaming, Aliceid
<1>4. Table(a, c)'
  BY <1>1, <1>2, <1>3 DEF Table, NoTrade
<1>5. ASSUME NEW x \in Aliceid \ {c}
      PROVE  Table(a, x)'
  <2>1. Table(a, x) /\ trades'[a][x] = trades[a][x]
    BY <1>2, <1>5 DEF Book
  <2> QED BY <1>1, <1>3, <2>1, TableSame
<1>6. Remembers(a)'
  <2>1. Onward /\ NoConnect
    BY <1>1 DEF Onward, NoConnect, TypeOK
  <2> QED BY <1>2, <2>1, RemembersStays DEF Book
<1> QED BY <1>4, <1>5, <1>6 DEF Book

(* Time passes when there is nothing to connect.                           *)
LEMMA TickBook ==
  ASSUME TypeOK, TypeOK', NetIsPlaced, NEW a \in Alices, Book(a), Tick
  PROVE  Book(a)'
<1>1. /\ now' = now + 1 /\ Idle(a)
      /\ UNCHANGED <<net, heard, queue, trades, chosen, held, cancelled>>
  BY ConstantTypes DEF Tick, loop
<1>2. now \in Nat /\ now' > now
  BY <1>1 DEF TypeOK
<1>3. ASSUME NEW c \in Aliceid, Due(a, c)
      PROVE  Due(a, c)'
  <2>1. trades[a][c].first \in Nat
    BY TradeTypes, ConstantTypes
  <2> QED BY <1>1, <1>2, <1>3, <2>1, ConstantTypes DEF Due
<1>4. Stuck(a) => Stuck(a)'
  BY <1>1, <1>3 DEF Stuck
<1>5. ASSUME NEW c \in Aliceid
      PROVE  Table(a, c)'
  <2> DEFINE t == trades[a][c]
  <2>1. Table(a, c)
    BY DEF Book
  <2>2. t.live /\ ~t.connectsent /\ ~t.negotiationdone /\ ~t.cancelled => Stuck(a)
    BY <1>1, <2>1 DEF Table, Idle, Connectable
  <2>3. t.best # NoQuote => t.best.order.timestamp <= now'
    <3>1. t.best.order.timestamp \in Nat
      BY TradeTypes, ConstantTypes
    <3>2. t.best # NoQuote => t.best.order.timestamp <= now
      BY <2>1 DEF Table
    <3> HIDE DEF t
    <3>3. now' \in Nat
      BY <1>1, <1>2
    <3> QED BY <1>2, <3>1, <3>2, <3>3
  <2>4. trades'[a][c] = t
    BY <1>1
  <2> HIDE DEF t
  <2>5. t = trades[a][c]
    BY DEF t
  <2> QED BY <1>1, <1>4, <2>1, <2>2, <2>3, <2>4, <2>5 DEF Table
<1>6. Remembers(a)'
  <2>1. Onward /\ NoConnect
    BY <1>1, <1>2 DEF Onward, NoConnect
  <2> QED BY <1>1, <2>1, RemembersStays DEF Book
<1> QED BY <1>5, <1>6 DEF Book

(* The steps that leave an Alice's entries alone, and what they send.      *)
LEMMA QuietRests ==
  ASSUME TypeOK, NEW a \in Alices, NEW x \in Alices, NEW c \in CoinsOf[x],
         Buy(x, c) \/ Expire(x) \/ Status(x)
  PROVE  /\ Rests(a) /\ Onward /\ NoConnect
         /\ \A m \in net' \ net : Placed(m.quote.order)
<1>1. UNCHANGED <<now, queue, trades, chosen, held, cancelled>>
  BY DEF Buy, Expire, Status, loop
<1>2. net \subseteq net' /\ NoConnect /\ \A m \in net' \ net : Placed(m.quote.order)
  <2>1. CASE net' = net
    BY <2>1 DEF NoConnect
  <2>2. CASE Buy(x, c)
    <3> DEFINE o == [alice |-> x, coin |-> c, uuid |-> query[x].placed + 1, timestamp |-> now]
               m == [method |-> "request", quote |-> [NoQuote EXCEPT !.order = o]]
    <3>1. net' = net \cup {m}
      BY <2>2 DEF Buy
    <3>2. m.quote.order = o
      BY DEF NoQuote
    <3>3. Placed(o)
      BY ConstantTypes DEF Placed, TypeOK
    <3>4. m.method = "request"
      OBVIOUS
    <3> HIDE DEF o, m
    <3> QED BY <3>1, <3>2, <3>3, <3>4 DEF NoConnect
  <2> QED BY <2>1, <2>2 DEF Expire, Status
<1> QED BY <1>1, <1>2 DEF Rests, Onward, TypeOK

LEMMA BobRests ==
  ASSUME TypeOK, Traced, NetIsPlaced, NEW a \in Alices, NEW b \in Bobs, Request(b) \/ Connect(b)
  PROVE  /\ Rests(a) /\ Onward /\ NoConnect
         /\ \A m \in net' \ net : Placed(m.quote.order)
<1>1. a \in Node /\ b \in Node /\ a # b
  BY ConstantTypes, OrderAssumption
<1>2. /\ queue[b] # <<>> /\ queue' = [queue EXCEPT ![b] = Tail(@)]
      /\ UNCHANGED <<now, chosen, held, cancelled>>
  BY DEF Request, Connect, Take
<1>3. Placed(First(b).quote.order) /\ First(b).quote \in Quote
  BY <1>1, <1>2, FirstIsPlaced, FirstType
<1>4. trades'[a] = trades[a] /\ queue'[a] = queue[a]
  <2>1. \E t : Enter(b, t)
    BY DEF Request, Connect
  <2>2. First(b).quote.order.coin \in Aliceid
    BY <1>3 DEF Placed
  <2> QED BY <1>1, <1>2, <2>1, <2>2, EnterChanges DEF TypeOK
<1>5. \/ net' = net
      \/ \E q : q.order = First(b).quote.order
                /\ \/ net' = net \cup {[method |-> "reserved", quote |-> q]}
                   \/ net' = net \cup {[method |-> "connected", quote |-> q]}
  <2>1. CASE Request(b)
    <3>1. \/ net' = net
          \/ \E c \in CoinsOf[b] :
               net' = net \cup {[method |-> "reserved", quote |->
                  [order |-> First(b).quote.order, bob |-> b, coin |-> c, quotetime |-> now]]}
      BY <2>1 DEF Request
    <3> QED BY <3>1
  <2>2. CASE Connect(b)
    <3> DEFINE q == [First(b).quote EXCEPT !.quotetime = now]
    <3>1. net' = net \/ net' = net \cup {[method |-> "connected", quote |-> q]}
      BY <2>2 DEF Connect, Confirmation
    <3>2. q.order = First(b).quote.order
      BY <1>3 DEF Quote
    <3> HIDE DEF q
    <3> QED BY <3>1, <3>2
  <2> QED BY <2>1, <2>2
<1>6. net \subseteq net' /\ NoConnect /\ \A m \in net' \ net : Placed(m.quote.order)
  BY <1>3, <1>5 DEF NoConnect
<1> QED BY <1>1, <1>2, <1>4, <1>6 DEF Rests, Onward, TypeOK

LEMMA NodeRests ==
  ASSUME TypeOK, NEW a \in Alices, NEW n \in Node, NEW m, NEW i,
         Hear(n, m) \/ Queue(n, m) \/ Renew(n, i) \/ End(n, i)
  PROVE  Rests(a) /\ Onward /\ net' = net
<1>1. UNCHANGED <<now, net, trades, chosen, held, cancelled>>
  BY DEF Hear, Queue, Renew, End, loop
<1>2. queue[a] # <<>> => queue'[a] # <<>>
  <2>1. CASE Queue(n, m)
    <3>1. a # n => queue'[a] = queue[a]
      BY <2>1, QueueIndex, ConstantTypes
    <3>2. a = n => DOMAIN queue'[a] # {}
      BY <2>1, QueueIndex, ConstantTypes
    <3> QED BY <3>1, <3>2
  <2>2. CASE queue' = queue
    BY <2>2
  <2> QED BY <2>1, <2>2 DEF Hear, Renew, End, loop
<1> QED BY <1>1, <1>2 DEF Rests, Onward, TypeOK

(* What one node does leaves the entries of the other Alices alone.        *)
LEMMA OtherRests ==
  ASSUME TypeOK, Traced, NetIsPlaced, NEW a \in Alices, NEW n \in Node, a # n, NEW c, NEW u,
         \/ n \in Alices /\ (Choose(n, c) \/ Cancel(n, u) \/ Reserved(n) \/ Connected(n))
         \/ Drop(n) \/ (c \in Aliceid /\ Purge(n, c))
  PROVE  Rests(a) /\ Onward /\ net' = net
<1>1. now' = now /\ net' = net /\ cancelled \subseteq cancelled'
  BY DEF Choose, Cancel, Reserved, Connected, Take, Drop, Purge
<1>2. a \in Node
  BY ConstantTypes
<1>3. trades'[a] = trades[a]
  <2>1. ASSUME queue[n] # <<>>, NEW t, Enter(n, t)
        PROVE  trades'[a] = trades[a]
    BY <1>2, <2>1, FirstIsPlaced, EnterChanges DEF Placed
  <2>2. CASE Reserved(n) \/ Connected(n) \/ Drop(n)
    <3>1. queue[n] # <<>> /\ \E t : Enter(n, t)
      BY <2>2 DEF Reserved, Connected, Take, Drop
    <3> QED BY <2>1, <3>1
  <2>3. CASE Choose(n, c) \/ Cancel(n, u) \/ Purge(n, c)
    BY <1>2, <2>3 DEF Choose, Cancel, Purge, TypeOK
  <2> QED BY <2>2, <2>3
<1>4. queue'[a] = queue[a] /\ chosen'[a] = chosen[a] /\ held'[a] = held[a]
  BY <1>2 DEF Choose, Cancel, Reserved, Connected, Take, Drop, Purge, TypeOK
<1> QED BY <1>1, <1>3, <1>4 DEF Rests, Onward, TypeOK

LEMMA OtherSettles ==
  ASSUME TypeOK, NEW a \in Alices, NEW n \in Alices, a # n, SendConnect(n) \/ Refuse(n)
  PROVE  Rests(a)
<1>1. Settle(n)
  BY DEF SendConnect, Refuse
<1>2. /\ trades' = [trades EXCEPT ![n][chosen[n]] = Committed(@)]
      /\ chosen' = [chosen EXCEPT ![n] = None] /\ UNCHANGED <<now, queue, held>>
  BY <1>1 DEF Settle
<1> QED BY <1>2, ConstantTypes DEF Rests, TypeOK

LEMMA PlacedStays ==
  ASSUME TypeOK, TypeOK', NetIsPlaced, Onward,
         \A m \in net' \ net : Placed(m.quote.order)
  PROVE  NetIsPlaced'
<1> SUFFICES ASSUME NEW m \in net'
             PROVE  Placed(m.quote.order)'
  BY DEF NetIsPlaced
<1>1. Placed(m.quote.order)
  BY DEF NetIsPlaced
<1>2. m.quote.order.timestamp \in Nat
  BY DEF TypeOK, Message, Quote, Order
<1> QED BY <1>1, <1>2 DEF Placed, Onward, TypeOK

(* The entries of an Alice and what a connect of another Alice adds.       *)
LEMMA OtherBook ==
  ASSUME TypeOK, TypeOK', NetIsPlaced, Onward, NEW a \in Alices, Book(a), Rests(a),
         \A m \in net' \ net : m.quote.order.alice # a \/ m.method # "connect"
  PROVE  Book(a)'
<1>1. \A c \in Aliceid : Table(a, c)'
  BY RestsTable DEF Book
<1>2. Remembers(a)'
  <2> SUFFICES ASSUME NEW m \in net', m.method = "connect", m.quote.order.alice = a,
                      Kept(m.quote.order)'
               PROVE  LET t == trades'[a][m.quote.order.coin]
                      IN  t.live /\ t.connectsent /\ t.first >= m.quote.order.timestamp
    BY DEF Remembers
  <2>1. m \in net /\ m.quote.order \in Order
    BY NetTypes
  <2> QED BY <2>1, KeptBefore DEF Book, Remembers, Rests
<1> QED BY <1>1, <1>2 DEF Book

LEMMA InitBooked == Init => Booked
<1> SUFFICES ASSUME Init PROVE Booked
  OBVIOUS
<1>1. net = {}
  BY DEF Init
<1>2. ASSUME NEW a \in Alices, NEW c \in Aliceid
      PROVE  trades[a][c] = NoTrade /\ chosen[a] # c
  BY <1>2, ConstantTypes, OrderAssumption DEF Init, Aliceid
<1>3. ASSUME NEW a \in Alices, NEW c \in Aliceid
      PROVE  Table(a, c)
  BY <1>2, <1>3 DEF Table, NoTrade
<1> QED BY <1>1, <1>3 DEF Booked, NetIsPlaced, Book, Remembers

LEMMA StepBooked == TypeOK /\ TypeOK' /\ Traced /\ Booked /\ [Next]_vars => Booked'
<1> SUFFICES ASSUME TypeOK, TypeOK', Traced, Booked, [Next]_vars
             PROVE  Booked'
  OBVIOUS
<1>1. NetIsPlaced /\ \A a \in Alices : Book(a)
  BY DEF Booked
<1> DEFINE Fresh == \A m \in net' \ net : Placed(m.quote.order)
<1>2. ASSUME Onward, Fresh, \A a \in Alices : Book(a)'
      PROVE  Booked'
  BY <1>1, <1>2, PlacedStays DEF Booked
<1>3. ASSUME Onward, NoConnect, Fresh, \A a \in Alices : Rests(a)
      PROVE  Booked'
  BY <1>1, <1>2, <1>3, RestsBook
<1>4. ASSUME NEW n \in Alices, Onward, net' = net, Book(n)',
             \A a \in Alices \ {n} : Rests(a)
      PROVE  Booked'
  <2>1. NoConnect
    BY <1>4 DEF NoConnect
  <2>2. \A a \in Alices : Book(a)'
    BY <1>1, <1>4, <2>1, RestsBook
  <2> QED BY <1>2, <1>4, <2>2
<1>5. CASE UNCHANGED vars
  <2>1. UNCHANGED <<now, net, queue, trades, chosen, held, cancelled>>
    BY <1>5 DEF vars, loop
  <2>2. Onward /\ NoConnect /\ Fresh /\ \A a \in Alices : Rests(a)
    BY <2>1 DEF Onward, NoConnect, Rests, TypeOK
  <2> QED BY <1>3, <2>2
<1>6. CASE Tick
  <2>1. Onward /\ Fresh
    BY <1>6 DEF Tick, Onward, loop, TypeOK
  <2> QED BY <1>1, <1>2, <1>6, <2>1, TickBook
<1>7. ASSUME NEW n \in Alices, NEW c \in CoinsOf[n], Buy(n, c) \/ Choose(n, c)
      PROVE  Booked'
  <2>1. CASE Buy(n, c)
    BY <1>3, <2>1, QuietRests
  <2>2. CASE Choose(n, c)
    <3>1. net' = net /\ Onward
      BY <2>2 DEF Choose, Onward, TypeOK
    <3> QED BY <1>1, <1>4, <2>2, <3>1, ChooseBook, OtherRests, ConstantTypes
  <2> QED BY <1>7, <2>1, <2>2
<1>8. ASSUME NEW n \in Alices, SendConnect(n) \/ Refuse(n)
      PROVE  Booked'
  <2>1. Book(n)' /\ Onward /\ Fresh /\ \A m \in net' \ net : m.quote.order.alice = n
    BY <1>1, <1>8, SettleBook
  <2>2. \A a \in Alices \ {n} : Book(a)'
    BY <1>1, <1>8, <2>1, OtherSettles, OtherBook
  <2> QED BY <1>2, <2>1, <2>2
<1>9. ASSUME NEW n \in Alices, Expire(n) \/ Status(n)
      PROVE  Booked'
  <2>1. UNCHANGED <<now, net, queue, trades, chosen, held, cancelled>>
    BY <1>9 DEF Expire, Status, loop
  <2>2. Onward /\ NoConnect /\ Fresh /\ \A a \in Alices : Rests(a)
    BY <2>1 DEF Onward, NoConnect, Rests, TypeOK
  <2> QED BY <1>3, <2>2
<1>10. ASSUME NEW n \in Alices, NEW u, Cancel(n, u)
       PROVE  Booked'
  <2>1. net' = net /\ Onward
    BY <1>10 DEF Cancel, Onward, TypeOK
  <2> QED BY <1>1, <1>4, <1>10, <2>1, CancelBook, OtherRests, ConstantTypes
<1>11. ASSUME NEW n \in Alices, Reserved(n) \/ Connected(n)
       PROVE  Booked'
  <2>1. net' = net /\ Onward
    BY <1>11 DEF Reserved, Connected, Take, Onward, TypeOK
  <2> QED BY <1>1, <1>4, <1>11, <2>1, TakeBook, OtherRests, ConstantTypes
<1>12. ASSUME NEW b \in Bobs, Request(b) \/ Connect(b)
       PROVE  Booked'
  <2>1. queue[b] # <<>>
    BY <1>12 DEF Request, Connect, Take
  <2>2. First(b).quote.order.alice \in Alices
    BY <1>1, <2>1, FirstIsPlaced, ConstantTypes DEF Placed
  <2>3. Onward /\ NoConnect /\ Fresh /\ \A a \in Alices : Rests(a)
    BY <1>1, <1>12, <2>2, BobRests
  <2> QED BY <1>3, <2>3
<1>13. ASSUME NEW n \in Node, NEW m, NEW i,
              Hear(n, m) \/ Queue(n, m) \/ Renew(n, i) \/ End(n, i)
       PROVE  Booked'
  <2>1. Onward /\ net' = net
    BY <1>13 DEF Hear, Queue, Renew, End, Onward, loop, TypeOK
  <2>2. \A a \in Alices : Rests(a)
    BY <1>13, NodeRests
  <2> QED BY <1>3, <2>1, <2>2 DEF NoConnect
<1>14. ASSUME NEW n \in Node, NEW c \in Aliceid, Purge(n, c)
       PROVE  Booked'
  <2>1. net' = net /\ Onward
    BY <1>14 DEF Purge, Onward, TypeOK
  <2>2. \A a \in Alices \ {n} : Rests(a)
    BY <1>1, <1>14, OtherRests
  <2>3. \A a \in Alices : Book(a)'
    BY <1>1, <1>14, <2>1, <2>2, ClearBook, RestsBook DEF NoConnect
  <2> QED BY <1>2, <2>1, <2>3
<1>15. ASSUME NEW n \in Node, Drop(n)
       PROVE  Booked'
  <2>1. net' = net /\ Onward
    BY <1>15 DEF Drop, Onward, TypeOK
  <2>2. \A a \in Alices \ {n} : Rests(a)
    BY <1>1, <1>15, OtherRests
  <2>3. \A a \in Alices : Book(a)'
    BY <1>1, <1>15, <2>1, <2>2, ClearBook, RestsBook DEF NoConnect
  <2> QED BY <1>2, <2>1, <2>3
<1> HIDE DEF Fresh
<1>16. ASSUME NEW a \in Alices,
              \/ \E c \in CoinsOf[a] : Buy(a, c) \/ Choose(a, c)
              \/ SendConnect(a) \/ Refuse(a)
              \/ Expire(a) \/ Status(a)
              \/ \E u \in 1 .. query[a].placed : Cancel(a, u)
              \/ Reserved(a) \/ Connected(a)
       PROVE  Booked'
  BY <1>7, <1>8, <1>9, <1>10, <1>11, <1>16
<1>17. ASSUME NEW n \in Node,
              \/ \E m \in net : Hear(n, m) \/ Queue(n, m)
              \/ Drop(n)
              \/ \E c \in Aliceid : Purge(n, c)
              \/ \E i \in DOMAIN swaps[n] : Renew(n, i) \/ End(n, i)
       PROVE  Booked'
  BY <1>13, <1>14, <1>15, <1>17
<1> QED BY <1>5, <1>6, <1>12, <1>16, <1>17, NextSplit

LEMMA BookHolds == Spec => []Booked
<1>1. TypeOK /\ Traced /\ Booked /\ [Next]_vars => Booked'
  BY StepBooked, StepType
<1> QED BY <1>1, InitBooked, InitTraced, StepTraced, TypeCorrect, PTL DEF Spec

(* Nothing is unsent, uncancelled or undone, and only an Alice connects.   *)
LEMMA Continues ==
  ASSUME TypeOK, TypeOK', [Next]_vars
  PROVE  Onward
<1>1. net \subseteq net'
  BY SentStays
<1>2. now' = now \/ Tick
  BY NextSplit DEF Buy, Choose, SendConnect, Refuse, Settle, Expire, Status, Cancel, Reserved,
     Connected, Request, Connect, Take, Hear, Queue, Drop, Purge, Renew, End, vars
<1>3. now <= now'
  BY <1>2 DEF Tick, TypeOK
<1>4. cancelled \subseteq cancelled'
  BY NextSplit DEF Buy, Choose, SendConnect, Refuse, Settle, Expire, Status, Cancel, Reserved,
     Connected, Request, Connect, Take, Hear, Queue, Drop, Purge, Renew, End, Tick, vars
<1> QED BY <1>1, <1>3, <1>4 DEF Onward

LEMMA ConnectsBy ==
  ASSUME TypeOK, [Next]_vars, ~NoConnect
  PROVE  \E a \in Alices : SendConnect(a)
<1>1. net' # net
  BY DEF NoConnect
<1>2. ASSUME NEW a \in Alices, NEW c, Buy(a, c)
      PROVE  FALSE
  BY <1>2 DEF Buy, NoConnect
<1>3. ASSUME NEW b \in Bobs, Request(b) \/ Connect(b)
      PROVE  FALSE
  <2>1. CASE Request(b)
    <3>1. \E q : net' = net \cup {[method |-> "reserved", quote |-> q]}
      BY <1>1, <2>1 DEF Request
    <3> QED BY <3>1 DEF NoConnect
  <2>2. CASE Connect(b)
    <3>1. \E q : net' = net \cup {[method |-> "connected", quote |-> q]}
      BY <1>1, <2>2 DEF Connect, Confirmation
    <3> QED BY <3>1 DEF NoConnect
  <2> QED BY <1>3, <2>1, <2>2
<1>4. ASSUME NEW n, NEW c, NEW u, NEW m,
             \/ Choose(n, c) \/ Refuse(n) \/ Expire(n) \/ Status(n) \/ Cancel(n, u)
             \/ Reserved(n) \/ Connected(n) \/ Hear(n, m) \/ Queue(n, m)
             \/ Drop(n) \/ Purge(n, c) \/ Renew(n, u) \/ End(n, u) \/ Tick
      PROVE  FALSE
  BY <1>1, <1>4 DEF Choose, Refuse, Expire, Status, Cancel, Reserved, Connected, Hear, Queue,
     Drop, Purge, Renew, End, Tick
<1>5. Next
  BY <1>1 DEF vars
<1> QED BY <1>2, <1>3, <1>4, <1>5, NextSplit

(* An Alice who has sent connect does not send another for the order: the  *)
(* loop connects an entry in the second it is made or never, no quote is   *)
(* taken in between, and what was connected is remembered while the order  *)
(* is kept.                                                                *)
LEMMA StepOneBob ==
  TypeOK /\ TypeOK' /\ Traced /\ Booked /\ OneBob /\ [Next]_vars => OneBob'
<1> SUFFICES ASSUME TypeOK, TypeOK', Traced, Booked, OneBob, [Next]_vars,
                    NEW m1 \in net', NEW m2 \in net',
                    m1.method = "connect", m2.method = "connect",
                    m1.quote.order = m2.quote.order, Kept(m1.quote.order)'
             PROVE  m1 = m2
  BY DEF OneBob
<1>1. NetIsPlaced /\ \A a \in Alices : Book(a)
  BY DEF Booked
<1>2. CASE m1 \in net /\ m2 \in net
  <2>1. Onward
    BY Continues
  <2>2. Kept(m1.quote.order)
    BY <1>2, <2>1, KeptBefore, NetTypes
  <2> QED BY <1>2, <2>2 DEF OneBob
<1>3. CASE ~(m1 \in net /\ m2 \in net)
  <2>1. ~NoConnect
    BY <1>3 DEF NoConnect
  <2>2. PICK a \in Alices : SendConnect(a)
    BY <1>1, <2>1, ConnectsBy
  <2>3. Settle(a) /\ net' = net \cup {[method |-> "connect", quote |-> trades[a][chosen[a]].best]}
    BY <2>2 DEF SendConnect
  <2> PICK b : b = trades[a][chosen[a]].best
    OBVIOUS
  <2>4. /\ chosen[a] \in Aliceid /\ ~trades[a][chosen[a]].connectsent
        /\ b.order.alice = a /\ b.order.coin = chosen[a]
    BY <1>1, <2>3, SettleEntry DEF Book, Table
  <2>5. ASSUME NEW m \in net, m.method = "connect", m.quote.order = b.order, Kept(b.order)'
        PROVE  FALSE
    <3>1. Kept(m.quote.order)
      <4>1. Onward
        BY Continues
      <4>2. m.quote.order \in Order /\ Kept(m.quote.order)'
        BY <2>5, NetTypes
      <4> QED BY <4>1, <4>2, KeptBefore
    <3>2. trades[a][m.quote.order.coin].connectsent
      BY <1>1, <2>4, <2>5, <3>1 DEF Book, Remembers
    <3> QED BY <2>4, <2>5, <3>2
  <2>6. \A m \in net' : m \in net \/ m = [method |-> "connect", quote |-> b]
    BY <2>3
  <2>7. ASSUME NEW m \in net, m.method = "connect",
               m.quote.order = m1.quote.order, b.order = m1.quote.order
        PROVE  FALSE
    BY <2>5, <2>7
  <2> QED BY <1>3, <2>6, <2>7
<1> QED BY <1>2, <1>3

(* Alice connects one quote of an order, however many Bobs answer, with    *)
(* however many coins and however late, while the order is kept.           *)
THEOREM OneBobPerOrder == Spec => []OneBob
<1>1. Init => OneBob
  BY DEF Init, OneBob
<1>2. TypeOK /\ Traced /\ Booked /\ OneBob /\ [Next]_vars => OneBob'
  BY StepOneBob, StepType
<1> QED BY <1>1, <1>2, BookHolds, InitTraced, StepTraced, TypeCorrect, PTL DEF Spec

(* No node starts two swaps for an order while it is kept.                 *)
THEOREM OrdersFilledOnce == Spec => []FilledOnce
<1>1. OneBob /\ FilledOrders => FilledOnce
  <2> SUFFICES ASSUME OneBob, FilledOrders, NEW n \in Node,
                      NEW i \in DOMAIN swaps[n], NEW j \in DOMAIN swaps[n],
                      swaps[n][i].quote.order = swaps[n][j].quote.order,
                      Kept(swaps[n][i].quote.order)
               PROVE  i = j
    BY DEF FilledOnce
  <2>1. OneConnect(swaps[n][i].quote.order)
    BY DEF OneConnect, OneBob
  <2> QED BY <2>1 DEF FilledOrders, Filling, Swapped
<1> QED BY <1>1, OneBobPerOrder, FillingHolds, PTL
====
