----------------------------- MODULE MCHandlers -----------------------------
(***************************************************************************)
(* Small instances of Handlers.                                            *)
(***************************************************************************)
EXTENDS Handlers

An(id, type, price, amount) ==
  NewOrder([id |-> id, type |-> type, price |-> price, amount |-> amount,
            originalAmount |-> 0, timestamp |-> 1, status |-> "none"])

From(peer, action, data) == [clientId |-> peer, action |-> action, data |-> data]

Buy1 == An(1, "buy", 2, 1)
Sell2 == An(2, "sell", 2, 2)
Sell3 == An(3, "sell", 1, 2)

FilledBuy(id) == UpdateAfterMatch(An(id, "buy", 2, 1), 1)

\* What a peer has in its book after a match of the two.
Traded ==
  [buyOrders  |-> <<>>,
   sellOrders |-> <<UpdateAfterMatch(Sell3, 1)>>,
   matches    |-> <<MakeMatch(Buy1, Sell3)>>]

\* Lists that hold objects, and no legal book: a sell order among the buy orders,
\* one that cannot be parsed, a filled one, one with the id of another, and two
\* that cross.
Unlawful ==
  [buyOrders  |-> <<Buy1, An(4, "sell", 3, 1), [Buy1 EXCEPT !.price = 0], FilledBuy(2)>>,
   sellOrders |-> <<Sell2>>,
   matches    |-> <<>>]

\* Two orders that cross, one that was filled before it was sent, states of peers,
\* of which the first holds the id of an order, a cancellation, a match without one
\* of its orders, and what cannot be served.
Mixed ==
  << From("peer", "SUBMIT_ORDER", Buy1),
     From("peer", "SUBMIT_ORDER", Sell3),
     From("peer", "SUBMIT_ORDER", FilledBuy(5)),
     From("peer", "SYNC_ORDERBOOK", Traded),
     From("peer", "SYNC_ORDERBOOK", Unlawful),
     From("peer", "CANCEL_ORDER", [orderId |-> 2]),
     From("peer", "ANNOUNCE_MATCH", [buyOrder |-> Null, sellOrder |-> Sell2]),
     Malformed >>

\* A peer's state with a match, and a read.
SyncAndRead ==
  << From("peer", "SYNC_ORDERBOOK", Traded),
     From("peer", "SUBMIT_ORDER", Sell2),
     From("peer", "GET_ORDERBOOK", NoData) >>

EightRids == 1..8
ThreeRids == 1..3
=============================================================================
