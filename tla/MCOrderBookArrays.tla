------------------------- MODULE MCOrderBookArrays -------------------------
(***************************************************************************)
(* A small instance of OrderBookArrays.                                    *)
(***************************************************************************)
EXTENDS OrderBookArrays

Resting(id, type, price, amount, timestamp) ==
  NewOrder([id |-> id, type |-> type, price |-> price, amount |-> amount,
            originalAmount |-> 0, timestamp |-> timestamp, status |-> "none"])

\* Sellers and buyers with every kind of tie: price, time, both.
Orders6 ==
  { Resting(1, "sell", 1, 1, 2),
    Resting(2, "sell", 2, 2, 1),
    Resting(3, "sell", 2, 1, 1),
    Resting(4, "buy", 2, 3, 2),
    Resting(5, "buy", 1, 1, 1),
    Resting(6, "buy", 1, 1, 1) }

\* States whose arrays are not in order: a peer's arrays are sorted by its own
\* code, and setState does not count on that.
UnsortedStates ==
  { [buyOrders  |-> <<>>,
     sellOrders |-> <<Resting(2, "sell", 2, 2, 1), Resting(3, "sell", 2, 1, 1),
                      Resting(1, "sell", 1, 1, 2)>>,
     matches    |-> <<>>],
    [buyOrders  |-> <<Resting(6, "buy", 1, 1, 1), Resting(5, "buy", 1, 1, 1)>>,
     sellOrders |-> <<>>,
     matches    |-> <<MakeMatch(Resting(4, "buy", 2, 3, 2), Resting(1, "sell", 1, 1, 2))>>] }
=============================================================================
