---------------------------- MODULE MCOrderBook -----------------------------
(***************************************************************************)
(* Small instances of OrderBook.                                           *)
(***************************************************************************)
EXTENDS OrderBookRefinement

\* An order as a client creates it.
Resting(id, type, price, amount, timestamp) ==
  NewOrder([id |-> id, type |-> type, price |-> price, amount |-> amount,
            originalAmount |-> 0, timestamp |-> timestamp, status |-> "none"])

\* All shapes of order for three ids, two of them of one time and one of one unit.
Shapes ==
  { o \in { Resting(id, type, price, amount, IF id = 1 THEN 2 ELSE 1) :
              id \in 1..3, type \in OrderType, price \in 1..2, amount \in 1..2 } :
      o.id = 2 => o.amount = 1 }

\* An order that has been partly filled elsewhere.
PartlyFilled ==
  [Resting(3, "buy", 2, 1, 1) EXCEPT !.originalAmount = 2,
                                     !.status = "partially_filled"]

\* Orders that were filled or cancelled somewhere else.
DeadOrders ==
  { [Resting(7, "sell", 1, 0, 1) EXCEPT !.originalAmount = 1, !.status = "filled"],
    [Resting(8, "buy", 2, 1, 1) EXCEPT !.status = "cancelled"] }

AllIncoming == Shapes \cup {PartlyFilled} \cup DeadOrders

OneSell == {Resting(2, "sell", 2, 2, 1)}

\* Books another node may hold.
MarketSnapshots ==
  { EmptyBook,
    BookOf([t \in OrderType |-> IF t = "sell" THEN OneSell ELSE {}],
           <<MakeMatch(Resting(5, "buy", 1, 1, 1), Resting(1, "sell", 1, 1, 2))>>) }

NoSnapshots == {}

\* A seller and two buyers, each of whom wants some of it and together more.
PartialFills ==
  { Resting(1, "sell", 1, 3, 1), Resting(2, "buy", 1, 2, 1), Resting(3, "buy", 1, 2, 2) }

\* Each order is submitted once: none comes again after it was matched.
OnceNext ==
  Next /\ (Idle(book) /\ ~Idle(book') => Matched(book'.call.order.id) = 0)

OnceSpec == Init /\ [][OnceNext]_book
=============================================================================
