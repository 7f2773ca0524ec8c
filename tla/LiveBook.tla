------------------------------ MODULE LiveBook ------------------------------
(***************************************************************************)
(* What addOrder promises, one trade at a time, on a book that is looked   *)
(* at afresh before each trade: the taker trades with the order that comes *)
(* first among those that cross it now.  There are no candidates found     *)
(* beforehand, no clones, no skipped rounds and no removal by id; that the *)
(* code, which has all of these, behaves like this is what OrderBook's     *)
(* refinement of this module says.                                         *)
(*                                                                         *)
(* One thing the code does is kept, as this is its abstraction and not its *)
(* ideal: a resting order that is taken in part goes on offering all of    *)
(* its amount.                                                             *)
(***************************************************************************)
EXTENDS Naturals, Sequences

CONSTANTS
  Incoming,    \* the orders that may be submitted
  Snapshots,   \* the books that may replace this one
  MaxMatches   \* bound: no submission once the log holds this many trades

VARIABLES
  sides,  \* the resting buy and sell orders
  log,    \* the trades
  taker   \* the order that is trading

vars == <<sides, log, taker>>

NoTaker == [status |-> "none"]

-----------------------------------------------------------------------------
Live(o) == o.status \in {"open", "partially_filled"}

OtherSide(o) == IF o.type = "buy" THEN sides["sell"] ELSE sides["buy"]

\* The orders of the other side whose limit meets the taker's.
Crossing(o) ==
  {r \in OtherSide(o) : IF o.type = "buy" THEN r.price <= o.price
                                          ELSE o.price <= r.price}

\* The maker r comes before the maker q for the taker o.
ComesBefore(o, r, q) ==
  \/ IF o.type = "buy" THEN r.price < q.price ELSE q.price < r.price
  \/ r.price = q.price /\ r.timestamp < q.timestamp
  \/ r.price = q.price /\ r.timestamp = q.timestamp /\ r.id < q.id

Least(m, n) == IF m <= n THEN m ELSE n

\* What is left of an order when n of it has been traded.
Less(o, n) ==
  [o EXCEPT !.amount = @ - n,
            !.status = IF o.amount = n THEN "filled" ELSE "partially_filled"]

Party(o) == [id |-> o.id, price |-> o.price, originalAmount |-> o.originalAmount]

\* A trade is at the maker's price.
TradeOf(o, maker, n) ==
  [buyOrder  |-> Party(IF o.type = "buy" THEN o ELSE maker),
   sellOrder |-> Party(IF o.type = "buy" THEN maker ELSE o),
   matchedAmount |-> n, price |-> maker.price]

-----------------------------------------------------------------------------
Init ==
  /\ sides = [t \in {"buy", "sell"} |-> {}]
  /\ log = <<>>
  /\ taker = NoTaker

Submit(o) ==
  /\ taker = NoTaker
  /\ Len(log) < MaxMatches
  /\ Live(o)
  /\ \A r \in sides["buy"] \cup sides["sell"] : r.id # o.id
  /\ taker' = o
  /\ UNCHANGED <<sides, log>>

Trade ==
  /\ taker # NoTaker
  /\ Live(taker)
  /\ \E maker \in Crossing(taker) :
       LET n == Least(taker.amount, maker.amount)
       IN /\ \A r \in Crossing(taker) : r # maker => ComesBefore(taker, maker, r)
          /\ log' = Append(log, TradeOf(taker, maker, n))
          /\ taker' = Less(taker, n)
          /\ sides' = IF n = maker.amount
                        THEN [t \in {"buy", "sell"} |-> sides[t] \ {maker}]
                        ELSE sides

Settle ==
  /\ taker # NoTaker
  /\ Live(taker) => Crossing(taker) = {}
  /\ sides' = IF Live(taker)
                THEN [sides EXCEPT ![taker.type] = @ \cup {taker}]
                ELSE sides
  /\ taker' = NoTaker
  /\ UNCHANGED log

Withdraw(o) ==
  /\ taker = NoTaker
  /\ sides' = [t \in {"buy", "sell"} |-> {r \in sides[t] : r.id # o.id}]
  /\ UNCHANGED <<log, taker>>

Replace(s) ==
  /\ taker = NoTaker
  /\ sides' = s.sides
  /\ log' = s.matches
  /\ UNCHANGED taker

Next ==
  \/ \E o \in Incoming : Submit(o) \/ Withdraw(o)
  \/ Trade
  \/ Settle
  \/ \E s \in Snapshots : Replace(s)

Spec == Init /\ [][Next]_vars
=============================================================================
