----------------------------- MODULE BookArrays -----------------------------
(***************************************************************************)
(* The order book on the arrays the code keeps (OrderBook.ts): orders are  *)
(* pushed and then sorted into place, found by index and spliced out, and  *)
(* a call walks a sorted array of clones.  This module holds the           *)
(* operations; they ask nothing of the orders in the arrays.               *)
(* OrderBookArrays compares them with OrderBook, which says what they      *)
(* amount to on sets of orders, and Handlers runs them in a server, which  *)
(* takes whatever state it is sent.                                        *)
(***************************************************************************)
EXTENDS Matching, Ranking

VARIABLES
  buyOrders, sellOrders, matches,   \* the arrays of the book
  call                              \* the locals of addOrder

bookVars == <<buyOrders, sellOrders, matches, call>>

NotCalled == [order |-> "none"]

Called == call # NotCalled

-----------------------------------------------------------------------------
\* The comparator of the sort of side t.  It does not look at the type of the
\* orders, which may be in the wrong array.
PrecedesOn(t, a, b) == Precedes([a EXCEPT !.type = t], [b EXCEPT !.type = t])

\* The orders at the given positions, sorted; the sort of the language is stable.
SortedAt(t, orders, positions) ==
  LET before == {p \in positions \X positions :
                   LET a == orders[p[1]]
                       b == orders[p[2]]
                   IN PrecedesOn(t, a, b) \/ (p[1] < p[2] /\ ~PrecedesOn(t, b, a))}
      line == Ranked(positions, before)
  IN [n \in 1..Cardinality(positions) |-> orders[line[n]]]

\* Sorted with a bug: by price only, so orders at one price stay as they came.
SortedByPrice(t, orders) ==
  SortSeq(orders, LAMBDA a, b : BetterPrice(t, a.price, b.price))

\* sortBuyOrders and sortSellOrders.
Sorted(t, orders) == SortedAt(t, orders, DOMAIN orders)

\* findIndex by id; 0 for the code's -1.
IndexOf(orders, id) ==
  IF \E i \in DOMAIN orders : orders[i].id = id
    THEN CHOOSE i \in DOMAIN orders :
           orders[i].id = id /\ \A j \in 1..(i - 1) : orders[j].id # id
    ELSE 0

\* Spliced with a bug: the one before it goes.
SplicedBefore(orders, id) ==
  LET i == IndexOf(orders, id) IN IF i <= 1 THEN orders ELSE RemoveAt(orders, i - 1)

\* removeOrder.
Spliced(orders, id) ==
  LET i == IndexOf(orders, id) IN IF i = 0 THEN orders ELSE RemoveAt(orders, i)

\* FindOrderById with a bug: only one side is searched.
FindAmongBuyOrders(id) == IndexOf(buyOrders, id) # 0

\* findOrderById finds an order.
FindOrderById(id) == IndexOf(buyOrders, id) # 0 \/ IndexOf(sellOrders, id) # 0

Others(o) == IF o.type = "buy" THEN sellOrders ELSE buyOrders

\* findMatchingOrders, and the sort of the clones it makes.
MatchingOrders(o) ==
  SortedAt(Opposite(o.type),
           [i \in DOMAIN Others(o) |-> Clone(Others(o)[i])],
           {i \in DOMAIN Others(o) : CanMatchWith(Others(o)[i], o)})

-----------------------------------------------------------------------------
\* A new book.
EmptyArrays ==
  /\ buyOrders = <<>>
  /\ sellOrders = <<>>
  /\ matches = <<>>
  /\ call = NotCalled

AddOrder(o) ==
  /\ ~Called
  /\ IsActive(o)
  /\ ~FindOrderById(o.id)
  /\ call' = [order |-> o, matchingOrders |-> MatchingOrders(o), round |-> 1, matches |-> <<>>]
  /\ UNCHANGED <<buyOrders, sellOrders, matches>>

InLoop ==
  /\ Called
  /\ call.round <= Len(call.matchingOrders)
  /\ IsActive(call.order)

\* A round: the next candidate is matched, and leaves its array when its clone
\* is filled; or it is skipped.
MatchNext ==
  LET o == call.order
      c == call.matchingOrders[call.round]
      m == MakeMatch(o, c)
      filled == UpdateAfterMatch(c, m.matchedAmount).status = "filled"
  IN /\ InLoop
     /\ IF IsActive(c) /\ IsValidMatch(m, o, c)
          THEN /\ matches' = Append(matches, m)
               /\ sellOrders' = IF filled /\ o.type = "buy" THEN Spliced(sellOrders, c.id)
                                                            ELSE sellOrders
               /\ buyOrders' = IF filled /\ o.type = "sell" THEN Spliced(buyOrders, c.id)
                                                            ELSE buyOrders
               /\ call' = [call EXCEPT !.order = UpdateAfterMatch(o, m.matchedAmount),
                                       !.round = @ + 1,
                                       !.matches = Append(@, m)]
          ELSE /\ call' = [call EXCEPT !.round = @ + 1]
               /\ UNCHANGED <<buyOrders, sellOrders, matches>>

\* After the loop the rest of the order is pushed, and both arrays sorted.
Return ==
  LET o == call.order
      pushed(type, orders) ==
        IF IsActive(o) /\ o.type = type THEN Append(orders, o) ELSE orders
  IN /\ Called
     /\ ~InLoop
     /\ buyOrders' = Sorted("buy", pushed("buy", buyOrders))
     /\ sellOrders' = Sorted("sell", pushed("sell", sellOrders))
     /\ call' = NotCalled
     /\ UNCHANGED matches

\* CancelOrder with a bug: both sides lose an order with the id.
CancelOnBothSides(id) ==
  /\ ~Called
  /\ buyOrders' = Spliced(buyOrders, id)
  /\ sellOrders' = Spliced(sellOrders, id)
  /\ UNCHANGED <<matches, call>>

\* cancelOrder: what is found is taken out before cancel is called on it.  The
\* sell orders are searched only when no buy order has the id.
CancelOrder(id) ==
  /\ ~Called
  /\ buyOrders' = Spliced(buyOrders, id)
  /\ sellOrders' = IF IndexOf(buyOrders, id) = 0 THEN Spliced(sellOrders, id)
                                                 ELSE sellOrders
  /\ UNCHANGED <<matches, call>>

\* The order that cancelOrder finds.
ToCancel(id) ==
  IF IndexOf(buyOrders, id) # 0 THEN buyOrders[IndexOf(buyOrders, id)]
                                ELSE sellOrders[IndexOf(sellOrders, id)]

SetState(s) ==
  /\ ~Called
  /\ buyOrders' = Sorted("buy", s.buyOrders)
  /\ sellOrders' = Sorted("sell", s.sellOrders)
  /\ matches' = s.matches
  /\ UNCHANGED call

-----------------------------------------------------------------------------
\* Each order comes before those at later positions.
InOrder(orders) == \A i, j \in DOMAIN orders : i < j => Precedes(orders[i], orders[j])

\* Both arrays are in price-time order at every moment, whatever was pushed,
\* spliced out or installed: a reader of the state sees the best order first,
\* and no two orders stand in one place of that order.
ArraysSorted == InOrder(buyOrders) /\ InOrder(sellOrders)

SidesOf(buy, sell) == [t \in OrderType |-> ToSet(IF t = "buy" THEN buy ELSE sell)]

\* What is left of the array of clones are the candidates; what a call came with
\* is what it has filled and still asks for.
CallOf(c) ==
  [order       |-> c.order,
   candidates  |-> ToSet(SubSeq(c.matchingOrders, c.round, Len(c.matchingOrders))),
   fills       |-> c.matches,
   entryAmount |-> c.order.amount + Filled(c.matches)]

\* The book as OrderBook sees it.
TheBook ==
  [sides   |-> SidesOf(buyOrders, sellOrders),
   matches |-> matches,
   call    |-> IF Called THEN CallOf(call) ELSE NoCall]

\* A state that holds the orders of some legal book, each once, in any order.
OncePerId(orders) ==
  \A i, j \in DOMAIN orders : orders[i].id = orders[j].id => i = j

LegalState(s) ==
  /\ OncePerId(s.buyOrders) /\ OncePerId(s.sellOrders)
  /\ LegalSides(SidesOf(s.buyOrders, s.sellOrders))
  /\ FairLog(s.matches)
=============================================================================
