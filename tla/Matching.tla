------------------------------ MODULE Matching ------------------------------
(***************************************************************************)
(* The operations of the OrderBook class (src/src/models/OrderBook.ts) as  *)
(* operators on a book.  OrderBook and Exchange build their actions from   *)
(* them.                                                                   *)
(*                                                                         *)
(* A side is a set of orders: the code keeps it in an array that every     *)
(* operation leaves sorted by a total order on orders with different ids   *)
(* (Precedes), so the set determines the array.  The orders in a side are  *)
(* the objects of the book itself; the candidates of a call are clones of  *)
(* them, and what happens to a clone does not happen to the order it was   *)
(* made from.                                                              *)
(*                                                                         *)
(* addOrder is one synchronous call.  It is cut into BeginCall, one        *)
(* Iterate for every round of the matching loop and EndCall; the modules   *)
(* that use them let nothing else happen to the book in between.           *)
(***************************************************************************)
EXTENDS Orders, SequencesExt

\* sides[t] holds the orders of type t: buyOrders and sellOrders.
Sides == [OrderType -> SUBSET Order]

EmptySides == [t \in OrderType |-> {}]

\* What a match keeps of an order.  The code keeps the object; its amount and
\* status move on after the match and no code reads them there.
OrderRef == [id: Nat, price: Nat \ {0}, originalAmount: Nat \ {0}]

Ref(o) == [id |-> o.id, price |-> o.price, originalAmount |-> o.originalAmount]

Match == [buyOrder: OrderRef, sellOrder: OrderRef, matchedAmount: Nat, price: Nat]

\* What a list of matches adds up to, for the properties.
Filled(fills) == FoldLeft(LAMBDA sum, m : m.matchedAmount + sum, 0, fills)

\* The locals of addOrder: `remainingOrder' is the object `order' until it is
\* filled, so one record stands for both.  entryAmount is for the properties:
\* the amount the order came with.
Call ==
  [order: Order, candidates: SUBSET Order, fills: Seq(Match), entryAmount: Nat]

NoCall == [order |-> "none"]

Book == [sides: Sides, matches: Seq(Match), call: Call \cup {NoCall}]

EmptyBook == [sides |-> EmptySides, matches |-> <<>>, call |-> NoCall]

Idle(book) == book.call = NoCall

-----------------------------------------------------------------------------
(***************************************************************************)
(* The comparator of the four sorts: best price first, then the oldest     *)
(* timestamp, then the smallest id.                                        *)
(***************************************************************************)
BetterPrice(t, p, q) == IF t = "buy" THEN p > q ELSE p < q

\* Precedes with a bug: price, then id.
PrecedesWithoutTime(a, b) ==
  \/ BetterPrice(a.type, a.price, b.price)
  \/ a.price = b.price /\ a.id < b.id

Precedes(a, b) ==
  \/ BetterPrice(a.type, a.price, b.price)
  \/ /\ a.price = b.price
     /\ \/ a.timestamp < b.timestamp
        \/ a.timestamp = b.timestamp /\ a.id < b.id

-----------------------------------------------------------------------------
\* findOrderById.
InBook(sides, id) == \E t \in OrderType : \E o \in sides[t] : o.id = id

\* removeOrder on one side.
RemoveOrder(side, id) == {o \in side : o.id # id}

\* findMatchingOrders: clones of the resting orders that cross the incoming one.
FindMatchingOrders(sides, o) ==
  {Clone(r) : r \in {x \in sides[Opposite(o.type)] : CanMatchWith(x, o)}}

MatchAmount(o, c) == IF o.amount <= c.amount THEN o.amount ELSE c.amount

\* MakeMatch with a bug: the price is that of the whole fill.
MakeMatchAtTotal(o, c) ==
  LET buy  == IF o.type = "buy" THEN o ELSE c
      sell == IF o.type = "buy" THEN c ELSE o
  IN [buyOrder |-> Ref(buy), sellOrder |-> Ref(sell),
      matchedAmount |-> MatchAmount(o, c), price |-> c.price * MatchAmount(o, c)]

\* The match of incoming order o with candidate c, at the candidate's price.
MakeMatch(o, c) ==
  LET buy  == IF o.type = "buy" THEN o ELSE c
      sell == IF o.type = "buy" THEN c ELSE o
  IN [buyOrder |-> Ref(buy), sellOrder |-> Ref(sell),
      matchedAmount |-> MatchAmount(o, c), price |-> c.price]

\* isValidMatch: a match that fails this is skipped.
IsValidMatch(m, o, c) ==
  /\ o.type # c.type
  /\ m.matchedAmount > 0
  /\ m.matchedAmount <= o.amount
  /\ m.matchedAmount <= c.amount
  /\ m.price > 0
  /\ m.sellOrder.price <= m.buyOrder.price

\* SideAfterFill with two bugs: a filled order stays, and every matched one leaves.
SideAsItWas(side, c, filled) == side
SideWithoutMatched(side, c, filled) == RemoveOrder(side, c.id)

\* The resting side after the clone of a resting order took a fill: the order
\* leaves when its clone is filled, and is untouched when it is not.
SideAfterFill(side, c, filled) ==
  IF UpdateAfterMatch(c, filled).status = "filled"
    THEN RemoveOrder(side, c.id)
    ELSE side

\* The end of addOrder: what is left of the incoming order joins its side.
SidesAfterRest(sides, o) ==
  IF IsActive(o) THEN [sides EXCEPT ![o.type] = @ \cup {o}] ELSE sides

\* SidesAfterCancel with a bug: a cancelled order stays in its side.
SidesKeepingCancelled(sides, id) ==
  [t \in OrderType |->
     {IF o.id = id THEN [o EXCEPT !.status = "cancelled"] ELSE o : o \in sides[t]}]

\* cancelOrder looks among the buy orders first.
SidesAfterCancel(sides, id) ==
  IF \E o \in sides["buy"] : o.id = id
    THEN [sides EXCEPT !["buy"] = RemoveOrder(@, id)]
    ELSE [sides EXCEPT !["sell"] = RemoveOrder(@, id)]

-----------------------------------------------------------------------------
\* Accepts with a bug: no duplicate check.
AcceptsAnyId(book, o) == IsActive(o)

\* The checks at the head of addOrder: what it does not throw on.
Accepts(book, o) == IsActive(o) /\ ~InBook(book.sides, o.id)

\* addOrder, up to its loop.
BeginCall(book, o) ==
  [sides   |-> book.sides,
   matches |-> book.matches,
   call    |-> [order |-> o, candidates |-> FindMatchingOrders(book.sides, o),
                fills |-> <<>>, entryAmount |-> o.amount]]

\* The candidate c is what the sorted array yields to the next round.
Looping(call, c) ==
  /\ IsActive(call.order)
  /\ c \in call.candidates
  /\ \A d \in call.candidates : d # c => Precedes(c, d)

\* Fill with a bug: the incoming order is reduced by all the candidate offers.
FillByOffer(book, c, m) ==
  LET call == book.call
      t    == Opposite(call.order.type)
  IN [sides   |-> [book.sides EXCEPT ![t] = SideAfterFill(@, c, m.matchedAmount)],
      matches |-> Append(book.matches, m),
      call    |-> [order       |-> UpdateAfterMatch(call.order, c.amount),
                   candidates  |-> call.candidates \ {c},
                   fills       |-> Append(call.fills, m),
                   entryAmount |-> call.entryAmount]]

\* A round that makes the match m ...
Fill(book, c, m) ==
  LET call == book.call
      t    == Opposite(call.order.type)
  IN [sides   |-> [book.sides EXCEPT ![t] = SideAfterFill(@, c, m.matchedAmount)],
      matches |-> Append(book.matches, m),
      call    |-> [order       |-> UpdateAfterMatch(call.order, m.matchedAmount),
                   candidates  |-> call.candidates \ {c},
                   fills       |-> Append(call.fills, m),
                   entryAmount |-> call.entryAmount]]

\* ... and one that skips the candidate.
Skip(book, c) ==
  [sides   |-> book.sides,
   matches |-> book.matches,
   call    |-> [order       |-> book.call.order,
                candidates  |-> book.call.candidates \ {c},
                fills       |-> book.call.fills,
                entryAmount |-> book.call.entryAmount]]

Iterate(book, c) ==
  LET o == book.call.order
      m == MakeMatch(o, c)
  IN IF IsActive(c) /\ IsValidMatch(m, o, c) THEN Fill(book, c, m) ELSE Skip(book, c)

\* LoopDone with a bug: no break when the order is filled.
LoopExhausted(call) == call.candidates = {}

LoopDone(call) == call.candidates = {} \/ ~IsActive(call.order)

\* The end of addOrder.
EndCall(book) ==
  [sides   |-> SidesAfterRest(book.sides, book.call.order),
   matches |-> book.matches,
   call    |-> NoCall]

\* cancelOrder.  A resting order is never a filled one, so cancel never throws;
\* the book keeps no trace of the order.
WithoutOrder(book, id) ==
  [sides   |-> SidesAfterCancel(book.sides, id),
   matches |-> book.matches,
   call    |-> book.call]

\* setState replaces everything.
BookOf(sides, matches) == [sides |-> sides, matches |-> matches, call |-> NoCall]

-----------------------------------------------------------------------------
\* The orders of a book: each on its side, open for trade, with one id each,
\* and no buyer willing to pay what a seller asks.
ActiveOnTheirSide(s) ==
  \A t \in OrderType : \A o \in s[t] :
    /\ o.type = t
    /\ o.status \in {"open", "partially_filled"}
    /\ 0 < o.amount /\ o.amount <= o.originalAmount

UniqueIds(s) ==
  \A t, u \in OrderType : \A o \in s[t], p \in s[u] : o.id = p.id => o = p

Uncrossed(s) ==
  \A b \in s["buy"], a \in s["sell"] : b.price < a.price

LegalSides(s) == ActiveOnTheirSide(s) /\ UniqueIds(s) /\ Uncrossed(s)

\* The parties of a match trade within their limits, and not more than either
\* order was for.
WithinLimits(m) ==
  /\ m.sellOrder.price <= m.price
  /\ m.price <= m.buyOrder.price
  /\ m.matchedAmount > 0
  /\ m.matchedAmount <= m.buyOrder.originalAmount
  /\ m.matchedAmount <= m.sellOrder.originalAmount

FairLog(matches) == \A i \in DOMAIN matches : WithinLimits(matches[i])

\* What an addOrder call knows in its loop.  Its order is not resting; the
\* candidates it has not visited still rest and still cross it; and as long as
\* it wants more, every resting order it crosses is one of them.
CallLegal(sides, call) ==
  LET o        == call.order
      opposite == Opposite(o.type)
  IN /\ ~InBook(sides, o.id)
     /\ o.amount <= o.originalAmount
     /\ IsActive(o) => o.amount > 0
     /\ call.candidates \subseteq sides[opposite]
     /\ \A c \in call.candidates : \/ BetterPrice(o.type, o.price, c.price)
                                   \/ o.price = c.price
     /\ IsActive(o) =>
          \A r \in sides[opposite] : CanMatchWith(r, o) => r \in call.candidates

\* All of it: what every operation finds and what it leaves behind.
LegalBook(book) ==
  /\ book \in Book
  /\ LegalSides(book.sides)
  /\ FairLog(book.matches)
  /\ ~Idle(book) => CallLegal(book.sides, book.call)
=============================================================================
