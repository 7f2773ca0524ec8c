----------------------------- MODULE OrderBook ------------------------------
(***************************************************************************)
(* One order book (src/src/models/OrderBook.ts) under any sequence of      *)
(* calls of addOrder, cancelOrder and setState.  The matching loop of      *)
(* addOrder takes one step per round; no other operation runs while a call *)
(* is in progress, as nothing in the class gives up the thread.            *)
(***************************************************************************)
EXTENDS Matching

CONSTANTS
  Incoming,    \* the orders callers may submit; an order may come again
  Snapshots,   \* the states setState may be given: those of another book
  MaxMatches   \* bound: no submission once the log holds this many matches

VARIABLE book  \* buyOrders, sellOrders and matches, and the call in progress

-----------------------------------------------------------------------------
\* A submitted order passed the Order constructor; what it still asks for is at
\* most what it was created for.
ASSUME IncomingAssumption ==
  \A o \in Incoming : /\ o \in Order
                      /\ ValidInputs(o)
                      /\ o.amount <= o.originalAmount

\* A snapshot is the state of some book.
ASSUME SnapshotAssumption ==
  \A s \in Snapshots : /\ s \in Book
                       /\ \A t \in OrderType : IsFiniteSet(s.sides[t])
                       /\ Idle(s)
                       /\ LegalSides(s.sides)
                       /\ FairLog(s.matches)

ASSUME MaxMatchesAssumption == MaxMatches \in Nat

-----------------------------------------------------------------------------
Init == book = EmptyBook

\* An order that is not accepted throws and leaves the book as it was.
AddOrder(o) ==
  /\ Idle(book)
  /\ Len(book.matches) < MaxMatches
  /\ Accepts(book, o)
  /\ book' = BeginCall(book, o)

MatchNext ==
  /\ ~Idle(book)
  /\ \E c \in book.call.candidates :
       Looping(book.call, c) /\ book' = Iterate(book, c)

Return ==
  /\ ~Idle(book)
  /\ LoopDone(book.call)
  /\ book' = EndCall(book)

CancelOrder(id) ==
  /\ Idle(book)
  /\ InBook(book.sides, id)
  /\ book' = WithoutOrder(book, id)

SetState(s) ==
  /\ Idle(book)
  /\ book' = BookOf(s.sides, s.matches)

Next ==
  \/ \E o \in Incoming : AddOrder(o)
  \/ MatchNext
  \/ Return
  \/ \E o \in Incoming : CancelOrder(o.id)
  \/ \E s \in Snapshots : SetState(s)

Spec == Init /\ [][Next]_book

\* A call runs to its end once it has begun.
FairSpec == Spec /\ WF_book(MatchNext) /\ WF_book(Return)

-----------------------------------------------------------------------------
\* The book and the locals of the call have the types of the code.
TypeOK == book \in Book

\* A buyer and a seller whose limits meet never rest in the book together: the
\* remainder of an order is pushed only when nothing it crosses is left, though
\* the loop works on clones taken before it.
BookUncrossed == Uncrossed(book.sides)

\* No order rests twice, on one side or on both: the duplicate check of
\* addOrder, removal by id and setState together keep ids unique.
BookUniqueIds == UniqueIds(book.sides)

\* Only orders still open for trade rest, each on the side of its type, so
\* cancel never throws on an order taken from the book.
BookActive == ActiveOnTheirSide(book.sides)

\* Every match in the log is one both parties agreed to: at a price within
\* both limits, for a positive amount, not above what either asked for.
MatchesFair == FairLog(book.matches)

\* The call in progress works on clones taken before its first match; what it
\* knows of the book stays true while it changes the book (CallLegal).
CallConsistent == ~Idle(book) => CallLegal(book.sides, book.call)

\* Price-time priority (README, Features): every match is made with an order of
\* the other side such that no order resting there has a better price for the
\* incoming one, or the same price and an earlier timestamp; and at that order's
\* price, whatever was filled before in the same call.
PriceTimePriority ==
  [][~Idle(book) /\ book.matches' # book.matches =>
       LET o    == book.call.order
           side == book.sides[Opposite(o.type)]
           m    == Last(book.matches')
       IN \E best \in side :
            /\ Ref(best) = IF o.type = "buy" THEN m.sellOrder ELSE m.buyOrder
            /\ m.price = best.price
            /\ \A r \in side :
                 /\ IF o.type = "buy" THEN best.price <= r.price
                                      ELSE best.price >= r.price
                 /\ r.price = best.price => best.timestamp <= r.timestamp
    ]_book

\* A call leaves the resting orders alone except those it fills whole: an order
\* that leaves the book during a call is in the match just logged, for all the
\* amount it offered.
LeavesOnlyWhenFilled ==
  [][~Idle(book) => \A t \in OrderType : \A r \in book.sides[t] \ book.sides'[t] :
       /\ book.matches' # book.matches
       /\ LET m == Last(book.matches')
          IN /\ m.matchedAmount = r.amount
             /\ r.id \in {m.buyOrder.id, m.sellOrder.id}
    ]_book

\* Nothing of the incoming order is lost or made up: what the call has matched
\* so far and what it still asks for are the amount it came with.
FillsConserve ==
  ~Idle(book) =>
    Filled(book.call.fills) + book.call.order.amount = book.call.entryAmount

\* An id's total over the log.
Matched(id) ==
  Filled(SelectSeq(book.matches, LAMBDA m : id \in {m.buyOrder.id, m.sellOrder.id}))

\* "Filled amount exceeds available amount" is an error in Order.ts: an order is
\* not matched for more than it was created for.  The matches an order of the book
\* has been in are together for at most its original amount.
NeverOverfilled ==
  \A t \in OrderType : \A o \in book.sides[t] : Matched(o.id) <= o.originalAmount

\* addOrder returns: every round takes one candidate out.
CallReturns == ~Idle(book) ~> Idle(book)
=============================================================================
