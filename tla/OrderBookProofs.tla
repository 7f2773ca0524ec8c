-------------------------- MODULE OrderBookProofs ---------------------------
(***************************************************************************)
(* One order book, for every set of incoming orders, every set of          *)
(* snapshots and every bound on the log: its safety, that no amount is     *)
(* lost, and that it implements LiveBook and AtomicBook.                   *)
(*                                                                         *)
(* The inductive invariant is LegalBook.  That the book is uncrossed is    *)
(* not inductive by itself: what EndCall pushes must cross nothing, which  *)
(* only CallLegal knows, and CallLegal in its turn needs unique ids (a     *)
(* removal by id takes out the filled candidate alone) and active resting  *)
(* orders (a round is never a skip).                                       *)
(***************************************************************************)
EXTENDS OrderBookRefinement, MatchingProofs

\* The book starts empty.
LEMMA InitLegal == Init => LegalBook(book)
<1> SUFFICES ASSUME Init PROVE LegalBook(book)
  OBVIOUS
<1>1. /\ book.sides = [t \in OrderType |-> {}] /\ book.matches = <<>>
      /\ book.call = NoCall
  BY DEF Init, EmptyBook, EmptySides
<1>2. book \in Book
  BY DEF Init, EmptyBook, EmptySides, Book, Sides
<1>3. LegalSides(book.sides)
  BY <1>1 DEF LegalSides, ActiveOnTheirSide, UniqueIds, Uncrossed, OrderType
<1>4. FairLog(book.matches) /\ Idle(book)
  BY <1>1 DEF FairLog, Idle
<1>5. QED
  BY <1>2, <1>3, <1>4 DEF LegalBook

\* A snapshot of a legal book is a legal book.
LEMMA SnapshotLegal ==
  ASSUME NEW s \in Snapshots
  PROVE  LegalBook(BookOf(s.sides, s.matches))
<1> DEFINE b == BookOf(s.sides, s.matches)
<1>1. s \in Book /\ LegalSides(s.sides) /\ FairLog(s.matches)
  BY SnapshotAssumption
<1>2. s.sides \in Sides /\ s.matches \in Seq(Match)
  BY <1>1, BookParts
<1>3. b = [sides |-> s.sides, matches |-> s.matches, call |-> NoCall]
  BY DEF BookOf
<1>4. b \in Book
  BY <1>2, <1>3 DEF Book
<1>5. QED
  BY <1>1, <1>3, <1>4 DEF LegalBook, Idle

\* Every operation leaves a legal book a legal book.
LEMMA NextLegal == LegalBook(book) /\ [Next]_book => LegalBook(book)'
<1> SUFFICES ASSUME LegalBook(book), [Next]_book
             PROVE  LegalBook(book')
  BY DEF LegalBook
<1>1. ASSUME NEW o \in Incoming, AddOrder(o) PROVE LegalBook(book')
  <2>1. o \in Order /\ ValidInputs(o) /\ o.amount <= o.originalAmount
    BY IncomingAssumption
  <2>2. Idle(book) /\ Accepts(book, o) /\ book' = BeginCall(book, o)
    BY <1>1 DEF AddOrder
  <2>3. QED
    BY <2>1, <2>2, BeginLegal
<1>2. CASE MatchNext
  <2>1. ~Idle(book)
    BY <1>2 DEF MatchNext
  <2>2. PICK c \in book.call.candidates :
          Looping(book.call, c) /\ book' = Iterate(book, c)
    BY <1>2 DEF MatchNext
  <2>3. QED
    BY <2>1, <2>2, IterateLegal
<1>3. CASE Return
  BY <1>3, EndLegal DEF Return
<1>4. ASSUME NEW o \in Incoming, CancelOrder(o.id) PROVE LegalBook(book')
  BY <1>4, CancelLegal DEF CancelOrder
<1>5. ASSUME NEW s \in Snapshots, SetState(s) PROVE LegalBook(book')
  BY <1>5, SnapshotLegal DEF SetState
<1>6. CASE book' = book
  BY <1>6
<1>7. QED
  BY <1>1, <1>2, <1>3, <1>4, <1>5, <1>6 DEF Next

\* The book is legal in every reachable state, in the middle of a call too.
THEOREM AlwaysLegal == Spec => []LegalBook(book)
<1>1. Init => LegalBook(book)
  BY InitLegal
<1>2. LegalBook(book) /\ [Next]_book => LegalBook(book)'
  BY NextLegal
<1>3. QED
  BY <1>1, <1>2, PTL DEF Spec

\* The book and the locals of addOrder keep their types.
THEOREM TypeCorrect == Spec => []TypeOK
BY AlwaysLegal, PTL DEF LegalBook, TypeOK

\* No buyer and seller whose limits meet rest together, at any moment.
THEOREM NeverCrossed == Spec => []BookUncrossed
<1>1. LegalBook(book) => BookUncrossed
  BY DEF LegalBook, LegalSides, BookUncrossed
<1>2. QED
  BY <1>1, AlwaysLegal, PTL

\* No order rests twice, on one side or on both: what the duplicate check of
\* addOrder finds, removal by id keeps.
THEOREM OneOrderPerId == Spec => []BookUniqueIds
<1>1. LegalBook(book) => BookUniqueIds
  BY DEF LegalBook, LegalSides, BookUniqueIds
<1>2. QED
  BY <1>1, AlwaysLegal, PTL

\* What rests is open for trade and stands on the side of its type, so cancel
\* never throws on an order that cancelOrder has just taken out of the book.
THEOREM OnlyOpenOrdersRest == Spec => []BookActive
<1>1. LegalBook(book) => BookActive
  BY DEF LegalBook, LegalSides, BookActive
<1>2. QED
  BY <1>1, AlwaysLegal, PTL

\* Every logged match was within what both parties agreed to.
THEOREM MatchesAlwaysFair == Spec => []MatchesFair
<1>1. LegalBook(book) => MatchesFair
  BY DEF LegalBook, MatchesFair
<1>2. QED
  BY <1>1, AlwaysLegal, PTL

\* The clones a call works on stay what they were cloned from.
THEOREM ClonesStayCurrent == Spec => []CallConsistent
<1>1. LegalBook(book) => CallConsistent
  BY DEF LegalBook, CallConsistent
<1>2. QED
  BY <1>1, AlwaysLegal, PTL

-----------------------------------------------------------------------------
(* Action properties.                                                      *)

\* The log changes, or a resting order leaves, during a call only in a round
\* of its loop, and the round is a fill.
LEMMA CallStep ==
  ASSUME LegalBook(book), Next, ~Idle(book),
         \/ book'.matches # book.matches
         \/ \E t \in OrderType : book.sides[t] \ book'.sides[t] # {}
  PROVE  \E c : Looping(book.call, c) /\ book' = Iterate(book, c)
<1>1. ASSUME Return PROVE FALSE
  <2>1. book' = EndCall(book)
    BY <1>1 DEF Return
  <2>2. /\ book'.matches = book.matches
        /\ book'.sides = SidesAfterRest(book.sides, book.call.order)
    BY <2>1 DEF EndCall
  <2>3. book.sides \in Sides /\ book.call.order \in Order
    BY BookParts DEF LegalBook
  <2>4. \A t \in OrderType : book.sides[t] \subseteq book'.sides[t]
    BY <2>2, <2>3 DEF SidesAfterRest, Sides, Order
  <2>5. QED
    BY <2>2, <2>4
<1>2. ~(\E o \in Incoming : AddOrder(o) \/ CancelOrder(o.id))
  BY DEF AddOrder, CancelOrder
<1>3. ~(\E s \in Snapshots : SetState(s))
  BY DEF SetState
<1>4. MatchNext
  BY <1>1, <1>2, <1>3 DEF Next
<1>5. QED
  BY <1>4 DEF MatchNext

\* What a round does to a legal book.
LEMMA RoundEffect ==
  ASSUME LegalBook(book), ~Idle(book), NEW c, Looping(book.call, c),
         book' = Iterate(book, c)
  PROVE  LET o == book.call.order
             m == MakeMatch(o, c)
             t == Opposite(o.type)
         IN /\ book'.matches = Append(book.matches, m)
            /\ book'.sides = [book.sides EXCEPT ![t] = SideAfterFill(@, c, MatchAmount(o, c))]
            /\ Last(book'.matches) = m
            /\ book'.matches # book.matches
<1> DEFINE m == MakeMatch(book.call.order, c)
<1>1. /\ m \in Match /\ Iterate(book, c) = Fill(book, c, m)
      /\ m.matchedAmount = MatchAmount(book.call.order, c)
  BY RoundIsAFill
<1>2. book.matches \in Seq(Match)
  BY BookParts DEF LegalBook
<1>3. /\ book'.matches = Append(book.matches, m)
      /\ book'.sides = [book.sides EXCEPT ![Opposite(book.call.order.type)] =
                          SideAfterFill(@, c, m.matchedAmount)]
  BY <1>1 DEF Fill
<1>4. Last(Append(book.matches, m)) = m /\ Append(book.matches, m) # book.matches
  BY <1>1, <1>2 DEF Last
<1>5. QED
  BY <1>1, <1>3, <1>4

\* Price-time priority, whatever the call has filled before.
THEOREM Priority == Spec => PriceTimePriority
<1> DEFINE A == ~Idle(book) /\ book.matches' # book.matches =>
                  LET o    == book.call.order
                      side == book.sides[Opposite(o.type)]
                      m    == Last(book.matches')
                  IN \E best \in side :
                       /\ Ref(best) = IF o.type = "buy" THEN m.sellOrder ELSE m.buyOrder
                       /\ m.price = best.price
                       /\ \A r \in side :
                            /\ IF o.type = "buy" THEN best.price <= r.price
                                                 ELSE best.price >= r.price
                            /\ r.price = best.price => best.timestamp <= r.timestamp
<1>1. LegalBook(book) /\ [Next]_book => [A]_book
  <2> SUFFICES ASSUME LegalBook(book), Next, ~Idle(book),
                      book'.matches # book.matches
               PROVE  A
    OBVIOUS
  <2> DEFINE o == book.call.order
             m == Last(book'.matches)
             side == book.sides[Opposite(o.type)]
  <2>1. PICK c : Looping(book.call, c) /\ book' = Iterate(book, c)
    BY CallStep
  <2>2. m = MakeMatch(o, c)
    BY <2>1, RoundEffect
  <2>3. c \in side /\ c \in Order /\ c.type = Opposite(o.type) /\ m.price = c.price
    BY <2>1, <2>2, RoundIsAFill
  <2>4. /\ o \in Order /\ CallLegal(book.sides, book.call)
        /\ \A t \in OrderType : book.sides[t] \subseteq Order
        /\ ActiveOnTheirSide(book.sides)
    BY BookParts DEF LegalBook, LegalSides
  <2>5. o.type \in {"buy", "sell"} /\ IsActive(o) /\ Opposite(o.type) \in OrderType
    BY <2>1, <2>4 DEF Order, OrderType, Looping, Opposite
  <2>6. Ref(c) = IF o.type = "buy" THEN m.sellOrder ELSE m.buyOrder
    BY <2>2, <2>5 DEF MakeMatch
  <2>7. ASSUME NEW r \in side
        PROVE  /\ IF o.type = "buy" THEN c.price <= r.price ELSE c.price >= r.price
               /\ r.price = c.price => c.timestamp <= r.timestamp
    <3>1. /\ r \in Order /\ r.type = Opposite(o.type) /\ IsActive(r)
          /\ r.price \in Nat /\ c.price \in Nat /\ o.price \in Nat
          /\ r.timestamp \in Nat /\ c.timestamp \in Nat
      BY <2>3, <2>4, <2>5 DEF ActiveOnTheirSide, IsActive, Order
    <3>2. CASE r \in book.call.candidates
      <4>1. r = c \/ Precedes(c, r)
        BY <2>1, <3>2 DEF Looping
      <4>2. QED
        BY <2>3, <2>5, <3>1, <4>1 DEF Precedes, BetterPrice, Opposite
    <3>3. CASE r \notin book.call.candidates
      <4>1. ~CanMatchWith(r, o)
        BY <2>4, <2>5, <3>3 DEF CallLegal
      <4>2. BetterPrice(o.type, o.price, c.price) \/ o.price = c.price
        BY <2>1, <2>4 DEF CallLegal, Looping
      <4>3. QED
        BY <2>5, <3>1, <4>1, <4>2 DEF CanMatchWith, PricesCross, BetterPrice, Opposite
    <3>4. QED
      BY <3>2, <3>3
  <2>8. QED
    BY <2>3, <2>6, <2>7
<1>2. QED
  BY <1>1, AlwaysLegal, PTL DEF Spec, PriceTimePriority

\* A resting order leaves during a call only if the match just logged takes all
\* that it offered.
THEOREM OnlyFilledOrdersLeave == Spec => LeavesOnlyWhenFilled
<1> DEFINE A == ~Idle(book) => \A t \in OrderType : \A r \in book.sides[t] \ book.sides'[t] :
                  /\ book.matches' # book.matches
                  /\ LET m == Last(book.matches')
                     IN /\ m.matchedAmount = r.amount
                        /\ r.id \in {m.buyOrder.id, m.sellOrder.id}
<1>1. LegalBook(book) /\ [Next]_book => [A]_book
  <2> SUFFICES ASSUME LegalBook(book), Next, ~Idle(book),
                      NEW t \in OrderType, NEW r \in book.sides[t] \ book'.sides[t]
               PROVE  LET m == Last(book'.matches)
                      IN /\ book'.matches # book.matches
                         /\ m.matchedAmount = r.amount
                         /\ r.id \in {m.buyOrder.id, m.sellOrder.id}
    OBVIOUS
  <2> DEFINE o == book.call.order
             m == Last(book'.matches)
  <2>1. PICK c : Looping(book.call, c) /\ book' = Iterate(book, c)
    BY CallStep
  <2> DEFINE n == MatchAmount(o, c)
             u == Opposite(o.type)
  <2>2. /\ book'.matches # book.matches /\ m = MakeMatch(o, c)
        /\ book'.sides = [book.sides EXCEPT ![u] = SideAfterFill(@, c, n)]
    BY <2>1, RoundEffect
  <2>3. /\ c \in book.sides[u] /\ c \in Order /\ m.matchedAmount = n
        /\ n \in Nat /\ ValidFilledAmount(c, n) /\ c.amount <= c.originalAmount
    BY <2>1, <2>2, RoundIsAFill
  <2>4. /\ book.sides \in Sides /\ u \in OrderType /\ UniqueIds(book.sides)
    BY BookParts DEF LegalBook, LegalSides, Opposite, OrderType
  <2>5. t = u /\ r \in book.sides[u] /\ r \notin SideAfterFill(book.sides[u], c, n)
    BY <2>2, <2>4 DEF Sides
  <2>6. r.id = c.id /\ UpdateAfterMatch(c, n).status = "filled"
    BY <2>5 DEF SideAfterFill, RemoveOrder
  <2>7. r = c
    BY <2>3, <2>4, <2>5, <2>6 DEF UniqueIds
  <2>8. /\ UpdateAfterMatch(c, n).amount = c.amount - n
        /\ UpdateAfterMatch(c, n).amount # 0 =>
             UpdateAfterMatch(c, n).status = "partially_filled"
    BY <2>3, UpdateAfterMatchType
  <2>9. c.amount \in Nat
    BY <2>3 DEF Order
  <2>10. n = c.amount
    BY <2>3, <2>6, <2>8, <2>9
  <2>11. c.id \in {m.buyOrder.id, m.sellOrder.id}
    BY <2>2 DEF MakeMatch, Ref
  <2>12. QED
    BY <2>2, <2>3, <2>7, <2>10, <2>11
<1>2. QED
  BY <1>1, AlwaysLegal, PTL DEF Spec, LeavesOnlyWhenFilled

-----------------------------------------------------------------------------
(* Conservation.  FillsConserve is inductive together with LegalBook, from *)
(* which a round takes that its match is within what the order asks for.   *)

LEMMA NextConserves ==
  LegalBook(book) /\ FillsConserve /\ [Next]_book => FillsConserve'
<1> SUFFICES ASSUME LegalBook(book), FillsConserve, [Next]_book, ~Idle(book')
             PROVE  Conserves(book'.call)
  BY DEF FillsConserve, Conserves, Idle
<1>1. ASSUME NEW o \in Incoming, AddOrder(o) PROVE Conserves(book'.call)
  BY <1>1, BeginConserves, IncomingAssumption DEF AddOrder
<1>2. CASE MatchNext
  <2>1. PICK c : Looping(book.call, c) /\ book' = Iterate(book, c)
    BY <1>2 DEF MatchNext
  <2>2. ~Idle(book) /\ Conserves(book.call)
    BY <1>2 DEF MatchNext, FillsConserve, Conserves
  <2>3. QED
    BY <2>1, <2>2, IterateConserves
<1>3. CASE Return
  BY <1>3, EndLegal DEF Return
<1>4. ASSUME NEW o \in Incoming, CancelOrder(o.id) PROVE FALSE
  BY <1>4 DEF CancelOrder, WithoutOrder, Idle
<1>5. ASSUME NEW s \in Snapshots, SetState(s) PROVE FALSE
  BY <1>5 DEF SetState, BookOf, Idle
<1>6. CASE book' = book
  BY <1>6 DEF FillsConserve, Conserves
<1>7. QED
  BY <1>1, <1>2, <1>3, <1>4, <1>5, <1>6 DEF Next

\* What a call has matched and what it still asks for are together what its
\* order came with, round by round.
THEOREM NothingLost == Spec => []FillsConserve
<1>1. Init => FillsConserve
  BY DEF Init, EmptyBook, Idle, FillsConserve
<1>2. QED
  BY <1>1, NextConserves, AlwaysLegal, PTL DEF Spec

-----------------------------------------------------------------------------
(* The order book implements LiveBook.                                     *)
(*                                                                         *)
(* A round of the code's loop takes the first of its remaining candidates; *)
(* LiveBook takes the first of the orders that cross now.  They are the    *)
(* same because the candidates are exactly these orders as long as the     *)
(* incoming order is active (CallLegal, in both directions).  The code     *)
(* removes by id, LiveBook removes the maker: the same as ids are unique.  *)

\* In a call whose order is active, the candidates are the orders that cross
\* it in the book as it stands.
LEMMA CandidatesCross ==
  ASSUME LegalBook(book), ~Idle(book), IsActive(book.call.order)
  PROVE  /\ Live!Crossing(Taker) = book.call.candidates
         /\ Live!OtherSide(Taker) = book.sides[Opposite(Taker.type)]
         /\ Taker = book.call.order
<1> DEFINE o == book.call.order
           side == book.sides[Opposite(o.type)]
<1>1. Taker = o
  BY DEF Taker
<1>2. /\ o \in Order /\ CallLegal(book.sides, book.call)
      /\ \A t \in OrderType : book.sides[t] \subseteq Order
      /\ ActiveOnTheirSide(book.sides)
  BY BookParts DEF LegalBook, LegalSides
<1>3. o.type \in {"buy", "sell"} /\ Opposite(o.type) \in OrderType
  BY <1>2 DEF Order, OrderType, Opposite
<1>4. Live!OtherSide(o) = side
  BY <1>3 DEF Live!OtherSide, Opposite
<1>5. ASSUME NEW r \in side
      PROVE  r \in book.call.candidates <=>
               IF o.type = "buy" THEN r.price <= o.price ELSE o.price <= r.price
  <2>1. /\ r \in Order /\ r.type = Opposite(o.type) /\ IsActive(r)
        /\ r.price \in Nat /\ o.price \in Nat
    BY <1>2, <1>3 DEF ActiveOnTheirSide, IsActive, Order
  <2>2. r \in book.call.candidates =>
          BetterPrice(o.type, o.price, r.price) \/ o.price = r.price
    BY <1>2 DEF CallLegal
  <2>3. CanMatchWith(r, o) => r \in book.call.candidates
    BY <1>2 DEF CallLegal
  <2>4. QED
    BY <1>3, <2>1, <2>2, <2>3 DEF CanMatchWith, PricesCross, BetterPrice, Opposite
<1>6. book.call.candidates \subseteq side
  BY <1>2 DEF CallLegal
<1>7. QED
  BY <1>1, <1>4, <1>5, <1>6 DEF Live!Crossing

\* What updateAfterMatch leaves of an order is what LiveBook leaves of it.
LEMMA LessIsUpdate ==
  ASSUME NEW o \in Order, NEW n \in Nat, ValidFilledAmount(o, n),
         o.amount <= o.originalAmount
  PROVE  UpdateAfterMatch(o, n) = Live!Less(o, n)
<1> DEFINE r == [o EXCEPT !.amount = o.amount - n]
<1>1. o.amount \in Nat /\ o.originalAmount \in Nat /\ n > 0 /\ n <= o.amount
  BY DEF Order, ValidFilledAmount
<1>2. r.amount = o.amount - n /\ r.originalAmount = o.originalAmount
  BY DEF Order
<1>3. (r.amount = 0 <=> o.amount = n) /\ r.amount < r.originalAmount
  BY <1>1, <1>2
<1>4. UpdateAfterMatch(o, n)
        = [r EXCEPT !.status = IF o.amount = n THEN "filled" ELSE "partially_filled"]
  BY <1>3 DEF UpdateAfterMatch, UpdateStatus
<1>5. QED
  BY <1>4 DEF Live!Less, Order

\* A round of the loop is a trade.
LEMMA RoundIsATrade ==
  ASSUME LegalBook(book), ~Idle(book), NEW c, Looping(book.call, c),
         book' = Iterate(book, c)
  PROVE  Live!Trade
<1> DEFINE o == book.call.order
           n == MatchAmount(o, c)
           m == MakeMatch(o, c)
           t == Opposite(o.type)
<1>1. IsActive(o) /\ c \in book.call.candidates
      /\ \A d \in book.call.candidates : d # c => Precedes(c, d)
  BY DEF Looping
<1>2. /\ Live!Crossing(Taker) = book.call.candidates
      /\ Live!OtherSide(Taker) = book.sides[t]
      /\ Taker = o
  BY <1>1, CandidatesCross
<1>3. /\ c \in book.sides[t] /\ c \in Order /\ c.type = t
      /\ m.matchedAmount = n /\ n \in Nat
      /\ ValidFilledAmount(o, n) /\ ValidFilledAmount(c, n)
      /\ o.amount <= o.originalAmount /\ c.amount <= c.originalAmount
      /\ Iterate(book, c) = Fill(book, c, m)
  BY RoundIsAFill
<1>4. /\ o \in Order /\ book.sides \in Sides /\ UniqueIds(book.sides)
      /\ ActiveOnTheirSide(book.sides)
      /\ \A x \in OrderType : book.sides[x] \subseteq Order
      /\ book.call.candidates \subseteq book.sides[t]
  BY BookParts DEF LegalBook, LegalSides, CallLegal
<1>5. /\ o.type \in {"buy", "sell"} /\ t \in OrderType
      /\ o.amount \in Nat /\ c.amount \in Nat
      /\ o.type = "buy" => t = "sell"
      /\ o.type = "sell" => t = "buy"
  BY <1>3, <1>4 DEF Order, OrderType, Opposite
<1>6. Live!Live(Taker) /\ Taker # Live!NoTaker
  BY <1>1, <1>2, <1>4 DEF Live!Live, Live!NoTaker, IsActive, Order, OrderStatus
<1>7. n = Live!Least(o.amount, c.amount)
  BY DEF MatchAmount, Live!Least
<1>8. ASSUME NEW r \in Live!Crossing(Taker), r # c
      PROVE  Live!ComesBefore(Taker, c, r)
  <2>1. Precedes(c, r)
    BY <1>1, <1>2, <1>8
  <2>2. QED
    BY <1>2, <1>3, <1>5, <2>1 DEF Precedes, BetterPrice, Live!ComesBefore
<1>9. book'.matches = Append(book.matches, Live!TradeOf(Taker, c, n))
  <2>1. m = Live!TradeOf(Taker, c, n)
    BY <1>2, <1>5 DEF MakeMatch, Live!TradeOf, Live!Party, Ref
  <2>2. QED
    BY <1>3, <2>1 DEF Fill
<1>10. Taker' = Live!Less(Taker, n)
  <2>1. book'.call.order = UpdateAfterMatch(o, n) /\ ~Idle(book')
    <3>1. book'.call = [order       |-> UpdateAfterMatch(o, n),
                        candidates  |-> book.call.candidates \ {c},
                        fills       |-> Append(book.call.fills, m),
                        entryAmount |-> book.call.entryAmount]
      BY <1>3 DEF Fill
    <3>2. book'.call # NoCall
      BY <3>1 DEF NoCall
    <3>3. QED
      BY <3>1, <3>2 DEF Idle
  <2>2. UpdateAfterMatch(o, n) = Live!Less(o, n)
    BY <1>3, <1>4, LessIsUpdate
  <2>3. QED
    BY <1>2, <2>1, <2>2 DEF Taker
<1>11. book'.sides = IF n = c.amount
                       THEN [x \in {"buy", "sell"} |-> book.sides[x] \ {c}]
                       ELSE book.sides
  <2>1. book'.sides = [book.sides EXCEPT ![t] = SideAfterFill(@, c, n)]
    BY <1>3 DEF Fill
  <2>2. \A x \in book.sides[t] : x.id = c.id => x = c
    BY <1>3, <1>4, <1>5 DEF UniqueIds
  <2>3. c \notin book.sides[o.type]
    BY <1>3, <1>4, <1>5 DEF ActiveOnTheirSide, OrderType
  <2>4. /\ UpdateAfterMatch(c, n).amount = c.amount - n
        /\ UpdateAfterMatch(c, n).amount = 0 =>
             UpdateAfterMatch(c, n).status = "filled"
        /\ UpdateAfterMatch(c, n).amount # 0 =>
             UpdateAfterMatch(c, n).status = "partially_filled"
    BY <1>3, UpdateAfterMatchType
  <2>5. UpdateAfterMatch(c, n).status = "filled" <=> n = c.amount
    BY <1>3, <1>5, <2>4
  <2>6. RemoveOrder(book.sides[t], c.id) = book.sides[t] \ {c}
    BY <2>2 DEF RemoveOrder
  <2>7. book'.sides = IF n = c.amount
                        THEN [book.sides EXCEPT ![t] = book.sides[t] \ {c}]
                        ELSE [book.sides EXCEPT ![t] = book.sides[t]]
    BY <2>1, <2>5, <2>6 DEF SideAfterFill
  <2>8. DOMAIN book.sides = {"buy", "sell"} /\ book.sides = [x \in {"buy", "sell"} |-> book.sides[x]]
    BY <1>4 DEF Sides, OrderType
  <2>9. book.sides[o.type] \ {c} = book.sides[o.type]
    BY <2>3
  <2>10. \A x \in {"buy", "sell"} : x # t => x = o.type
    BY <1>5
  <2>11. [book.sides EXCEPT ![t] = book.sides[t] \ {c}]
           = [x \in {"buy", "sell"} |-> book.sides[x] \ {c}]
    BY <2>8, <2>9, <2>10
  <2>12. [book.sides EXCEPT ![t] = book.sides[t]] = book.sides
    BY <2>8
  <2>13. QED
    BY <2>7, <2>11, <2>12
<1>12. QED
  BY <1>1, <1>2, <1>6, <1>7, <1>8, <1>9, <1>10, <1>11 DEF Live!Trade

\* cancelOrder takes out the order of an id, on whichever side it rests.
LEMMA CancelTakesOut ==
  ASSUME NEW b, LegalBook(b), NEW id
  PROVE  SidesAfterCancel(b.sides, id)
           = [t \in {"buy", "sell"} |-> {r \in b.sides[t] : r.id # id}]
<1> DEFINE s == b.sides
           rest == [t \in {"buy", "sell"} |-> {r \in s[t] : r.id # id}]
<1>1. s \in Sides /\ DOMAIN s = {"buy", "sell"}
  BY BookParts DEF LegalBook, Sides, OrderType
<1>2. \A p \in s["buy"], q \in s["sell"] : p.id = q.id => p = q
  BY DEF LegalBook, LegalSides, UniqueIds, OrderType
<1>3. \A p \in s["buy"], q \in s["sell"] : p # q
  BY DEF LegalBook, LegalSides, ActiveOnTheirSide, OrderType
<1>4. CASE \E p \in s["buy"] : p.id = id
  <2>1. \A q \in s["sell"] : q.id # id
    BY <1>2, <1>3, <1>4
  <2>2. {r \in s["sell"] : r.id # id} = s["sell"]
    BY <2>1
  <2>3. SidesAfterCancel(s, id) = [s EXCEPT !["buy"] = {r \in s["buy"] : r.id # id}]
    BY <1>4 DEF SidesAfterCancel, RemoveOrder
  <2>4. QED
    BY <1>1, <2>2, <2>3 DEF Sides, OrderType
<1>5. CASE ~\E p \in s["buy"] : p.id = id
  <2>1. {r \in s["buy"] : r.id # id} = s["buy"]
    BY <1>5
  <2>2. SidesAfterCancel(s, id) = [s EXCEPT !["sell"] = {r \in s["sell"] : r.id # id}]
    BY <1>5 DEF SidesAfterCancel, RemoveOrder
  <2>3. QED
    BY <1>1, <2>1, <2>2 DEF Sides, OrderType
<1>6. QED
  BY <1>4, <1>5

\* Every step of the book is a step of LiveBook, or changes nothing there.
LEMMA NextIsLive ==
  LegalBook(book) /\ LegalBook(book)' /\ [Next]_book => [Live!Next]_<<book.sides, book.matches, Taker>>
<1> SUFFICES ASSUME LegalBook(book), LegalBook(book'), Next
             PROVE  Live!Next \/ UNCHANGED <<book.sides, book.matches, Taker>>
  BY DEF Taker, Idle
<1>1. Idle(book) => Taker = Live!NoTaker
  BY DEF Taker, Live!NoTaker
<1>2. book.sides \in Sides /\ book'.sides \in Sides
  BY BookParts DEF LegalBook
<1>3. ASSUME NEW o \in Incoming, AddOrder(o) PROVE Live!Submit(o)
  <2>1. /\ Idle(book) /\ Len(book.matches) < MaxMatches /\ Accepts(book, o)
        /\ book' = BeginCall(book, o)
    BY <1>3 DEF AddOrder
  <2>2. book'.sides = book.sides /\ book'.matches = book.matches /\ book'.call.order = o
    BY <2>1 DEF BeginCall
  <2>3. ~Idle(book')
    BY <2>1 DEF BeginCall, Idle, NoCall
  <2>4. Taker' = o
    BY <2>2, <2>3 DEF Taker
  <2>5. QED
    BY <1>1, <2>1, <2>2, <2>4 DEF Live!Submit, Live!Live, Accepts, IsActive, InBook, OrderType
<1>4. CASE MatchNext
  <2>1. PICK c \in book.call.candidates :
          Looping(book.call, c) /\ book' = Iterate(book, c)
    BY <1>4 DEF MatchNext
  <2>2. Live!Trade
    BY <1>4, <2>1, RoundIsATrade DEF MatchNext
  <2>3. QED
    BY <2>2 DEF Live!Next
<1>5. CASE Return
  <2> DEFINE o == book.call.order
  <2>1. /\ ~Idle(book) /\ LoopDone(book.call) /\ book' = EndCall(book)
        /\ Taker = o /\ o \in Order
    BY <1>5, BookParts DEF Return, Taker, LegalBook
  <2>2. /\ book'.sides = SidesAfterRest(book.sides, o)
        /\ book'.matches = book.matches /\ Idle(book')
    BY <2>1 DEF EndCall, Idle
  <2>3. Taker' = Live!NoTaker
    BY <2>2 DEF Taker, Live!NoTaker
  <2>4. Live!Live(o) <=> IsActive(o)
    BY DEF Live!Live, IsActive
  <2>5. Live!Live(Taker) => Live!Crossing(Taker) = {}
    BY <2>1, <2>4, CandidatesCross DEF LoopDone
  <2>6. Taker # Live!NoTaker
    BY <2>1 DEF Live!NoTaker, Order, OrderStatus
  <2>7. Live!Settle
    BY <2>1, <2>2, <2>3, <2>4, <2>5, <2>6 DEF Live!Settle, SidesAfterRest
  <2>8. QED
    BY <2>7 DEF Live!Next
<1>6. ASSUME NEW o \in Incoming, CancelOrder(o.id) PROVE Live!Withdraw(o)
  <2>1. /\ Idle(book) /\ book' = WithoutOrder(book, o.id)
    BY <1>6 DEF CancelOrder
  <2>2. /\ book'.sides = SidesAfterCancel(book.sides, o.id)
        /\ book'.matches = book.matches /\ book'.call = book.call
    BY <2>1 DEF WithoutOrder
  <2>3. book'.sides = [t \in {"buy", "sell"} |-> {r \in book.sides[t] : r.id # o.id}]
    BY <2>2, CancelTakesOut
  <2>4. Taker' = Taker
    BY <2>2 DEF Taker, Idle
  <2>5. QED
    BY <1>1, <2>1, <2>2, <2>3, <2>4 DEF Live!Withdraw
<1>7. ASSUME NEW s \in Snapshots, SetState(s) PROVE Live!Replace(s)
  <2>1. Idle(book) /\ book' = BookOf(s.sides, s.matches)
    BY <1>7 DEF SetState
  <2>2. /\ book'.sides = s.sides /\ book'.matches = s.matches /\ Idle(book')
    BY <2>1 DEF BookOf, Idle
  <2>3. QED
    BY <1>1, <2>1, <2>2 DEF Live!Replace, Taker
<1>8. QED
  BY <1>3, <1>4, <1>5, <1>6, <1>7 DEF Next, Live!Next

\* The loop over clones implements matching against the live book.
THEOREM TradesAgainstLiveBook == Spec => LiveBookSpec
<1>1. Init => Live!Init
  BY DEF Init, EmptyBook, EmptySides, OrderType, Idle, Taker, Live!Init, Live!NoTaker
<1>2. LegalBook(book) /\ LegalBook(book)' /\ [Next]_book
        => [Live!Next]_<<book.sides, book.matches, Taker>>
  BY NextIsLive
<1>3. QED
  BY <1>1, <1>2, AlwaysLegal, PTL DEF Spec, LiveBookSpec, Live!Spec, Live!vars

-----------------------------------------------------------------------------
(* The order book implements AtomicBook.                                   *)
(*                                                                         *)
(* What is still to come of a call is what AtomicCall makes of its order   *)
(* and the book as they stand.  So a round of the loop has to keep the     *)
(* whole: the first in the queue is traded with, and every other order in  *)
(* the queue then has as much less ahead of it as the incoming order asks  *)
(* less (FirstUsedUp), or is no longer reached (FirstEnough).              *)

\* The total of a set of orders is the sum of their amounts.
LEMMA TotalIsSum ==
  ASSUME NEW S \in SUBSET Order, IsFiniteSet(S)
  PROVE  LET W == [r \in S |-> r.amount]
         IN /\ W \in [S -> Nat]
            /\ \E f, c : Chooses(c, S) /\ IsSum(f, S, W, c) /\ Total(S) = f[S]
<1> DEFINE W == [r \in S |-> r.amount]
           first(s) == CHOOSE r \in s : TRUE
           c == [s \in SUBSET S |-> first(s)]
           Step(f) == [s \in SUBSET S |->
                         IF s = {} THEN 0 ELSE first(s).amount + f[s \ {first(s)}]]
           iter == CHOOSE f : f = Step(f)
<1>1. W \in [S -> Nat]
  BY DEF Order
<1>2. \A s \in SUBSET S : s # {} => first(s) \in s
  OBVIOUS
<1> HIDE DEF first
<1>3. Chooses(c, S)
  BY <1>2 DEF Chooses
<1>4. ASSUME NEW f PROVE IsSum(f, S, W, c) <=> f = Step(f)
  <2>1. [s \in SUBSET S |-> IF s = {} THEN 0 ELSE W[c[s]] + f[s \ {c[s]}]] = Step(f)
    BY <1>2
  <2> HIDE DEF Step
  <2>2. QED
    BY <2>1 DEF IsSum
<1>5. \E f : f = Step(f)
  <2> HIDE DEF W, c, Step
  <2>1. \E f : IsSum(f, S, W, c)
    BY <1>1, <1>3, SumExists
  <2>2. QED
    BY <1>4, <2>1
<1>6. IsSum(iter, S, W, c)
  <2>1. iter = Step(iter)
    BY <1>5
  <2> HIDE DEF iter
  <2>2. QED
    BY <1>4, <2>1
<1>7. Total(S) = iter[S]
  BY DEF Total, FoldSet, MapThenFoldSet, first
<1>8. QED
  BY <1>1, <1>3, <1>6, <1>7

\* Any order of the set may be taken out first.
LEMMA TotalRemove ==
  ASSUME NEW S \in SUBSET Order, IsFiniteSet(S)
  PROVE  /\ Total(S) \in Nat
         /\ S = {} => Total(S) = 0
         /\ \A r \in S : Total(S) = r.amount + Total(S \ {r})
<1> DEFINE W == [r \in S |-> r.amount]
<1>1. W \in [S -> Nat] /\ \E f, c : Chooses(c, S) /\ IsSum(f, S, W, c) /\ Total(S) = f[S]
  BY TotalIsSum
<1>2. ASSUME NEW r \in S PROVE Total(S) = r.amount + Total(S \ {r})
  <2> DEFINE T == S \ {r}
             V == [q \in T |-> q.amount]
  <2>1. T \in SUBSET Order /\ IsFiniteSet(T)
    BY FS_Subset
  <2>2. V \in [T -> Nat] /\ \E f, c : Chooses(c, T) /\ IsSum(f, T, V, c) /\ Total(T) = f[T]
    BY <2>1, TotalIsSum
  <2>3. W[r] = r.amount /\ T \in SUBSET S /\ \A q \in T : W[q] = V[q]
    OBVIOUS
  <2> HIDE DEF W, V, T
  <2>4. PICK f, c : Chooses(c, S) /\ IsSum(f, S, W, c) /\ Total(S) = f[S]
    BY <1>1
  <2>5. PICK g, d : Chooses(d, T) /\ IsSum(g, T, V, d) /\ Total(T) = g[T]
    BY <2>2
  <2>6. f[S] = W[r] + f[S \ {r}]
    BY <1>1, <2>4, SumRemove
  <2>7. f[T] = g[T]
    BY <1>1, <2>1, <2>2, <2>3, <2>4, <2>5, SumsAgree
  <2>8. QED
    BY <2>3, <2>4, <2>5, <2>6, <2>7 DEF T
<1> HIDE DEF W
<1>3. PICK f, c : Chooses(c, S) /\ IsSum(f, S, W, c) /\ Total(S) = f[S]
  BY <1>1
<1>4. Total(S) \in Nat
  BY <1>1, <1>3, SumRemove
<1>5. S = {} => Total(S) = 0
  BY <1>3, SumEmpty
<1>6. QED
  BY <1>2, <1>4, <1>5

\* Some orders that wait on one side.
Waiting(Q, t) ==
  /\ Q \in SUBSET Order /\ IsFiniteSet(Q)
  /\ \A r \in Q : r.type = t /\ r.amount > 0
  /\ \A r, q \in Q : r.id = q.id => r = q

\* They stand in one line.
LEMMA WaitingInLine ==
  ASSUME NEW t \in OrderType, NEW Q, Waiting(Q, t)
  PROVE  /\ LinesUp(BeforeIn(Q), Q)
         /\ \A r, q \in Q : StandsBefore(r, q) <=> Precedes(r, q)
         /\ \A r, q \in Q : <<r, q>> \in BeforeIn(Q) <=> StandsBefore(r, q)
<1>1. \A r, q \in Q : <<r, q>> \in BeforeIn(Q) <=> StandsBefore(r, q)
  BY DEF BeforeIn
<1>2. \A r, q \in Q : StandsBefore(r, q) <=> Precedes(r, q)
  <2>1. \A r \in Q : r.price \in Nat /\ r.timestamp \in Nat /\ r.id \in Nat /\ r.type = t
    BY DEF Waiting, Order
  <2>2. t = "buy" \/ t = "sell"
    BY DEF OrderType
  <2>3. QED
    BY <2>1, <2>2 DEF StandsBefore, Precedes, BetterPrice
<1>3. /\ \A a \in Q : ~Precedes(a, a)
      /\ \A a, b \in Q : a # b => Precedes(a, b) \/ Precedes(b, a)
      /\ \A a, b, c \in Q : Precedes(a, b) /\ Precedes(b, c) => Precedes(a, c)
  BY PrecedesOrders DEF Waiting
<1>4. LinesUp(BeforeIn(Q), Q)
  BY <1>1, <1>2, <1>3 DEF LinesUp
<1>5. QED
  BY <1>1, <1>2, <1>4

\* c stands first of all in Q ...
FirstIn(Q, c) == c \in Q /\ \A r \in Q : r # c => StandsBefore(c, r)

\* ... so that without it the others have as much less ahead of them as it offers.
MovesUp(Q, c) ==
  /\ Total(Q) \in Nat /\ Total(Q \ {c}) \in Nat
  /\ Total(Q) = c.amount + Total(Q \ {c})
  /\ Total(Before(Q, c)) = 0
  /\ \A r \in Q \ {c} :
       /\ Total(Before(Q \ {c}, r)) \in Nat
       /\ Total(Before(Q, r)) = c.amount + Total(Before(Q \ {c}, r))

LEMMA AheadOfOthers ==
  ASSUME NEW t \in OrderType, NEW Q, Waiting(Q, t), NEW c, FirstIn(Q, c)
  PROVE  Waiting(Q \ {c}, t) /\ MovesUp(Q, c)
<1> c \in Q /\ \A r \in Q : r # c => StandsBefore(c, r)
  BY DEF FirstIn
<1>1. /\ Q \in SUBSET Order /\ IsFiniteSet(Q)
      /\ \A T \in SUBSET Q : T \in SUBSET Order /\ IsFiniteSet(T)
  BY FS_Subset DEF Waiting
<1>2. \A T \in SUBSET Q : /\ Total(T) \in Nat /\ (T = {} => Total(T) = 0)
                          /\ \A r \in T : Total(T) = r.amount + Total(T \ {r})
  BY <1>1, TotalRemove
<1>3. Waiting(Q \ {c}, t)
  BY <1>1 DEF Waiting
<1>4. /\ \A r \in Q : ~StandsBefore(r, r)
      /\ \A r, q \in Q : StandsBefore(r, q) => ~StandsBefore(q, r)
  BY WaitingInLine DEF LinesUp
<1>5. Before(Q, c) = {}
  BY <1>4 DEF Before
<1>6. ASSUME NEW r \in Q \ {c}
      PROVE  /\ Total(Before(Q \ {c}, r)) \in Nat
             /\ Total(Before(Q, r))
                  = c.amount + Total(Before(Q \ {c}, r))
  <2> DEFINE A == Before(Q, r)
             B == Before(Q \ {c}, r)
  <2>1. c \in A /\ B = A \ {c} /\ A \in SUBSET Q /\ B \in SUBSET Q
    BY DEF Before
  <2> HIDE DEF A, B
  <2>2. Total(B) \in Nat /\ Total(A) = c.amount + Total(B)
    BY <1>2, <2>1
  <2>3. QED
    BY <2>2 DEF A, B
<1>7. Q \ {c} \in SUBSET Q /\ {} \in SUBSET Q
  OBVIOUS
<1>8. QED
  BY <1>2, <1>3, <1>5, <1>6, <1>7 DEF MovesUp

\* Of an order that asks for nothing, and of an empty queue, nothing comes.
LEMMA NothingTraded ==
  ASSUME NEW t \in OrderType, NEW s, NEW o, o.amount \in Nat,
         Waiting(Queue(s, o), t), o.amount = 0 \/ Queue(s, o) = {}
  PROVE  /\ Reached(s, o) = {} /\ UsedUp(s, o) = {} /\ Trades(s, o) = <<>>
         /\ Total(Queue(s, o)) < o.amount <=> o.amount # 0
<1> DEFINE Q == Queue(s, o)
<1>1. \A T \in SUBSET Q : Total(T) \in Nat /\ (T = {} => Total(T) = 0)
  <2>1. \A T \in SUBSET Q : T \in SUBSET Order /\ IsFiniteSet(T)
    BY FS_Subset DEF Waiting
  <2>2. QED
    BY <2>1, TotalRemove
<1>2. \A r \in Q : r.amount \in Nat /\ r.amount > 0 /\ Ahead(s, o, r) \in Nat
  <2>1. \A r \in Q : Before(Q, r) \in SUBSET Q
    BY DEF Before
  <2>2. \A r \in Q : Ahead(s, o, r) \in Nat
    BY <1>1, <2>1 DEF Ahead
  <2>3. QED
    BY <2>2 DEF Waiting, Order
<1>3. Reached(s, o) = {} /\ UsedUp(s, o) = {}
  BY <1>2 DEF Reached, UsedUp
<1>4. Total(Q) \in Nat /\ (Q = {} => Total(Q) = 0)
  BY <1>1
<1>5. Total(Q) < o.amount <=> o.amount # 0
  BY <1>4
<1>6. Trades(s, o) = <<>>
  <2> DEFINE queue == Ranked({}, BeforeIn({}))
  <2>1. DOMAIN queue = {}
    <3>1. Cardinality({}) = 0
      BY FS_EmptySet
    <3>2. DOMAIN queue = 1..0
      BY <3>1 DEF Ranked
    <3>3. QED
      BY <3>2
  <2> HIDE DEF queue
  <2>2. QED
    BY <1>3, <2>1 DEF Trades, queue
<1>7. QED
  BY <1>3, <1>5, <1>6

\* A part of those who wait waits.
LEMMA SomeWait ==
  ASSUME NEW t \in OrderType, NEW Q, Waiting(Q, t), NEW T \in SUBSET Q
  PROVE  Waiting(T, t)
BY FS_Subset DEF Waiting

\* What an order takes from those it reaches is at most what it asks for.
LEMMA TakenNat ==
  ASSUME NEW t \in OrderType, NEW s, NEW o \in Order, Waiting(Queue(s, o), t),
         NEW r \in Reached(s, o)
  PROVE  Taken(s, o, r) \in Nat
<1>1. r \in Order /\ r.amount \in Nat /\ o.amount \in Nat
  BY DEF Waiting, Reached, Order
<1>2. Before(Queue(s, o), r) \in SUBSET Queue(s, o)
  BY DEF Before
<1>3. Ahead(s, o, r) \in Nat
  BY <1>2, SomeWait, TotalRemove DEF Ahead, Waiting
<1>4. Ahead(s, o, r) < o.amount
  BY DEF Reached
<1>5. QED
  BY <1>1, <1>3, <1>4 DEF Taken

\* o, and then o1, which reaches the same but for the first, c.
GoesOn(s, o, c, s1, o1) ==
  /\ FirstIn(Reached(s, o), c)
  /\ Reached(s1, o1) = Reached(s, o) \ {c}
  /\ \A r \in Reached(s1, o1) : Taken(s1, o1, r) = Taken(s, o, r)
  /\ o1.type = o.type /\ Party(o1) = Party(o)

\* The first trade, and then those of an order that asks for the rest.
LEMMA FirstTrade ==
  ASSUME NEW t \in OrderType, NEW s, NEW o \in Order, Waiting(Queue(s, o), t),
         NEW s1, NEW o1 \in Order, Waiting(Queue(s1, o1), t),
         NEW c, GoesOn(s, o, c, s1, o1), NEW log \in Seq(Match)
  PROVE  /\ TradeWith(s, o, c) \in Match
         /\ log \o Trades(s, o) = Append(log, TradeWith(s, o, c)) \o Trades(s1, o1)
<1> /\ c \in Reached(s, o) /\ \A r \in Reached(s, o) : r # c => StandsBefore(c, r)
    /\ Reached(s1, o1) = Reached(s, o) \ {c}
    /\ \A r \in Reached(s1, o1) : Taken(s1, o1, r) = Taken(s, o, r)
    /\ o1.type = o.type /\ Party(o1) = Party(o)
  BY DEF GoesOn, FirstIn
<1> DEFINE X == Reached(s, o)
           X1 == Reached(s1, o1)
           queue == Ranked(X, BeforeIn(X))
           queue1 == Ranked(X1, BeforeIn(X1))
           n == Cardinality(X1)
           m == TradeWith(s, o, c)
           T == Trades(s, o)
           T1 == Trades(s1, o1)
<1>1. Waiting(X, t) /\ Waiting(X1, t)
  BY SomeWait DEF Reached
<1>2. /\ n \in Nat
      /\ DOMAIN queue = 1..(n + 1) /\ DOMAIN queue1 = 1..n
      /\ queue[1] = c
      /\ \A i \in 1..n : queue[i + 1] = queue1[i] /\ queue1[i] \in X1
  <2>1. IsFiniteSet(X) /\ LinesUp(BeforeIn(X), X) /\ X1 = X \ {c}
    BY <1>1, WaitingInLine DEF Waiting
  <2>2. \A r \in X : r # c => <<c, r>> \in BeforeIn(X)
    BY DEF BeforeIn
  <2>3. \A r, q \in X \ {c} : <<r, q>> \in BeforeIn(X1) <=> <<r, q>> \in BeforeIn(X)
    BY <2>1 DEF BeforeIn
  <2> DEFINE R == BeforeIn(X)
             P == BeforeIn(X1)
             k == Cardinality(X \ {c})
  <2>4. c \in X
    OBVIOUS
  <2> HIDE DEF X, X1, R, P
  <2>5. /\ k \in Nat /\ Cardinality(X) = k + 1
        /\ DOMAIN Ranked(X, R) = 1..(k + 1) /\ DOMAIN Ranked(X \ {c}, P) = 1..k
        /\ Ranked(X, R)[1] = c
        /\ \A i \in 1..k : /\ Ranked(X, R)[i + 1] = Ranked(X \ {c}, P)[i]
                           /\ Ranked(X \ {c}, P)[i] \in X \ {c}
    <3>1. IsFiniteSet(X) /\ LinesUp(R, X) /\ \A r \in X : r # c => <<c, r>> \in R
      BY <2>1, <2>2 DEF R
    <3>2. \A r, q \in X \ {c} : <<r, q>> \in P <=> <<r, q>> \in R
      BY <2>3 DEF P, R
    <3>3. QED
      BY <2>4, <3>1, <3>2, RankedFirst, Zenon
  <2>6. QED
    BY <2>1, <2>5 DEF P, R
<1>3. ASSUME NEW r \in X PROVE TradeWith(s, o, r) \in Match
  <2>1. r \in Order /\ Taken(s, o, r) \in Nat
    BY <1>1, TakenNat DEF Waiting
  <2>2. Party(r) \in OrderRef /\ Party(o) \in OrderRef /\ r.price \in Nat \ {0}
    BY <2>1 DEF Party, OrderRef, Order
  <2>3. QED
    BY <2>1, <2>2 DEF TradeWith, Match
<1>4. ASSUME NEW r \in X1 PROVE TradeWith(s1, o1, r) = TradeWith(s, o, r)
  BY DEF TradeWith
<1>5. /\ T = [i \in 1..(n + 1) |-> TradeWith(s, o, queue[i])]
      /\ T1 = [i \in 1..n |-> TradeWith(s1, o1, queue1[i])]
  BY <1>2 DEF Trades
<1> HIDE DEF T, T1, queue, queue1, n, X, X1
<1>6. m \in Match
  <2>1. c \in X
    BY DEF X
  <2>2. QED
    BY <1>3, <2>1
<1>7. T1 \in Seq(Match) /\ Len(T1) = n /\ \A i \in 1..n : T1[i] = TradeWith(s, o, queue1[i])
  <2>1. \A i \in 1..n : /\ TradeWith(s1, o1, queue1[i]) = TradeWith(s, o, queue1[i])
                        /\ TradeWith(s, o, queue1[i]) \in Match
    BY <1>2, <1>3, <1>4 DEF X, X1
  <2>2. QED
    BY <1>2, <1>5, <2>1
<1>8. T \in Seq(Match) /\ Len(T) = n + 1 /\ T[1] = m /\ \A i \in 1..n : T[i + 1] = T1[i]
  <2>1. /\ 1 \in 1..(n + 1) /\ \A i \in 1..n : i + 1 \in 1..(n + 1)
    BY <1>2
  <2>2. T[1] = m /\ \A i \in 1..n : T[i + 1] = T1[i]
    BY <1>2, <1>5, <1>7, <2>1
  <2>3. \A i \in 1..(n + 1) : T[i] \in Match
    <3>1. ASSUME NEW i \in 1..(n + 1) PROVE T[i] \in Match
      <4>1. CASE i = 1
        BY <1>6, <2>2, <4>1
      <4>2. CASE i # 1
        <5>1. i - 1 \in 1..n /\ (i - 1) + 1 = i
          BY <1>2, <4>2
        <5>2. T1[i - 1] \in Match
          BY <1>7, <5>1
        <5>3. QED
          BY <2>2, <5>1, <5>2
      <4>3. QED
        BY <4>1, <4>2
    <3>2. QED
      BY <3>1
  <2>4. T \in Seq(Match) /\ Len(T) = n + 1
    BY <1>2, <1>5, <2>3
  <2>5. QED
    BY <2>2, <2>4
<1>9. log \o T = Append(log, m) \o T1
  <2> HIDE DEF m
  <2> DEFINE L == log \o T
             M == Append(log, m) \o T1
             k == Len(log)
  <2>1. /\ k \in Nat /\ L \in Seq(Match) /\ Len(L) = k + (n + 1)
        /\ M \in Seq(Match) /\ Len(M) = (k + 1) + n
    <3>1. k \in Nat /\ L \in Seq(Match) /\ Len(L) = k + Len(T)
      BY <1>8
    <3>2. Append(log, m) \in Seq(Match) /\ Len(Append(log, m)) = k + 1
      BY <1>6
    <3>3. M \in Seq(Match) /\ Len(M) = (k + 1) + Len(T1)
      BY <1>7, <3>2
    <3>4. QED
      BY <1>7, <1>8, <3>1, <3>3
  <2>2. ASSUME NEW i \in 1..(k + (n + 1)) PROVE L[i] = M[i]
    <3>1. CASE i <= k
      BY <1>2, <1>6, <1>7, <1>8, <2>1, <3>1
    <3>2. CASE i = k + 1
      <4>1. L[i] = T[1]
        BY <1>2, <1>8, <2>1, <3>2
      <4>2. M[i] = m
        BY <1>2, <1>6, <1>7, <2>1, <3>2
      <4>3. QED
        BY <1>8, <4>1, <4>2
    <3>3. CASE i > k + 1
      <4> DEFINE j == i - (k + 1)
      <4>1. j \in 1..n /\ i = k + (j + 1) /\ i = (k + 1) + j
        BY <1>2, <2>1, <3>3
      <4> HIDE DEF j
      <4>2. L[i] = T[j + 1]
        BY <1>2, <1>8, <2>1, <4>1
      <4>3. M[i] = T1[j]
        BY <1>2, <1>6, <1>7, <2>1, <4>1
      <4>4. QED
        BY <1>8, <4>1, <4>2, <4>3
    <3>4. QED
      BY <1>2, <2>1, <3>1, <3>2, <3>3
  <2>3. Len(L) = Len(M)
    BY <1>2, <2>1
  <2> HIDE DEF L, M
  <2>4. L = M
    BY <2>1, <2>2, <2>3
  <2>5. QED
    BY <2>4 DEF L, M
<1>10. QED
  BY <1>6, <1>9 DEF T, T1

\* o uses up c, which stands first, and o1 is what is left of it.
UsesUp(s, o, c, s1, o1) ==
  /\ c \in Reached(s, o) /\ Taken(s, o, c) = c.amount
  /\ Reached(s1, o1) = Reached(s, o) \ {c}
  /\ UsedUp(s, o) = {c} \cup UsedUp(s1, o1)
  /\ \A r \in Reached(s1, o1) : Taken(s1, o1, r) = Taken(s, o, r)
  /\ Total(Queue(s, o)) < o.amount <=> Total(Queue(s1, o1)) < o1.amount
  /\ o.amount - Total(Queue(s, o)) = o1.amount - Total(Queue(s1, o1))

\* An order that asks for all that the first in its queue offers uses it up, and
\* goes on as one that asks for the rest does without it.
LEMMA FirstUsedUp ==
  ASSUME NEW t \in OrderType, NEW s, NEW o \in Order, Waiting(Queue(s, o), t),
         NEW c, FirstIn(Queue(s, o), c), c.amount <= o.amount,
         NEW s1, NEW o1 \in Order, Queue(s1, o1) = Queue(s, o) \ {c},
         o1.amount = o.amount - c.amount
  PROVE  UsesUp(s, o, c, s1, o1)
<1> c \in Queue(s, o) /\ \A r \in Queue(s, o) : r # c => StandsBefore(c, r)
  BY DEF FirstIn
<1> DEFINE Q == Queue(s, o)
           Q1 == Queue(s1, o1)
<1>1. /\ Total(Q) \in Nat /\ Total(Q1) \in Nat
      /\ Total(Q) = c.amount + Total(Q1)
      /\ Ahead(s, o, c) = 0
      /\ \A r \in Q1 : Ahead(s1, o1, r) \in Nat /\ Ahead(s, o, r) = c.amount + Ahead(s1, o1, r)
  <2>1. /\ Total(Q) \in Nat /\ Total(Q \ {c}) \in Nat
        /\ Total(Q) = c.amount + Total(Q \ {c})
        /\ Total(Before(Q, c)) = 0
        /\ \A r \in Q \ {c} :
             /\ Total(Before(Q \ {c}, r)) \in Nat
             /\ Total(Before(Q, r))
                  = c.amount + Total(Before(Q \ {c}, r))
    <3>1. FirstIn(Q, c)
      BY DEF FirstIn
    <3>2. MovesUp(Q, c)
      BY <3>1, AheadOfOthers
    <3>3. QED
      BY <3>2 DEF MovesUp
  <2>2. Q1 = Q \ {c}
    OBVIOUS
  <2> HIDE DEF Q, Q1
  <2>3. QED
    BY <2>1, <2>2 DEF Ahead, Q, Q1
<1>2. /\ o.amount \in Nat /\ \A r \in Q : r.amount \in Nat /\ r.amount > 0
  BY DEF Waiting, Order
<1>3. c \in Q /\ Q1 = Q \ {c}
  OBVIOUS
<1> HIDE DEF Q, Q1
<1>4. \A r \in Q1 : /\ Ahead(s, o, r) < o.amount <=> Ahead(s1, o1, r) < o1.amount
                    /\ Ahead(s, o, r) + r.amount <= o.amount
                         <=> Ahead(s1, o1, r) + r.amount <= o1.amount
                    /\ o.amount - Ahead(s, o, r) = o1.amount - Ahead(s1, o1, r)
  BY <1>1, <1>2, <1>3
<1>5. Ahead(s, o, c) < o.amount /\ Ahead(s, o, c) + c.amount <= o.amount
  BY <1>1, <1>2, <1>3
<1>6. c \in Reached(s, o) /\ Reached(s1, o1) = Reached(s, o) \ {c}
  BY <1>3, <1>4, <1>5 DEF Reached, Q, Q1
<1>7. UsedUp(s, o) = {c} \cup UsedUp(s1, o1) /\ c \in UsedUp(s, o)
  BY <1>3, <1>4, <1>5 DEF UsedUp, Q, Q1
<1>8. Taken(s, o, c) = c.amount
  BY <1>1, <1>2 DEF Taken
<1>9. \A r \in Reached(s1, o1) : Taken(s1, o1, r) = Taken(s, o, r)
  <2>1. \A r \in Reached(s1, o1) : r \in Q1 /\ r # c
    BY <1>3 DEF Reached, Q1
  <2>2. QED
    BY <1>4, <2>1 DEF Taken
<1>10. /\ Total(Q) < o.amount <=> Total(Q1) < o1.amount
       /\ o.amount - Total(Q) = o1.amount - Total(Q1)
  BY <1>1, <1>2, <1>3
<1>11. QED
  BY <1>6, <1>7, <1>8, <1>9, <1>10 DEF UsesUp, Q, Q1

\* An order that asks for less than the first in its queue offers reaches it alone.
LEMMA FirstEnough ==
  ASSUME NEW t \in OrderType, NEW s, NEW o \in Order, Waiting(Queue(s, o), t),
         NEW c, FirstIn(Queue(s, o), c), o.amount > 0, o.amount < c.amount
  PROVE  /\ Reached(s, o) = {c} /\ Taken(s, o, c) = o.amount
         /\ UsedUp(s, o) = {} /\ ~(Total(Queue(s, o)) < o.amount)
<1> c \in Queue(s, o) /\ \A r \in Queue(s, o) : r # c => StandsBefore(c, r)
  BY DEF FirstIn
<1> DEFINE Q == Queue(s, o)
<1>1. /\ Total(Q) \in Nat /\ Total(Q \ {c}) \in Nat
      /\ Total(Q) = c.amount + Total(Q \ {c})
      /\ Ahead(s, o, c) = 0
      /\ \A r \in Q \ {c} :
           /\ Total(Before(Q \ {c}, r)) \in Nat
           /\ Ahead(s, o, r) = c.amount + Total(Before(Q \ {c}, r))
  <2>1. FirstIn(Q, c)
    BY DEF FirstIn
  <2>2. \A r : Ahead(s, o, r) = Total(Before(Q, r))
    BY DEF Ahead
  <2>3. MovesUp(Q, c)
    BY <2>1, AheadOfOthers
  <2> HIDE DEF Q
  <2>4. QED
    BY <2>2, <2>3 DEF MovesUp
<1>2. /\ o.amount \in Nat /\ c.amount \in Nat /\ \A r \in Q : r.amount \in Nat /\ r.amount > 0
  BY DEF Waiting, Order
<1>3. c \in Q
  OBVIOUS
<1> HIDE DEF Q
<1>4. \A r \in Q : r # c => /\ ~(Ahead(s, o, r) < o.amount)
                            /\ ~(Ahead(s, o, r) + r.amount <= o.amount)
  <2> SUFFICES ASSUME NEW r \in Q \ {c}
               PROVE  /\ ~(Ahead(s, o, r) < o.amount)
                      /\ ~(Ahead(s, o, r) + r.amount <= o.amount)
    OBVIOUS
  <2> DEFINE k == Total(Before(Q \ {c}, r))
  <2>1. k \in Nat /\ Ahead(s, o, r) = c.amount + k
    BY <1>1
  <2> HIDE DEF k
  <2>2. QED
    BY <1>2, <2>1
<1>5. Ahead(s, o, c) < o.amount /\ ~(Ahead(s, o, c) + c.amount <= o.amount)
  BY <1>1, <1>2
<1>6. Reached(s, o) = {c}
  BY <1>3, <1>4, <1>5 DEF Reached, Q
<1>7. UsedUp(s, o) = {}
  BY <1>3, <1>4, <1>5 DEF UsedUp, Q
<1>8. Taken(s, o, c) = o.amount
  BY <1>1, <1>2 DEF Taken
<1>9. ~(Total(Q) < o.amount)
  BY <1>1, <1>2
<1>10. QED
  BY <1>6, <1>7, <1>8, <1>9 DEF Q

FiniteSides(s) == \A t \in OrderType : IsFiniteSet(s[t])

\* The candidates of a call are the queue of its order, in the book as it stands.
LEMMA CandidatesQueue ==
  ASSUME NEW b, LegalBook(b), ~Idle(b), FiniteSides(b.sides)
  PROVE  LET o == b.call.order
             t == Opposite(o.type)
         IN /\ o \in Order /\ t \in OrderType /\ Other(o.type) = t
            /\ Waiting(Queue(b.sides, o), t)
            /\ IsActive(o) => Queue(b.sides, o) = b.call.candidates
<1> DEFINE o == b.call.order
           t == Opposite(o.type)
           Q == Queue(b.sides, o)
<1>1. /\ b \in Book /\ LegalSides(b.sides) /\ CallLegal(b.sides, b.call)
  BY DEF LegalBook
<1>2. o \in Order /\ \A u \in OrderType : b.sides[u] \subseteq Order
  BY <1>1, BookParts
<1>3. t \in OrderType /\ Other(o.type) = t /\ o.type \in {"buy", "sell"}
  BY <1>2 DEF Opposite, Other, OrderType, Order
<1>4. Q \in SUBSET b.sides[t] /\ b.sides[t] \subseteq Order /\ IsFiniteSet(b.sides[t])
  BY <1>2, <1>3 DEF Queue, FiniteSides
<1>5. Waiting(Q, t)
  <2>1. Q \in SUBSET Order /\ IsFiniteSet(Q)
    BY <1>4, FS_Subset
  <2>2. \A r \in b.sides[t] : r.type = t /\ r.amount > 0
    BY <1>1, <1>3, <1>4 DEF LegalSides, ActiveOnTheirSide, Order
  <2>3. \A r, q \in b.sides[t] : r.id = q.id => r = q
    BY <1>1, <1>3 DEF LegalSides, UniqueIds
  <2>4. QED
    BY <1>4, <2>1, <2>2, <2>3 DEF Waiting
<1>6. ASSUME IsActive(o) PROVE Q = b.call.candidates
  <2>1. \A r \in b.sides[t] : /\ r.type = t /\ IsActive(r) /\ r.price \in Nat /\ o.price \in Nat
    BY <1>1, <1>2, <1>3, <1>4 DEF LegalSides, ActiveOnTheirSide, IsActive, Order
  <2>2. \A r \in b.sides[t] : r \in b.call.candidates =>
          BetterPrice(o.type, o.price, r.price) \/ o.price = r.price
    BY <1>1 DEF CallLegal
  <2>3. \A r \in b.sides[t] : CanMatchWith(r, o) => r \in b.call.candidates
    BY <1>1, <1>6 DEF CallLegal
  <2>4. b.call.candidates \subseteq b.sides[t]
    BY <1>1 DEF CallLegal
  <2>5. Q = {r \in b.sides[t] : IF o.type = "buy" THEN r.price <= o.price ELSE o.price <= r.price}
    BY <1>3 DEF Queue
  <2>6. CASE o.type = "buy"
    BY <1>3, <1>6, <2>1, <2>2, <2>3, <2>4, <2>5, <2>6
       DEF BetterPrice, CanMatchWith, PricesCross, Opposite
  <2>7. CASE o.type = "sell"
    BY <1>3, <1>6, <2>1, <2>2, <2>3, <2>4, <2>5, <2>7
       DEF BetterPrice, CanMatchWith, PricesCross, Opposite
  <2>8. QED
    BY <1>3, <2>6, <2>7
<1>7. QED
  BY <1>2, <1>3, <1>5, <1>6

\* What a round of the loop changes, as seen by the queue of the order.
LEMMA RoundQueue ==
  ASSUME NEW b, LegalBook(b), ~Idle(b), FiniteSides(b.sides),
         NEW c, Looping(b.call, c)
  PROVE  LET o  == b.call.order
             t  == Opposite(o.type)
             n  == MatchAmount(o, c)
             b1 == Iterate(b, c)
             o1 == b1.call.order
         IN /\ o \in Order /\ t \in OrderType /\ Other(o.type) = t
            /\ Waiting(Queue(b.sides, o), t) /\ FirstIn(Queue(b.sides, o), c)
            /\ c \in Order /\ n \in Nat /\ o.amount > 0
            /\ o1 = UpdateAfterMatch(o, n) /\ ValidFilledAmount(o, n)
            /\ o.amount <= o.originalAmount
            /\ ~Idle(b1) /\ FiniteSides(b1.sides)
            /\ b1.matches = Append(b.matches, MakeMatch(o, c))
            /\ b1.sides = IF c.amount <= o.amount
                            THEN [b.sides EXCEPT ![t] = @ \ {c}] ELSE b.sides
<1> DEFINE o  == b.call.order
           t  == Opposite(o.type)
           n  == MatchAmount(o, c)
           m  == MakeMatch(o, c)
           Q  == Queue(b.sides, o)
           b1 == Iterate(b, c)
<1>1. /\ b.sides \in Sides /\ UniqueIds(b.sides) /\ IsActive(o)
  BY BookParts DEF LegalBook, LegalSides, Looping
<1>2. /\ o \in Order /\ t \in OrderType /\ Other(o.type) = t
      /\ Waiting(Q, t) /\ Q = b.call.candidates
  BY <1>1, CandidatesQueue
<1>3. FirstIn(Q, c)
  <2>1. c \in Q /\ \A r \in Q : r # c => Precedes(c, r)
    BY <1>2 DEF Looping
  <2> HIDE DEF Q, t
  <2>2. QED
    BY <1>2, <2>1, WaitingInLine DEF FirstIn
<1>4. /\ c \in b.sides[t] /\ c \in Order /\ n \in Nat
      /\ ValidFilledAmount(o, n) /\ ValidFilledAmount(c, n)
      /\ o.amount <= o.originalAmount /\ c.amount <= c.originalAmount
      /\ m.matchedAmount = n /\ b1 = Fill(b, c, m)
  BY RoundIsAFill
<1>5. /\ b1.sides = [b.sides EXCEPT ![t] = SideAfterFill(b.sides[t], c, n)]
      /\ b1.matches = Append(b.matches, m)
      /\ b1.call.order = UpdateAfterMatch(o, n)
      /\ b1.call = [order       |-> UpdateAfterMatch(o, n),
                    candidates  |-> b.call.candidates \ {c},
                    fills       |-> Append(b.call.fills, m),
                    entryAmount |-> b.call.entryAmount]
  BY <1>4 DEF Fill
<1>6. ~Idle(b1)
  <2>1. DOMAIN NoCall = {"order"} /\ "fills" \in DOMAIN b1.call
    BY <1>5 DEF NoCall
  <2>2. QED
    BY <2>1 DEF Idle
<1>7. o.amount \in Nat /\ c.amount \in Nat /\ n = IF o.amount <= c.amount THEN o.amount ELSE c.amount
  BY <1>2, <1>4 DEF Order, MatchAmount
<1>8. o.amount > 0
  BY <1>4, <1>7 DEF ValidFilledAmount
<1>9. UpdateAfterMatch(c, n).status = "filled" <=> c.amount <= o.amount
  <2>1. /\ UpdateAfterMatch(c, n).amount = c.amount - n
        /\ UpdateAfterMatch(c, n).amount = 0 => UpdateAfterMatch(c, n).status = "filled"
        /\ UpdateAfterMatch(c, n).amount # 0 =>
             UpdateAfterMatch(c, n).status = "partially_filled"
    BY <1>4, UpdateAfterMatchType
  <2>2. c.amount - n = 0 <=> c.amount <= o.amount
    BY <1>7
  <2>3. QED
    BY <2>1, <2>2
<1>10. RemoveOrder(b.sides[t], c.id) = b.sides[t] \ {c}
  BY <1>2, <1>1, <1>4 DEF UniqueIds, RemoveOrder
<1>11. b1.sides = IF c.amount <= o.amount
                    THEN [b.sides EXCEPT ![t] = @ \ {c}] ELSE b.sides
  BY <1>1, <1>2, <1>5, <1>9, <1>10 DEF SideAfterFill, Sides
<1>12. FiniteSides(b1.sides)
  <2>1. \A u \in OrderType : b1.sides[u] \subseteq b.sides[u]
    BY <1>1, <1>2, <1>11 DEF Sides
  <2>2. QED
    BY <2>1, FS_Subset DEF FiniteSides
<1>13. QED
  BY <1>2, <1>3, <1>4, <1>5, <1>6, <1>8, <1>11, <1>12

\* A round and the rounds still to come make what all of them together were to
\* make before it.
LEMMA RoundKeepsEffect ==
  ASSUME NEW b, LegalBook(b), ~Idle(b), FiniteSides(b.sides),
         NEW c, Looping(b.call, c)
  PROVE  LET b1 == Iterate(b, c)
         IN /\ SidesAfter(b1.sides, b1.call.order) = SidesAfter(b.sides, b.call.order)
            /\ b1.matches \o Trades(b1.sides, b1.call.order)
                 = b.matches \o Trades(b.sides, b.call.order)
<1> DEFINE o  == b.call.order
           t  == Opposite(o.type)
           n  == MatchAmount(o, c)
           b1 == Iterate(b, c)
           s  == b.sides
           s1 == b1.sides
           o1 == b1.call.order
<1>1. /\ o \in Order /\ t \in OrderType /\ Other(o.type) = t
      /\ Waiting(Queue(s, o), t) /\ FirstIn(Queue(s, o), c)
      /\ c \in Order /\ n \in Nat /\ o.amount > 0
      /\ o1 = UpdateAfterMatch(o, n) /\ ValidFilledAmount(o, n)
      /\ o.amount <= o.originalAmount
      /\ ~Idle(b1) /\ FiniteSides(s1)
      /\ b1.matches = Append(b.matches, MakeMatch(o, c))
      /\ s1 = IF c.amount <= o.amount THEN [s EXCEPT ![t] = @ \ {c}] ELSE s
  BY RoundQueue
<1>2. /\ o1 \in Order /\ o1.id = o.id /\ o1.type = o.type /\ o1.price = o.price
      /\ o1.originalAmount = o.originalAmount /\ o1.timestamp = o.timestamp
      /\ o1.amount = o.amount - n
      /\ o1.amount # 0 => o1.status = "partially_filled"
  BY <1>1, UpdateAfterMatchType
<1>3. Waiting(Queue(s1, o1), t)
  <2>1. LegalBook(b1)
    BY IterateLegal
  <2>2. QED
    BY <1>1, <1>2, <2>1, CandidatesQueue
<1>4. s \in Sides /\ b.matches \in Seq(Match)
  BY BookParts DEF LegalBook
<1>5. o.type \in {"buy", "sell"} /\ t \in {"buy", "sell"} /\ t # o.type
      /\ \A u \in {"buy", "sell"} : u # o.type => u = t
  BY <1>1 DEF Order, OrderType, Opposite
<1>6. o.amount \in Nat /\ c.amount \in Nat /\ n = IF o.amount <= c.amount THEN o.amount ELSE c.amount
  BY <1>1 DEF Order, MatchAmount
<1>7. c \in Queue(s, o) /\ \A r \in Queue(s, o) : r # c => StandsBefore(c, r)
  BY <1>1 DEF FirstIn
<1>8. ASSUME Taken(s, o, c) = n PROVE MakeMatch(o, c) = TradeWith(s, o, c)
  BY <1>8, <1>1 DEF MakeMatch, TradeWith, Ref, Party
<1>9. Party(o1) = Party(o)
  BY <1>2 DEF Party
<1> HIDE DEF o, t, n, b1, s, s1, o1
<1>10. ASSUME GoesOn(s, o, c, s1, o1)
       PROVE  b.matches \o Trades(s, o)
                = Append(b.matches, TradeWith(s, o, c)) \o Trades(s1, o1)
  <2> DEFINE log == b.matches
  <2>1. /\ t \in OrderType /\ o \in Order /\ o1 \in Order /\ log \in Seq(Match)
        /\ Waiting(Queue(s, o), t) /\ Waiting(Queue(s1, o1), t)
    BY <1>1, <1>2, <1>3, <1>4
  <2> HIDE DEF log
  <2>2. log \o Trades(s, o) = Append(log, TradeWith(s, o, c)) \o Trades(s1, o1)
    BY <1>10, <2>1, FirstTrade
  <2>3. QED
    BY <2>2 DEF log
<1>11. CASE c.amount <= o.amount
  <2>1. s1 = [s EXCEPT ![t] = s[t] \ {c}] /\ n = c.amount
    BY <1>1, <1>6, <1>11
  <2>2. s1[t] = s[t] \ {c} /\ s1[o.type] = s[o.type]
    BY <1>1, <1>4, <1>5, <2>1 DEF Sides, OrderType
  <2>3. Queue(s1, o1) = Queue(s, o) \ {c}
    BY <1>1, <1>2, <2>2 DEF Queue
  <2>4. o1.amount = o.amount - c.amount
    BY <1>2, <2>1
  <2>5. /\ c \in Reached(s, o) /\ Taken(s, o, c) = c.amount
        /\ Reached(s1, o1) = Reached(s, o) \ {c}
        /\ UsedUp(s, o) = {c} \cup UsedUp(s1, o1)
        /\ \A r \in Reached(s1, o1) : Taken(s1, o1, r) = Taken(s, o, r)
        /\ Total(Queue(s, o)) < o.amount <=> Total(Queue(s1, o1)) < o1.amount
        /\ o.amount - Total(Queue(s, o)) = o1.amount - Total(Queue(s1, o1))
    <3>1. UsesUp(s, o, c, s1, o1)
      BY <1>1, <1>2, <1>11, <2>3, <2>4, FirstUsedUp
    <3>2. QED
      BY <3>1 DEF UsesUp
  <2>6. ASSUME Total(Queue(s, o)) < o.amount PROVE Rest(s1, o1) = Rest(s, o)
    <3>1. Total(Queue(s1, o1)) \in Nat
      BY <1>3, TotalRemove DEF Waiting
    <3>2. o1.amount \in Nat /\ o1.amount # 0
      BY <1>2, <2>5, <2>6, <3>1 DEF Order
    <3>3. o1.status = "partially_filled"
      BY <1>2, <3>2
    <3> DEFINE left == o.amount - Total(Queue(s, o))
    <3>4. Rest(s, o) = [o EXCEPT !.amount = left, !.status = "partially_filled"]
      BY <1>7 DEF Rest
    <3>5. Rest(s1, o1) = [o1 EXCEPT !.amount = left, !.status = "partially_filled"]
      BY <2>5, <3>3 DEF Rest
    <3> HIDE DEF left
    <3>6. Rest(s, o) = [id |-> o.id, type |-> o.type, price |-> o.price,
                        amount |-> left, originalAmount |-> o.originalAmount,
                        timestamp |-> o.timestamp, status |-> "partially_filled"]
      BY <1>1, <3>4 DEF Order
    <3>7. Rest(s1, o1) = [id |-> o1.id, type |-> o1.type, price |-> o1.price,
                          amount |-> left, originalAmount |-> o1.originalAmount,
                          timestamp |-> o1.timestamp, status |-> "partially_filled"]
      BY <1>2, <3>5 DEF Order
    <3>8. QED
      BY <1>2, <3>6, <3>7
  <2>7. SidesAfter(s1, o1) = SidesAfter(s, o)
    <3>1. s1[t] \ UsedUp(s1, o1) = s[t] \ UsedUp(s, o)
      BY <2>2, <2>5
    <3>2. (IF Total(Queue(s1, o1)) < o1.amount
             THEN s1[o.type] \cup {Rest(s1, o1)} ELSE s1[o.type])
            = (IF Total(Queue(s, o)) < o.amount
                 THEN s[o.type] \cup {Rest(s, o)} ELSE s[o.type])
      BY <2>2, <2>5, <2>6
    <3>3. QED
      BY <1>2, <1>5, <3>1, <3>2 DEF SidesAfter
  <2>8. GoesOn(s, o, c, s1, o1)
    BY <1>2, <1>7, <1>9, <2>5 DEF Reached, FirstIn, GoesOn
  <2>9. b.matches \o Trades(s, o)
          = Append(b.matches, TradeWith(s, o, c)) \o Trades(s1, o1)
    BY <1>10, <2>8
  <2>10. MakeMatch(o, c) = TradeWith(s, o, c)
    BY <1>8, <2>1, <2>5
  <2>11. QED
    BY <1>1, <2>7, <2>9, <2>10 DEF o, b1, s, s1, o1
<1>12. CASE ~(c.amount <= o.amount)
  <2>1. s1 = s /\ n = o.amount /\ o.amount < c.amount /\ o1.amount = 0
    BY <1>1, <1>2, <1>6, <1>12
  <2>2. /\ Reached(s, o) = {c} /\ Taken(s, o, c) = o.amount
        /\ UsedUp(s, o) = {} /\ ~(Total(Queue(s, o)) < o.amount)
    BY <1>1, <1>7, <2>1, FirstEnough
  <2>3. /\ Reached(s1, o1) = {} /\ UsedUp(s1, o1) = {}
        /\ ~(Total(Queue(s1, o1)) < o1.amount)
    <3>1. t \in OrderType /\ Waiting(Queue(s1, o1), t) /\ o1.amount = 0 /\ o1.amount \in Nat
      BY <1>1, <1>3, <2>1
    <3>2. QED
      BY <3>1, NothingTraded
  <2>4. SidesAfter(s1, o1) = SidesAfter(s, o)
    BY <1>2, <1>5, <2>1, <2>2, <2>3 DEF SidesAfter
  <2>5. b.matches \o Trades(s, o)
          = Append(b.matches, TradeWith(s, o, c)) \o Trades(s1, o1)
    <3>1. GoesOn(s, o, c, s1, o1)
      BY <1>2, <1>9, <2>2, <2>3 DEF FirstIn, GoesOn
    <3>2. QED
      BY <1>10, <3>1
  <2>6. MakeMatch(o, c) = TradeWith(s, o, c)
    BY <1>8, <2>1, <2>2
  <2>7. QED
    BY <1>1, <2>4, <2>5, <2>6 DEF o, b1, s, s1, o1
<1>13. QED
  BY <1>11, <1>12

\* The operators AtomicBook is made of are those of AtomicCall.
LEMMA SameEffect ==
  ASSUME NEW s, NEW o
  PROVE  Atomic!SidesAfter(s, o) = SidesAfter(s, o) /\ Atomic!Trades(s, o) = Trades(s, o)
<1>1. \A S : Atomic!Total(S) = Total(S)
  BY DEF Atomic!Total, Total, Atomic!FoldSet, FoldSet, Atomic!MapThenFoldSet, MapThenFoldSet
<1>2. Atomic!Queue(s, o) = Queue(s, o)
  BY DEF Atomic!Queue, Queue, Atomic!Other, Other
<1>3. \A S, r : Atomic!Before(S, r) = Before(S, r)
  BY DEF Atomic!Before, Before, Atomic!StandsBefore, StandsBefore
<1>4. \A S : Atomic!BeforeIn(S) = BeforeIn(S)
  BY DEF Atomic!BeforeIn, BeforeIn, Atomic!StandsBefore, StandsBefore
<1>5. \A r : Atomic!Ahead(s, o, r) = Ahead(s, o, r)
  BY <1>1, <1>2, <1>3 DEF Atomic!Ahead, Ahead
<1>6. Atomic!Reached(s, o) = Reached(s, o) /\ Atomic!UsedUp(s, o) = UsedUp(s, o)
  BY <1>2, <1>5 DEF Atomic!Reached, Reached, Atomic!UsedUp, UsedUp
<1>7. \A r : Atomic!Taken(s, o, r) = Taken(s, o, r)
  BY <1>5 DEF Atomic!Taken, Taken
<1>8. \A r : Atomic!TradeWith(s, o, r) = TradeWith(s, o, r)
  BY <1>7 DEF Atomic!TradeWith, TradeWith, Atomic!Party, Party
<1>9. \A S, R : Atomic!Ranked(S, R) = Ranked(S, R)
  <2>1. \A S : Atomic!Cardinality(S) = Cardinality(S)
    BY DEF Atomic!Cardinality, Cardinality
  <2>2. ASSUME NEW S, NEW R PROVE Atomic!Ranked(S, R) = Ranked(S, R)
    <3> DEFINE Below(x) == {y \in S : <<y, x>> \in R}
    <3>1. Ranked(S, R) = [n \in 1..Cardinality(S) |->
                            CHOOSE x \in S : Cardinality(Below(x)) = n - 1]
      BY DEF Ranked
    <3>2. Atomic!Ranked(S, R) = [n \in 1..Atomic!Cardinality(S) |->
                                   CHOOSE x \in S : Atomic!Cardinality(Below(x)) = n - 1]
      BY DEF Atomic!Ranked
    <3> HIDE DEF Below
    <3>3. \A n : (CHOOSE x \in S : Atomic!Cardinality(Below(x)) = n - 1)
                   = (CHOOSE x \in S : Cardinality(Below(x)) = n - 1)
      BY <2>1
    <3>4. QED
      BY <2>1, <3>1, <3>2, <3>3
  <2>3. QED
    BY <2>2
<1>10. Atomic!Rest(s, o) = Rest(s, o)
  BY <1>1, <1>2 DEF Atomic!Rest, Rest
<1>11. Atomic!SidesAfter(s, o) = SidesAfter(s, o)
  BY <1>1, <1>2, <1>6, <1>10 DEF Atomic!SidesAfter, SidesAfter
<1>12. Atomic!Trades(s, o) = Trades(s, o)
  BY <1>4, <1>6, <1>8, <1>9 DEF Atomic!Trades, Trades
<1>13. QED
  BY <1>11, <1>12

\* What the book needs for that besides being legal: finite sides, and that the
\* order of a call stops being active only when it is filled.
SettledWhenFilled(b) ==
  /\ FiniteSides(b.sides)
  /\ ~Idle(b) /\ ~IsActive(b.call.order) => b.call.order.amount = 0

LEMMA NextSettled ==
  LegalBook(book) /\ SettledWhenFilled(book) /\ [Next]_book => SettledWhenFilled(book')
<1> SUFFICES ASSUME LegalBook(book), SettledWhenFilled(book), [Next]_book
             PROVE  SettledWhenFilled(book')
  OBVIOUS
<1>1. book.sides \in Sides /\ FiniteSides(book.sides)
  BY BookParts DEF LegalBook, SettledWhenFilled
<1>2. ASSUME NEW o \in Incoming, AddOrder(o) PROVE SettledWhenFilled(book')
  <2>1. book'.sides = book.sides /\ book'.call.order = o /\ IsActive(o)
    BY <1>2 DEF AddOrder, BeginCall, Accepts
  <2>2. QED
    BY <1>1, <2>1 DEF SettledWhenFilled
<1>3. CASE MatchNext
  <2>1. PICK c : Looping(book.call, c) /\ book' = Iterate(book, c)
    BY <1>3 DEF MatchNext
  <2> DEFINE o == book.call.order
             n == MatchAmount(o, c)
  <2>2. /\ FiniteSides(book'.sides) /\ o \in Order /\ n \in Nat
        /\ book'.call.order = UpdateAfterMatch(o, n)
        /\ ValidFilledAmount(o, n) /\ o.amount <= o.originalAmount
    BY <1>1, <1>3, <2>1, RoundQueue DEF MatchNext
  <2>3. UpdateAfterMatch(o, n).amount # 0 => IsActive(UpdateAfterMatch(o, n))
    BY <2>2, UpdateAfterMatchType DEF IsActive
  <2>4. QED
    BY <2>2, <2>3 DEF SettledWhenFilled
<1>4. CASE Return
  <2> DEFINE o == book.call.order
  <2>1. Idle(book') /\ book'.sides = SidesAfterRest(book.sides, o)
    BY <1>4 DEF Return, EndCall, Idle
  <2>2. \A t \in OrderType : book'.sides[t] \subseteq book.sides[t] \cup {o}
    BY <1>1, <2>1 DEF SidesAfterRest, Sides
  <2>3. \A t \in OrderType : IsFiniteSet(book.sides[t] \cup {o})
    BY <1>1, FS_AddElement DEF FiniteSides
  <2>4. QED
    BY <2>1, <2>2, <2>3, FS_Subset DEF SettledWhenFilled, FiniteSides
<1>5. ASSUME NEW o \in Incoming, CancelOrder(o.id) PROVE SettledWhenFilled(book')
  <2>1. Idle(book') /\ book'.sides = SidesAfterCancel(book.sides, o.id)
    BY <1>5 DEF CancelOrder, WithoutOrder, Idle
  <2>2. \A t \in OrderType : book'.sides[t] \subseteq book.sides[t]
    BY <1>1, <2>1 DEF SidesAfterCancel, RemoveOrder, Sides, OrderType
  <2>3. QED
    BY <1>1, <2>1, <2>2, FS_Subset DEF SettledWhenFilled, FiniteSides
<1>6. ASSUME NEW s \in Snapshots, SetState(s) PROVE SettledWhenFilled(book')
  BY <1>6, SnapshotAssumption DEF SetState, BookOf, Idle, SettledWhenFilled, FiniteSides
<1>7. CASE book' = book
  BY <1>7
<1>8. QED
  BY <1>2, <1>3, <1>4, <1>5, <1>6, <1>7 DEF Next

\* In every reachable state.
LEMMA AlwaysSettled == Spec => []SettledWhenFilled(book)
<1>1. Init => SettledWhenFilled(book)
  <2> SUFFICES ASSUME Init PROVE SettledWhenFilled(book)
    OBVIOUS
  <2>1. book.sides = [t \in {"buy", "sell"} |-> {}] /\ Idle(book)
    BY DEF Init, EmptyBook, EmptySides, OrderType, Idle
  <2>2. QED
    BY <2>1, FS_EmptySet DEF SettledWhenFilled, FiniteSides, OrderType
<1>2. LegalBook(book) /\ SettledWhenFilled(book) /\ [Next]_book => SettledWhenFilled(book)'
  BY NextSettled DEF SettledWhenFilled
<1>3. QED
  BY <1>1, <1>2, AlwaysLegal, PTL DEF Spec

\* When the loop is done nothing is to come but what EndCall does.
LEMMA ReturnKeepsEffect ==
  ASSUME NEW b, LegalBook(b), SettledWhenFilled(b), ~Idle(b), LoopDone(b.call)
  PROVE  LET o == b.call.order
         IN /\ SidesAfter(b.sides, o) = SidesAfterRest(b.sides, o)
            /\ b.matches \o Trades(b.sides, o) = b.matches
<1> DEFINE o == b.call.order
           t == Opposite(o.type)
           s == b.sides
<1>1. /\ s \in Sides /\ b.matches \in Seq(Match) /\ CallLegal(s, b.call)
  BY BookParts DEF LegalBook
<1>2. /\ o \in Order /\ t \in OrderType /\ Waiting(Queue(s, o), t)
      /\ IsActive(o) => Queue(s, o) = b.call.candidates
  BY CandidatesQueue DEF SettledWhenFilled
<1>3. /\ IsActive(o) => o.amount > 0 /\ Queue(s, o) = {}
      /\ ~IsActive(o) => o.amount = 0
  BY <1>1, <1>2 DEF CallLegal, LoopDone, SettledWhenFilled
<1>4. o.amount \in Nat /\ o.type \in {"buy", "sell"}
  BY <1>2 DEF Order, OrderType
<1>5. o.amount = 0 \/ Queue(s, o) = {}
  BY <1>3
<1>6. o.amount # 0 <=> IsActive(o)
  BY <1>3, <1>4
<1> HIDE DEF o, t, s
<1>7. /\ UsedUp(s, o) = {} /\ Trades(s, o) = <<>>
      /\ Total(Queue(s, o)) < o.amount <=> o.amount # 0
  BY <1>2, <1>4, <1>5, NothingTraded
<1>8. ASSUME IsActive(o) PROVE Rest(s, o) = o
  <2>1. Queue(s, o) = {} /\ Waiting(Queue(s, o), t)
    BY <1>2, <1>3, <1>8
  <2>2. Total({}) = 0
    BY <2>1, TotalRemove DEF Waiting
  <2>3. o.amount - 0 = o.amount
    BY <1>4
  <2>4. Rest(s, o) = [o EXCEPT !.amount = o.amount, !.status = o.status]
    BY <2>1, <2>2, <2>3 DEF Rest
  <2>5. QED
    BY <1>2, <2>4 DEF Order
<1>9. SidesAfter(s, o) = SidesAfterRest(s, o)
  <2>1. s = [u \in {"buy", "sell"} |-> s[u]]
    BY <1>1 DEF Sides, OrderType
  <2>2. SidesAfter(s, o) = [u \in {"buy", "sell"} |->
                              IF u # o.type THEN s[u]
                              ELSE IF IsActive(o) THEN s[u] \cup {o} ELSE s[u]]
    BY <1>6, <1>7, <1>8 DEF SidesAfter
  <2>3. CASE IsActive(o)
    BY <1>4, <2>1, <2>2, <2>3 DEF SidesAfterRest
  <2>4. CASE ~IsActive(o)
    <3>1. SidesAfter(s, o) = [u \in {"buy", "sell"} |-> s[u]]
      BY <2>2, <2>4
    <3>2. QED
      BY <2>1, <2>4, <3>1 DEF SidesAfterRest
  <2>5. QED
    BY <2>3, <2>4
<1>10. b.matches \o <<>> = b.matches
  BY <1>1
<1>11. QED
  BY <1>7, <1>9, <1>10 DEF o, s

\* A call takes effect at its first step; the others change nothing there.
LEMMA NextIsAtomic ==
  /\ LegalBook(book) /\ SettledWhenFilled(book) /\ LegalBook(book)'
  /\ [Next]_book
  => [Atomic!Next]_<<AtomicSides, AtomicLog>>
<1> SUFFICES ASSUME LegalBook(book), SettledWhenFilled(book), LegalBook(book'), Next
             PROVE  Atomic!Next \/ UNCHANGED <<AtomicSides, AtomicLog>>
  BY DEF AtomicSides, AtomicLog, Idle
<1>1. book.sides \in Sides /\ book.matches \in Seq(Match)
  BY BookParts DEF LegalBook
<1>2. /\ Idle(book) => AtomicSides = book.sides /\ AtomicLog = book.matches
      /\ Idle(book') => AtomicSides' = book'.sides /\ AtomicLog' = book'.matches
      /\ ~Idle(book) =>
           /\ AtomicSides = SidesAfter(book.sides, book.call.order)
           /\ AtomicLog = book.matches \o Trades(book.sides, book.call.order)
      /\ ~Idle(book') =>
           /\ AtomicSides' = SidesAfter(book'.sides, book'.call.order)
           /\ AtomicLog' = book'.matches \o Trades(book'.sides, book'.call.order)
  BY DEF AtomicSides, AtomicLog
<1>3. ASSUME NEW o \in Incoming, AddOrder(o) PROVE Atomic!AddOrder(o)
  <2>1. /\ Idle(book) /\ Len(book.matches) < MaxMatches /\ Accepts(book, o)
        /\ book' = BeginCall(book, o)
    BY <1>3 DEF AddOrder
  <2>2. book'.sides = book.sides /\ book'.matches = book.matches /\ book'.call.order = o
    BY <2>1 DEF BeginCall
  <2>3. ~Idle(book')
    BY <2>1 DEF BeginCall, Idle, NoCall
  <2>4. /\ AtomicSides' = Atomic!SidesAfter(AtomicSides, o)
        /\ AtomicLog' = AtomicLog \o Atomic!Trades(AtomicSides, o)
    BY <1>2, <2>1, <2>2, <2>3, SameEffect
  <2>5. /\ o.status \in {"open", "partially_filled"}
        /\ \A r \in AtomicSides["buy"] \cup AtomicSides["sell"] : r.id # o.id
    BY <1>2, <2>1 DEF Accepts, IsActive, InBook, OrderType
  <2>6. Len(AtomicLog) < MaxMatches
    BY <1>2, <2>1
  <2>7. QED
    BY <2>4, <2>5, <2>6 DEF Atomic!AddOrder
<1>4. ASSUME MatchNext PROVE UNCHANGED <<AtomicSides, AtomicLog>>
  <2>1. PICK c : Looping(book.call, c) /\ book' = Iterate(book, c)
    BY <1>4 DEF MatchNext
  <2>2. ~Idle(book) /\ FiniteSides(book.sides)
    BY <1>4 DEF MatchNext, SettledWhenFilled
  <2>3. ~Idle(book')
    BY <2>1, <2>2, RoundQueue
  <2>4. /\ SidesAfter(book'.sides, book'.call.order)
             = SidesAfter(book.sides, book.call.order)
        /\ book'.matches \o Trades(book'.sides, book'.call.order)
             = book.matches \o Trades(book.sides, book.call.order)
    BY <2>1, <2>2, RoundKeepsEffect
  <2>5. QED
    BY <1>2, <2>2, <2>3, <2>4
<1>5. ASSUME Return PROVE UNCHANGED <<AtomicSides, AtomicLog>>
  <2>1. /\ ~Idle(book) /\ LoopDone(book.call)
        /\ Idle(book') /\ book'.matches = book.matches
        /\ book'.sides = SidesAfterRest(book.sides, book.call.order)
    BY <1>5 DEF Return, EndCall, Idle
  <2>2. /\ SidesAfter(book.sides, book.call.order)
             = SidesAfterRest(book.sides, book.call.order)
        /\ book.matches \o Trades(book.sides, book.call.order) = book.matches
    BY <2>1, ReturnKeepsEffect
  <2>3. QED
    BY <1>2, <2>1, <2>2
<1>6. ASSUME NEW o \in Incoming, CancelOrder(o.id) PROVE Atomic!CancelOrder(o)
  <2>1. /\ Idle(book) /\ Idle(book') /\ book'.matches = book.matches
        /\ book'.sides = SidesAfterCancel(book.sides, o.id)
    BY <1>6 DEF CancelOrder, WithoutOrder, Idle
  <2>2. book'.sides = [t \in {"buy", "sell"} |-> {r \in book.sides[t] : r.id # o.id}]
    BY <2>1, CancelTakesOut
  <2>3. QED
    BY <1>2, <2>1, <2>2 DEF Atomic!CancelOrder
<1>7. ASSUME NEW s \in Snapshots, SetState(s) PROVE Atomic!SetState(s)
  <2>1. Idle(book) /\ Idle(book') /\ book'.sides = s.sides /\ book'.matches = s.matches
    BY <1>7 DEF SetState, BookOf, Idle
  <2>2. QED
    BY <1>2, <2>1 DEF Atomic!SetState
<1>8. QED
  BY <1>3, <1>4, <1>5, <1>6, <1>7 DEF Next, Atomic!Next

\* addOrder, which matches round by round, takes effect as one step, with the
\* trades and the rest that the declarative definition of matching gives.
THEOREM CallsAreAtomic == Spec => AtomicBookSpec
<1>1. Init => Atomic!Init
  <2> SUFFICES ASSUME Init PROVE Atomic!Init
    OBVIOUS
  <2>1. /\ book.sides = [t \in {"buy", "sell"} |-> {}] /\ book.matches = <<>> /\ Idle(book)
    BY DEF Init, EmptyBook, EmptySides, OrderType, Idle
  <2>2. AtomicSides = book.sides /\ AtomicLog = book.matches
    BY <2>1 DEF AtomicSides, AtomicLog
  <2>3. QED
    BY <2>1, <2>2 DEF Atomic!Init
<1>2. /\ LegalBook(book) /\ SettledWhenFilled(book) /\ LegalBook(book)'
      /\ [Next]_book
      => [Atomic!Next]_<<AtomicSides, AtomicLog>>
  BY NextIsAtomic
<1>3. QED
  BY <1>1, <1>2, AlwaysLegal, AlwaysSettled, PTL DEF Spec, AtomicBookSpec, Atomic!Spec, Atomic!vars

-----------------------------------------------------------------------------
(* A call comes to its end.                                                *)
(*                                                                         *)
(* CallReturns itself is a temporal property under fairness, which TLC     *)
(* checks; what the code contributes to it is here.                        *)

\* A finite set of candidates has a first one.
LEMMA FirstCandidate ==
  ASSUME NEW t \in OrderType, NEW Q, Waiting(Q, t), Q # {}
  PROVE  \E c \in Q : \A r \in Q : r # c => Precedes(c, r)
<1> DEFINE R == BeforeIn(Q)
           n == Cardinality(Q)
           line == Ranked(Q, R)
<1>1. IsFiniteSet(Q) /\ LinesUp(R, Q)
  BY WaitingInLine DEF Waiting
<1>2. \A r, q \in Q : <<r, q>> \in R => Precedes(r, q)
  BY WaitingInLine
<1> HIDE DEF R
<1>3. /\ n \in Nat /\ line \in [1..n -> Q]
      /\ \A i, j \in 1..n : i < j => <<line[i], line[j]>> \in R
      /\ \A x \in Q : \E i \in 1..n : line[i] = x
  BY <1>1, RankedLine
<1> HIDE DEF n, line
<1>4. n >= 1
  BY <1>3
<1>5. line[1] \in Q /\ \A r \in Q : r # line[1] => <<line[1], r>> \in R
  <2>1. 1 \in 1..n /\ \A i \in 1..n : i # 1 => 1 < i
    BY <1>3, <1>4
  <2>2. QED
    BY <1>3, <2>1
<1>6. QED
  BY <1>2, <1>5

\* A call is never stuck: its loop has a next candidate, or is done.
THEOREM CallsGoOn ==
  Spec => [](~Idle(book) =>
               LoopDone(book.call) \/ \E c \in book.call.candidates : Looping(book.call, c))
<1> DEFINE G == ~Idle(book) =>
                  LoopDone(book.call) \/ \E c \in book.call.candidates : Looping(book.call, c)
<1>1. LegalBook(book) /\ SettledWhenFilled(book) => G
  <2> SUFFICES ASSUME LegalBook(book), SettledWhenFilled(book),
                      ~Idle(book), ~LoopDone(book.call)
               PROVE  \E c \in book.call.candidates : Looping(book.call, c)
    OBVIOUS
  <2> DEFINE o == book.call.order
             t == Opposite(o.type)
             Q == book.call.candidates
  <2>1. IsActive(o) /\ Q # {}
    BY DEF LoopDone
  <2>2. t \in OrderType /\ Waiting(Q, t)
    BY <2>1, CandidatesQueue DEF SettledWhenFilled
  <2> HIDE DEF Q, t
  <2>3. PICK c \in Q : \A r \in Q : r # c => Precedes(c, r)
    BY <2>1, <2>2, FirstCandidate
  <2>4. QED
    BY <2>1, <2>3 DEF Looping, Q
<1>2. QED
  BY <1>1, AlwaysLegal, AlwaysSettled, PTL

\* Every step of a call ends it or leaves it fewer candidates than before, of
\* which it had finitely many.
THEOREM RoundsRunOut ==
  Spec => [][~Idle(book) =>
               \/ Idle(book')
               \/ /\ Cardinality(book.call.candidates) \in Nat
                  /\ Cardinality(book'.call.candidates) < Cardinality(book.call.candidates)]_book
<1> DEFINE A == ~Idle(book) =>
                  \/ Idle(book')
                  \/ /\ Cardinality(book.call.candidates) \in Nat
                     /\ Cardinality(book'.call.candidates)
                          < Cardinality(book.call.candidates)
<1>1. LegalBook(book) /\ SettledWhenFilled(book) /\ [Next]_book => [A]_book
  <2> SUFFICES ASSUME LegalBook(book), SettledWhenFilled(book), Next,
                      ~Idle(book), ~Idle(book')
               PROVE  /\ Cardinality(book.call.candidates) \in Nat
                      /\ Cardinality(book'.call.candidates)
                           < Cardinality(book.call.candidates)
    OBVIOUS
  <2> DEFINE Q == book.call.candidates
  <2>1. ~Return
    BY EndLegal DEF Return
  <2>2. MatchNext
    BY <2>1 DEF Next, AddOrder, CancelOrder, SetState
  <2>3. PICK c \in Q : Looping(book.call, c) /\ book' = Iterate(book, c)
    BY <2>2 DEF MatchNext
  <2>4. book'.call.candidates = Q \ {c}
    BY <2>3 DEF Iterate, Fill, Skip
  <2>5. IsFiniteSet(Q)
    BY <2>3, CandidatesQueue DEF SettledWhenFilled, Waiting, Looping
  <2> HIDE DEF Q
  <2>6. Cardinality(Q) \in Nat /\ Cardinality(Q \ {c}) = Cardinality(Q) - 1
    BY <2>3, <2>5, FS_CardinalityType, FS_RemoveElement
  <2>7. Cardinality(Q) \in Nat /\ Cardinality(Q \ {c}) < Cardinality(Q)
    BY <2>6
  <2>8. QED
    BY <2>4, <2>7 DEF Q
<1>2. QED
  BY <1>1, AlwaysLegal, AlwaysSettled, PTL DEF Spec
=============================================================================
