--------------------------- MODULE MatchingProofs ---------------------------
(***************************************************************************)
(* Lemmas about the operations of Orders and Matching, for every order and *)
(* every book: each operation turns a legal book into a legal book.  They  *)
(* say nothing of who calls; the proofs about the modules with state cite  *)
(* them.                                                                   *)
(***************************************************************************)
EXTENDS Matching, Ranking, FiniteSetTheorems, TLAPS

-----------------------------------------------------------------------------
(* Orders and their operations.                                            *)

\* A clone is equal to the order it was made from: the defaults of the
\* constructor do not apply to an order that exists.
LEMMA CloneIsEqual ==
  ASSUME NEW o \in Order
  PROVE  Clone(o) = o
<1>1. o.originalAmount # 0 /\ o.status # "none"
  BY DEF Order, OrderStatus
<1>2. Clone(o) = [o EXCEPT !.originalAmount = o.originalAmount, !.status = o.status]
  BY <1>1 DEF Clone, NewOrder, Order
<1>3. QED
  BY <1>2 DEF Order

\* Matching keeps an order an order, and touches its amount and status only.
LEMMA UpdateAfterMatchType ==
  ASSUME NEW o \in Order, NEW n \in Nat, ValidFilledAmount(o, n),
         o.amount <= o.originalAmount
  PROVE  LET u == UpdateAfterMatch(o, n)
         IN /\ u \in Order
            /\ u.id = o.id /\ u.type = o.type /\ u.price = o.price
            /\ u.originalAmount = o.originalAmount
            /\ u.timestamp = o.timestamp
            /\ u.amount = o.amount - n
            /\ u.amount = 0 => u.status = "filled"
            /\ u.amount # 0 => u.status = "partially_filled"
<1> DEFINE r == [o EXCEPT !.amount = o.amount - n]
           u == UpdateAfterMatch(o, n)
<1>1. o.amount \in Nat /\ o.originalAmount \in Nat \ {0} /\ n > 0 /\ n <= o.amount
  BY DEF Order, ValidFilledAmount
<1>2. /\ r \in [id: Nat, type: OrderType, price: Nat \ {0}, amount: Nat,
                originalAmount: Nat \ {0}, timestamp: Nat, status: OrderStatus]
      /\ r.id = o.id /\ r.type = o.type /\ r.price = o.price
      /\ r.originalAmount = o.originalAmount /\ r.timestamp = o.timestamp
      /\ r.amount = o.amount - n
  BY <1>1 DEF Order
<1>3. r.amount < r.originalAmount
  BY <1>1, <1>2
<1>4. u = [r EXCEPT !.status = IF r.amount = 0 THEN "filled" ELSE "partially_filled"]
  BY <1>3 DEF UpdateAfterMatch, UpdateStatus
<1>5. QED
  BY <1>2, <1>4 DEF Order, OrderStatus

\* Price, time and id order the orders of one type.
LEMMA PrecedesOrders ==
  ASSUME NEW t \in OrderType, NEW S \in SUBSET Order,
         \A a \in S : a.type = t,
         \A a, b \in S : a.id = b.id => a = b
  PROVE  /\ \A a \in S : ~Precedes(a, a)
         /\ \A a, b \in S : a # b => Precedes(a, b) \/ Precedes(b, a)
         /\ \A a, b, c \in S : Precedes(a, b) /\ Precedes(b, c) => Precedes(a, c)
<1>1. \A a \in S : a.price \in Nat /\ a.timestamp \in Nat /\ a.id \in Nat
  BY DEF Order
<1>2. CASE t = "buy"
  BY <1>1, <1>2 DEF Precedes, BetterPrice
<1>3. CASE t = "sell"
  BY <1>1, <1>3 DEF Precedes, BetterPrice
<1>4. QED
  BY <1>2, <1>3 DEF OrderType

-----------------------------------------------------------------------------
(* What a call does to a legal book.                                       *)

\* A book that only lost orders is as legal as it was.
LEMMA FewerOrdersLegal ==
  ASSUME NEW s \in Sides, NEW r \in Sides,
         \A t \in OrderType : r[t] \subseteq s[t],
         LegalSides(s)
  PROVE  LegalSides(r)
<1>1. "buy" \in OrderType /\ "sell" \in OrderType
  BY DEF OrderType
<1>2. QED
  BY <1>1 DEF LegalSides, ActiveOnTheirSide, UniqueIds, Uncrossed

\* One iteration of the loop on a candidate that is still resting: the match is
\* valid, fair, and fills the incoming order or the candidate.
LEMMA MatchOfCandidate ==
  ASSUME NEW o \in Order, NEW c \in Order,
         IsActive(o), o.amount > 0, o.amount <= o.originalAmount,
         IsActive(c), c.amount > 0, c.amount <= c.originalAmount,
         c.type = Opposite(o.type),
         BetterPrice(o.type, o.price, c.price) \/ o.price = c.price
  PROVE  /\ MakeMatch(o, c) \in Match
         /\ MakeMatch(o, c).matchedAmount = MatchAmount(o, c)
         /\ MakeMatch(o, c).price = c.price
         /\ WithinLimits(MakeMatch(o, c))
         /\ IsValidMatch(MakeMatch(o, c), o, c)
         /\ MatchAmount(o, c) \in Nat
         /\ ValidFilledAmount(o, MatchAmount(o, c))
         /\ ValidFilledAmount(c, MatchAmount(o, c))
         /\ MatchAmount(o, c) = o.amount \/ MatchAmount(o, c) = c.amount
<1> DEFINE m == MakeMatch(o, c)
           n == MatchAmount(o, c)
<1>1. /\ o.amount \in Nat /\ c.amount \in Nat
      /\ o.originalAmount \in Nat \ {0} /\ c.originalAmount \in Nat \ {0}
      /\ o.price \in Nat \ {0} /\ c.price \in Nat \ {0}
      /\ o.id \in Nat /\ c.id \in Nat
      /\ o.type \in {"buy", "sell"}
  BY DEF Order, OrderType
<1>2. /\ n \in Nat /\ n > 0 /\ n <= o.amount /\ n <= c.amount
      /\ n = o.amount \/ n = c.amount
  BY <1>1 DEF MatchAmount
<1>3. Ref(o) \in OrderRef /\ Ref(c) \in OrderRef
  BY <1>1 DEF Ref, OrderRef
<1>4. CASE o.type = "buy"
  <2>1. m = [buyOrder |-> Ref(o), sellOrder |-> Ref(c), matchedAmount |-> n,
             price |-> c.price]
    BY <1>4 DEF MakeMatch
  <2>2. c.type = "sell" /\ o.price >= c.price
    BY <1>1, <1>4 DEF Opposite, BetterPrice
  <2>3. m \in Match /\ m.matchedAmount = n /\ m.price = c.price
    BY <1>1, <1>2, <1>3, <2>1 DEF Match
  <2>4. WithinLimits(m)
    BY <1>1, <1>2, <2>1, <2>2 DEF WithinLimits, Ref
  <2>5. IsValidMatch(m, o, c)
    BY <1>1, <1>2, <1>4, <2>1, <2>2 DEF IsValidMatch, Ref
  <2>6. QED
    BY <1>2, <2>3, <2>4, <2>5 DEF ValidFilledAmount
<1>5. CASE o.type = "sell"
  <2>1. m = [buyOrder |-> Ref(c), sellOrder |-> Ref(o), matchedAmount |-> n,
             price |-> c.price]
    BY <1>5 DEF MakeMatch
  <2>2. c.type = "buy" /\ c.price >= o.price
    BY <1>1, <1>5 DEF Opposite, BetterPrice
  <2>3. m \in Match /\ m.matchedAmount = n /\ m.price = c.price
    BY <1>1, <1>2, <1>3, <2>1 DEF Match
  <2>4. WithinLimits(m)
    BY <1>1, <1>2, <2>1, <2>2 DEF WithinLimits, Ref
  <2>5. IsValidMatch(m, o, c)
    BY <1>1, <1>2, <1>5, <2>1, <2>2 DEF IsValidMatch, Ref
  <2>6. QED
    BY <1>2, <2>3, <2>4, <2>5 DEF ValidFilledAmount
<1>6. QED
  BY <1>1, <1>4, <1>5

-----------------------------------------------------------------------------
(* The parts of a book.                                                    *)

\* The fields of a book and of a call in progress, one by one.
LEMMA BookParts ==
  ASSUME NEW b \in Book
  PROVE  /\ b.sides \in Sides /\ b.matches \in Seq(Match)
         /\ \A t \in OrderType : b.sides[t] \subseteq Order
         /\ ~Idle(b) => /\ b.call.order \in Order
                        /\ b.call.candidates \in SUBSET Order
                        /\ b.call.fills \in Seq(Match)
                        /\ b.call.entryAmount \in Nat
BY DEF Book, Sides, Idle, Call

\* A log of fair matches stays one when a fair match is appended.
LEMMA AppendFair ==
  ASSUME NEW log \in Seq(Match), FairLog(log),
         NEW m \in Match, WithinLimits(m)
  PROVE  Append(log, m) \in Seq(Match) /\ FairLog(Append(log, m))
BY DEF FairLog

\* addOrder takes over the book as it is, with every order it could match.
LEMMA BeginLegal ==
  ASSUME NEW b, LegalBook(b), Idle(b),
         NEW o \in Order, ValidInputs(o), o.amount <= o.originalAmount,
         Accepts(b, o)
  PROVE  LegalBook(BeginCall(b, o))
<1> DEFINE found == FindMatchingOrders(b.sides, o)
           call  == [order |-> o, candidates |-> found, fills |-> <<>>,
                     entryAmount |-> o.amount]
           opposite == Opposite(o.type)
<1>1. b \in Book
  BY DEF LegalBook
<1>2. b.sides \in Sides /\ b.matches \in Seq(Match)
  BY <1>1, BookParts
<1>3. opposite \in OrderType /\ b.sides[opposite] \subseteq Order
  BY <1>1, BookParts DEF Opposite, OrderType
<1>4. found = {x \in b.sides[opposite] : CanMatchWith(x, o)}
  BY <1>3, CloneIsEqual DEF FindMatchingOrders
<1>5. call \in Call
  BY <1>3, <1>4 DEF Call, Order
<1>6. BeginCall(b, o) = [sides |-> b.sides, matches |-> b.matches, call |-> call]
  BY DEF BeginCall
<1>7. BeginCall(b, o) \in Book
  BY <1>2, <1>5, <1>6 DEF Book
<1>8. CallLegal(b.sides, call)
  <2>1. ~InBook(b.sides, o.id) /\ (IsActive(o) => o.amount > 0)
    BY DEF Accepts, ValidInputs, IsActive
  <2>2. ASSUME NEW c \in found
        PROVE  BetterPrice(o.type, o.price, c.price) \/ o.price = c.price
    <3>1. c \in Order /\ CanMatchWith(c, o)
      BY <1>3, <1>4
    <3>2. o.price \in Nat /\ c.price \in Nat
      BY <3>1 DEF Order
    <3>3. o.type \in {"buy", "sell"} /\ c.type \in {"buy", "sell"}
      BY <3>1 DEF Order, OrderType
    <3>4. QED
      BY <3>1, <3>2, <3>3 DEF CanMatchWith, PricesCross, BetterPrice
  <2>3. QED
    BY <1>4, <2>1, <2>2 DEF CallLegal
<1>9. QED
  BY <1>6, <1>7, <1>8 DEF LegalBook

\* A call ends with its order filled, or resting where nothing crosses it.
LEMMA EndLegal ==
  ASSUME NEW b, LegalBook(b), ~Idle(b), LoopDone(b.call)
  PROVE  LegalBook(EndCall(b)) /\ Idle(EndCall(b))
<1> DEFINE o == b.call.order
           s == b.sides
           r == SidesAfterRest(s, o)
<1>1. /\ b \in Book /\ LegalSides(s) /\ FairLog(b.matches)
      /\ CallLegal(s, b.call)
  BY DEF LegalBook
<1>2. /\ s \in Sides /\ b.matches \in Seq(Match) /\ o \in Order
      /\ \A t \in OrderType : s[t] \subseteq Order
  BY <1>1, BookParts
<1>3. r \in Sides /\ LegalSides(r)
  <2>1. CASE ~IsActive(o)
    BY <1>1, <1>2, <2>1 DEF SidesAfterRest
  <2>2. CASE IsActive(o)
    <3>1. b.call.candidates = {}
      BY <2>2 DEF LoopDone
    <3>2. /\ o.type \in OrderType /\ o.price \in Nat /\ o.amount \in Nat
          /\ o.originalAmount \in Nat
          /\ o.status \in {"open", "partially_filled"}
      BY <1>2, <2>2 DEF Order, IsActive
    <3>3. /\ o.amount > 0 /\ o.amount <= o.originalAmount
          /\ \A t \in OrderType : \A x \in s[t] : x.id # o.id
          /\ \A x \in s[Opposite(o.type)] : ~CanMatchWith(x, o)
      BY <1>1, <2>2, <3>1 DEF CallLegal, InBook
    <3>4. r = [s EXCEPT ![o.type] = s[o.type] \cup {o}]
      BY <2>2 DEF SidesAfterRest
    <3>5. /\ r \in Sides
          /\ r[o.type] = s[o.type] \cup {o}
          /\ \A t \in OrderType : t # o.type => r[t] = s[t]
      BY <1>2, <3>2, <3>4 DEF Sides
    <3>6. ActiveOnTheirSide(r)
      BY <1>1, <3>2, <3>3, <3>5 DEF ActiveOnTheirSide, LegalSides
    <3>7. UniqueIds(r)
      BY <1>1, <3>3, <3>5 DEF UniqueIds, LegalSides
    <3>8. Uncrossed(r)
      <4>1. \A x \in s["buy"] : /\ x.type = "buy" /\ x.price \in Nat
                               /\ IsActive(x)
        BY <1>1, <1>2 DEF LegalSides, ActiveOnTheirSide, OrderType, Order, IsActive
      <4>2. \A x \in s["sell"] : /\ x.type = "sell" /\ x.price \in Nat
                                /\ IsActive(x)
        BY <1>1, <1>2 DEF LegalSides, ActiveOnTheirSide, OrderType, Order, IsActive
      <4>3. CASE o.type = "buy"
        <5>1. \A x \in s["sell"] : o.price < x.price
          BY <2>2, <3>2, <3>3, <4>2, <4>3 DEF Opposite, CanMatchWith, PricesCross
        <5>2. r["buy"] = s["buy"] \cup {o} /\ r["sell"] = s["sell"]
          BY <3>5, <4>3 DEF OrderType
        <5>3. QED
          BY <1>1, <5>1, <5>2 DEF Uncrossed, LegalSides
      <4>4. CASE o.type = "sell"
        <5>1. \A x \in s["buy"] : x.price < o.price
          BY <2>2, <3>2, <3>3, <4>1, <4>4 DEF Opposite, CanMatchWith, PricesCross
        <5>2. r["sell"] = s["sell"] \cup {o} /\ r["buy"] = s["buy"]
          BY <3>5, <4>4 DEF OrderType
        <5>3. QED
          BY <1>1, <5>1, <5>2 DEF Uncrossed, LegalSides
      <4>5. QED
        BY <3>2, <4>3, <4>4 DEF OrderType
    <3>9. QED
      BY <3>5, <3>6, <3>7, <3>8 DEF LegalSides
  <2>3. QED
    BY <2>1, <2>2
<1>4. EndCall(b) = [sides |-> r, matches |-> b.matches, call |-> NoCall]
  BY DEF EndCall
<1>5. EndCall(b) \in Book
  BY <1>2, <1>3, <1>4 DEF Book
<1>6. QED
  BY <1>1, <1>3, <1>4, <1>5 DEF LegalBook, Idle

\* Cancelling takes orders out and nothing else.
LEMMA CancelLegal ==
  ASSUME NEW b, LegalBook(b), Idle(b), NEW id
  PROVE  LegalBook(WithoutOrder(b, id)) /\ Idle(WithoutOrder(b, id))
<1> DEFINE s == b.sides
           r == SidesAfterCancel(s, id)
<1>1. b \in Book /\ LegalSides(s) /\ FairLog(b.matches)
  BY DEF LegalBook
<1>2. s \in Sides /\ b.matches \in Seq(Match)
  BY <1>1, BookParts
<1>3. r \in Sides /\ \A t \in OrderType : r[t] \subseteq s[t]
  BY <1>2 DEF SidesAfterCancel, RemoveOrder, Sides, OrderType
<1>4. LegalSides(r)
  BY <1>1, <1>2, <1>3, FewerOrdersLegal
<1>5. WithoutOrder(b, id) = [sides |-> r, matches |-> b.matches, call |-> b.call]
  BY DEF WithoutOrder
<1>6. WithoutOrder(b, id) \in Book
  BY <1>1, <1>2, <1>3, <1>5 DEF Book
<1>7. QED
  BY <1>1, <1>4, <1>5, <1>6 DEF LegalBook, Idle

-----------------------------------------------------------------------------
(* A round of the matching loop.                                           *)

\* A round makes a match, never a skip: its candidate is active and crosses the
\* incoming order, though it was cloned before the first round.
LEMMA RoundIsAFill ==
  ASSUME NEW b, LegalBook(b), ~Idle(b), NEW c, Looping(b.call, c)
  PROVE  LET o == b.call.order
             m == MakeMatch(o, c)
         IN /\ c \in b.sides[Opposite(o.type)] /\ c \in Order
            /\ c.type = Opposite(o.type)
            /\ m \in Match /\ WithinLimits(m)
            /\ m.matchedAmount = MatchAmount(o, c) /\ m.price = c.price
            /\ MatchAmount(o, c) \in Nat
            /\ ValidFilledAmount(o, MatchAmount(o, c))
            /\ ValidFilledAmount(c, MatchAmount(o, c))
            /\ MatchAmount(o, c) = o.amount \/ MatchAmount(o, c) = c.amount
            /\ o.amount <= o.originalAmount /\ c.amount <= c.originalAmount
            /\ Iterate(b, c) = Fill(b, c, m)
<1> DEFINE o == b.call.order
           m == MakeMatch(o, c)
           opposite == Opposite(o.type)
<1>1. b \in Book /\ LegalSides(b.sides) /\ CallLegal(b.sides, b.call)
  BY DEF LegalBook
<1>2. o \in Order /\ \A t \in OrderType : b.sides[t] \subseteq Order
  BY <1>1, BookParts
<1>3. IsActive(o) /\ c \in b.call.candidates
  BY DEF Looping
<1>4. /\ o.amount > 0 /\ o.amount <= o.originalAmount
      /\ c \in b.sides[opposite]
      /\ BetterPrice(o.type, o.price, c.price) \/ o.price = c.price
  BY <1>1, <1>3 DEF CallLegal
<1>5. opposite \in OrderType
  BY DEF Opposite, OrderType
<1>6. /\ c \in Order /\ c.type = opposite
      /\ c.status \in {"open", "partially_filled"}
      /\ 0 < c.amount /\ c.amount <= c.originalAmount
  BY <1>1, <1>2, <1>4, <1>5 DEF LegalSides, ActiveOnTheirSide
<1>7. IsActive(c) /\ c.amount > 0
  BY <1>6 DEF IsActive, Order
<1>8. /\ m \in Match /\ m.matchedAmount = MatchAmount(o, c) /\ m.price = c.price
      /\ WithinLimits(m) /\ IsValidMatch(m, o, c)
      /\ MatchAmount(o, c) \in Nat
      /\ ValidFilledAmount(o, MatchAmount(o, c))
      /\ ValidFilledAmount(c, MatchAmount(o, c))
      /\ MatchAmount(o, c) = o.amount \/ MatchAmount(o, c) = c.amount
  BY <1>2, <1>3, <1>4, <1>6, <1>7, MatchOfCandidate
<1>9. Iterate(b, c) = Fill(b, c, m)
  BY <1>7, <1>8 DEF Iterate
<1>10. QED
  BY <1>4, <1>6, <1>8, <1>9

\* A round leaves a legal book and a call that still knows it: either the
\* incoming order is filled, or the candidate is and leaves the book with it.
LEMMA IterateLegal ==
  ASSUME NEW b, LegalBook(b), ~Idle(b), NEW c, Looping(b.call, c)
  PROVE  LegalBook(Iterate(b, c))
<1> DEFINE o == b.call.order
           m == MakeMatch(o, c)
           n == MatchAmount(o, c)
           t == Opposite(o.type)
           s == b.sides
           u == UpdateAfterMatch(o, n)
           r == [s EXCEPT ![t] = SideAfterFill(s[t], c, n)]
           rest == b.call.candidates \ {c}
           call == [order |-> u, candidates |-> rest,
                    fills |-> Append(b.call.fills, m),
                    entryAmount |-> b.call.entryAmount]
<1>1. /\ b \in Book /\ LegalSides(s) /\ FairLog(b.matches)
      /\ CallLegal(s, b.call)
  BY DEF LegalBook
<1>2. /\ s \in Sides /\ b.matches \in Seq(Match) /\ o \in Order
      /\ b.call.candidates \in SUBSET Order
      /\ b.call.fills \in Seq(Match) /\ b.call.entryAmount \in Nat
      /\ \A x \in OrderType : s[x] \subseteq Order
  BY <1>1, BookParts
<1>3. /\ c \in s[t] /\ c \in Order /\ m \in Match /\ WithinLimits(m)
      /\ m.matchedAmount = n /\ n \in Nat
      /\ ValidFilledAmount(o, n) /\ ValidFilledAmount(c, n)
      /\ n = o.amount \/ n = c.amount
      /\ o.amount <= o.originalAmount /\ c.amount <= c.originalAmount
      /\ Iterate(b, c) = Fill(b, c, m)
  BY RoundIsAFill
<1>4. t \in OrderType
  BY DEF Opposite, OrderType
<1>5. /\ u \in Order /\ u.id = o.id /\ u.type = o.type /\ u.price = o.price
      /\ u.originalAmount = o.originalAmount /\ u.amount = o.amount - n
      /\ u.amount = 0 => u.status = "filled"
      /\ u.amount # 0 => u.status = "partially_filled"
  BY <1>2, <1>3, UpdateAfterMatchType
<1>6. SideAfterFill(s[t], c, n) \subseteq s[t]
  BY DEF SideAfterFill, RemoveOrder
<1>7. /\ r \in Sides
      /\ r[t] = SideAfterFill(s[t], c, n)
      /\ \A x \in OrderType : r[x] \subseteq s[x]
  BY <1>2, <1>4, <1>6 DEF Sides
<1>8. LegalSides(r)
  BY <1>1, <1>2, <1>7, FewerOrdersLegal
<1>9. call \in Call
  BY <1>2, <1>3, <1>5 DEF Call
<1>10. \A x \in s[t] : x.id = c.id => x = c
  BY <1>1, <1>3, <1>4 DEF LegalSides, UniqueIds
<1>11. rest \subseteq r[t]
  <2>1. rest \subseteq s[t]
    BY <1>1 DEF CallLegal
  <2>2. QED
    BY <1>7, <1>10, <2>1 DEF SideAfterFill, RemoveOrder
<1>12. /\ o.amount \in Nat /\ c.amount \in Nat /\ o.originalAmount \in Nat
       /\ n > 0 /\ n <= o.amount
  BY <1>2, <1>3 DEF Order, ValidFilledAmount
<1>13. ASSUME IsActive(u)
       PROVE  /\ u.amount > 0 /\ IsActive(o)
              /\ \A x \in r[t] : CanMatchWith(x, u) => x \in rest
  <2>1. u.amount # 0
    BY <1>5, <1>13 DEF IsActive
  <2>2. n = c.amount
    BY <1>3, <1>5, <1>12, <2>1
  <2>3. UpdateAfterMatch(c, n).amount = c.amount - n
    BY <1>3, UpdateAfterMatchType
  <2>4. UpdateAfterMatch(c, n).status = "filled"
    BY <1>3, <1>12, <2>2, <2>3, UpdateAfterMatchType
  <2>5. r[t] = {x \in s[t] : x.id # c.id}
    BY <1>7, <2>4 DEF SideAfterFill, RemoveOrder
  <2>6. IsActive(o)
    BY DEF Looping
  <2>7. \A x \in s[t] : CanMatchWith(x, o) => x \in b.call.candidates
    BY <1>1, <2>6 DEF CallLegal
  <2>8. \A x \in s[t] : CanMatchWith(x, u) => CanMatchWith(x, o)
    BY <1>5, <2>6 DEF CanMatchWith
  <2>9. u.amount > 0
    BY <1>3, <1>5, <1>12, <2>1
  <2>10. QED
    BY <2>5, <2>6, <2>7, <2>8, <2>9
<1>14. CallLegal(r, call)
  <2>1. ~InBook(r, u.id)
    BY <1>1, <1>5, <1>7 DEF CallLegal, InBook
  <2>2. u.amount <= u.originalAmount
    BY <1>3, <1>5, <1>12
  <2>3. \A x \in rest : BetterPrice(u.type, u.price, x.price) \/ u.price = x.price
    BY <1>1, <1>5 DEF CallLegal
  <2>4. Opposite(u.type) = t
    BY <1>5
  <2>5. QED
    BY <1>11, <1>13, <2>1, <2>2, <2>3, <2>4 DEF CallLegal
<1>15. Fill(b, c, m) = [sides |-> r, matches |-> Append(b.matches, m), call |-> call]
  BY <1>3 DEF Fill
<1>16. Append(b.matches, m) \in Seq(Match) /\ FairLog(Append(b.matches, m))
  BY <1>1, <1>2, <1>3, AppendFair
<1>17. Fill(b, c, m) \in Book
  BY <1>7, <1>9, <1>15, <1>16 DEF Book
<1>18. QED
  BY <1>3, <1>8, <1>14, <1>15, <1>16, <1>17 DEF LegalBook
-----------------------------------------------------------------------------
(* Books that no operation has touched.                                    *)

\* The empty book is legal.
LEMMA EmptyLegal == LegalBook(EmptyBook)
<1>1. EmptyBook \in Book /\ Idle(EmptyBook)
  BY DEF EmptyBook, EmptySides, Book, Sides, Idle
<1>2. LegalSides(EmptyBook.sides)
  BY DEF EmptyBook, EmptySides, LegalSides, ActiveOnTheirSide, UniqueIds, Uncrossed,
         OrderType
<1>3. FairLog(EmptyBook.matches)
  BY DEF EmptyBook, FairLog
<1>4. QED
  BY <1>1, <1>2, <1>3 DEF LegalBook

\* What can be parsed of a list of orders is some of them, as they are.
LEMMA ParsedOrders ==
  ASSUME NEW S, S \subseteq Order
  PROVE  SafelyMapOrders(S) \subseteq S
<1>1. \A o \in S : FromObject(o) = o
  BY CloneIsEqual DEF FromObject, Clone
<1>2. QED
  BY <1>1 DEF SafelyMapOrders

\* What is parsed of a legal state is a legal book.
LEMMA ParsedStateLegal ==
  ASSUME NEW s \in Sides, LegalSides(s), NEW log \in Seq(Match), FairLog(log)
  PROVE  LegalBook(BookOf([t \in OrderType |-> SafelyMapOrders(s[t])], log))
<1> DEFINE r == [t \in OrderType |-> SafelyMapOrders(s[t])]
<1>1. ASSUME NEW t \in OrderType
      PROVE  SafelyMapOrders(s[t]) \subseteq s[t]
  <2>1. s[t] \subseteq Order
    BY DEF Sides
  <2>2. QED
    BY <2>1, ParsedOrders
<1>2. \A t \in OrderType : r[t] \subseteq s[t]
  BY <1>1
<1>3. r \in Sides
  BY <1>1 DEF Sides
<1>4. LegalSides(r)
  BY <1>2, <1>3, FewerOrdersLegal
<1>5. BookOf(r, log) = [sides |-> r, matches |-> log, call |-> NoCall]
  BY DEF BookOf
<1>6. BookOf(r, log) \in Book
  BY <1>3, <1>5 DEF Book
<1>7. QED
  BY <1>4, <1>5, <1>6 DEF LegalBook, Idle

-----------------------------------------------------------------------------
(* Induction over finite data.  What fails of some finite set fails of a   *)
(* smallest one.                                                           *)

\* A family of finite sets has a member none of whose proper subsets is in it:
\* what holds of a finite set as soon as it holds of all its proper subsets
\* holds of every finite set.
LEMMA SmallestSet ==
  ASSUME NEW S, IsFiniteSet(S), NEW F, F \subseteq SUBSET S, F # {}
  PROVE  \E x \in F : \A y \in F : y \subseteq x => y = x
<1>1. F \subseteq FiniteSubsetsOf(S)
  BY FS_FiniteSubsetsOfFinite
<1>2. \E x \in F : \A y \in F : <<y, x>> \notin StrictSubsetOrdering(S)
  BY <1>1, FS_StrictSubsetOrderingWellFounded, WFMin
<1>3. QED
  BY <1>2 DEF StrictSubsetOrdering

\* A set of natural numbers has a smallest one.
LEMMA SmallestNat ==
  ASSUME NEW T, T \subseteq Nat, T # {}
  PROVE  \E n \in T : \A m \in T : n <= m
<1>1. PICK k \in T : TRUE
  OBVIOUS
<1> DEFINE F == {x \in SUBSET (1..k) : \E n \in T : n <= k /\ x = 1..n}
<1>2. IsFiniteSet(1..k)
  BY <1>1, FS_Interval
<1>3. 1..k \in F
  BY <1>1
<1>4. PICK x \in F : \A y \in F : y \subseteq x => y = x
  <2> HIDE DEF F
  <2> DEFINE K == 1..k
  <2>1. IsFiniteSet(K) /\ F \subseteq SUBSET K /\ F # {}
    BY <1>2, <1>3 DEF F
  <2> HIDE DEF K
  <2>2. QED
    BY <2>1, SmallestSet
<1>5. PICK n \in T : n <= k /\ x = 1..n
  BY <1>4
<1>6. ASSUME NEW m \in T, m < n PROVE FALSE
  <2>1. 1..m \in F /\ 1..m \subseteq 1..n
    BY <1>5, <1>6
  <2>2. 1..m = 1..n
    BY <2>1, <1>4, <1>5
  <2>3. n \in 1..n /\ n \notin 1..m
    BY <1>6
  <2>4. QED
    BY <2>2, <2>3
<1>7. QED
  BY <1>6, <1>5

-----------------------------------------------------------------------------
(* Sums.  A fold over a finite set recurses on the subsets of the set, and *)
(* chooses the element to take out next.  These lemmas take the weights    *)
(* and the choice as functions.                                            *)

\* c chooses an element of every nonempty subset of S.
Chooses(c, S) == \A s \in SUBSET S : s # {} => c[s] \in s

\* f is what a fold over the subsets of S recurses on, when it adds the weights
\* W of the elements in the order in which c takes them out.
IsSum(f, S, W, c) ==
  f = [s \in SUBSET S |-> IF s = {} THEN 0 ELSE W[c[s]] + f[s \ {c[s]}]]

\* The recursion, unfolded once.
LEMMA SumStep ==
  ASSUME NEW S, NEW W, NEW c, NEW f, IsSum(f, S, W, c), Chooses(c, S),
         NEW s \in SUBSET S
  PROVE  /\ s = {} => f[s] = 0
         /\ s # {} => /\ c[s] \in s
                      /\ f[s] = W[c[s]] + f[s \ {c[s]}]
                      /\ s \ {c[s]} \in SUBSET S
<1> DEFINE g == [t \in SUBSET S |-> IF t = {} THEN 0 ELSE W[c[t]] + f[t \ {c[t]}]]
<1>1. f = g
  BY DEF IsSum
<1>2. f[s] = g[s]
  BY <1>1
<1>3. g[s] = IF s = {} THEN 0 ELSE W[c[s]] + f[s \ {c[s]}]
  OBVIOUS
<1>4. QED
  BY <1>2, <1>3 DEF Chooses

\* Nothing adds up to nothing.
LEMMA SumEmpty ==
  ASSUME NEW S, NEW W, NEW c, NEW f, IsSum(f, S, W, c)
  PROVE  f[{}] = 0
<1> DEFINE g == [t \in SUBSET S |-> IF t = {} THEN 0 ELSE W[c[t]] + f[t \ {c[t]}]]
<1>1. f[{}] = g[{}]
  BY DEF IsSum
<1>2. QED
  BY <1>1

\* The sum over a finite set is a number, and any element may be taken out first.
LEMMA SumRemove ==
  ASSUME NEW S, IsFiniteSet(S), NEW W \in [S -> Nat], NEW c, Chooses(c, S),
         NEW f, IsSum(f, S, W, c)
  PROVE  \A s \in SUBSET S : /\ f[s] \in Nat
                             /\ \A x \in s : f[s] = W[x] + f[s \ {x}]
<1> DEFINE P(s) == f[s] \in Nat /\ \A x \in s : f[s] = W[x] + f[s \ {x}]
           F == {s \in SUBSET S : ~P(s)}
<1>1. ASSUME F # {} PROVE FALSE
  <2>1. F \subseteq SUBSET S
    OBVIOUS
  <2>2. PICK s \in F : \A t \in F : t \subseteq s => t = s
    <3> HIDE DEF F
    <3>1. QED
      BY <1>1, <2>1, SmallestSet
  <2>3. \A t \in SUBSET s : t # s => P(t)
    <3>1. ASSUME NEW t \in SUBSET s, t # s, ~P(t) PROVE FALSE
      <4>1. t \in F
        BY <2>1, <3>1
      <4>2. QED
        BY <4>1, <2>2, <3>1
    <3>2. QED
      BY <3>1
  <2> HIDE DEF P
  <2>4. s \in SUBSET S /\ ~P(s)
    OBVIOUS
  <2>5. s # {}
    <3>1. ASSUME s = {} PROVE P(s)
      BY <3>1, <2>4, SumStep DEF P
    <3>2. QED
      BY <3>1, <2>4
  <2>6. PICK y \in s : y = c[s] /\ f[s] = W[y] + f[s \ {y}] /\ W[y] \in Nat
    <3>1. c[s] \in s /\ f[s] = W[c[s]] + f[s \ {c[s]}]
      BY <2>4, <2>5, SumStep
    <3>2. W[c[s]] \in Nat
      BY <3>1, <2>4
    <3>3. QED
      BY <3>1, <3>2
  <2>7. f[s] \in Nat
    <3>1. P(s \ {y})
      BY <2>3, <2>6
    <3>2. QED
      BY <3>1, <2>6 DEF P
  <2>8. ASSUME NEW x \in s, x # y PROVE f[s] = W[x] + f[s \ {x}]
    <3> DEFINE r == (s \ {x}) \ {y}
    <3>1. r = (s \ {y}) \ {x} /\ W[x] \in Nat
      BY <2>4
    <3>2. P(s \ {x}) /\ P(s \ {y}) /\ P(r)
      BY <2>3, <2>6, <2>8
    <3>3. f[s \ {x}] = W[y] + f[r]
      BY <3>2, <2>8 DEF P
    <3>4. f[s \ {y}] = W[x] + f[r]
      BY <3>2, <2>8, <3>1 DEF P
    <3>5. f[r] \in Nat
      BY <3>2 DEF P
    <3>6. QED
      BY <3>1, <3>3, <3>4, <3>5, <2>6
  <2>9. P(s)
    BY <2>6, <2>7, <2>8 DEF P
  <2>10. QED
    BY <2>9, <2>4
<1>2. QED
  BY <1>1

\* Two sums that give the same weights to the elements of s agree on s.
LEMMA SumsAgree ==
  ASSUME NEW S, IsFiniteSet(S), NEW W \in [S -> Nat], NEW c, Chooses(c, S),
         NEW f, IsSum(f, S, W, c),
         NEW T, IsFiniteSet(T), NEW V \in [T -> Nat], NEW d, Chooses(d, T),
         NEW g, IsSum(g, T, V, d),
         NEW U, U \in SUBSET S, U \in SUBSET T, \A x \in U : W[x] = V[x]
  PROVE  f[U] = g[U]
<1> DEFINE F == {s \in SUBSET U : f[s] # g[s]}
<1>1. ASSUME F # {} PROVE FALSE
  <2>1. F \subseteq SUBSET U /\ IsFiniteSet(U)
    BY FS_Subset
  <2>2. PICK s \in F : \A t \in F : t \subseteq s => t = s
    <3> HIDE DEF F
    <3>1. QED
      BY <1>1, <2>1, SmallestSet
  <2>3. s \in SUBSET S /\ s \in SUBSET T /\ f[s] # g[s]
    OBVIOUS
  <2>4. s # {}
    <3>1. f[{}] = 0
      BY SumEmpty
    <3>2. g[{}] = 0
      BY SumEmpty
    <3>3. QED
      BY <3>1, <3>2, <2>3
  <2>5. PICK x \in s : TRUE
    BY <2>4
  <2>6. f[s \ {x}] = g[s \ {x}]
    BY <2>2, <2>5
  <2>7. f[s] = W[x] + f[s \ {x}] /\ g[s] = V[x] + g[s \ {x}]
    BY <2>3, <2>5, SumRemove
  <2>8. QED
    BY <2>3, <2>5, <2>6, <2>7
<1>2. QED
  BY <1>1

\* The recursion of a fold over a finite set has a solution.
LEMMA SumExists ==
  ASSUME NEW S, IsFiniteSet(S), NEW W \in [S -> Nat], NEW c, Chooses(c, S)
  PROVE  \E f : IsSum(f, S, W, c)
<1> DEFINE F == {s \in SUBSET S : ~ \E f : IsSum(f, s, W, c)}
<1>1. ASSUME F # {} PROVE FALSE
  <2>1. F \subseteq SUBSET S
    OBVIOUS
  <2>2. PICK s \in F : \A t \in F : t \subseteq s => t = s
    <3> HIDE DEF F
    <3>1. QED
      BY <1>1, <2>1, SmallestSet
  <2>3. s \in SUBSET S /\ ~ \E f : IsSum(f, s, W, c)
    OBVIOUS
  <2>4. s # {}
    <3>1. ASSUME s = {} PROVE FALSE
      <4> DEFINE z == [t \in {{}} |-> 0]
      <4>1. \A t \in SUBSET s : t = {}
        BY <3>1
      <4>2. SUBSET s = {{}}
        BY <3>1
      <4>3. z = [t \in SUBSET s |-> IF t = {} THEN 0 ELSE W[c[t]] + z[t \ {c[t]}]]
        BY <4>1, <4>2
      <4>4. QED
        BY <4>3, <2>3 DEF IsSum
    <3>2. QED
      BY <3>1
  <2>5. PICK a \in s : TRUE
    BY <2>4
  <2> DEFINE r == s \ {a}
  <2>6. r \in SUBSET S /\ IsFiniteSet(r) /\ Chooses(c, r) /\ Chooses(c, s)
    BY <2>3, FS_Subset DEF Chooses
  <2>7. PICK f : IsSum(f, r, W, c)
    BY <2>2, <2>3, <2>5, <2>6
  <2> DEFINE R == [x \in r |-> W[x]]
             g == [t \in SUBSET s |-> IF a \in t THEN W[a] + f[t \ {a}] ELSE f[t]]
  <2>8. IsSum(f, r, R, c) /\ R \in [r -> Nat]
    <3>1. R \in [r -> Nat]
      BY <2>6
    <3>2. \A t \in SUBSET r : t # {} => W[c[t]] = R[c[t]]
      BY <2>6 DEF Chooses
    <3>3. [t \in SUBSET r |-> IF t = {} THEN 0 ELSE W[c[t]] + f[t \ {c[t]}]]
            = [t \in SUBSET r |-> IF t = {} THEN 0 ELSE R[c[t]] + f[t \ {c[t]}]]
      BY <3>2
    <3>4. QED
      BY <3>1, <3>3, <2>7 DEF IsSum
  <2>9. \A t \in SUBSET r : f[t] \in Nat /\ \A x \in t : f[t] = W[x] + f[t \ {x}]
    <3>1. \A t \in SUBSET r : f[t] \in Nat /\ \A x \in t : f[t] = R[x] + f[t \ {x}]
      <4>1. IsFiniteSet(r) /\ R \in [r -> Nat] /\ Chooses(c, r) /\ IsSum(f, r, R, c)
        BY <2>6, <2>8
      <4> HIDE DEF r, R, F
      <4>2. QED
        BY <4>1, SumRemove
    <3>2. QED
      BY <3>1
  <2>10. ASSUME NEW t \in SUBSET s
         PROVE  g[t] = IF t = {} THEN 0 ELSE W[c[t]] + g[t \ {c[t]}]
    <3>1. CASE t = {}
      <4>1. f[{}] = 0
        BY <2>6, <2>7, SumStep
      <4>2. QED
        BY <4>1, <3>1
    <3>2. CASE t # {} /\ a \notin t
      <4>1. t \in SUBSET r /\ c[t] \in t
        BY <3>2, <2>6 DEF Chooses
      <4>2. g[t] = f[t] /\ g[t \ {c[t]}] = f[t \ {c[t]}]
        BY <3>2, <4>1
      <4>3. QED
        BY <4>1, <4>2, <3>2, <2>9
    <3>3. CASE c[t] = a /\ a \in t
      BY <3>3
    <3>4. CASE a \in t /\ c[t] # a
      <4> DEFINE y == c[t]
      <4>1. y \in t /\ y \in r /\ W[y] \in Nat /\ W[a] \in Nat
        BY <3>4, <2>6, <2>3 DEF Chooses
      <4>2. f[t \ {a}] = W[y] + f[(t \ {a}) \ {y}]
        BY <4>1, <3>4, <2>9
      <4>3. g[t \ {y}] = W[a] + f[(t \ {y}) \ {a}]
        BY <4>1, <3>4
      <4>4. (t \ {y}) \ {a} = (t \ {a}) \ {y} /\ f[(t \ {a}) \ {y}] \in Nat
        <5>1. (t \ {a}) \ {y} \in SUBSET r
          OBVIOUS
        <5>2. QED
          BY <5>1, <2>9
      <4>5. g[t] = W[a] + f[t \ {a}]
        BY <3>4
      <4>6. g[t] = W[y] + g[t \ {y}]
        <5> DEFINE n == f[(t \ {a}) \ {y}]
        <5>1. n \in Nat /\ g[t] = W[a] + (W[y] + n) /\ g[t \ {y}] = W[a] + n
          BY <4>2, <4>3, <4>4, <4>5
        <5> HIDE DEF n, y, g
        <5>2. QED
          BY <4>1, <5>1
      <4>7. QED
        BY <4>6, <3>4
    <3>5. QED
      BY <3>1, <3>2, <3>3, <3>4
  <2>11. g = [t \in SUBSET s |-> IF t = {} THEN 0 ELSE W[c[t]] + g[t \ {c[t]}]]
    <3>1. [t \in SUBSET s |-> g[t]]
            = [t \in SUBSET s |-> IF t = {} THEN 0 ELSE W[c[t]] + g[t \ {c[t]}]]
      <4> HIDE DEF g
      <4>1. QED
        BY <2>10
    <3>2. QED
      BY <3>1
  <2>12. QED
    BY <2>11, <2>3 DEF IsSum
<1>2. QED
  BY <1>1, FS_Subset

\* A fold over a sequence starts from its last element.
LEMMA LargestOf ==
  ASSUME NEW n \in Nat, NEW s \in SUBSET (1..n), s # {}
  PROVE  Max(s) \in s
<1> DEFINE B == {b \in Nat : \A i \in s : i <= b}
<1>1. n \in B
  OBVIOUS
<1>2. PICK b \in B : \A a \in B : b <= a
  <2>1. B \subseteq Nat /\ B # {}
    BY <1>1
  <2> HIDE DEF B
  <2>2. QED
    BY <2>1, SmallestNat
<1>3. b \in s
  <2>1. PICK i \in s : i \in 1..n /\ i <= b
    OBVIOUS
  <2>2. b \in Nat /\ b - 1 \in Nat /\ b - 1 \notin B
    BY <1>2, <2>1
  <2>3. PICK j \in s : j > b - 1 /\ j <= b /\ j \in Nat
    BY <2>2
  <2>4. j = b
    BY <2>2, <2>3
  <2>5. QED
    BY <2>3, <2>4
<1>4. \A i \in s : b >= i
  OBVIOUS
<1>5. QED
  BY <1>3, <1>4 DEF Max

\* What a list of matches adds up to is the sum of their amounts.
LEMMA FilledIsSum ==
  ASSUME NEW fills \in Seq(Match)
  PROVE  LET S == DOMAIN fills
             W == [i \in S |-> fills[i].matchedAmount]
         IN /\ IsFiniteSet(S) /\ W \in [S -> Nat]
            /\ \E f, c : Chooses(c, S) /\ IsSum(f, S, W, c) /\ Filled(fills) = f[S]
<1> DEFINE S == DOMAIN fills
           W == [i \in S |-> fills[i].matchedAmount]
           c == [s \in SUBSET S |-> Max(s)]
           Step(f) == [s \in SUBSET S |->
                         IF s = {} THEN 0
                         ELSE fills[Max(s)].matchedAmount + f[s \ {Max(s)}]]
           iter == CHOOSE f : f = Step(f)
<1>1. Len(fills) \in Nat /\ S = 1..Len(fills) /\ IsFiniteSet(S)
  <2>1. Len(fills) \in Nat /\ S = 1..Len(fills)
    OBVIOUS
  <2>2. QED
    BY <2>1, FS_Interval
<1>2. W \in [S -> Nat]
  <2>1. \A i \in S : fills[i] \in Match
    OBVIOUS
  <2>2. QED
    BY <2>1 DEF Match
<1>3. \A s \in SUBSET S : s # {} => Max(s) \in s
  BY <1>1, LargestOf
<1>4. Chooses(c, S)
  BY <1>3 DEF Chooses
<1>5. ASSUME NEW f PROVE IsSum(f, S, W, c) <=> f = Step(f)
  <2>1. [s \in SUBSET S |-> IF s = {} THEN 0 ELSE W[c[s]] + f[s \ {c[s]}]] = Step(f)
    BY <1>3
  <2> HIDE DEF Step
  <2>2. QED
    BY <2>1 DEF IsSum
<1>6. \E f : f = Step(f)
  <2> HIDE DEF S, W, c, Step
  <2>1. \E f : IsSum(f, S, W, c)
    BY <1>1, <1>2, <1>4, SumExists
  <2>2. QED
    BY <1>5, <2>1
<1>7. IsSum(iter, S, W, c)
  <2>1. iter = Step(iter)
    BY <1>6
  <2> HIDE DEF iter
  <2>2. QED
    BY <1>5, <2>1
<1>8. Filled(fills) = iter[S]
  BY DEF Filled, FoldLeft, MapThenFoldSet
<1>9. QED
  BY <1>1, <1>2, <1>4, <1>7, <1>8

\* No match adds up to nothing.
LEMMA FilledEmpty == Filled(<<>>) = 0
<1>1. <<>> \in Seq(Match) /\ DOMAIN <<>> = {}
  OBVIOUS
<1> DEFINE W == [i \in DOMAIN <<>> |-> <<>>[i].matchedAmount]
<1>2. PICK f, c : IsSum(f, DOMAIN <<>>, W, c) /\ Filled(<<>>) = f[DOMAIN <<>>]
  BY <1>1, FilledIsSum
<1>3. QED
  BY <1>1, <1>2, SumEmpty

\* It is a natural number.
LEMMA FilledNat ==
  ASSUME NEW fills \in Seq(Match)
  PROVE  Filled(fills) \in Nat
<1> DEFINE S == DOMAIN fills
           W == [i \in S |-> fills[i].matchedAmount]
<1>1. /\ IsFiniteSet(S) /\ W \in [S -> Nat]
      /\ \E f, c : Chooses(c, S) /\ IsSum(f, S, W, c) /\ Filled(fills) = f[S]
  BY FilledIsSum
<1> HIDE DEF S, W
<1>2. PICK f, c : Chooses(c, S) /\ IsSum(f, S, W, c) /\ Filled(fills) = f[S]
  BY <1>1
<1>3. f[S] \in Nat
  BY <1>1, <1>2, SumRemove
<1>4. QED
  BY <1>2, <1>3

\* One more match adds its amount.
LEMMA FilledAppend ==
  ASSUME NEW fills \in Seq(Match), NEW m \in Match
  PROVE  /\ Filled(fills) \in Nat
         /\ Filled(Append(fills, m)) = Filled(fills) + m.matchedAmount
<1> DEFINE more == Append(fills, m)
           n == Len(fills) + 1
           S == DOMAIN fills
           T == DOMAIN more
           W == [i \in S |-> fills[i].matchedAmount]
           V == [i \in T |-> more[i].matchedAmount]
<1>1. /\ more \in Seq(Match) /\ n \in T /\ n \notin S /\ T = S \cup {n}
      /\ more[n] = m /\ \A i \in S : more[i] = fills[i]
  OBVIOUS
<1>2. /\ IsFiniteSet(S) /\ W \in [S -> Nat]
      /\ \E f, c : Chooses(c, S) /\ IsSum(f, S, W, c) /\ Filled(fills) = f[S]
  BY FilledIsSum
<1>3. /\ IsFiniteSet(T) /\ V \in [T -> Nat]
      /\ \E f, c : Chooses(c, T) /\ IsSum(f, T, V, c) /\ Filled(more) = f[T]
  BY <1>1, FilledIsSum
<1>4. /\ V[n] = m.matchedAmount /\ \A i \in S : W[i] = V[i]
      /\ T \ {n} = S /\ S \in SUBSET T
  BY <1>1
<1>5. PICK f, c : Chooses(c, S) /\ IsSum(f, S, W, c) /\ Filled(fills) = f[S]
  BY <1>2
<1>6. PICK g, d : Chooses(d, T) /\ IsSum(g, T, V, d) /\ Filled(more) = g[T]
  BY <1>3
<1> HIDE DEF more, n, S, T, W, V
<1>7. g[T] = V[n] + g[T \ {n}]
  <2>1. IsFiniteSet(T) /\ V \in [T -> Nat] /\ Chooses(d, T) /\ IsSum(g, T, V, d)
    BY <1>3, <1>6
  <2>2. \A s \in SUBSET T : g[s] \in Nat /\ \A x \in s : g[s] = V[x] + g[s \ {x}]
    BY <2>1, SumRemove
  <2>3. QED
    BY <2>2, <1>1
<1>8. f[S] = g[S]
  BY <1>2, <1>3, <1>4, <1>5, <1>6, SumsAgree
<1>9. f[S] \in Nat
  BY <1>2, <1>5, SumRemove
<1>10. m.matchedAmount \in Nat
  BY DEF Match
<1>11. Filled(more) = Filled(fills) + m.matchedAmount
  <2>1. g[T] = m.matchedAmount + f[S]
    BY <1>4, <1>7, <1>8
  <2>2. Filled(more) = m.matchedAmount + Filled(fills) /\ Filled(fills) \in Nat
    BY <2>1, <1>5, <1>6, <1>9
  <2>3. QED
    BY <2>2, <1>10
<1>12. QED
  BY <1>5, <1>9, <1>11 DEF more

-----------------------------------------------------------------------------
(* What a call has matched so far, and what it still asks for.             *)

Conserves(call) == Filled(call.fills) + call.order.amount = call.entryAmount

\* A call begins with nothing matched.
LEMMA BeginConserves ==
  ASSUME NEW b, NEW o \in Order
  PROVE  Conserves(BeginCall(b, o).call)
<1>1. o.amount \in Nat
  BY DEF Order
<1>2. QED
  BY <1>1, FilledEmpty DEF Conserves, BeginCall

\* A round moves what it matches from the order to the fills.
LEMMA IterateConserves ==
  ASSUME NEW b, LegalBook(b), ~Idle(b), NEW c, Looping(b.call, c), Conserves(b.call)
  PROVE  /\ Conserves(Iterate(b, c).call)
         /\ Iterate(b, c).call.entryAmount = b.call.entryAmount
         /\ Iterate(b, c).call.order.id = b.call.order.id
<1> DEFINE o == b.call.order
           m == MakeMatch(o, c)
           n == MatchAmount(o, c)
           u == UpdateAfterMatch(o, n)
<1>1. o \in Order /\ b.call.fills \in Seq(Match) /\ b.call.entryAmount \in Nat
  BY BookParts DEF LegalBook
<1>2. /\ m \in Match /\ m.matchedAmount = n /\ n \in Nat
      /\ ValidFilledAmount(o, n) /\ o.amount <= o.originalAmount
      /\ Iterate(b, c) = Fill(b, c, m)
  BY RoundIsAFill
<1>3. u.id = o.id /\ u.amount = o.amount - n /\ o.amount \in Nat
  BY <1>1, <1>2, UpdateAfterMatchType DEF Order
<1>4. /\ Iterate(b, c).call.order = u
      /\ Iterate(b, c).call.fills = Append(b.call.fills, m)
      /\ Iterate(b, c).call.entryAmount = b.call.entryAmount
  BY <1>2 DEF Fill
<1>5. /\ Filled(b.call.fills) \in Nat
      /\ Filled(Append(b.call.fills, m)) = Filled(b.call.fills) + n
  BY <1>1, <1>2, FilledAppend
<1>6. Conserves(Iterate(b, c).call)
  BY <1>1, <1>2, <1>3, <1>4, <1>5 DEF Conserves
<1>7. QED
  BY <1>3, <1>4, <1>6

-----------------------------------------------------------------------------
(* Putting a finite set in line.                                           *)

\* The line of a relation that lines the set up: every element has a place,
\* and the places are in the relation's order.
LEMMA RankedLine ==
  ASSUME NEW S, IsFiniteSet(S), NEW R, LinesUp(R, S)
  PROVE  LET line == Ranked(S, R)
             n    == Cardinality(S)
         IN /\ n \in Nat
            /\ line \in [1..n -> S]
            /\ \A i, j \in 1..n : i < j => <<line[i], line[j]>> \in R
            /\ \A x \in S : \E i \in 1..n : line[i] = x
            /\ \A i \in 1..n, x \in S :
                 line[i] = x <=> Cardinality({y \in S : <<y, x>> \in R}) = i - 1
<1> DEFINE n == Cardinality(S)
           line == Ranked(S, R)
           Below(x) == {y \in S : <<y, x>> \in R}
           place == [x \in S |-> Cardinality(Below(x)) + 1]
<1>1. n \in Nat
  BY FS_CardinalityType
<1>2. ASSUME NEW x \in S
      PROVE  /\ IsFiniteSet(Below(x))
             /\ place[x] \in 1..n /\ Cardinality(Below(x)) = place[x] - 1
  <2>1. x \notin Below(x) /\ Below(x) \in SUBSET S
    BY DEF LinesUp
  <2>2. IsFiniteSet(Below(x)) /\ Cardinality(Below(x)) <= n /\ Cardinality(Below(x)) # n
    BY <2>1, FS_Subset
  <2>3. Cardinality(Below(x)) \in Nat
    BY <2>2, FS_CardinalityType
  <2>4. place[x] = Cardinality(Below(x)) + 1
    OBVIOUS
  <2> HIDE DEF place, Below, n
  <2>5. QED
    BY <1>1, <2>2, <2>3, <2>4
<1>3. ASSUME NEW x \in S, NEW y \in S, <<x, y>> \in R
      PROVE  place[x] < place[y]
  <2>1. Below(x) \in SUBSET Below(y)
    BY <1>3 DEF LinesUp
  <2>2. x \in Below(y) /\ x \notin Below(x)
    BY <1>3 DEF LinesUp
  <2> HIDE DEF place, Below, n
  <2>3. Cardinality(Below(x)) <= Cardinality(Below(y)) /\ Cardinality(Below(x)) # Cardinality(Below(y))
    BY <1>2, <2>1, <2>2, FS_Subset
  <2>4. QED
    BY <1>1, <1>2, <2>3
<1>4. place \in [S -> 1..n]
  <2>1. place = [x \in S |-> place[x]]
    OBVIOUS
  <2> HIDE DEF place, n
  <2>2. QED
    BY <1>2, <2>1
<1>5. \A x, y \in S : place[x] = place[y] => x = y
  <2> SUFFICES ASSUME NEW x \in S, NEW y \in S, x # y PROVE place[x] # place[y]
    OBVIOUS
  <2>1. <<x, y>> \in R \/ <<y, x>> \in R
    BY DEF LinesUp
  <2> HIDE DEF place, Below, n
  <2>2. place[x] \in 1..n /\ place[y] \in 1..n
    BY <1>2
  <2>3. place[x] < place[y] \/ place[y] < place[x]
    BY <1>3, <2>1
  <2>4. QED
    BY <1>1, <2>2, <2>3
<1>6. \A i \in 1..n : \E x \in S : place[x] = i
  <2> HIDE DEF place
  <2>1. place \in Injection(S, 1..n)
    BY <1>4, <1>5 DEF Injection, IsInjective
  <2>2. IsFiniteSet(1..n) /\ Cardinality(1..n) = n
    BY <1>1, FS_Interval
  <2>3. place \in Surjection(S, 1..n)
    BY <2>1, <2>2, FS_Injection
  <2>4. QED
    BY <2>3 DEF Surjection
<1>7. line = [i \in 1..n |-> CHOOSE x \in S : Cardinality(Below(x)) = i - 1]
  BY DEF Ranked
<1>8. ASSUME NEW i \in 1..n
      PROVE  line[i] \in S /\ place[line[i]] = i
  <2>1. line[i] = CHOOSE x \in S : Cardinality(Below(x)) = i - 1
    BY <1>7
  <2> HIDE DEF place, Below, n, line
  <2>2. PICK x \in S : Cardinality(Below(x)) = i - 1
    BY <1>2, <1>6
  <2>3. line[i] \in S /\ Cardinality(Below(line[i])) = i - 1
    BY <2>1, <2>2
  <2>4. QED
    BY <1>1, <1>2, <2>3
<1>9. line \in [1..n -> S]
  <2>1. line = [i \in 1..n |-> line[i]]
    BY <1>7
  <2> HIDE DEF line, place, n
  <2>2. QED
    BY <1>8, <2>1
<1> HIDE DEF line, place, n, Below
<1>10. ASSUME NEW i \in 1..n, NEW j \in 1..n, i < j
       PROVE  <<line[i], line[j]>> \in R
  <2>1. /\ line[i] \in S /\ line[j] \in S /\ place[line[i]] = i /\ place[line[j]] = j
        /\ line[i] # line[j]
    BY <1>1, <1>8, <1>10
  <2>2. <<line[j], line[i]>> \notin R
    BY <1>1, <1>3, <1>10, <2>1
  <2>3. QED
    BY <2>1, <2>2 DEF LinesUp
<1>11. \A x \in S : \E i \in 1..n : line[i] = x
  BY <1>2, <1>5, <1>8
<1>12. ASSUME NEW i \in 1..n, NEW x \in S
       PROVE  line[i] = x <=> Cardinality(Below(x)) = i - 1
  <2>1. /\ line[i] \in S /\ place[line[i]] = i /\ place[x] \in 1..n
        /\ Cardinality(Below(x)) = place[x] - 1
    BY <1>2, <1>8
  <2>2. line[i] = x <=> place[x] = i
    BY <1>5, <2>1
  <2>3. QED
    BY <1>1, <2>1, <2>2
<1>13. QED
  BY <1>1, <1>9, <1>10, <1>11, <1>12 DEF n, line, Below

\* The line begins with the element that comes before all others, and goes on
\* with the line of these.
LEMMA RankedFirst ==
  ASSUME NEW S, IsFiniteSet(S), NEW R, LinesUp(R, S),
         NEW c \in S, \A x \in S : x # c => <<c, x>> \in R,
         NEW Q, \A x, y \in S \ {c} : <<x, y>> \in Q <=> <<x, y>> \in R
  PROVE  LET line == Ranked(S, R)
             rest == Ranked(S \ {c}, Q)
             n    == Cardinality(S \ {c})
         IN /\ n \in Nat /\ Cardinality(S) = n + 1
            /\ DOMAIN line = 1..(n + 1) /\ DOMAIN rest = 1..n
            /\ line[1] = c
            /\ \A i \in 1..n : line[i + 1] = rest[i] /\ rest[i] \in S \ {c}
<1> DEFINE line == Ranked(S, R)
           T == S \ {c}
           rest == Ranked(T, Q)
           n == Cardinality(T)
<1>1. IsFiniteSet(T) /\ n \in Nat /\ Cardinality(S) = n + 1
  <2>1. IsFiniteSet(T) /\ n = Cardinality(S) - 1
    BY FS_RemoveElement
  <2>2. n \in Nat /\ Cardinality(S) \in Nat
    BY <2>1, FS_CardinalityType
  <2>3. QED
    BY <2>1, <2>2
<1>2. LinesUp(Q, T)
  BY DEF LinesUp
<1>3. /\ line \in [1..(n + 1) -> S]
      /\ \A i \in 1..(n + 1), x \in S :
           line[i] = x <=> Cardinality({y \in S : <<y, x>> \in R}) = i - 1
  <2> DEFINE k == Cardinality(S)
  <2>1. /\ line \in [1..k -> S]
        /\ \A i \in 1..k, x \in S :
             line[i] = x <=> Cardinality({y \in S : <<y, x>> \in R}) = i - 1
    BY RankedLine
  <2>2. k = n + 1
    BY <1>1
  <2> HIDE DEF k, n, line
  <2>3. QED
    BY <2>1, <2>2
<1>4. /\ rest \in [1..n -> T]
      /\ \A i \in 1..n, x \in T :
           rest[i] = x <=> Cardinality({y \in T : <<y, x>> \in Q}) = i - 1
  <2> HIDE DEF T
  <2>1. QED
    BY <1>1, <1>2, RankedLine
<1>5. line[1] = c
  <2>1. {y \in S : <<y, c>> \in R} = {}
    BY DEF LinesUp
  <2> DEFINE E == {y \in S : <<y, c>> \in R}
  <2> HIDE DEF E
  <2>2. Cardinality(E) = 0
    BY <2>1, FS_EmptySet DEF E
  <2>3. Cardinality(E) = 1 - 1
    BY <2>2
  <2> HIDE DEF line, n
  <2>4. QED
    BY <1>1, <1>3, <2>3 DEF E
<1>6. ASSUME NEW i \in 1..n PROVE line[i + 1] = rest[i] /\ rest[i] \in T
  <2> DEFINE x == rest[i]
             A == {y \in T : <<y, x>> \in Q}
             B == {y \in S : <<y, x>> \in R}
  <2>1. x \in T /\ x \in S
    BY <1>4
  <2>2. Cardinality(A) = i - 1
    BY <1>4, <2>1
  <2>3. B = A \cup {c} /\ c \notin A /\ A \in SUBSET T
    <3> HIDE DEF x
    <3>1. QED
      BY <2>1
  <2>4. Cardinality(B) = Cardinality(A) + 1
    <3>1. IsFiniteSet(A)
      BY <1>1, <2>3, FS_Subset
    <3> HIDE DEF A, B
    <3>2. QED
      BY <2>3, <3>1, FS_AddElement
  <2>5. Cardinality(B) = (i + 1) - 1 /\ i + 1 \in 1..(n + 1)
    <3> HIDE DEF A, B, n
    <3>1. QED
      BY <1>1, <2>2, <2>4
  <2>6. line[i + 1] = x
    <3> HIDE DEF x, line, n
    <3>1. QED
      BY <1>3, <2>1, <2>5 DEF B
  <2>7. QED
    BY <2>1, <2>6
<1>7. QED
  BY <1>1, <1>3, <1>4, <1>5, <1>6
=============================================================================
