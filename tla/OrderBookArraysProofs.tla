------------------------ MODULE OrderBookArraysProofs ------------------------
(***************************************************************************)
(* The arrays of the code are always sorted and do what OrderBook does on  *)
(* sets of orders, for every set of orders and states.  The inductive      *)
(* invariant is ArraysLegal of BookArraysProofs, which also shows what     *)
(* each operation does.                                                    *)
(***************************************************************************)
EXTENDS OrderBookArrays, BookArraysProofs

\* A submission, a cancellation that finds its order and a state from outside, as
\* the assumptions allow them.
LEMMA OutsideSteps ==
  ASSUME ArraysLegal
  PROVE  /\ \A o \in Incoming : Len(matches) < MaxMatches /\ AddOrder(o) =>
              /\ Idle(TheBook) /\ Len(TheBook.matches) < MaxMatches /\ Accepts(TheBook, o)
              /\ TheBook' = BeginCall(TheBook, o)
              /\ ArraysLegal'
         /\ \A s \in States : SetState(s) =>
              /\ Idle(TheBook) /\ TheBook' = BookOfState(s) /\ ArraysLegal'
<1>1. \A o \in Incoming : o \in Order /\ ValidInputs(o) /\ o.amount <= o.originalAmount
  BY IncomingAssumption
<1>2. \A s \in States : /\ s.buyOrders \in Seq(Order) /\ s.sellOrders \in Seq(Order)
                        /\ s.matches \in Seq(Match) /\ LegalState(s)
  BY StatesAssumption
<1>3. TheBook.matches = matches /\ (Idle(TheBook) <=> ~Called)
  BY BookFacts
<1>4. ASSUME NEW o \in Incoming, Len(matches) < MaxMatches, AddOrder(o)
      PROVE  /\ Idle(TheBook) /\ Len(TheBook.matches) < MaxMatches /\ Accepts(TheBook, o)
             /\ TheBook' = BeginCall(TheBook, o)
             /\ ArraysLegal'
  BY <1>1, <1>3, <1>4, AddOrderStep
<1>5. ASSUME NEW s \in States, SetState(s)
      PROVE  Idle(TheBook) /\ TheBook' = BookOfState(s) /\ ArraysLegal'
  BY <1>2, <1>3, <1>5, SetStateStep DEF BookOfState
<1>6. QED
  BY <1>4, <1>5

\* Every step of the arrays is a step of the book they stand for.
LEMMA NextArraysLegal == ArraysLegal /\ [Next]_bookVars => ArraysLegal'
<1> SUFFICES ASSUME ArraysLegal, [Next]_bookVars PROVE ArraysLegal'
  OBVIOUS
<1>1. ASSUME NEW o \in Incoming, Len(matches) < MaxMatches, AddOrder(o)
      PROVE  ArraysLegal'
  BY <1>1, OutsideSteps
<1>2. ASSUME NEW o \in Incoming, FindOrderById(o.id), CancelOrder(o.id)
      PROVE  ArraysLegal'
  BY <1>2, CancelStep
<1>3. CASE MatchNext
  BY <1>3, MatchNextStep
<1>4. CASE Return
  BY <1>4, ReturnStep
<1>5. ASSUME NEW s \in States, SetState(s) PROVE ArraysLegal'
  BY <1>5, OutsideSteps
<1>6. CASE UNCHANGED bookVars
  BY <1>6 DEF bookVars, ArraysLegal, ArraysSorted, Called, TheBook
<1>7. QED
  BY <1>1, <1>2, <1>3, <1>4, <1>5, <1>6 DEF Next

\* The arrays are sorted and stand for a legal book in every reachable state.
THEOREM ArraysAlwaysLegal == Spec => []ArraysLegal
<1>1. Init => ArraysLegal
  BY EmptyArraysLegal DEF Init
<1>2. QED
  BY <1>1, NextArraysLegal, PTL DEF Spec

\* Both arrays are in price-time order, during a call too.
THEOREM AlwaysSorted == Spec => []ArraysSorted
<1>1. ArraysLegal => ArraysSorted
  BY DEF ArraysLegal
<1>2. QED
  BY <1>1, ArraysAlwaysLegal, PTL

\* The operators of the instance are those of this module.
LEMMA SameOperators ==
  /\ \A b : Abstract!Idle(b) <=> Idle(b)
  /\ \A b, o : Abstract!Accepts(b, o) <=> Accepts(b, o)
  /\ \A b, o : Abstract!BeginCall(b, o) = BeginCall(b, o)
  /\ \A c, d : Abstract!Looping(c, d) <=> Looping(c, d)
  /\ \A c : Abstract!LoopDone(c) <=> LoopDone(c)
  /\ \A b : Abstract!EndCall(b) = EndCall(b)
  /\ \A s, id : Abstract!InBook(s, id) <=> InBook(s, id)
  /\ \A b, id : Abstract!WithoutOrder(b, id) = WithoutOrder(b, id)
  /\ \A s, l : Abstract!BookOf(s, l) = BookOf(s, l)
<1>1. \A b : Abstract!Idle(b) <=> Idle(b)
  BY DEF Abstract!Idle, Idle, Abstract!NoCall, NoCall
<1>2. \A s, id : Abstract!InBook(s, id) <=> InBook(s, id)
  BY DEF Abstract!InBook, InBook, Abstract!OrderType, OrderType
<1>3. \A o : Abstract!IsActive(o) <=> IsActive(o)
  BY DEF Abstract!IsActive, IsActive
<1>4. \A b, o : Abstract!Accepts(b, o) <=> Accepts(b, o)
  BY <1>2, <1>3 DEF Abstract!Accepts, Accepts
<1>5. \A c, d : Abstract!Looping(c, d) <=> Looping(c, d)
  BY <1>3 DEF Abstract!Looping, Looping, Abstract!Precedes, Precedes,
              Abstract!BetterPrice, BetterPrice
<1>6. \A c : Abstract!LoopDone(c) <=> LoopDone(c)
  BY <1>3 DEF Abstract!LoopDone, LoopDone
<1>7. \A s, o : Abstract!FindMatchingOrders(s, o) = FindMatchingOrders(s, o)
  BY DEF Abstract!FindMatchingOrders, FindMatchingOrders, Abstract!Clone, Clone,
         Abstract!NewOrder, NewOrder, Abstract!Opposite, Opposite,
         Abstract!CanMatchWith, CanMatchWith, Abstract!IsActive, IsActive,
         Abstract!PricesCross, PricesCross
<1>8. \A b, o : Abstract!BeginCall(b, o) = BeginCall(b, o)
  BY <1>7 DEF Abstract!BeginCall, BeginCall
<1>9. \A b : Abstract!EndCall(b) = EndCall(b)
  BY DEF Abstract!EndCall, EndCall, Abstract!SidesAfterRest, SidesAfterRest,
         Abstract!IsActive, IsActive, Abstract!NoCall, NoCall
<1>10. \A b, id : Abstract!WithoutOrder(b, id) = WithoutOrder(b, id)
  BY DEF Abstract!WithoutOrder, WithoutOrder, Abstract!SidesAfterCancel,
         SidesAfterCancel, Abstract!RemoveOrder, RemoveOrder
<1>11. \A s, l : Abstract!BookOf(s, l) = BookOf(s, l)
  BY DEF Abstract!BookOf, BookOf, Abstract!NoCall, NoCall
<1>12. QED
  BY <1>1, <1>2, <1>4, <1>5, <1>6, <1>8, <1>9, <1>10, <1>11

\* So is a round.
LEMMA SameRound == \A b, c : Abstract!Iterate(b, c) = Iterate(b, c)
<1> SUFFICES ASSUME NEW b, NEW c PROVE Abstract!Iterate(b, c) = Iterate(b, c)
  OBVIOUS
<1>1. \A o : Abstract!IsActive(o) <=> IsActive(o)
  BY DEF Abstract!IsActive, IsActive
<1>2. \A o, d : Abstract!MakeMatch(o, d) = MakeMatch(o, d)
  BY DEF Abstract!MakeMatch, MakeMatch, Abstract!Ref, Ref, Abstract!MatchAmount, MatchAmount
<1>3. \A m, o, d : Abstract!IsValidMatch(m, o, d) <=> IsValidMatch(m, o, d)
  BY DEF Abstract!IsValidMatch, IsValidMatch
<1>4. \A o, n : Abstract!UpdateAfterMatch(o, n) = UpdateAfterMatch(o, n)
  BY DEF Abstract!UpdateAfterMatch, UpdateAfterMatch, Abstract!UpdateStatus, UpdateStatus
<1>5. \A s, d, n : Abstract!SideAfterFill(s, d, n) = SideAfterFill(s, d, n)
  BY <1>4 DEF Abstract!SideAfterFill, SideAfterFill, Abstract!RemoveOrder, RemoveOrder
<1>6. \A t : Abstract!Opposite(t) = Opposite(t)
  BY DEF Abstract!Opposite, Opposite
<1>7. \A m : Abstract!Fill(b, c, m) = Fill(b, c, m)
  BY <1>4, <1>5, <1>6 DEF Abstract!Fill, Fill
<1>8. Abstract!Skip(b, c) = Skip(b, c)
  BY DEF Abstract!Skip, Skip
<1>9. QED
  BY <1>1, <1>2, <1>3, <1>7, <1>8 DEF Abstract!Iterate, Iterate

\* Every step on the arrays is a step of OrderBook on the book they stand for.
LEMMA NextIsAbstract == ArraysLegal /\ [Next]_bookVars => [Abstract!Next]_TheBook
<1> SUFFICES ASSUME ArraysLegal, [Next]_bookVars PROVE [Abstract!Next]_TheBook
  OBVIOUS
<1>1. ASSUME NEW o \in Incoming, Len(matches) < MaxMatches, AddOrder(o)
      PROVE  Abstract!AddOrder(o)
  BY <1>1, OutsideSteps, SameOperators DEF Abstract!AddOrder
<1>2. ASSUME NEW o \in Incoming, FindOrderById(o.id), CancelOrder(o.id)
      PROVE  Abstract!CancelOrder(o.id)
  BY <1>2, CancelStep, SameOperators DEF Abstract!CancelOrder
<1>3. CASE MatchNext
  BY <1>3, MatchNextStep, SameOperators, SameRound DEF Abstract!MatchNext, Abstract!Next
<1>4. CASE Return
  BY <1>4, ReturnStep, SameOperators DEF Abstract!Return, Abstract!Next
<1>5. ASSUME NEW s \in States, SetState(s) PROVE Abstract!Next
  <2> DEFINE b == BookOfState(s)
  <2>1. Idle(TheBook) /\ TheBook' = b
    BY <1>5, OutsideSteps
  <2>2. b = BookOf(b.sides, b.matches)
    BY DEF BookOfState, BookOf
  <2>3. Abstract!SetState(b)
    BY <2>1, <2>2, SameOperators DEF Abstract!SetState
  <2>4. QED
    BY <2>3 DEF Abstract!Next
<1>6. CASE UNCHANGED bookVars
  BY <1>6 DEF bookVars, TheBook, Called
<1>7. QED
  BY <1>1, <1>2, <1>3, <1>4, <1>5, <1>6 DEF Next, Abstract!Next

\* The arrays do what OrderBook does on sets of orders.
THEOREM ArraysImplementSets == Spec => OrderBookSpec
<1>1. Init => Abstract!Init
  BY EmptyArraysLegal DEF Init, Abstract!Init, Abstract!EmptyBook, EmptyBook,
     Abstract!EmptySides, EmptySides, Abstract!OrderType, OrderType, Abstract!NoCall, NoCall
<1>2. QED
  BY <1>1, NextIsAbstract, ArraysAlwaysLegal, PTL DEF Spec, OrderBookSpec, Abstract!Spec
==============================================================================
