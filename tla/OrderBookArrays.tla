-------------------------- MODULE OrderBookArrays --------------------------
(***************************************************************************)
(* The order book on arrays (BookArrays) does what OrderBook says on sets  *)
(* of orders, as long as the states it is given are those of legal books.  *)
(***************************************************************************)
EXTENDS BookArrays

CONSTANTS
  Incoming,    \* the orders callers may submit
  States,      \* the states setState may be given, in any order of elements
  MaxMatches   \* bound: no submission once the log holds this many matches

\* A submitted order passed the Order constructor; what it still asks for is at
\* most what it was created for.
ASSUME IncomingAssumption ==
  \A o \in Incoming : /\ o \in Order
                      /\ ValidInputs(o)
                      /\ o.amount <= o.originalAmount

ASSUME StatesAssumption ==
  \A s \in States : /\ s.buyOrders \in Seq(Order) /\ s.sellOrders \in Seq(Order)
                    /\ s.matches \in Seq(Match)
                    /\ LegalState(s)

ASSUME MaxMatchesAssumption == MaxMatches \in Nat

-----------------------------------------------------------------------------
Init == EmptyArrays

\* A cancellation that finds nothing changes nothing and is left out.
Next ==
  \/ \E o \in Incoming : \/ Len(matches) < MaxMatches /\ AddOrder(o)
                         \/ FindOrderById(o.id) /\ CancelOrder(o.id)
  \/ MatchNext
  \/ Return
  \/ \E s \in States : SetState(s)

Spec == Init /\ [][Next]_bookVars

-----------------------------------------------------------------------------
BookOfState(s) == BookOf(SidesOf(s.buyOrders, s.sellOrders), s.matches)

Abstract ==
  INSTANCE OrderBook WITH Snapshots <- {BookOfState(s) : s \in States}, book <- TheBook

\* The arrays with their indices and sorts do what OrderBook does on sets: no
\* order is lost or doubled by a splice, and the walk over the sorted clones takes
\* the first of those that are left.
OrderBookSpec == Abstract!Spec
=============================================================================
