------------------------ MODULE OrderBookRefinement ------------------------
(***************************************************************************)
(* The two specifications an order book implements: trade by trade         *)
(* (LiveBook) and as one step per call (AtomicBook).                       *)
(***************************************************************************)
EXTENDS OrderBook, AtomicCall

\* The order of the call is the taker.
Taker == IF Idle(book) THEN [status |-> "none"] ELSE book.call.order

Live ==
  INSTANCE LiveBook WITH sides <- book.sides, log <- book.matches, taker <- Taker

\* The code's loop over clones, taken before its first match, trades as if it
\* looked at the book afresh before each match (OrderBook.ts, addOrder).
LiveBookSpec == Live!Spec

-----------------------------------------------------------------------------
\* All of a call takes effect at its first step: what is still to come of it is
\* what an order like its own would do to the book as it stands.
AtomicSides ==
  IF Idle(book) THEN book.sides ELSE SidesAfter(book.sides, book.call.order)

AtomicLog ==
  IF Idle(book) THEN book.matches
                ELSE book.matches \o Trades(book.sides, book.call.order)

Atomic == INSTANCE AtomicBook WITH sides <- AtomicSides, log <- AtomicLog

\* addOrder, which matches round by round, has the effect that the declarative
\* definition of matching gives it.
AtomicBookSpec == Atomic!Spec
=============================================================================
