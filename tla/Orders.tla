------------------------------- MODULE Orders -------------------------------
(***************************************************************************)
(* The Order entity (src/src/models/Order.ts): the data of an order, the   *)
(* checks its constructor and its wire form pass, and its operations.      *)
(*                                                                         *)
(* Abstractions of the data:                                               *)
(*   - prices, amounts and timestamps are natural numbers.  Clients round  *)
(*     prices and amounts to two decimals, so a unit stands for 0.01;      *)
(*     double rounding of the remainders is not modelled.                  *)
(*   - an order id (a UUID) is a natural number, and < stands for          *)
(*     localeCompare, the last tie-break of the sort.                      *)
(*   - clientId and the version counter are left out: no branch of the     *)
(*     book or of the service reads an order's clientId or version.        *)
(*   - 0 and "none" stand for an absent originalAmount and status.         *)
(***************************************************************************)
EXTENDS Naturals

OrderType == {"buy", "sell"}

OrderStatus == {"open", "filled", "partially_filled", "cancelled"}

\* An Order object.
Order ==
  [id: Nat, type: OrderType, price: Nat \ {0}, amount: Nat,
   originalAmount: Nat \ {0}, timestamp: Nat, status: OrderStatus]

-----------------------------------------------------------------------------
\* The other side of the market.
Opposite(t) == IF t = "buy" THEN "sell" ELSE "buy"

\* validateInputs: data from which the constructor does not throw.
ValidInputs(d) ==
  /\ d.price > 0
  /\ d.status # "filled" => d.amount > 0

\* NewOrder with a bug: a given originalAmount is ignored.
NewOrderAfresh(d) ==
  [d EXCEPT !.originalAmount = d.amount,
            !.status = IF @ = "none" THEN "open" ELSE @]

\* The constructor: originalAmount and status have defaults.
NewOrder(d) ==
  [d EXCEPT !.originalAmount = IF @ = 0 THEN d.amount ELSE @,
            !.status = IF @ = "none" THEN "open" ELSE @]

\* IsValidOrderData with a bug: the price is not looked at.
IsValidUnpriced(d) ==
  IF d.status = "filled" THEN d.originalAmount > 0 ELSE d.amount > 0

\* isValidOrderData, and fromObject's own check of a filled order: what of a
\* peer's message becomes an Order.  A filled order must say what it was.
IsValidOrderData(d) ==
  /\ d.price > 0
  /\ IF d.status = "filled" THEN d.originalAmount > 0 ELSE d.amount > 0

\* fromObject: the Order of a peer's message that passed isValidOrderData.
FromObject(d) == NewOrder(d)

\* safelyMapOrders of P2PService: the orders of a peer's list that can be parsed.
SafelyMapOrders(list) == {FromObject(d) : d \in {x \in list : IsValidOrderData(x)}}

\* IsActive with a bug: a filled order counts as active.
IsActiveUnlessCancelled(o) == o.status # "cancelled"

IsActive(o) == o.status \in {"open", "partially_filled"}

\* A buyer's limit meets a seller's.
PricesCross(buyPrice, sellPrice) == buyPrice >= sellPrice

\* CanMatchWith with a bug: equal limits do not match.
CanMatchAtBetterPrice(a, b) ==
  /\ a.type # b.type
  /\ IsActive(a)
  /\ IsActive(b)
  /\ IF a.type = "buy" THEN a.price > b.price ELSE b.price > a.price

CanMatchWith(a, b) ==
  /\ a.type # b.type
  /\ IsActive(a)
  /\ IsActive(b)
  /\ IF a.type = "buy" THEN PricesCross(a.price, b.price)
                       ELSE PricesCross(b.price, a.price)

\* clone: a new object with the same data, through the constructor.
Clone(o) == NewOrder(o)

\* validateFilledAmount: the fills updateAfterMatch accepts.
ValidFilledAmount(o, filled) == filled > 0 /\ filled <= o.amount

\* updateStatus, after the amount has been reduced.
UpdateStatus(o) ==
  [o EXCEPT !.status =
     IF o.amount = 0 THEN "filled"
     ELSE IF o.amount < o.originalAmount THEN "partially_filled" ELSE @]

\* UpdateAfterMatch with a bug: earlier fills are forgotten.
UpdateFromOriginal(o, filled) ==
  UpdateStatus([o EXCEPT !.amount = o.originalAmount - filled])

UpdateAfterMatch(o, filled) == UpdateStatus([o EXCEPT !.amount = @ - filled])

\* cancel throws on a filled order; otherwise the status changes.
CanCancel(o) == o.status # "filled"

Cancel(o) == [o EXCEPT !.status = "cancelled"]
=============================================================================
