----------------------------- MODULE MCExchange -----------------------------
(***************************************************************************)
(* Small instances of Exchange.                                            *)
(***************************************************************************)
EXTENDS Exchange

CONSTANTS c1, c2, s1, s2

OneClient == {c1}
TwoClients == {c1, c2}
OneServer == {s1}
TwoServers == {s1, s2}
NoServers == {}
NoIds == {}

\* An order as createRandomOrder makes it.
New(id, type, price, amount, timestamp) ==
  NewOrder([id |-> id, type |-> type, price |-> price, amount |-> amount,
            originalAmount |-> 0, timestamp |-> timestamp, status |-> "none"])

Sell1 == New(1, "sell", 1, 1, 1)
Buy2 == New(2, "buy", 1, 2, 1)
SmallBuy == New(2, "buy", 1, 1, 1)

\* A seller, and a buyer who wants more than there is.
SellAndBuy == (c1 :> {Sell1}) @@ (c2 :> {Buy2})

\* One client that trades with itself.
BothSides == c1 :> {Sell1, Buy2}

\* Two orders that take each other whole.
Equals == (c1 :> {Sell1}) @@ (c2 :> {SmallBuy})

FirstId == {1}

\* One order only.
OneOrder == c1 :> {Sell1}

OneSlot == {1}
TwoSlots == {1, 2}
=============================================================================
