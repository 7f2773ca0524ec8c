----------------------------- MODULE AtomicCall -----------------------------
(***************************************************************************)
(* What addOrder promises as a whole: the book and the trades that result  *)
(* from a book and an order, stated without any loop.                      *)
(*                                                                         *)
(* The orders that cross the incoming one stand in a queue.  It reaches    *)
(* those with less ahead of them than it asks for, takes from each what it *)
(* still asks for there, uses up those that have no more than that, and    *)
(* rests with what the whole queue did not give it.                        *)
(***************************************************************************)
EXTENDS Ranking, FiniteSetsExt

Other(t) == IF t = "buy" THEN "sell" ELSE "buy"

\* The orders of book s that cross o.
Queue(s, o) ==
  {r \in s[Other(o.type)] : IF o.type = "buy" THEN r.price <= o.price
                                              ELSE o.price <= r.price}

StandsBefore(r, q) ==
  \/ IF r.type = "sell" THEN r.price < q.price ELSE q.price < r.price
  \/ r.price = q.price /\ r.timestamp < q.timestamp
  \/ r.price = q.price /\ r.timestamp = q.timestamp /\ r.id < q.id

BeforeIn(orders) == {p \in orders \X orders : StandsBefore(p[1], p[2])}

Total(orders) == FoldSet(LAMBDA r, sum : r.amount + sum, 0, orders)

Before(orders, r) == {q \in orders : StandsBefore(q, r)}

Ahead(s, o, r) == Total(Before(Queue(s, o), r))

Reached(s, o) == {r \in Queue(s, o) : Ahead(s, o, r) < o.amount}

UsedUp(s, o) == {r \in Queue(s, o) : Ahead(s, o, r) + r.amount <= o.amount}

\* What o takes from an order it reaches: all it has, or what o still asks for.
Taken(s, o, r) ==
  LET asked == o.amount - Ahead(s, o, r)
  IN IF r.amount <= asked THEN r.amount ELSE asked

\* What is left of o rests, with the status that says whether it traded at all.
Rest(s, o) ==
  LET left == o.amount - Total(Queue(s, o))
  IN [o EXCEPT !.amount = left,
               !.status = IF Queue(s, o) = {} THEN @ ELSE "partially_filled"]

SidesAfter(s, o) ==
  [t \in {"buy", "sell"} |->
     IF t # o.type THEN s[t] \ UsedUp(s, o)
     ELSE IF Total(Queue(s, o)) < o.amount THEN s[t] \cup {Rest(s, o)} ELSE s[t]]

Party(o) == [id |-> o.id, price |-> o.price, originalAmount |-> o.originalAmount]

TradeWith(s, o, r) ==
  [buyOrder  |-> Party(IF o.type = "buy" THEN o ELSE r),
   sellOrder |-> Party(IF o.type = "buy" THEN r ELSE o),
   matchedAmount |-> Taken(s, o, r),
   price |-> r.price]

\* The trades, in the order of the queue.
Trades(s, o) ==
  LET reached == Reached(s, o)
      queue   == Ranked(reached, BeforeIn(reached))
  IN [i \in DOMAIN queue |-> TradeWith(s, o, queue[i])]
=============================================================================
