------------------------------ MODULE Handlers ------------------------------
(***************************************************************************)
(* handleRequest of a server (src/src/services/P2PService.ts): every       *)
(* action it knows, those included that no node of this repository sends   *)
(* (SYNC_ORDERBOOK, ANNOUNCE_MATCH), with all of its checks and the order  *)
(* mutex.  Exchange composes the handlers its clients use.                 *)
(*                                                                         *)
(* A request is checked when it arrives; a read is answered at once, the   *)
(* others wait for the mutex, which is handed on in the order of arrival.  *)
(* What a handler does with the mutex is one step, but for the rounds of   *)
(* addOrder.                                                               *)
(*                                                                         *)
(* The checks of a message look at the shape of its data.  A state may     *)
(* hold the orders of no legal book: filled or cancelled ones, two with    *)
(* one id, one on the wrong side, some that cross.  So the book is the     *)
(* arrays of BookArrays, which hold whatever they are given.               *)
(*                                                                         *)
(* What the log keeps of a match are Order objects when addOrder made it;  *)
(* SYNC_ORDERBOOK stores the matches of a message as they came.  `plain'   *)
(* says whether there are such matches in the log.                         *)
(***************************************************************************)
EXTENDS BookArrays

CONSTANTS
  Rids,      \* the requests that reach the server
  Payloads,  \* Payloads[rid]: what is in it
  Me,        \* the clientId of the server
  Free       \* no request: what the mutex is held by when it is free

VARIABLES
  plain,   \* whether matches in the log are plain objects, not Orders
  queue,   \* the requests that wait for orderMutex
  holder,  \* the request that holds it
  status   \* status[rid]: how it was answered

vars == <<bookVars, plain, queue, holder, status>>

-----------------------------------------------------------------------------
\* "No data" stands for data without the fields the action needs.
NoData == [data |-> "none"]

\* A null where an object is expected: typeof takes it for one.
Null == [value |-> "null"]

\* The id of no order, and what an empty string is in a message.
EmptyId == 0

\* An order as a message has it.  An absent id, for which the constructor makes
\* one, is one nobody else has; 0 stands for an absent originalAmount, "none" for
\* an absent status, and price 0 for whatever else fromObject refuses.
OrderData ==
  [id: Nat \ {EmptyId}, type: OrderType, price: Nat, amount: Nat,
   originalAmount: Nat, timestamp: Nat, status: OrderStatus \cup {"none"}]

StateData == [buyOrders: Seq(OrderData), sellOrders: Seq(OrderData), matches: Seq(Match)]

MatchData == [buyOrder: OrderData \cup {Null}, sellOrder: OrderData \cup {Null}]

\* The data a handler is called with, for each action.
DataOf ==
  [SUBMIT_ORDER   |-> OrderData,
   SYNC_ORDERBOOK |-> StateData,
   GET_ORDERBOOK  |-> {},
   ANNOUNCE_MATCH |-> MatchData,
   CANCEL_ORDER   |-> [orderId: Nat]]

Actions == DOMAIN DataOf

\* A payload that isValidRPCPayload refuses.
Malformed == [action |-> "none"]

\* The fields of a message have the types of the wire; nothing else is known.
ASSUME PayloadsAssumption ==
  \A rid \in Rids :
    LET p == Payloads[rid]
    IN p # Malformed => p.action \in Actions /\ p.data \in DataOf[p.action] \cup {NoData}

ASSUME FreeAssumption == Free \notin Rids

Replies == {"success", "skipped", "invalid", "error"}

\* isValidState: the three lists are there, and hold objects.
IsValidState(s) == s # NoData

\* isValidMatchData: all the fields are there, the orders of type "object".
IsValidMatchData(m) == m # NoData

\* safelyMapOrders: the orders that can be parsed, in the order of the list.
SafelyMap(list) ==
  LET parsed == {i \in DOMAIN list : IsValidOrderData(list[i])}
      line   == Ranked(parsed, {p \in parsed \X parsed : p[1] < p[2]})
  IN [n \in 1..Cardinality(parsed) |-> FromObject(list[line[n]])]

\* What SYNC_ORDERBOOK makes of a state: the matches stay as they came.
MappedState(s) ==
  [buyOrders  |-> SafelyMap(s.buyOrders),
   sellOrders |-> SafelyMap(s.sellOrders),
   matches    |-> s.matches]

-----------------------------------------------------------------------------
Init ==
  /\ EmptyArrays
  /\ plain = FALSE
  /\ queue = <<>>
  /\ holder = Free
  /\ status = [rid \in Rids |-> "unsent"]

Reply(rid, s) == status' = [status EXCEPT ![rid] = s]

\* GET_ORDERBOOK: getOrderbookState calls toJSON on the orders of every match.
ReadReply == IF plain THEN "error" ELSE "success"

\* The head of handleRequest, up to the mutex.  isValidRPCPayload has refused an
\* unknown action already.
Arrive(rid) ==
  LET p == Payloads[rid]
  IN /\ ~Called
     /\ status[rid] = "unsent"
     /\ IF p = Malformed THEN Reply(rid, "invalid") /\ UNCHANGED queue
        ELSE IF p.clientId = Me THEN Reply(rid, "skipped") /\ UNCHANGED queue
        ELSE IF p.action = "GET_ORDERBOOK" THEN Reply(rid, ReadReply) /\ UNCHANGED queue
        ELSE Reply(rid, "waiting") /\ queue' = Append(queue, rid)
     /\ UNCHANGED <<bookVars, plain, holder>>

\* The first who waits gets the mutex when it is free.
Turn(rid, action) ==
  /\ ~Called
  /\ holder = Free
  /\ queue # <<>>
  /\ rid = Head(queue)
  /\ Payloads[rid].action = action
  /\ queue' = Tail(queue)

-----------------------------------------------------------------------------
\* HandleSubmit with a bug: the early return for an inactive order keeps the mutex.
HandleSubmitKeeping(rid) ==
  LET p == Payloads[rid].data
      o == FromObject(p)
  IN /\ Turn(rid, "SUBMIT_ORDER")
     /\ IF p = NoData \/ ~IsValidOrderData(p)
          THEN Reply(rid, "invalid") /\ UNCHANGED <<bookVars, holder>>
        ELSE IF ~IsActive(o)
          THEN Reply(rid, "success") /\ holder' = rid /\ UNCHANGED bookVars
        ELSE IF FindOrderById(o.id)
          THEN Reply(rid, "error") /\ UNCHANGED <<bookVars, holder>>
        ELSE Reply(rid, "running") /\ holder' = rid /\ AddOrder(o)
     /\ UNCHANGED plain

\* SUBMIT_ORDER: an order that is no longer active is a success without a match;
\* one with the id of a resting order is an error.
HandleSubmit(rid) ==
  LET p == Payloads[rid].data
      o == FromObject(p)
  IN /\ Turn(rid, "SUBMIT_ORDER")
     /\ IF p = NoData \/ ~IsValidOrderData(p)
          THEN Reply(rid, "invalid") /\ UNCHANGED <<bookVars, holder>>
        ELSE IF ~IsActive(o)
          THEN Reply(rid, "success") /\ UNCHANGED <<bookVars, holder>>
        ELSE IF FindOrderById(o.id)
          THEN Reply(rid, "error") /\ UNCHANGED <<bookVars, holder>>
        ELSE Reply(rid, "running") /\ holder' = rid /\ AddOrder(o)
     /\ UNCHANGED plain

Round == MatchNext /\ UNCHANGED <<plain, queue, holder, status>>

\* addOrder returns to the handler, which answers and releases the mutex.
SubmitReturns ==
  /\ Return
  /\ holder' = Free
  /\ Reply(holder, "success")
  /\ UNCHANGED <<plain, queue>>

\* SYNC_ORDERBOOK: the state of a message replaces the book.
HandleSync(rid) ==
  LET s == Payloads[rid].data
  IN /\ Turn(rid, "SYNC_ORDERBOOK")
     /\ IF ~IsValidState(s)
          THEN Reply(rid, "invalid") /\ UNCHANGED <<bookVars, plain>>
          ELSE /\ Reply(rid, "success")
               /\ SetState(MappedState(s))
               /\ plain' = (s.matches # <<>>)
     /\ UNCHANGED holder

\* ANNOUNCE_MATCH: the match is checked, logged and answered, and not used.  The
\* log asks for the ids of its orders, which a null has not.
HandleAnnounce(rid) ==
  LET m == Payloads[rid].data
  IN /\ Turn(rid, "ANNOUNCE_MATCH")
     /\ Reply(rid, IF ~IsValidMatchData(m) THEN "invalid"
                   ELSE IF Null \in {m.buyOrder, m.sellOrder} THEN "error"
                   ELSE "success")
     /\ UNCHANGED <<bookVars, plain, holder>>

\* CANCEL_ORDER: the order is out of the book by the time cancel may throw.  That
\* there is no such order is a success.
HandleCancel(rid) ==
  LET p == Payloads[rid].data
  IN /\ Turn(rid, "CANCEL_ORDER")
     /\ IF p = NoData
          THEN Reply(rid, "invalid") /\ UNCHANGED bookVars
        ELSE IF p.orderId = EmptyId
          THEN Reply(rid, "error") /\ UNCHANGED bookVars
        ELSE /\ CancelOrder(p.orderId)
             /\ Reply(rid, IF FindOrderById(p.orderId) /\ ~CanCancel(ToCancel(p.orderId))
                             THEN "error" ELSE "success")
     /\ UNCHANGED <<plain, holder>>

Next ==
  \/ \E rid \in Rids :
       \/ Arrive(rid)
       \/ HandleSubmit(rid)
       \/ HandleSync(rid)
       \/ HandleAnnounce(rid)
       \/ HandleCancel(rid)
  \/ Round
  \/ SubmitReturns

Spec == Init /\ [][Next]_vars

\* The runtime goes on with a call that has begun, and the mutex is handed to the
\* first who waits.
FairSpec ==
  /\ Spec
  /\ WF_vars(Round)
  /\ WF_vars(SubmitReturns)
  /\ WF_queue(\E rid \in Rids, action \in Actions : Turn(rid, action))

-----------------------------------------------------------------------------
\* The variables have the types of the code's state, whatever was sent.
TypeOK ==
  /\ buyOrders \in Seq(Order) /\ sellOrders \in Seq(Order) /\ matches \in Seq(Match)
  /\ Called => /\ call \in [order: Order, matchingOrders: Seq(Order), round: Nat \ {0},
                              matches: Seq(Match)]
               /\ call.round <= Len(call.matchingOrders) + 1
  /\ plain \in BOOLEAN
  /\ queue \in Seq(Rids)
  /\ holder \in Rids \cup {Free}
  /\ status \in [Rids -> {"unsent", "waiting", "running"} \cup Replies]

\* The arrays, and the clones a call walks, are in order and those of a legal book
\* (Matching, LegalBook).
ServerBookLegal ==
  /\ ArraysSorted
  /\ LegalBook(TheBook)
  /\ Called => InOrder(call.matchingOrders)

\* What a book that is legal may be given: an order that asks for no more than it
\* was created for, and the state of a legal book.
Lawful(p) ==
  /\ p.action = "SUBMIT_ORDER" => p.data.amount <= FromObject(p.data).originalAmount
  /\ p.action = "SYNC_ORDERBOOK" => LegalState(MappedState(p.data))

\* In this step the server takes what the request brings.
TakesOn(rid) == status'[rid] # status[rid] /\ status'[rid] \in {"running", "success"}

\* A legal book stays legal in every step but the one that takes on an order for
\* more than it was created for or the state of no legal book: the server makes no
\* crossed, doubled, misplaced or filled order of its own, whatever rests and
\* whatever its requests bring in whatever order.  The checks of SYNC_ORDERBOOK do
\* not see to the rest; a lawful state makes the book legal again.
IllegalOnlyFromPeers ==
  [][/\ ServerBookLegal =>
          ServerBookLegal' \/ \E rid \in Rids : TakesOn(rid) /\ ~Lawful(Payloads[rid])
     /\ \A rid \in Rids :
          TakesOn(rid) /\ Payloads[rid].action = "SYNC_ORDERBOOK" /\ Lawful(Payloads[rid])
            => ServerBookLegal']_vars

\* The mutex is held exactly while the addOrder of a submission runs, by that
\* submission; whoever waits is in the queue, once, and nobody else is.  So no
\* handler keeps the mutex or loses a request, through whichever return it leaves.
MutexPassedOn ==
  /\ holder = Free <=> ~Called
  /\ \A rid \in Rids : status[rid] = "running" <=> rid = holder
  /\ \A rid \in Rids : status[rid] = "waiting" <=> rid \in ToSet(queue)
  /\ \A i, j \in DOMAIN queue : queue[i] = queue[j] => i = j

\* In this step the request is answered with an error.
Fails(rid) == status'[rid] # status[rid] /\ status'[rid] \in {"invalid", "error"}

\* One array loses a filled order with the id, and nothing else.
LosesFilled(before, after, id) ==
  \E i \in DOMAIN before : /\ before[i].id = id
                           /\ before[i].status = "filled"
                           /\ after = RemoveAt(before, i)

\* A request that is answered with an error has changed nothing, but for a
\* cancellation, which takes the order out of the book before it finds out whether
\* the order can be cancelled: what may go is one order, the one asked for, and
\* only when it was filled already.
ErrorsLoseOnlyFilled ==
  [][\A rid \in Rids : Fails(rid) =>
       /\ UNCHANGED <<matches, call, plain>>
       /\ \/ UNCHANGED <<buyOrders, sellOrders>>
          \/ /\ Payloads[rid].action = "CANCEL_ORDER"
             /\ LET id == Payloads[rid].data.orderId
                IN \/ LosesFilled(buyOrders, buyOrders', id) /\ UNCHANGED sellOrders
                   \/ LosesFilled(sellOrders, sellOrders', id) /\ UNCHANGED buyOrders]_vars

\* Every request that arrived is answered: each path through the handlers gives
\* the mutex back.
EveryRequestAnswered ==
  \A rid \in Rids : status[rid] = "waiting" ~> status[rid] \in Replies

\* "state.matches as OrderMatch[]" (P2PService.ts:506): the matches of the log
\* are matches of Orders, so the state of the book can be sent to whoever asks.
ReadsSucceed ==
  \A rid \in Rids :
    Payloads[rid] # Malformed /\ Payloads[rid].action = "GET_ORDERBOOK" =>
      status[rid] # "error"
=============================================================================
