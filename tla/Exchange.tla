------------------------------ MODULE Exchange ------------------------------
(***************************************************************************)
(* The exchange: P2PService (src/src/services/P2PService.ts) on clients    *)
(* and servers, each with an order book of its own, and the requests       *)
(* between them over Grenache.                                             *)
(*                                                                         *)
(* A client matches an order against its own book, then sends what is left *)
(* to some server, retrying for as long as no answer comes; it holds the   *)
(* order mutex meanwhile.  It replaces its book by a server's every few    *)
(* seconds, without the mutex.  A server handles one request at a time: no *)
(* handler awaits anything once it has its mutex, so its mutex is never    *)
(* contended and is left out.                                              *)
(*                                                                         *)
(* A step of the model is what runs between two awaits, except that        *)
(* addOrder takes one step per round of its loop.  A call of addOrder      *)
(* touches the book of its node only, so nothing is lost by running it     *)
(* with the other nodes standing still (Quiet).                            *)
(*                                                                         *)
(* Time is left out: a timeout may come at any moment while an answer is   *)
(* awaited, and a periodic sync may start at any moment.                   *)
(***************************************************************************)
EXTENDS Matching, FiniteSets

CONSTANTS
  Clients, Servers,
  Created,      \* Created[c]: the orders client c creates, in any order
  Cancellable,  \* the ids users of a client may cancel
  Restarting,   \* the servers that may crash and be restarted
  MaxRetries,   \* maxRetries of requestWithTimeout (5 in the code)
  SyncSlots     \* bound: a client has at most this many syncs under way

VARIABLES
  books,       \* the OrderBook of each node
  uncreated,   \* uncreated[c]: the orders client c has not created yet
  waiting,     \* waiting[c]: the submissions waiting for the order mutex of c
  submission,  \* submission[c]: the submission that holds it
  requests,    \* the calls of requestWithTimeout in progress
  calls,       \* the attempts on their way to a server
  serving,     \* serving[s]: the attempt whose addOrder server s is running
  answers      \* the answers on their way back to who awaits them

vars == <<books, uncreated, waiting, submission, requests, calls, serving, answers>>

Nodes == Clients \cup Servers

-----------------------------------------------------------------------------
\* A client creates its orders itself, each with an id of its own (a UUID), open
\* and for all of its amount.
ASSUME CreatedAssumption ==
  /\ Created \in [Clients -> SUBSET Order]
  /\ \A c \in Clients : \A o \in Created[c] :
       o.status = "open" /\ o.amount = o.originalAmount
  /\ \A c, d \in Clients : \A o \in Created[c], p \in Created[d] :
       o.id = p.id => c = d /\ o = p

ASSUME NodesAssumption == Clients \cap Servers = {} /\ Restarting \subseteq Servers

ASSUME BoundsAssumption == MaxRetries \in Nat /\ Cancellable \subseteq Nat

-----------------------------------------------------------------------------
\* What a request is for.  A sync carries nothing; the slot tells two of one
\* client apart.
SubmitOrder(o) == [action |-> "SUBMIT_ORDER", order |-> o]
CancelOrderOf(id) == [action |-> "CANCEL_ORDER", orderId |-> id]
GetOrderbook(slot) == [action |-> "GET_ORDERBOOK", slot |-> slot]

Payload ==
  [action: {"SUBMIT_ORDER"}, order: Order]
    \cup [action: {"CANCEL_ORDER"}, orderId: Nat]
    \cup [action: {"GET_ORDERBOOK"}, slot: SyncSlots]

\* A call of requestWithTimeout, awaiting the answer to an attempt or waiting to
\* make the next.
Request ==
  [client: Clients, payload: Payload, retryCount: 0..MaxRetries, awaiting: BOOLEAN]

\* One attempt.  Nobody waits for it any more once its time is up.
Attempt ==
  [client: Clients, payload: Payload, retryCount: 0..MaxRetries,
   server: Servers, awaited: BOOLEAN]

NotServing == [server |-> "none"]

State == [sides: Sides, matches: Seq(Match)]

\* "error" stands for the errors worth a retry, those without "Invalid".
Answer ==
  [client: Clients, payload: Payload, status: {"success", "error"}]
    \cup [client: Clients, payload: Payload, status: {"state"}, state: State]

\* What submitOrder holds while it waits: its order as created, and the matches
\* of its result.
Submission == [order: Order, matches: Seq(Match)]

NoSubmission == [order |-> "none"]

Quiet == \A n \in Nodes : Idle(books[n])

IsSubmit(r) == r.payload.action = "SUBMIT_ORDER"
IsSync(r) == r.payload.action = "GET_ORDERBOOK"

SameRequest(a, r) == a.client = r.client /\ a.payload = r.payload

\* An attempt of a request: Grenache picks any server that announces the service.
AttemptOf(r, s) ==
  [client |-> r.client, payload |-> r.payload, retryCount |-> r.retryCount,
   server |-> s, awaited |-> TRUE]

\* requestWithTimeout begins: the first attempt is made at once.
NewRequest(c, payload, s) ==
  LET r == [client |-> c, payload |-> payload, retryCount |-> 0, awaiting |-> TRUE]
  IN /\ requests' = requests \cup {r}
     /\ calls' = calls \cup {AttemptOf(r, s)}

-----------------------------------------------------------------------------
Init ==
  /\ books = [n \in Nodes |-> EmptyBook]
  /\ uncreated = Created
  /\ waiting = [c \in Clients |-> <<>>]
  /\ submission = [c \in Clients |-> NoSubmission]
  /\ requests = {}
  /\ calls = {}
  /\ serving = [s \in Servers |-> NotServing]
  /\ answers = {}

-----------------------------------------------------------------------------
(* A client's submission.                                                  *)

\* The client's timer: a new order, whose submitOrder queues for the mutex.
CreateOrder(c) ==
  /\ Quiet
  /\ \E o \in uncreated[c] :
       /\ uncreated' = [uncreated EXCEPT ![c] = @ \ {o}]
       /\ waiting' = [waiting EXCEPT ![c] = Append(@, o)]
  /\ UNCHANGED <<books, submission, requests, calls, serving, answers>>

\* AcquireMutex with a bug: nobody waits for the mutex.
AcquireAnyway(c) ==
  /\ Quiet
  /\ waiting[c] # <<>>
  /\ LET o == Head(waiting[c])
     IN /\ Accepts(books[c], o)
        /\ books' = [books EXCEPT ![c] = BeginCall(@, o)]
        /\ submission' = [submission EXCEPT ![c] = [order |-> o, matches |-> <<>>]]
  /\ waiting' = [waiting EXCEPT ![c] = Tail(@)]
  /\ UNCHANGED <<uncreated, requests, calls, serving, answers>>

\* submitOrder gets the mutex and calls addOrder.  The order is new and open, so
\* addOrder does not throw.
AcquireMutex(c) ==
  /\ Quiet
  /\ submission[c] = NoSubmission
  /\ waiting[c] # <<>>
  /\ LET o == Head(waiting[c])
     IN /\ Accepts(books[c], o)
        /\ books' = [books EXCEPT ![c] = BeginCall(@, o)]
        /\ submission' = [submission EXCEPT ![c] = [order |-> o, matches |-> <<>>]]
  /\ waiting' = [waiting EXCEPT ![c] = Tail(@)]
  /\ UNCHANGED <<uncreated, requests, calls, serving, answers>>

\* A round of addOrder's loop, on a client or a server.
Round(n) ==
  /\ ~Idle(books[n])
  /\ \E c \in books[n].call.candidates :
       /\ Looping(books[n].call, c)
       /\ books' = [books EXCEPT ![n] = Iterate(@, c)]
  /\ UNCHANGED <<uncreated, waiting, submission, requests, calls, serving, answers>>

\* Broadcast with a bug: the order is sent as it was created.
BroadcastWhole(c, s) ==
  /\ ~Idle(books[c])
  /\ LoopDone(books[c].call)
  /\ books' = [books EXCEPT ![c] = EndCall(@)]
  /\ submission' = [submission EXCEPT ![c].matches = books[c].call.fills]
  /\ NewRequest(c, SubmitOrder(submission[c].order), s)
  /\ UNCHANGED <<uncreated, waiting, serving, answers>>

\* addOrder returns to submitOrder, which sends the order as the matching has
\* left it.
Broadcast(c, s) ==
  /\ ~Idle(books[c])
  /\ LoopDone(books[c].call)
  /\ books' = [books EXCEPT ![c] = EndCall(@)]
  /\ submission' = [submission EXCEPT ![c].matches = books[c].call.fills]
  /\ NewRequest(c, SubmitOrder(books[c].call.order), s)
  /\ UNCHANGED <<uncreated, waiting, serving, answers>>

-----------------------------------------------------------------------------
(* A client's other requests.                                              *)

\* cancelOrder, without the mutex: the client's own book first.  Bound: an order
\* is not cancelled again by a client while a cancellation by it is under way.
CancelOrder(c, id, s) ==
  /\ Quiet
  /\ InBook(books[c].sides, id)
  /\ \A r \in requests \cup calls :
       ~(r.client = c /\ r.payload = CancelOrderOf(id))
  /\ books' = [books EXCEPT ![c] = WithoutOrder(@, id)]
  /\ NewRequest(c, CancelOrderOf(id), s)
  /\ UNCHANGED <<uncreated, waiting, submission, serving, answers>>

\* The sync timer, whether or not an earlier sync is still under way.
StartSync(c, slot, s) ==
  /\ Quiet
  /\ \A r \in requests : ~(r.client = c /\ r.payload = GetOrderbook(slot))
  /\ NewRequest(c, GetOrderbook(slot), s)
  /\ UNCHANGED <<books, uncreated, waiting, submission, serving, answers>>

-----------------------------------------------------------------------------
(* requestWithTimeout.                                                     *)

\* The delay before the next attempt is over.
Retry(r, s) ==
  /\ Quiet
  /\ ~r.awaiting
  /\ requests' = (requests \ {r}) \cup {[r EXCEPT !.awaiting = TRUE]}
  /\ calls' = calls \cup {AttemptOf(r, s)}
  /\ UNCHANGED <<books, uncreated, waiting, submission, serving, answers>>

\* Over with a bug: a submission that gives up keeps the mutex.
OverKeepingMutex(r) ==
  /\ requests' = requests \ {r}
  /\ submission' = IF IsSubmit(r) /\ r.retryCount < MaxRetries
                     THEN [submission EXCEPT ![r.client] = NoSubmission]
                     ELSE submission

\* The request is over; a submission returns its local result whatever the
\* outcome, and releases the mutex.
Over(r) ==
  /\ requests' = requests \ {r}
  /\ submission' = IF IsSubmit(r)
                     THEN [submission EXCEPT ![r.client] = NoSubmission]
                     ELSE submission

\* RetryOrGiveUp with a bug: one retry too many.
RetryOnceMore(r) ==
  IF r.retryCount <= MaxRetries
    THEN /\ requests' = (requests \ {r}) \cup
                          {[r EXCEPT !.awaiting = FALSE, !.retryCount = @ + 1]}
         /\ UNCHANGED submission
    ELSE Over(r)

\* One more attempt, if there have not been too many.
RetryOrGiveUp(r) ==
  IF r.retryCount < MaxRetries
    THEN /\ requests' = (requests \ {r}) \cup
                          {[r EXCEPT !.awaiting = FALSE, !.retryCount = @ + 1]}
         /\ UNCHANGED submission
    ELSE Over(r)

\* AttemptFails with a bug: a late answer still counts for the next attempt.
AttemptFailsLate(r) ==
  /\ Quiet
  /\ r.awaiting
  /\ calls' = {k \in calls : ~(k.awaited /\ SameRequest(k, r))}
  /\ RetryOrGiveUp(r)
  /\ UNCHANGED <<books, uncreated, waiting, serving, answers>>

\* The time of an attempt is up, or its connection fails.  The attempt may still
\* reach its server, where nobody awaits the answer, or may be lost.  One that
\* only reads is of no consequence then.
AttemptFails(r) ==
  /\ Quiet
  /\ r.awaiting
  /\ LET sent == {k \in calls : k.awaited /\ SameRequest(k, r)}
     IN \/ calls' = calls \ sent
        \/ /\ sent # {} /\ ~IsSync(r)
           /\ calls' = (calls \ sent) \cup {[k EXCEPT !.awaited = FALSE] : k \in sent}
  /\ answers' = {a \in answers : ~SameRequest(a, r)}
  /\ RetryOrGiveUp(r)
  /\ UNCHANGED <<books, uncreated, waiting, serving>>

\* InstallState with a bug: the old orders are not cleared.
InstallOnTop(book, state) ==
  BookOf([t \in OrderType |-> book.sides[t] \cup SafelyMapOrders(state.sides[t])],
         state.matches)

\* syncOrderbook, from the answer on: the client's book is replaced.
InstallState(book, state) ==
  BookOf([t \in OrderType |-> SafelyMapOrders(state.sides[t])], state.matches)

ReceiveAnswer(r) ==
  /\ Quiet
  /\ \E a \in answers :
       /\ SameRequest(a, r)
       /\ answers' = answers \ {a}
       /\ IF a.status = "error" THEN RetryOrGiveUp(r) ELSE Over(r)
       /\ books' = IF a.status = "state"
                     THEN [books EXCEPT ![r.client] = InstallState(@, a.state)]
                     ELSE books
  /\ UNCHANGED <<uncreated, waiting, calls, serving>>

-----------------------------------------------------------------------------
(* handleRequest on a server.                                              *)

\* handler.reply.
Reply(k, answer) ==
  answers' = IF k.awaited THEN answers \cup {answer} ELSE answers

Status(k, status) ==
  [client |-> k.client, payload |-> k.payload, status |-> status]

\* An order that was filled where it came from is taken note of and not added;
\* one that rests here already is an error; the others go to addOrder.
HandleSubmit(k) ==
  LET s == k.server
      o == FromObject(k.payload.order)
  IN /\ Quiet
     /\ IsSubmit(k)
     /\ calls' = calls \ {k}
     /\ IF IsActive(o) /\ Accepts(books[s], o)
          THEN /\ books' = [books EXCEPT ![s] = BeginCall(@, o)]
               /\ serving' = [serving EXCEPT ![s] = k]
               /\ UNCHANGED answers
          ELSE /\ Reply(k, Status(k, IF IsActive(o) THEN "error" ELSE "success"))
               /\ UNCHANGED <<books, serving>>
     /\ UNCHANGED <<uncreated, waiting, submission, requests>>

\* addOrder returns to the handler.
AnswerSubmit(s) ==
  /\ ~Idle(books[s])
  /\ LoopDone(books[s].call)
  /\ books' = [books EXCEPT ![s] = EndCall(@)]
  /\ serving' = [serving EXCEPT ![s] = NotServing]
  /\ Reply(serving[s], Status(serving[s], "success"))
  /\ UNCHANGED <<uncreated, waiting, submission, requests, calls>>

\* A cancellation succeeds whether or not the order is there.
HandleCancel(k) ==
  /\ Quiet
  /\ k.payload.action = "CANCEL_ORDER"
  /\ calls' = calls \ {k}
  /\ books' = [books EXCEPT ![k.server] = WithoutOrder(@, k.payload.orderId)]
  /\ Reply(k, Status(k, "success"))
  /\ UNCHANGED <<uncreated, waiting, submission, requests, serving>>

HandleGetOrderbook(k) ==
  /\ Quiet
  /\ IsSync(k)
  /\ calls' = calls \ {k}
  /\ Reply(k, [client |-> k.client, payload |-> k.payload, status |-> "state",
               state |-> [sides   |-> books[k.server].sides,
                          matches |-> books[k.server].matches]])
  /\ UNCHANGED <<books, uncreated, waiting, submission, requests, serving>>

\* A server that crashes is started again with an empty book; what was on its
\* way to it is lost.
Restart(s) ==
  /\ Quiet
  /\ books[s] # EmptyBook
  /\ books' = [books EXCEPT ![s] = EmptyBook]
  /\ calls' = {k \in calls : k.server # s}
  /\ UNCHANGED <<uncreated, waiting, submission, requests, serving, answers>>

-----------------------------------------------------------------------------
Next ==
  \/ \E c \in Clients : CreateOrder(c) \/ AcquireMutex(c)
  \/ \E n \in Nodes : Round(n)
  \/ \E c \in Clients, s \in Servers :
       \/ Broadcast(c, s)
       \/ \E id \in Cancellable : CancelOrder(c, id, s)
       \/ \E slot \in SyncSlots : StartSync(c, slot, s)
  \/ \E r \in requests : AttemptFails(r) \/ ReceiveAnswer(r)
  \/ \E r \in requests, s \in Servers : Retry(r, s)
  \/ \E k \in calls : HandleSubmit(k) \/ HandleCancel(k) \/ HandleGetOrderbook(k)
  \/ \E s \in Servers : AnswerSubmit(s)
  \/ \E s \in Restarting : Restart(s)

Spec == Init /\ [][Next]_vars

\* What the runtime does by itself: a free mutex goes to the first who waits, a
\* loop goes on, an attempt is made when its delay is over, and ends with an
\* answer or when its time is up.  No attempt need ever succeed.
SubmissionFairness ==
  /\ \A n \in Nodes : WF_vars(Round(n))
  /\ \A s \in Servers : WF_vars(AnswerSubmit(s))
  /\ \A c \in Clients :
       /\ WF_vars(AcquireMutex(c))
       /\ WF_vars(\E s \in Servers : Broadcast(c, s))
       /\ WF_vars(\E r \in requests, s \in Servers :
                    r.client = c /\ IsSubmit(r) /\ Retry(r, s))
       /\ WF_vars(\E r \in requests :
                    /\ r.client = c /\ IsSubmit(r)
                    /\ AttemptFails(r) \/ ReceiveAnswer(r))

\* And what a working network adds: what reaches a server is handled, a client's
\* sync timer goes off again and again, an attempt of a sync ends, and the syncs,
\* though they may fail any number of times, are again and again handled and
\* answered in time.
NetworkFairness ==
  /\ \A s \in Servers : WF_vars(\E k \in calls : k.server = s /\ HandleSubmit(k))
  /\ \A c \in Clients : \A slot \in SyncSlots :
       LET Mine(r) == r.client = c /\ r.payload = GetOrderbook(slot)
       IN /\ WF_vars(\E s \in Servers : StartSync(c, slot, s))
          /\ WF_vars(\E r \in requests, s \in Servers : Mine(r) /\ Retry(r, s))
          /\ WF_vars(\E r \in requests : Mine(r) /\ (AttemptFails(r) \/ ReceiveAnswer(r)))
          /\ SF_vars(\E k \in calls : Mine(k) /\ HandleGetOrderbook(k))
          /\ SF_vars(\E r \in requests : Mine(r) /\ ReceiveAnswer(r))

FairSpec == Spec /\ SubmissionFairness

NetworkSpec == FairSpec /\ NetworkFairness

-----------------------------------------------------------------------------
\* The variables have the types of the code's state.
TypeOK ==
  /\ books \in [Nodes -> Book]
  /\ uncreated \in [Clients -> SUBSET Order]
  /\ waiting \in [Clients -> Seq(Order)]
  /\ submission \in [Clients -> Submission \cup {NoSubmission}]
  /\ requests \subseteq Request
  /\ calls \subseteq Attempt
  /\ serving \in [Servers -> Attempt \cup {NotServing}]
  /\ answers \subseteq Answer

\* Every node's book is legal at every moment (Matching, LegalBook), though
\* books are replaced in the middle of submissions, orders reach servers late,
\* twice and after their cancellation, and servers lose their books.
EveryBookLegal == \A n \in Nodes : LegalBook(books[n])

\* The order mutex of a client is held by exactly the submission that is under
\* way: while its addOrder runs, or its one request is in progress.
MutexHeld ==
  \A c \in Clients :
    LET mine == {r \in requests : r.client = c /\ IsSubmit(r)}
    IN IF submission[c] = NoSubmission
         THEN mine = {} /\ Idle(books[c])
         ELSE Cardinality(mine) = (IF Idle(books[c]) THEN 1 ELSE 0)

\* A request awaits the outcome of its last attempt only: no two attempts of a
\* request can answer it, and none answers a request that has gone on.
OneAnswerAwaited ==
  LET served == {serving[s] : s \in {t \in Servers : ~Idle(books[t])}}
  IN \A r \in requests :
       Cardinality({k \in calls \cup served : k.awaited /\ SameRequest(k, r)})
         + Cardinality({a \in answers : SameRequest(a, r)})
       <= (IF r.awaiting THEN 1 ELSE 0)

\* What a client sends is exactly what its own matching left of the order, at
\* every attempt: what the request asks for and what the client's own book took are
\* together the amount submitted.
BroadcastsRemainder ==
  \A r \in requests :
    IsSubmit(r) =>
      LET sub == submission[r.client]
      IN /\ r.payload.order.id = sub.order.id
         /\ r.payload.order.amount + Filled(sub.matches) = sub.order.amount

\* o is what is left of p, which nobody has traded with yet.
Rest(o, p) ==
  /\ o.amount <= p.amount
  /\ p = [o EXCEPT !.amount = p.amount, !.status = "open"]

\* The orders whose submission has had its turn.
Submitted(c) == Created[c] \ (uncreated[c] \cup ToSet(waiting[c]))

Known(o) == \E c \in Clients : \E p \in Submitted(c) : Rest(o, p)

\* No order changes its terms on its way through the exchange, grows, or is
\* there before its client submitted it.
TermsKept ==
  /\ \A n \in Nodes, t \in OrderType : \A o \in books[n].sides[t] : Known(o)
  /\ \A k \in calls : IsSubmit(k) => Known(k.payload.order)

\* Every submission gets its turn and returns, though no server ever answers:
\* the mutex is always released.
EverySubmissionReturns ==
  \A c \in Clients : \A o \in Created[c] :
    o \in ToSet(waiting[c]) ~>
      /\ o \notin ToSet(waiting[c])
      /\ submission[c] = NoSubmission \/ submission[c].order.id # o.id

\* "Decentralized orderbook with real-time synchronization" (README, Features):
\* once nobody submits any more, all nodes come to hold one and the same book.
AllBooksAgree ==
  <>[](\A m, n \in Nodes : /\ books[m].sides = books[n].sides
                           /\ books[m].matches = books[n].matches)

\* An order is matched by one server for no more than it was created for.
ServedOnce ==
  \A s \in Servers : \A c \in Clients : \A o \in Created[c] :
    Filled(SelectSeq(books[s].matches,
             LAMBDA m : o.id \in {m.buyOrder.id, m.sellOrder.id})) <= o.amount
=============================================================================
