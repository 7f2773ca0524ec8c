--------------------------- MODULE ExchangeProofs ---------------------------
(***************************************************************************)
(* The exchange for every number of clients, servers, orders and retries.  *)
(*                                                                         *)
(* First what the books and the orders keep, then the mutex and the        *)
(* requests.                                                               *)
(*                                                                         *)
(* That every book stays legal needs more than the books: an order travels *)
(* before it is added to one, and a whole book before it is installed.     *)
(* The inductive invariant IInv says that what travels is fit to be taken  *)
(* in.  TermsKept speaks of the orders that rest or are sent; an order may *)
(* also be on its way inside the book of a sync, or in the hands of an     *)
(* addOrder, and AllKnown says it of all of them.                          *)
(***************************************************************************)
EXTENDS Exchange, MatchingProofs

\* What addOrder needs to know of an order it does not throw on.
Fit(o) ==
  /\ o \in Order
  /\ o.amount <= o.originalAmount
  /\ IsActive(o) => o.amount > 0

\* Orders wait at the client that created them.
OwnOrders ==
  \A c \in Clients : uncreated[c] \subseteq Created[c] /\ waiting[c] \in Seq(Created[c])

\* While a node's addOrder runs somebody waits for it.
SomebodyWaits ==
  /\ \A c \in Clients : ~Idle(books[c]) => submission[c] \in Submission
  /\ \A s \in Servers : ~Idle(books[s]) => serving[s] \in Attempt

FitOrders == \A r \in requests \cup calls : IsSubmit(r) => Fit(r.payload.order)

LegalStates ==
  \A a \in answers :
    a.status = "state" => /\ a.state.sides \in Sides /\ LegalSides(a.state.sides)
                          /\ a.state.matches \in Seq(Match) /\ FairLog(a.state.matches)

IInv ==
  /\ TypeOK
  /\ EveryBookLegal
  /\ OwnOrders
  /\ SomebodyWaits
  /\ FitOrders
  /\ LegalStates

-----------------------------------------------------------------------------
(* Lemmas about the parts of the actions.                                  *)

\* An order a client created is one that addOrder takes.
LEMMA CreatedFit ==
  ASSUME NEW c \in Clients, NEW o \in Created[c]
  PROVE  Fit(o) /\ ValidInputs(o)
<1>1. o \in Order /\ o.status = "open" /\ o.amount = o.originalAmount
  BY CreatedAssumption
<1>2. o.amount \in Nat \ {0} /\ o.price \in Nat \ {0}
  BY <1>1 DEF Order
<1>3. QED
  BY <1>1, <1>2 DEF Fit, ValidInputs

\* Appending keeps the set the elements come from.
LEMMA AppendIn ==
  ASSUME NEW S, NEW q \in Seq(S), NEW x \in S
  PROVE  Append(q, x) \in Seq(S)
OBVIOUS

\* One node's book is replaced by a legal one.
LEMMA OneBook ==
  ASSUME TypeOK, EveryBookLegal, NEW n \in Nodes, NEW b, LegalBook(b),
         books' = [books EXCEPT ![n] = b]
  PROVE  EveryBookLegal' /\ books' \in [Nodes -> Book]
<1>1. b \in Book
  BY DEF LegalBook
<1>2. books \in [Nodes -> Book]
  BY DEF TypeOK
<1>3. books' \in [Nodes -> Book]
  BY <1>1, <1>2
<1>4. \A m \in Nodes : books'[m] = IF m = n THEN b ELSE books[m]
  BY <1>2
<1>5. \A m \in Nodes : LegalBook(books'[m])
  BY <1>4 DEF EveryBookLegal
<1>6. QED
  BY <1>3, <1>5 DEF EveryBookLegal

\* A call of addOrder that has begun is not idle, and a round leaves it so.
LEMMA BusyCalls ==
  ASSUME NEW b, NEW o \in Order, NEW c
  PROVE  ~Idle(BeginCall(b, o)) /\ ~Idle(Iterate(b, c)) /\ Idle(EndCall(b))
<1>1. BeginCall(b, o).call.candidates = FindMatchingOrders(b.sides, o)
  BY DEF BeginCall
<1>2. "candidates" \in DOMAIN BeginCall(b, o).call
  BY DEF BeginCall
<1>3. "candidates" \in DOMAIN Iterate(b, c).call
  <2>1. "candidates" \in DOMAIN Fill(b, c, MakeMatch(b.call.order, c)).call
    BY DEF Fill
  <2>2. "candidates" \in DOMAIN Skip(b, c).call
    BY DEF Skip
  <2>3. QED
    BY <2>1, <2>2 DEF Iterate
<1>4. "candidates" \notin DOMAIN NoCall
  BY DEF NoCall
<1>5. EndCall(b).call = NoCall
  BY DEF EndCall
<1>6. QED
  BY <1>2, <1>3, <1>4, <1>5 DEF Idle

\* A request has a kind; only a submission has an order.
LEMMA PayloadKinds ==
  ASSUME NEW o, NEW id, NEW slot
  PROVE  /\ SubmitOrder(o).action = "SUBMIT_ORDER" /\ SubmitOrder(o).order = o
         /\ CancelOrderOf(id).action = "CANCEL_ORDER"
         /\ GetOrderbook(slot).action = "GET_ORDERBOOK"
         /\ o \in Order => SubmitOrder(o) \in Payload
         /\ id \in Nat => CancelOrderOf(id) \in Payload
         /\ slot \in SyncSlots => GetOrderbook(slot) \in Payload
BY DEF SubmitOrder, CancelOrderOf, GetOrderbook, Payload

\* A request that begins, and its first attempt.
LEMMA NewRequestOf ==
  ASSUME IInv, NEW c \in Clients, NEW p \in Payload, NEW s \in Servers,
         p.action = "SUBMIT_ORDER" => Fit(p.order),
         NewRequest(c, p, s)
  PROVE  requests' \subseteq Request /\ calls' \subseteq Attempt /\ FitOrders'
<1> DEFINE r == [client |-> c, payload |-> p, retryCount |-> 0, awaiting |-> TRUE]
           k == AttemptOf(r, s)
<1> HIDE DEF k
<1>1. requests' = requests \cup {r} /\ calls' = calls \cup {k}
  BY DEF NewRequest, k
<1>2. 0 \in 0..MaxRetries
  BY BoundsAssumption
<1>3. r \in Request
  BY <1>2 DEF Request
<1>4. k = [client |-> c, payload |-> p, retryCount |-> 0, server |-> s, awaited |-> TRUE]
  BY DEF k, AttemptOf
<1>5. k \in Attempt
  BY <1>2, <1>4 DEF Attempt
<1>6. r.payload = p /\ k.payload = p
  BY <1>4
<1>7. FitOrders'
  BY <1>1, <1>6, Zenon DEF IInv, FitOrders, IsSubmit
<1>8. QED
  BY <1>1, <1>3, <1>5, <1>7 DEF IInv, TypeOK

\* A request is over, or waits to make one more attempt.
LEMMA RetryOrGiveUpOf ==
  ASSUME IInv, NEW r \in requests, RetryOrGiveUp(r) \/ Over(r)
  PROVE  /\ requests' \subseteq Request
         /\ submission' \in [Clients -> Submission \cup {NoSubmission}]
         /\ \A q \in requests' : IsSubmit(q) => Fit(q.payload.order)
<1> DEFINE q == [r EXCEPT !.awaiting = FALSE, !.retryCount = @ + 1]
<1>1. requests \subseteq Request /\ r \in Request
  BY DEF IInv, TypeOK
<1>2. submission \in [Clients -> Submission \cup {NoSubmission}]
  BY DEF IInv, TypeOK
<1>3. \A x \in requests : IsSubmit(x) => Fit(x.payload.order)
  BY DEF IInv, FitOrders
<1>4. CASE /\ r.retryCount < MaxRetries
           /\ requests' = (requests \ {r}) \cup {q} /\ submission' = submission
  <2>1. r.retryCount + 1 \in 0..MaxRetries
    BY <1>1, <1>4, BoundsAssumption DEF Request
  <2>2. q \in Request
    BY <1>1, <2>1 DEF Request
  <2>3. q.payload = r.payload
    BY <1>1 DEF Request
  <2>4. IsSubmit(q) => Fit(q.payload.order)
    BY <1>3, <2>3 DEF IsSubmit
  <2> HIDE DEF q
  <2>5. \A x \in requests' : x \in requests \/ x = q
    BY <1>4
  <2>6. QED
    BY <1>1, <1>2, <1>3, <1>4, <2>2, <2>4, <2>5
<1>5. CASE Over(r)
  <2>1. requests' \subseteq requests
    BY <1>5 DEF Over
  <2>2. submission' = submission \/ submission' = [submission EXCEPT ![r.client] = NoSubmission]
    BY <1>5 DEF Over
  <2>3. QED
    BY <1>1, <1>2, <1>3, <2>1, <2>2
<1>6. QED
  BY <1>4, <1>5 DEF RetryOrGiveUp

\* What is sent stays fit when no request and no attempt of another order joins.
LEMMA FitOrdersShrink ==
  ASSUME FitOrders,
         \A q \in requests' : IsSubmit(q) => Fit(q.payload.order),
         \A k \in calls' : \E j \in calls : k.payload = j.payload
  PROVE  FitOrders'
BY Zenon DEF FitOrders, IsSubmit

\* Nobody need wait for an addOrder after a step that leaves none running.
LEMMA QuietSomebodyWaits ==
  ASSUME \A n \in Nodes : Idle(books'[n])
  PROVE  SomebodyWaits'
BY DEF SomebodyWaits, Nodes

-----------------------------------------------------------------------------
(* One lemma for every action.                                             *)

LEMMA InitIInv == Init => IInv
<1> SUFFICES ASSUME Init PROVE IInv
  OBVIOUS
<1>1. EveryBookLegal /\ books \in [Nodes -> Book]
  <2>1. \A n \in Nodes : books[n] = EmptyBook
    BY DEF Init
  <2>2. EmptyBook \in Book
    BY EmptyLegal DEF LegalBook
  <2>3. QED
    BY <2>1, <2>2, EmptyLegal DEF Init, EveryBookLegal
<1>2. \A n \in Nodes : Idle(books[n])
  BY DEF Init, Idle, EmptyBook
<1>3. SomebodyWaits
  BY <1>2 DEF SomebodyWaits, Nodes
<1>4. /\ uncreated \in [Clients -> SUBSET Order] /\ waiting \in [Clients -> Seq(Order)]
      /\ OwnOrders
  BY CreatedAssumption DEF Init, OwnOrders
<1>5. submission \in [Clients -> Submission \cup {NoSubmission}]
  BY DEF Init
<1>6. serving \in [Servers -> Attempt \cup {NotServing}]
  BY DEF Init
<1>7. requests = {} /\ calls = {} /\ answers = {}
  BY DEF Init
<1>8. QED
  BY <1>1, <1>3, <1>4, <1>5, <1>6, <1>7 DEF IInv, TypeOK, FitOrders, LegalStates

LEMMA CreateOrderIInv ==
  ASSUME IInv, NEW c \in Clients, CreateOrder(c)
  PROVE  IInv'
<1>1. PICK o \in uncreated[c] :
        /\ uncreated' = [uncreated EXCEPT ![c] = @ \ {o}]
        /\ waiting' = [waiting EXCEPT ![c] = Append(@, o)]
  BY DEF CreateOrder
<1>2. UNCHANGED <<books, submission, requests, calls, serving, answers>>
  BY DEF CreateOrder
<1>3. o \in Created[c] /\ o \in Order
  BY CreatedAssumption DEF IInv, OwnOrders
<1>4. /\ uncreated' \in [Clients -> SUBSET Order] /\ waiting' \in [Clients -> Seq(Order)]
  BY <1>1, <1>3 DEF IInv, TypeOK
<1>5. OwnOrders'
  <2> SUFFICES ASSUME NEW d \in Clients
               PROVE  uncreated'[d] \subseteq Created[d] /\ waiting'[d] \in Seq(Created[d])
    BY DEF OwnOrders
  <2>1. uncreated[d] \subseteq Created[d] /\ waiting[d] \in Seq(Created[d])
    BY DEF IInv, OwnOrders
  <2>2. /\ uncreated'[d] = IF d = c THEN uncreated[c] \ {o} ELSE uncreated[d]
        /\ waiting'[d] = IF d = c THEN Append(waiting[c], o) ELSE waiting[d]
    BY <1>1 DEF IInv, TypeOK
  <2>3. CASE d = c
    <3>1. waiting[c] \in Seq(Created[c])
      BY <2>1, <2>3
    <3>2. Append(waiting[c], o) \in Seq(Created[c])
      BY <1>3, <3>1, AppendIn
    <3>3. QED
      BY <2>1, <2>2, <2>3, <3>2
  <2>4. CASE d # c
    BY <2>1, <2>2, <2>4
  <2>5. QED
    BY <2>3, <2>4
<1>6. QED
  BY <1>2, <1>4, <1>5
  DEF IInv, TypeOK, EveryBookLegal, SomebodyWaits, FitOrders, LegalStates

LEMMA AcquireMutexIInv ==
  ASSUME IInv, NEW c \in Clients, AcquireMutex(c)
  PROVE  IInv'
<1> DEFINE o == Head(waiting[c])
<1>1. /\ Quiet /\ waiting[c] # <<>> /\ Accepts(books[c], o)
      /\ books' = [books EXCEPT ![c] = BeginCall(@, o)]
      /\ submission' = [submission EXCEPT ![c] = [order |-> o, matches |-> <<>>]]
      /\ waiting' = [waiting EXCEPT ![c] = Tail(@)]
      /\ UNCHANGED <<uncreated, requests, calls, serving, answers>>
  BY DEF AcquireMutex
<1>2. /\ waiting[c] \in Seq(Created[c]) /\ waiting[c] \in Seq(Order)
      /\ books \in [Nodes -> Book] /\ c \in Nodes
      /\ waiting \in [Clients -> Seq(Order)]
      /\ submission \in [Clients -> Submission \cup {NoSubmission}]
  BY DEF IInv, TypeOK, OwnOrders, Nodes
<1>3. o \in Created[c] /\ Tail(waiting[c]) \in Seq(Created[c])
      /\ Tail(waiting[c]) \in Seq(Order)
  BY <1>1, <1>2
<1>4. o \in Order /\ o.amount <= o.originalAmount /\ ValidInputs(o)
  BY <1>3, CreatedFit DEF Fit
<1> HIDE DEF o
<1>5. LegalBook(books[c]) /\ Idle(books[c])
  BY <1>1, <1>2 DEF IInv, EveryBookLegal, Quiet
<1>6. LegalBook(BeginCall(books[c], o))
  BY <1>1, <1>4, <1>5, BeginLegal
<1>7. EveryBookLegal' /\ books' \in [Nodes -> Book]
  BY <1>1, <1>2, <1>6, OneBook DEF IInv
<1>8. submission' \in [Clients -> Submission \cup {NoSubmission}]
      /\ submission'[c] \in Submission
  <2>1. [order |-> o, matches |-> <<>>] \in Submission
    BY <1>4 DEF Submission
  <2>2. QED
    BY <1>1, <1>2, <2>1
<1>9. SomebodyWaits'
  <2>1. \A n \in Nodes : n # c => Idle(books'[n])
    BY <1>1, <1>2 DEF Quiet
  <2>2. \A s \in Servers : s # c
    BY NodesAssumption
  <2>3. QED
    BY <1>8, <2>1, <2>2 DEF SomebodyWaits, Nodes
<1>10. waiting' \in [Clients -> Seq(Order)]
  BY <1>1, <1>2, <1>3
<1>11. OwnOrders'
  BY <1>1, <1>2, <1>3 DEF IInv, OwnOrders
<1>12. QED
  BY <1>1, <1>7, <1>8, <1>9, <1>10, <1>11 DEF IInv, TypeOK, FitOrders, LegalStates

LEMMA RoundIInv ==
  ASSUME IInv, NEW n \in Nodes, Round(n)
  PROVE  IInv'
<1>1. PICK c \in books[n].call.candidates :
        Looping(books[n].call, c) /\ books' = [books EXCEPT ![n] = Iterate(@, c)]
  BY DEF Round
<1>2. /\ ~Idle(books[n])
      /\ UNCHANGED <<uncreated, waiting, submission, requests, calls, serving, answers>>
  BY DEF Round
<1>3. LegalBook(books[n])
  BY DEF IInv, EveryBookLegal
<1>4. LegalBook(Iterate(books[n], c))
  BY <1>1, <1>2, <1>3, IterateLegal
<1>5. EveryBookLegal' /\ books' \in [Nodes -> Book]
  BY <1>1, <1>4, OneBook DEF IInv
<1>6. \A m \in Nodes : ~Idle(books'[m]) => ~Idle(books[m])
  BY <1>1, <1>2 DEF IInv, TypeOK
<1>7. SomebodyWaits'
  BY <1>2, <1>6 DEF IInv, SomebodyWaits, Nodes
<1>8. QED
  BY <1>2, <1>5, <1>7 DEF IInv, TypeOK, OwnOrders, FitOrders, LegalStates

LEMMA BroadcastIInv ==
  ASSUME IInv, NEW c \in Clients, NEW s \in Servers, Broadcast(c, s)
  PROVE  IInv'
<1> DEFINE b == books[c]
           p == SubmitOrder(b.call.order)
<1>1. /\ ~Idle(b) /\ LoopDone(b.call)
      /\ books' = [books EXCEPT ![c] = EndCall(@)]
      /\ submission' = [submission EXCEPT ![c].matches = b.call.fills]
      /\ NewRequest(c, p, s)
      /\ UNCHANGED <<uncreated, waiting, serving, answers>>
  BY DEF Broadcast
<1>2. /\ c \in Nodes /\ b \in Book /\ LegalBook(b)
      /\ submission[c] \in Submission
      /\ submission \in [Clients -> Submission \cup {NoSubmission}]
  BY <1>1 DEF IInv, TypeOK, EveryBookLegal, SomebodyWaits, Nodes
<1>3. b.call.order \in Order /\ b.call.fills \in Seq(Match)
  BY <1>1, <1>2, BookParts
<1>4. Fit(b.call.order)
  BY <1>1, <1>2, <1>3 DEF LegalBook, CallLegal, Fit
<1>5. LegalBook(EndCall(b))
  BY <1>1, <1>2, EndLegal
<1>6. EveryBookLegal' /\ books' \in [Nodes -> Book]
  BY <1>1, <1>2, <1>5, OneBook DEF IInv
<1>7. p \in Payload /\ p.order = b.call.order
  BY <1>3, PayloadKinds
<1>8. requests' \subseteq Request /\ calls' \subseteq Attempt /\ FitOrders'
  <2> HIDE DEF p
  <2>1. QED
    BY <1>1, <1>4, <1>7, NewRequestOf
<1>9. submission' \in [Clients -> Submission \cup {NoSubmission}]
  <2>1. [submission[c] EXCEPT !.matches = b.call.fills] \in Submission
    BY <1>2, <1>3 DEF Submission
  <2>2. submission' = [submission EXCEPT
                         ![c] = [submission[c] EXCEPT !.matches = b.call.fills]]
    BY <1>1
  <2>3. QED
    BY <1>2, <2>1, <2>2
<1>10. SomebodyWaits'
  <2>1. \A d \in Clients : ~Idle(books'[d]) => d # c /\ ~Idle(books[d])
    BY <1>1, <1>2, BusyCalls DEF IInv, TypeOK, Nodes, EndCall, Idle
  <2>2. \A d \in Servers : d # c /\ books'[d] = books[d]
    BY <1>1, NodesAssumption DEF IInv, TypeOK, Nodes
  <2>3. \A d \in Clients : d # c => submission'[d] = submission[d]
    BY <1>1, <1>2
  <2>4. QED
    BY <1>1, <2>1, <2>2, <2>3 DEF IInv, SomebodyWaits
<1>11. QED
  BY <1>1, <1>6, <1>8, <1>9, <1>10 DEF IInv, TypeOK, OwnOrders, LegalStates

LEMMA CancelOrderIInv ==
  ASSUME IInv, NEW c \in Clients, NEW id \in Cancellable, NEW s \in Servers,
         CancelOrder(c, id, s)
  PROVE  IInv'
<1> DEFINE p == CancelOrderOf(id)
<1>1. /\ Quiet /\ books' = [books EXCEPT ![c] = WithoutOrder(@, id)]
      /\ NewRequest(c, p, s)
      /\ UNCHANGED <<uncreated, waiting, submission, serving, answers>>
  BY DEF CancelOrder
<1>2. c \in Nodes /\ Idle(books[c]) /\ LegalBook(books[c])
  BY <1>1 DEF IInv, EveryBookLegal, Nodes, Quiet
<1>3. LegalBook(WithoutOrder(books[c], id)) /\ Idle(WithoutOrder(books[c], id))
  BY <1>2, CancelLegal
<1>4. EveryBookLegal' /\ books' \in [Nodes -> Book]
  BY <1>1, <1>2, <1>3, OneBook DEF IInv
<1>5. SomebodyWaits'
  BY <1>1, <1>3, QuietSomebodyWaits DEF Quiet, IInv, TypeOK
<1>6. p \in Payload /\ p.action # "SUBMIT_ORDER"
  BY BoundsAssumption, PayloadKinds
<1>7. requests' \subseteq Request /\ calls' \subseteq Attempt /\ FitOrders'
  <2> HIDE DEF p
  <2>1. QED
    BY <1>1, <1>6, NewRequestOf
<1>8. QED
  BY <1>1, <1>4, <1>5, <1>7 DEF IInv, TypeOK, OwnOrders, LegalStates

LEMMA StartSyncIInv ==
  ASSUME IInv, NEW c \in Clients, NEW slot \in SyncSlots, NEW s \in Servers,
         StartSync(c, slot, s)
  PROVE  IInv'
<1> DEFINE p == GetOrderbook(slot)
<1>1. /\ NewRequest(c, p, s)
      /\ UNCHANGED <<books, uncreated, waiting, submission, serving, answers>>
  BY DEF StartSync
<1>2. p \in Payload /\ p.action # "SUBMIT_ORDER"
  BY PayloadKinds
<1>3. requests' \subseteq Request /\ calls' \subseteq Attempt /\ FitOrders'
  <2> HIDE DEF p
  <2>1. QED
    BY <1>1, <1>2, NewRequestOf
<1>4. QED
  BY <1>1, <1>3 DEF IInv, TypeOK, EveryBookLegal, OwnOrders, SomebodyWaits, LegalStates

LEMMA RetryIInv ==
  ASSUME IInv, NEW r \in requests, NEW s \in Servers, Retry(r, s)
  PROVE  IInv'
<1> DEFINE q == [r EXCEPT !.awaiting = TRUE]
           k == AttemptOf(r, s)
<1>1. /\ requests' = (requests \ {r}) \cup {q} /\ calls' = calls \cup {k}
      /\ UNCHANGED <<books, uncreated, waiting, submission, serving, answers>>
  BY DEF Retry
<1>2. r \in Request /\ requests \subseteq Request /\ calls \subseteq Attempt
  BY DEF IInv, TypeOK
<1>3. q \in Request /\ q.payload = r.payload
  BY <1>2 DEF Request
<1>4. k \in Attempt /\ k.payload = r.payload
  BY <1>2 DEF Request, Attempt, AttemptOf
<1> HIDE DEF q, k
<1>5. requests' \subseteq Request /\ calls' \subseteq Attempt
  BY <1>1, <1>2, <1>3, <1>4
<1>6. FitOrders'
  BY <1>1, <1>3, <1>4, Zenon DEF IInv, FitOrders, IsSubmit
<1>7. QED
  BY <1>1, <1>5, <1>6 DEF IInv, TypeOK, EveryBookLegal, OwnOrders, SomebodyWaits, LegalStates

\* Who is not awaited any more is still an attempt, with the same payload.
LEMMA Unawaited ==
  ASSUME NEW k \in Attempt
  PROVE  /\ [k EXCEPT !.awaited = FALSE] \in Attempt
         /\ [k EXCEPT !.awaited = FALSE].payload = k.payload
         /\ [k EXCEPT !.awaited = FALSE].client = k.client
         /\ [k EXCEPT !.awaited = FALSE].awaited = FALSE
BY DEF Attempt

LEMMA AttemptFailsIInv ==
  ASSUME IInv, NEW r \in requests, AttemptFails(r)
  PROVE  IInv'
<1> DEFINE sent == {k \in calls : k.awaited /\ SameRequest(k, r)}
<1>1. /\ Quiet
      /\ \/ calls' = calls \ sent
         \/ calls' = (calls \ sent) \cup {[k EXCEPT !.awaited = FALSE] : k \in sent}
      /\ answers' \subseteq answers
      /\ RetryOrGiveUp(r)
      /\ UNCHANGED <<books, uncreated, waiting, serving>>
  BY Zenon DEF AttemptFails
<1>2. \A k \in calls' : \E j \in calls :
        k = j \/ k = [j EXCEPT !.awaited = FALSE]
  BY <1>1, Zenon
<1>3. /\ requests' \subseteq Request
      /\ submission' \in [Clients -> Submission \cup {NoSubmission}]
      /\ \A q \in requests' : IsSubmit(q) => Fit(q.payload.order)
  BY <1>1, RetryOrGiveUpOf
<1>4. calls \subseteq Attempt
  BY DEF IInv, TypeOK
<1>5. calls' \subseteq Attempt /\ \A k \in calls' : \E j \in calls : k.payload = j.payload
  BY <1>2, <1>4, Unawaited, Zenon
<1>6. FitOrders'
  BY <1>3, <1>5, FitOrdersShrink DEF IInv
<1>7. SomebodyWaits'
  BY <1>1, QuietSomebodyWaits DEF Quiet
<1>8. LegalStates'
  BY <1>1 DEF IInv, LegalStates
<1>9. EveryBookLegal' /\ OwnOrders'
  BY <1>1 DEF IInv, EveryBookLegal, OwnOrders
<1>10. TypeOK'
  BY <1>1, <1>3, <1>5 DEF IInv, TypeOK
<1>11. QED
  BY <1>6, <1>7, <1>8, <1>9, <1>10 DEF IInv

LEMMA ReceiveAnswerIInv ==
  ASSUME IInv, NEW r \in requests, ReceiveAnswer(r)
  PROVE  IInv'
<1>1. PICK a \in answers :
        /\ answers' = answers \ {a}
        /\ IF a.status = "error" THEN RetryOrGiveUp(r) ELSE Over(r)
        /\ books' = IF a.status = "state"
                      THEN [books EXCEPT ![r.client] = InstallState(@, a.state)]
                      ELSE books
  BY DEF ReceiveAnswer
<1>2. Quiet /\ UNCHANGED <<uncreated, waiting, calls, serving>>
  BY DEF ReceiveAnswer
<1>3. /\ requests' \subseteq Request
      /\ submission' \in [Clients -> Submission \cup {NoSubmission}]
      /\ \A q \in requests' : IsSubmit(q) => Fit(q.payload.order)
  BY <1>1, RetryOrGiveUpOf
<1>4. FitOrders'
  BY <1>2, <1>3, FitOrdersShrink DEF IInv
<1>5. /\ EveryBookLegal' /\ books' \in [Nodes -> Book]
      /\ \A n \in Nodes : Idle(books'[n])
  <2>1. CASE a.status = "state"
    <3> DEFINE b == InstallState(books[r.client], a.state)
    <3>1. r.client \in Nodes
      BY DEF IInv, TypeOK, Request, Nodes
    <3>2. /\ a.state.sides \in Sides /\ LegalSides(a.state.sides)
          /\ a.state.matches \in Seq(Match) /\ FairLog(a.state.matches)
      BY <2>1 DEF IInv, LegalStates
    <3>3. LegalBook(b) /\ Idle(b)
      BY <3>2, ParsedStateLegal DEF InstallState, BookOf, Idle
    <3>4. books' = [books EXCEPT ![r.client] = b]
      BY <1>1, <2>1
    <3> HIDE DEF b
    <3>5. EveryBookLegal' /\ books' \in [Nodes -> Book]
      BY <3>1, <3>3, <3>4, OneBook DEF IInv
    <3>6. QED
      BY <1>2, <3>3, <3>4, <3>5 DEF Quiet, IInv, TypeOK
  <2>2. CASE a.status # "state"
    BY <1>1, <1>2, <2>2 DEF IInv, TypeOK, EveryBookLegal, Quiet
  <2>3. QED
    BY <2>1, <2>2
<1>6. SomebodyWaits'
  BY <1>5, QuietSomebodyWaits
<1>7. LegalStates'
  BY <1>1 DEF IInv, LegalStates
<1>8. QED
  BY <1>1, <1>2, <1>3, <1>4, <1>5, <1>6, <1>7 DEF IInv, TypeOK, OwnOrders

\* The answer to an attempt.
LEMMA ReplyOf ==
  ASSUME IInv, NEW k \in Attempt, NEW st \in {"success", "error"},
         Reply(k, Status(k, st)) \/ UNCHANGED answers
  PROVE  answers' \subseteq Answer /\ LegalStates'
<1> DEFINE a == Status(k, st)
<1>1. a = [client |-> k.client, payload |-> k.payload, status |-> st]
  BY DEF Status
<1>2. a \in Answer /\ a.status # "state"
  BY <1>1 DEF Attempt, Answer
<1> HIDE DEF a
<1>3. answers' = answers \/ answers' = answers \cup {a}
  BY DEF Reply, a
<1>4. QED
  BY <1>2, <1>3 DEF IInv, TypeOK, LegalStates

LEMMA HandleSubmitIInv ==
  ASSUME IInv, NEW k \in calls, HandleSubmit(k)
  PROVE  IInv'
<1> DEFINE s == k.server
           o == FromObject(k.payload.order)
<1>1. /\ Quiet /\ IsSubmit(k) /\ calls' = calls \ {k}
      /\ \/ /\ IsActive(o) /\ Accepts(books[s], o)
            /\ books' = [books EXCEPT ![s] = BeginCall(@, o)]
            /\ serving' = [serving EXCEPT ![s] = k]
            /\ UNCHANGED answers
         \/ /\ \E st \in {"success", "error"} : Reply(k, Status(k, st))
            /\ UNCHANGED <<books, serving>>
      /\ UNCHANGED <<uncreated, waiting, submission, requests>>
  BY DEF HandleSubmit
<1>2. /\ k \in Attempt /\ s \in Servers /\ s \in Nodes /\ books \in [Nodes -> Book]
      /\ serving \in [Servers -> Attempt \cup {NotServing}]
  BY DEF IInv, TypeOK, Attempt, Nodes
<1>3. o = k.payload.order /\ Fit(o)
  <2>1. Fit(k.payload.order)
    BY <1>1 DEF IInv, FitOrders
  <2>2. QED
    BY <2>1, CloneIsEqual DEF Fit, FromObject, Clone
<1>4. FitOrders' /\ calls' \subseteq Attempt
  BY <1>1 DEF IInv, TypeOK, FitOrders
<1>5. answers' \subseteq Answer /\ LegalStates'
  BY <1>1, <1>2, ReplyOf
<1> HIDE DEF o, s
<1>6. /\ EveryBookLegal' /\ books' \in [Nodes -> Book]
      /\ serving' \in [Servers -> Attempt \cup {NotServing}] /\ SomebodyWaits'
  <2>1. CASE /\ IsActive(o) /\ Accepts(books[s], o)
             /\ books' = [books EXCEPT ![s] = BeginCall(@, o)]
             /\ serving' = [serving EXCEPT ![s] = k]
    <3>1. LegalBook(books[s]) /\ Idle(books[s])
      BY <1>1, <1>2 DEF IInv, EveryBookLegal, Quiet
    <3>2. o \in Order /\ ValidInputs(o) /\ o.amount <= o.originalAmount
      BY <1>3, <2>1 DEF Fit, ValidInputs, Order
    <3>3. LegalBook(BeginCall(books[s], o))
      BY <2>1, <3>1, <3>2, BeginLegal
    <3>4. EveryBookLegal' /\ books' \in [Nodes -> Book]
      BY <1>2, <2>1, <3>3, OneBook DEF IInv
    <3>5. \A n \in Nodes : n # s => Idle(books'[n])
      BY <1>1, <1>2, <2>1 DEF Quiet
    <3>6. serving'[s] \in Attempt
      BY <1>2, <2>1
    <3>7. \A c \in Clients : c # s
      BY <1>2, NodesAssumption
    <3>8. SomebodyWaits'
      BY <3>5, <3>6, <3>7 DEF SomebodyWaits, Nodes
    <3>9. QED
      BY <1>2, <2>1, <3>4, <3>8
  <2>2. CASE UNCHANGED <<books, serving>>
    BY <1>1, <2>2 DEF IInv, TypeOK, EveryBookLegal, SomebodyWaits
  <2>3. QED
    BY <1>1, <2>1, <2>2
<1>7. QED
  BY <1>1, <1>4, <1>5, <1>6 DEF IInv, TypeOK, OwnOrders

LEMMA AnswerSubmitIInv ==
  ASSUME IInv, NEW s \in Servers, AnswerSubmit(s)
  PROVE  IInv'
<1>1. /\ ~Idle(books[s]) /\ LoopDone(books[s].call)
      /\ books' = [books EXCEPT ![s] = EndCall(@)]
      /\ serving' = [serving EXCEPT ![s] = NotServing]
      /\ Reply(serving[s], Status(serving[s], "success"))
      /\ UNCHANGED <<uncreated, waiting, submission, requests, calls>>
  BY DEF AnswerSubmit
<1>2. s \in Nodes /\ LegalBook(books[s]) /\ serving[s] \in Attempt
  BY <1>1 DEF IInv, EveryBookLegal, SomebodyWaits, Nodes
<1>3. LegalBook(EndCall(books[s])) /\ Idle(EndCall(books[s]))
  BY <1>1, <1>2, EndLegal
<1>4. EveryBookLegal' /\ books' \in [Nodes -> Book]
  BY <1>1, <1>2, <1>3, OneBook DEF IInv
<1>5. answers' \subseteq Answer /\ LegalStates'
  BY <1>1, <1>2, ReplyOf
<1>6. serving' \in [Servers -> Attempt \cup {NotServing}]
  BY <1>1 DEF IInv, TypeOK
<1>7. SomebodyWaits'
  <2>1. \A n \in Nodes : ~Idle(books'[n]) => n # s /\ ~Idle(books[n])
    BY <1>1, <1>3 DEF IInv, TypeOK
  <2>2. \A t \in Servers : t # s => serving'[t] = serving[t]
    BY <1>1 DEF IInv, TypeOK
  <2>3. QED
    BY <1>1, <2>1, <2>2 DEF IInv, SomebodyWaits, Nodes
<1>8. QED
  BY <1>1, <1>4, <1>5, <1>6, <1>7 DEF IInv, TypeOK, OwnOrders, FitOrders

LEMMA HandleCancelIInv ==
  ASSUME IInv, NEW k \in calls, HandleCancel(k)
  PROVE  IInv'
<1>1. /\ Quiet /\ calls' = calls \ {k}
      /\ books' = [books EXCEPT ![k.server] = WithoutOrder(@, k.payload.orderId)]
      /\ Reply(k, Status(k, "success"))
      /\ UNCHANGED <<uncreated, waiting, submission, requests, serving>>
  BY DEF HandleCancel
<1>2. k \in Attempt /\ k.server \in Nodes
  BY DEF IInv, TypeOK, Attempt, Nodes
<1>3. LegalBook(books[k.server]) /\ Idle(books[k.server])
  BY <1>1, <1>2 DEF IInv, EveryBookLegal, Quiet
<1> DEFINE b == WithoutOrder(books[k.server], k.payload.orderId)
<1>4. LegalBook(b) /\ Idle(b)
  BY <1>3, CancelLegal
<1>5. books' = [books EXCEPT ![k.server] = b]
  BY <1>1
<1> HIDE DEF b
<1>6. EveryBookLegal' /\ books' \in [Nodes -> Book]
  BY <1>2, <1>4, <1>5, OneBook DEF IInv
<1>7. SomebodyWaits'
  BY <1>1, <1>4, <1>5, QuietSomebodyWaits DEF Quiet, IInv, TypeOK
<1>8. answers' \subseteq Answer /\ LegalStates'
  BY <1>1, <1>2, ReplyOf
<1>9. FitOrders' /\ calls' \subseteq Attempt
  BY <1>1 DEF IInv, TypeOK, FitOrders
<1>10. QED
  BY <1>1, <1>6, <1>7, <1>8, <1>9 DEF IInv, TypeOK, OwnOrders

LEMMA HandleGetOrderbookIInv ==
  ASSUME IInv, NEW k \in calls, HandleGetOrderbook(k)
  PROVE  IInv'
<1> DEFINE b == books[k.server]
           a == [client |-> k.client, payload |-> k.payload, status |-> "state",
                 state |-> [sides |-> b.sides, matches |-> b.matches]]
<1>1. /\ calls' = calls \ {k} /\ Reply(k, a)
      /\ UNCHANGED <<books, uncreated, waiting, submission, requests, serving>>
  BY DEF HandleGetOrderbook
<1>2. k \in Attempt /\ k.server \in Nodes
  BY DEF IInv, TypeOK, Attempt, Nodes
<1>3. b \in Book /\ LegalBook(b)
  BY <1>2 DEF IInv, TypeOK, EveryBookLegal
<1>4. b.sides \in Sides /\ LegalSides(b.sides) /\ b.matches \in Seq(Match) /\ FairLog(b.matches)
  BY <1>3, BookParts DEF LegalBook
<1> HIDE DEF b
<1>5. a \in Answer /\ a.state.sides = b.sides /\ a.state.matches = b.matches
  BY <1>2, <1>4 DEF Attempt, Answer, State
<1> HIDE DEF a
<1>6. answers' = answers \/ answers' = answers \cup {a}
  BY <1>1 DEF Reply
<1>7. answers' \subseteq Answer /\ LegalStates'
  BY <1>4, <1>5, <1>6 DEF IInv, TypeOK, LegalStates
<1>8. FitOrders' /\ calls' \subseteq Attempt
  BY <1>1 DEF IInv, TypeOK, FitOrders
<1>9. QED
  BY <1>1, <1>7, <1>8 DEF IInv, TypeOK, OwnOrders, EveryBookLegal, SomebodyWaits

LEMMA RestartIInv ==
  ASSUME IInv, NEW s \in Restarting, Restart(s)
  PROVE  IInv'
<1>1. /\ Quiet /\ books' = [books EXCEPT ![s] = EmptyBook] /\ calls' \subseteq calls
      /\ UNCHANGED <<uncreated, waiting, submission, requests, serving, answers>>
  BY DEF Restart
<1>2. s \in Nodes
  BY NodesAssumption DEF Nodes
<1>3. EveryBookLegal' /\ books' \in [Nodes -> Book]
  BY <1>1, <1>2, EmptyLegal, OneBook DEF IInv
<1>4. SomebodyWaits'
  <2>1. Idle(EmptyBook)
    BY DEF Idle, EmptyBook
  <2>2. QED
    BY <1>1, <2>1, QuietSomebodyWaits DEF Quiet, IInv, TypeOK
<1>5. FitOrders' /\ calls' \subseteq Attempt
  BY <1>1 DEF IInv, TypeOK, FitOrders
<1>6. QED
  BY <1>1, <1>3, <1>4, <1>5 DEF IInv, TypeOK, OwnOrders, LegalStates

LEMMA NextIInv == IInv /\ [Next]_vars => IInv'
<1> SUFFICES ASSUME IInv, [Next]_vars PROVE IInv'
  OBVIOUS
<1>1. CASE Next
  BY <1>1, CreateOrderIInv, AcquireMutexIInv, RoundIInv, BroadcastIInv, CancelOrderIInv,
     StartSyncIInv, RetryIInv, AttemptFailsIInv, ReceiveAnswerIInv, HandleSubmitIInv,
     AnswerSubmitIInv, HandleCancelIInv, HandleGetOrderbookIInv, RestartIInv, Zenon
  DEF Next
<1>2. CASE UNCHANGED vars
  BY <1>2 DEF vars, IInv, TypeOK, EveryBookLegal, OwnOrders, SomebodyWaits, FitOrders,
             LegalStates
<1>3. QED
  BY <1>1, <1>2

THEOREM InvariantHolds == Spec => []IInv
BY InitIInv, NextIInv, PTL DEF Spec

\* The variables keep the types of the code's state.
THEOREM ExchangeTypes == Spec => []TypeOK
<1>1. IInv => TypeOK
  BY DEF IInv
<1>2. QED
  BY <1>1, InvariantHolds, PTL

\* Whatever is lost, late, repeated, cancelled, replaced or restarted, no node
\* ever holds a crossed book, two orders with one id, an order nobody can trade
\* with, or a match outside the limits of its parties.
THEOREM BooksStayLegal == Spec => []EveryBookLegal
<1>1. IInv => EveryBookLegal
  BY DEF IInv
<1>2. QED
  BY <1>1, InvariantHolds, PTL

-----------------------------------------------------------------------------
(* Every order anywhere in the exchange goes back to one its client        *)
(* created and submitted.                                                  *)

\* An order is created once and waits once.
WaitOnce ==
  \A c \in Clients : \A i \in DOMAIN waiting[c] :
    /\ waiting[c][i] \notin uncreated[c]
    /\ \A j \in DOMAIN waiting[c] : waiting[c][i] = waiting[c][j] => i = j

KnownBook(book) ==
  /\ \A t \in OrderType : \A o \in book.sides[t] : Known(o)
  /\ ~Idle(book) => Known(book.call.order)

KnownBooks == \A n \in Nodes : KnownBook(books[n])

KnownSent == \A r \in requests \cup calls : IsSubmit(r) => Known(r.payload.order)

KnownStates ==
  \A a \in answers :
    a.status = "state" => \A t \in OrderType : \A o \in a.state.sides[t] : Known(o)

AllKnown == WaitOnce /\ KnownBooks /\ KnownSent /\ KnownStates

\* The terms of an order are its fields but the amount and the status.
LEMMA RestByFields ==
  ASSUME NEW o \in Order, NEW p \in Order
  PROVE  Rest(o, p) <=>
           /\ o.amount <= p.amount /\ p.status = "open"
           /\ o.id = p.id /\ o.type = p.type /\ o.price = p.price
           /\ o.originalAmount = p.originalAmount /\ o.timestamp = p.timestamp
BY DEF Rest, Order

\* A fill leaves less of the same order.
LEMMA KnownAfterFill ==
  ASSUME NEW o \in Order, NEW n \in Nat, ValidFilledAmount(o, n),
         o.amount <= o.originalAmount, Known(o)
  PROVE  Known(UpdateAfterMatch(o, n))
<1> DEFINE u == UpdateAfterMatch(o, n)
<1>1. PICK c \in Clients : \E q \in Submitted(c) : Rest(o, q)
  BY DEF Known
<1>2. PICK p \in Submitted(c) : Rest(o, p)
  BY <1>1
<1>3. p \in Order
  BY CreatedAssumption DEF Submitted
<1>4. /\ u \in Order /\ u.id = o.id /\ u.type = o.type /\ u.price = o.price
      /\ u.originalAmount = o.originalAmount /\ u.timestamp = o.timestamp
      /\ u.amount = o.amount - n
  BY UpdateAfterMatchType
<1> HIDE DEF u
<1>5. u.amount <= o.amount
  BY <1>4 DEF Order, ValidFilledAmount
<1>6. Rest(u, p)
  BY <1>2, <1>3, <1>4, <1>5, RestByFields DEF Order
<1>7. QED
  BY <1>6 DEF Known, u

\* Who knows an order goes on knowing it.
LEMMA KnownStays ==
  ASSUME \A c \in Clients : Submitted(c) \subseteq Submitted(c)'
  PROVE  \A o : Known(o) => Known(o)'
BY DEF Known, Rest

LEMMA KnownUnchanged ==
  ASSUME UNCHANGED <<uncreated, waiting>>
  PROVE  \A o : Known(o) => Known(o)'
BY DEF Known, Rest, Submitted

\* What keeps a set of books known: every book keeps its orders, or is replaced
\* by one whose orders are known.
LEMMA KnownBooksStay ==
  ASSUME TypeOK, KnownBooks, \A o : Known(o) => Known(o)', NEW n \in Nodes, NEW b,
         books' = [books EXCEPT ![n] = b],
         \A t \in OrderType : \A o \in b.sides[t] : Known(o)',
         ~Idle(b) => \A o : o = b.call.order => Known(o)'
  PROVE  KnownBooks'
<1> SUFFICES ASSUME NEW m \in Nodes
             PROVE  /\ \A t \in OrderType : \A o \in books'[m].sides[t] : Known(o)'
                    /\ ~Idle(books'[m]) => Known(books[m].call.order)'
  BY DEF KnownBooks, KnownBook
<1>1. CASE m = n
  <2>1. books'[m] = b
    BY <1>1 DEF TypeOK
  <2>2. QED
    BY <2>1
<1>2. CASE m # n
  <2>1. books'[m] = books[m]
    BY <1>2 DEF TypeOK
  <2>2. QED
    BY <2>1 DEF KnownBooks, KnownBook
<1>3. QED
  BY <1>1, <1>2

\* What travels after a step is what travelled before it, or is known by then.
LEMMA KnownTravelStays ==
  ASSUME KnownSent, KnownStates, \A o : Known(o) => Known(o)',
         \A r \in requests' \cup calls' : IsSubmit(r) =>
           \/ \E q \in requests \cup calls : q.payload = r.payload
           \/ Known(r.payload.order),
         \A a \in answers' :
           \/ a \in answers
           \/ a.status = "state" => \A t \in OrderType : \A o \in a.state.sides[t] : Known(o)
  PROVE  KnownSent' /\ KnownStates'
<1>1. \A r \in requests' \cup calls' : IsSubmit(r) => Known(r.payload.order)
  BY DEF KnownSent, IsSubmit
<1>2. \A r \in requests' \cup calls' : IsSubmit(r) => Known(r.payload.order)'
  BY <1>1
<1>3. \A a \in answers' : a.status = "state" =>
        \A t \in OrderType : \A o \in a.state.sides[t] : Known(o)
  BY DEF KnownStates
<1>4. \A a \in answers' : a.status = "state" =>
        \A t \in OrderType : \A o \in a.state.sides[t] : Known(o)'
  BY <1>3
<1>5. QED
  BY <1>2, <1>4 DEF KnownSent, KnownStates, IsSubmit

\* A step in which no order is created and none leaves the queue.
LEMMA KnownStep ==
  ASSUME TypeOK, AllKnown, UNCHANGED <<uncreated, waiting>>,
         \/ books' = books
         \/ \E n \in Nodes : \E b : books' = [books EXCEPT ![n] = b] /\ KnownBook(b),
         \A r \in requests' \cup calls' : IsSubmit(r) =>
           \/ \E q \in requests \cup calls : q.payload = r.payload
           \/ Known(r.payload.order),
         \A a \in answers' :
           \/ a \in answers
           \/ a.status = "state" => \A t \in OrderType : \A o \in a.state.sides[t] : Known(o)
  PROVE  AllKnown'
<1>1. \A o : Known(o) => Known(o)'
  BY KnownUnchanged
<1>2. KnownSent' /\ KnownStates'
  BY <1>1, KnownTravelStays DEF AllKnown
<1>3. WaitOnce'
  BY DEF AllKnown, WaitOnce
<1>4. CASE books' = books
  BY <1>1, <1>2, <1>3, <1>4 DEF AllKnown, KnownBooks, KnownBook
<1>5. ASSUME NEW n \in Nodes, NEW b, books' = [books EXCEPT ![n] = b], KnownBook(b)
      PROVE  KnownBooks'
  <2>1. \A t \in OrderType : \A o \in b.sides[t] : Known(o)'
    BY <1>1, <1>5 DEF KnownBook
  <2>2. ~Idle(b) => \A o : o = b.call.order => Known(o)'
    BY <1>1, <1>5 DEF KnownBook
  <2>3. QED
    BY <1>1, <1>5, <2>1, <2>2, KnownBooksStay DEF AllKnown
<1>6. QED
  BY <1>2, <1>3, <1>4, <1>5 DEF AllKnown

LEMMA InitKnown == Init => AllKnown
<1> SUFFICES ASSUME Init PROVE AllKnown
  OBVIOUS
<1>1. WaitOnce
  BY DEF Init, WaitOnce
<1>2. KnownBooks
  BY DEF Init, KnownBooks, KnownBook, EmptyBook, EmptySides, Idle
<1>3. KnownSent /\ KnownStates
  BY DEF Init, KnownSent, KnownStates
<1>4. QED
  BY <1>1, <1>2, <1>3 DEF AllKnown

LEMMA CreateOrderKnown ==
  ASSUME IInv, AllKnown, NEW c \in Clients, CreateOrder(c)
  PROVE  AllKnown'
<1>1. PICK o \in uncreated[c] :
        /\ uncreated' = [uncreated EXCEPT ![c] = @ \ {o}]
        /\ waiting' = [waiting EXCEPT ![c] = Append(@, o)]
  BY DEF CreateOrder
<1>2. UNCHANGED <<books, requests, calls, answers>>
  BY DEF CreateOrder
<1>3. /\ uncreated \in [Clients -> SUBSET Order]
      /\ \A d \in Clients : waiting[d] \in Seq(Order)
      /\ waiting \in [Clients -> Seq(Order)]
  BY DEF IInv, TypeOK
<1>4. \A d \in Clients :
        /\ uncreated'[d] = IF d = c THEN uncreated[c] \ {o} ELSE uncreated[d]
        /\ waiting'[d] = IF d = c THEN Append(waiting[c], o) ELSE waiting[d]
  BY <1>1, <1>3
<1>5. ASSUME NEW d \in Clients
      PROVE  /\ Submitted(d) \subseteq Submitted(d)'
             /\ \A i \in DOMAIN waiting'[d] :
                  /\ waiting'[d][i] \notin uncreated'[d]
                  /\ \A j \in DOMAIN waiting'[d] : waiting'[d][i] = waiting'[d][j] => i = j
  <2>1. CASE d # c
    BY <1>4, <2>1 DEF Submitted, AllKnown, WaitOnce
  <2>2. CASE d = c
    <3> DEFINE q == waiting[c]
               p == Append(q, o)
    <3>1. waiting'[d] = p /\ uncreated'[d] = uncreated[d] \ {o}
      BY <1>4, <2>2
    <3>2. /\ q \in Seq(Order) /\ DOMAIN q = 1..Len(q) /\ Len(q) \in Nat
          /\ DOMAIN p = 1..(Len(q) + 1)
          /\ p[Len(q) + 1] = o /\ \A i \in 1..Len(q) : p[i] = q[i]
      BY <1>3
    <3>3. \A i \in 1..Len(q) : /\ q[i] \notin uncreated[c]
                               /\ \A j \in 1..Len(q) : q[i] = q[j] => i = j
      BY <3>2 DEF AllKnown, WaitOnce
    <3>4. o \in uncreated[c]
      OBVIOUS
    <3> HIDE DEF q, p
    <3>5. \A i \in 1..(Len(q) + 1) : i \in 1..Len(q) \/ i = Len(q) + 1
      BY <3>2
    <3>6. \A i \in 1..Len(q) : q[i] # o
      BY <3>3, <3>4
    <3>7. \A i \in DOMAIN p : /\ p[i] \notin uncreated[c] \ {o}
                              /\ \A j \in DOMAIN p : p[i] = p[j] => i = j
      BY <3>2, <3>3, <3>5, <3>6
    <3>8. ToSet(p) \subseteq ToSet(q) \cup {o}
      BY <3>2, <3>5 DEF ToSet
    <3>9. Submitted(d) = Created[d] \ (uncreated[d] \cup ToSet(q))
      BY <2>2 DEF Submitted, q
    <3>10. Submitted(d)' = Created[d] \ ((uncreated[d] \ {o}) \cup ToSet(p))
      BY <3>1 DEF Submitted
    <3>11. QED
      BY <2>2, <3>1, <3>4, <3>7, <3>8, <3>9, <3>10
  <2>3. QED
    BY <2>1, <2>2
<1>6. WaitOnce'
  BY <1>5 DEF WaitOnce
<1>7. \A p : Known(p) => Known(p)'
  BY <1>5, KnownStays
<1>8. KnownBooks'
  BY <1>2, <1>7 DEF AllKnown, KnownBooks, KnownBook
<1>9. KnownSent' /\ KnownStates'
  BY <1>2, <1>7, KnownTravelStays DEF AllKnown
<1>10. QED
  BY <1>6, <1>8, <1>9 DEF AllKnown

LEMMA AcquireMutexKnown ==
  ASSUME IInv, AllKnown, NEW c \in Clients, AcquireMutex(c)
  PROVE  AllKnown'
<1> DEFINE q == waiting[c]
           o == Head(q)
           b == BeginCall(books[c], o)
<1>1. /\ q # <<>>
      /\ books' = [books EXCEPT ![c] = b]
      /\ waiting' = [waiting EXCEPT ![c] = Tail(q)]
      /\ UNCHANGED <<uncreated, requests, calls, answers>>
  BY DEF AcquireMutex
<1>2. waiting \in [Clients -> Seq(Order)] /\ q \in Seq(Order) /\ q \in Seq(Created[c])
  BY DEF IInv, TypeOK, OwnOrders
<1>3. /\ Len(q) \in Nat \ {0} /\ DOMAIN q = 1..Len(q) /\ o = q[1] /\ o \in Created[c]
      /\ DOMAIN Tail(q) = 1..(Len(q) - 1)
      /\ \A i \in 1..(Len(q) - 1) : Tail(q)[i] = q[i + 1]
  BY <1>1, <1>2
<1>4. \A i \in 1..Len(q) : /\ q[i] \notin uncreated[c]
                           /\ \A j \in 1..Len(q) : q[i] = q[j] => i = j
  BY <1>3 DEF AllKnown, WaitOnce
<1>5. \A d \in Clients : waiting'[d] = IF d = c THEN Tail(q) ELSE waiting[d]
  BY <1>1, <1>2
<1> HIDE DEF q, o, b
<1>6. ToSet(Tail(q)) \subseteq ToSet(q) /\ o \notin ToSet(Tail(q)) /\ o \notin uncreated[c]
  BY <1>3, <1>4 DEF ToSet
<1>7. WaitOnce'
  <2>1. \A i \in DOMAIN Tail(q) :
          /\ Tail(q)[i] \notin uncreated[c]
          /\ \A j \in DOMAIN Tail(q) : Tail(q)[i] = Tail(q)[j] => i = j
    BY <1>3, <1>4
  <2>2. QED
    BY <1>1, <1>5, <2>1 DEF AllKnown, WaitOnce
<1>8. \A d \in Clients : Submitted(d) \subseteq Submitted(d)'
  BY <1>1, <1>5, <1>6 DEF Submitted, q
<1>9. \A p : Known(p) => Known(p)'
  BY <1>8, KnownStays
<1>10. \A p : p = o => Known(p)'
  <2>1. o \in Created[c] \ (uncreated'[c] \cup ToSet(waiting'[c]))
    BY <1>1, <1>3, <1>5, <1>6
  <2>2. o \in Order /\ o.status = "open"
    BY <1>3, CreatedAssumption
  <2>3. Rest(o, o)
    BY <2>2, RestByFields DEF Order
  <2>4. \A p : p = o => p \in Submitted(c)' /\ Rest(p, p)
    BY <2>1, <2>3 DEF Submitted
  <2>5. QED
    BY <2>4 DEF Known, Rest
<1>11. KnownBooks'
  <2>1. c \in Nodes /\ KnownBook(books[c])
    BY DEF AllKnown, KnownBooks, Nodes
  <2>2. b.sides = books[c].sides /\ b.call.order = o
    BY DEF b, BeginCall
  <2>3. \A t \in OrderType : \A p \in b.sides[t] : Known(p)'
    BY <1>9, <2>1, <2>2 DEF KnownBook
  <2>4. ~Idle(b) => \A p : p = b.call.order => Known(p)'
    BY <1>10, <2>2
  <2>5. QED
    BY <1>1, <1>9, <2>1, <2>3, <2>4, KnownBooksStay DEF AllKnown, IInv
<1>12. KnownSent' /\ KnownStates'
  BY <1>1, <1>9, KnownTravelStays DEF AllKnown
<1>13. QED
  BY <1>7, <1>11, <1>12 DEF AllKnown

LEMMA RoundKnown ==
  ASSUME IInv, AllKnown, NEW n \in Nodes, Round(n)
  PROVE  AllKnown'
<1> DEFINE b == books[n]
           o == b.call.order
<1>1. PICK c \in b.call.candidates :
        Looping(b.call, c) /\ books' = [books EXCEPT ![n] = Iterate(@, c)]
  BY DEF Round
<1>2. ~Idle(b) /\ UNCHANGED <<uncreated, waiting, requests, calls, answers>>
  BY DEF Round
<1>3. LegalBook(b) /\ b \in Book /\ KnownBook(b) /\ o \in Order
  BY <1>2, BookParts DEF IInv, EveryBookLegal, LegalBook, AllKnown, KnownBooks
<1> DEFINE m == MakeMatch(o, c)
<1>4. /\ Iterate(b, c) = Fill(b, c, m)
      /\ m.matchedAmount \in Nat /\ ValidFilledAmount(o, m.matchedAmount)
      /\ o.amount <= o.originalAmount
  BY <1>1, <1>2, <1>3, RoundIsAFill
<1> HIDE DEF m
<1>5. Known(UpdateAfterMatch(o, m.matchedAmount))
  BY <1>2, <1>3, <1>4, KnownAfterFill DEF KnownBook
<1> DEFINE f == Fill(b, c, m)
<1>6. f.call.order = UpdateAfterMatch(o, m.matchedAmount)
  BY DEF Fill
<1>7. \A t \in OrderType : f.sides[t] \subseteq b.sides[t]
  <2>1. b.sides \in Sides
    BY <1>3, BookParts
  <2>2. f.sides = [b.sides EXCEPT ![Opposite(o.type)] = SideAfterFill(@, c, m.matchedAmount)]
    BY DEF Fill
  <2>3. \A S : SideAfterFill(S, c, m.matchedAmount) \subseteq S
    BY DEF SideAfterFill, RemoveOrder
  <2> HIDE DEF f
  <2>4. QED
    BY <2>1, <2>2, <2>3 DEF Sides
<1> HIDE DEF f
<1>8. KnownBook(f)
  BY <1>3, <1>5, <1>6, <1>7 DEF KnownBook
<1>9. books' = [books EXCEPT ![n] = f]
  BY <1>1, <1>4 DEF f
<1>10. QED
  BY <1>2, <1>8, <1>9, KnownStep DEF IInv

\* addOrder returns: what is left of its order joins the book.
LEMMA KnownAtEnd ==
  ASSUME NEW b, LegalBook(b), ~Idle(b), KnownBook(b)
  PROVE  KnownBook(EndCall(b))
<1> DEFINE o == b.call.order
<1>1. b.sides \in Sides /\ o \in Order
  BY BookParts DEF LegalBook
<1>2. EndCall(b).sides = b.sides \/ EndCall(b).sides = [b.sides EXCEPT ![o.type] = @ \cup {o}]
  BY DEF EndCall, SidesAfterRest
<1>3. Idle(EndCall(b))
  BY DEF EndCall, Idle
<1>4. \A t \in OrderType : EndCall(b).sides[t] \subseteq b.sides[t] \cup {o}
  BY <1>1, <1>2 DEF Sides
<1>5. QED
  BY <1>3, <1>4 DEF KnownBook

\* Cancelling and parsing leave fewer orders.
LEMMA KnownFewer ==
  ASSUME NEW b, KnownBook(b), NEW d, Idle(d),
         \A t \in OrderType : d.sides[t] \subseteq b.sides[t]
  PROVE  KnownBook(d)
BY DEF KnownBook

LEMMA KnownAfterCancel ==
  ASSUME NEW b, LegalBook(b), Idle(b), KnownBook(b), NEW id
  PROVE  KnownBook(WithoutOrder(b, id))
<1>1. b.sides \in Sides
  BY BookParts DEF LegalBook
<1>2. \A t \in OrderType : SidesAfterCancel(b.sides, id)[t] \subseteq b.sides[t]
  BY <1>1 DEF SidesAfterCancel, RemoveOrder, Sides
<1>3. Idle(WithoutOrder(b, id)) /\ WithoutOrder(b, id).sides = SidesAfterCancel(b.sides, id)
  BY DEF WithoutOrder, Idle
<1>4. QED
  BY <1>2, <1>3, KnownFewer

\* The end of an attempt leaves every request its payload.
LEMMA SamePayloads ==
  ASSUME TypeOK, NEW r \in requests, RetryOrGiveUp(r) \/ Over(r),
         \A k \in calls' : \E j \in calls : j.payload = k.payload
  PROVE  \A q \in requests' \cup calls' : \E p \in requests \cup calls : p.payload = q.payload
<1> DEFINE q == [r EXCEPT !.awaiting = FALSE, !.retryCount = @ + 1]
<1>1. q.payload = r.payload
  BY DEF TypeOK, Request
<1> HIDE DEF q
<1>2. requests' = (requests \ {r}) \cup {q} \/ requests' = requests \ {r}
  BY DEF RetryOrGiveUp, Over, q
<1>3. QED
  BY <1>1, <1>2, Zenon

LEMMA ReceiveAnswerKnown ==
  ASSUME IInv, AllKnown, NEW r \in requests, ReceiveAnswer(r)
  PROVE  AllKnown'
<1>1. PICK a \in answers :
        /\ answers' = answers \ {a}
        /\ RetryOrGiveUp(r) \/ Over(r)
        /\ books' = IF a.status = "state"
                      THEN [books EXCEPT ![r.client] = InstallState(@, a.state)]
                      ELSE books
  BY DEF ReceiveAnswer
<1>2. UNCHANGED <<uncreated, waiting, calls>>
  BY DEF ReceiveAnswer
<1>3. \A q \in requests' \cup calls' : \E p \in requests \cup calls : p.payload = q.payload
  BY <1>1, <1>2, SamePayloads DEF IInv
<1>4. r.client \in Nodes
  BY DEF IInv, TypeOK, Request, Nodes
<1>5. \/ books' = books
      \/ \E b : books' = [books EXCEPT ![r.client] = b] /\ KnownBook(b)
  <2>1. CASE a.status = "state"
    <3> DEFINE b == InstallState(books[r.client], a.state)
    <3>1. a.state.sides \in Sides /\ \A t \in OrderType : \A o \in a.state.sides[t] : Known(o)
      BY <2>1 DEF IInv, LegalStates, AllKnown, KnownStates
    <3>2. \A t \in OrderType : b.sides[t] \subseteq a.state.sides[t]
      <4> SUFFICES ASSUME NEW t \in OrderType
                   PROVE  SafelyMapOrders(a.state.sides[t]) \subseteq a.state.sides[t]
        BY DEF InstallState, BookOf
      <4>1. a.state.sides[t] \subseteq Order
        BY <3>1 DEF Sides
      <4>2. QED
        BY <4>1, ParsedOrders
    <3>3. Idle(b)
      BY DEF InstallState, BookOf, Idle
    <3>4. KnownBook(b)
      BY <3>1, <3>2, <3>3 DEF KnownBook
    <3>5. QED
      BY <1>1, <2>1, <3>4
  <2>2. CASE a.status # "state"
    BY <1>1, <2>2
  <2>3. QED
    BY <2>1, <2>2
<1>6. \A x \in answers' : x \in answers
  BY <1>1
<1>7. QED
  BY <1>2, <1>3, <1>4, <1>5, <1>6, KnownStep DEF IInv

LEMMA NextKnown == IInv /\ AllKnown /\ [Next]_vars => AllKnown'
<1> SUFFICES ASSUME IInv, AllKnown, [Next]_vars PROVE AllKnown'
  OBVIOUS
<1>0. TypeOK
  BY DEF IInv
<1>1. ASSUME NEW c \in Clients, NEW s \in Servers, Broadcast(c, s) PROVE AllKnown'
  <2> DEFINE o == books[c].call.order
             r == [client |-> c, payload |-> SubmitOrder(o), retryCount |-> 0,
                   awaiting |-> TRUE]
             k == AttemptOf(r, s)
  <2>1. /\ ~Idle(books[c]) /\ books' = [books EXCEPT ![c] = EndCall(@)]
        /\ requests' = requests \cup {r} /\ calls' = calls \cup {k}
        /\ UNCHANGED <<uncreated, waiting, answers>>
    BY <1>1 DEF Broadcast, NewRequest
  <2>2. r.payload.order = o /\ k.payload.order = o
    BY DEF SubmitOrder, AttemptOf
  <2>3. c \in Nodes /\ LegalBook(books[c]) /\ KnownBook(books[c]) /\ Known(o)
    BY <2>1 DEF IInv, EveryBookLegal, AllKnown, KnownBooks, KnownBook, Nodes
  <2>4. KnownBook(EndCall(books[c]))
    BY <2>1, <2>3, KnownAtEnd
  <2> HIDE DEF o, r, k
  <2>5. \A q \in requests' \cup calls' : IsSubmit(q) =>
          \/ \E p \in requests \cup calls : p.payload = q.payload
          \/ Known(q.payload.order)
    BY <2>1, <2>2, <2>3, Zenon
  <2>6. QED
    BY <1>0, <2>1, <2>3, <2>4, <2>5, KnownStep
<1>2. ASSUME NEW c \in Clients, NEW id \in Cancellable, NEW s \in Servers,
             CancelOrder(c, id, s)
      PROVE  AllKnown'
  <2> DEFINE r == [client |-> c, payload |-> CancelOrderOf(id), retryCount |-> 0,
                   awaiting |-> TRUE]
             k == AttemptOf(r, s)
  <2>1. /\ Quiet /\ books' = [books EXCEPT ![c] = WithoutOrder(@, id)]
        /\ requests' = requests \cup {r} /\ calls' = calls \cup {k}
        /\ UNCHANGED <<uncreated, waiting, answers>>
    BY <1>2 DEF CancelOrder, NewRequest
  <2>2. ~IsSubmit(r) /\ ~IsSubmit(k)
    BY DEF IsSubmit, CancelOrderOf, AttemptOf
  <2>3. c \in Nodes /\ KnownBook(WithoutOrder(books[c], id))
    BY <2>1, KnownAfterCancel DEF IInv, EveryBookLegal, AllKnown, KnownBooks, Nodes, Quiet
  <2> HIDE DEF r, k
  <2>4. \A q \in requests' \cup calls' : IsSubmit(q) =>
          \E p \in requests \cup calls : p.payload = q.payload
    BY <2>1, <2>2, Zenon
  <2>5. QED
    BY <1>0, <2>1, <2>3, <2>4, KnownStep
<1>3. ASSUME NEW c \in Clients, NEW slot \in SyncSlots, NEW s \in Servers,
             StartSync(c, slot, s)
      PROVE  AllKnown'
  <2> DEFINE r == [client |-> c, payload |-> GetOrderbook(slot), retryCount |-> 0,
                   awaiting |-> TRUE]
             k == AttemptOf(r, s)
  <2>1. /\ requests' = requests \cup {r} /\ calls' = calls \cup {k}
        /\ UNCHANGED <<books, uncreated, waiting, answers>>
    BY <1>3 DEF StartSync, NewRequest
  <2>2. ~IsSubmit(r) /\ ~IsSubmit(k)
    BY DEF IsSubmit, GetOrderbook, AttemptOf
  <2> HIDE DEF r, k
  <2>3. \A q \in requests' \cup calls' : IsSubmit(q) =>
          \E p \in requests \cup calls : p.payload = q.payload
    BY <2>1, <2>2, Zenon
  <2>4. QED
    BY <1>0, <2>1, <2>3, KnownStep
<1>4. ASSUME NEW r \in requests, NEW s \in Servers, Retry(r, s) PROVE AllKnown'
  <2> DEFINE q == [r EXCEPT !.awaiting = TRUE]
             k == AttemptOf(r, s)
  <2>1. /\ requests' = (requests \ {r}) \cup {q} /\ calls' = calls \cup {k}
        /\ UNCHANGED <<books, uncreated, waiting, answers>>
    BY <1>4 DEF Retry
  <2>2. q.payload = r.payload /\ k.payload = r.payload
    BY <1>0 DEF TypeOK, Request, AttemptOf
  <2> HIDE DEF q, k
  <2>3. \A x \in requests' \cup calls' : \E p \in requests \cup calls : p.payload = x.payload
    BY <2>1, <2>2, Zenon
  <2>4. QED
    BY <1>0, <2>1, <2>3, KnownStep
<1>5. ASSUME NEW r \in requests, AttemptFails(r) PROVE AllKnown'
  <2> DEFINE sent == {k \in calls : k.awaited /\ SameRequest(k, r)}
  <2>1. /\ \/ calls' = calls \ sent
           \/ calls' = (calls \ sent) \cup {[k EXCEPT !.awaited = FALSE] : k \in sent}
        /\ answers' \subseteq answers /\ RetryOrGiveUp(r)
        /\ UNCHANGED <<books, uncreated, waiting>>
    BY <1>5, Zenon DEF AttemptFails
  <2>2. \A k \in calls' : \E j \in calls : k = j \/ k = [j EXCEPT !.awaited = FALSE]
    BY <2>1, Zenon
  <2>3. \A k \in calls' : \E j \in calls : j.payload = k.payload
    BY <1>0, <2>2, Unawaited, Zenon DEF TypeOK
  <2>4. \A x \in requests' \cup calls' : \E p \in requests \cup calls : p.payload = x.payload
    BY <1>0, <2>1, <2>3, SamePayloads
  <2>5. QED
    BY <1>0, <2>1, <2>4, KnownStep
<1>6. ASSUME NEW k \in calls, HandleSubmit(k) PROVE AllKnown'
  <2> DEFINE o == FromObject(k.payload.order)
  <2>1. /\ IsSubmit(k) /\ calls' = calls \ {k} /\ UNCHANGED <<uncreated, waiting, requests>>
        /\ books' = books \/ books' = [books EXCEPT ![k.server] = BeginCall(@, o)]
        /\ \/ UNCHANGED answers
           \/ \E st \in {"success", "error"} : Reply(k, Status(k, st))
    BY <1>6 DEF HandleSubmit
  <2>2. k.server \in Nodes
    BY <1>0 DEF TypeOK, Attempt, Nodes
  <2>3. o = k.payload.order /\ Known(o)
    BY <2>1, CloneIsEqual
    DEF IInv, FitOrders, Fit, FromObject, Clone, AllKnown, KnownSent
  <2> HIDE DEF o
  <2>4. KnownBook(BeginCall(books[k.server], o))
    BY <2>2, <2>3 DEF BeginCall, AllKnown, KnownBooks, KnownBook
  <2>5. \A a \in answers' : a \in answers \/ a.status # "state"
    BY <2>1 DEF Reply, Status
  <2>6. QED
    BY <1>0, <2>1, <2>2, <2>4, <2>5, KnownStep
<1>7. ASSUME NEW k \in calls, HandleCancel(k) PROVE AllKnown'
  <2>1. /\ Quiet /\ calls' = calls \ {k} /\ UNCHANGED <<uncreated, waiting, requests>>
        /\ books' = [books EXCEPT ![k.server] = WithoutOrder(@, k.payload.orderId)]
        /\ Reply(k, Status(k, "success"))
    BY <1>7 DEF HandleCancel
  <2>2. k.server \in Nodes
    BY <1>0 DEF TypeOK, Attempt, Nodes
  <2>3. KnownBook(WithoutOrder(books[k.server], k.payload.orderId))
    BY <2>1, <2>2, KnownAfterCancel DEF IInv, EveryBookLegal, AllKnown, KnownBooks, Quiet
  <2>4. \A a \in answers' : a \in answers \/ a.status # "state"
    BY <2>1 DEF Reply, Status
  <2>5. QED
    BY <1>0, <2>1, <2>2, <2>3, <2>4, KnownStep
<1>8. ASSUME NEW k \in calls, HandleGetOrderbook(k) PROVE AllKnown'
  <2> DEFINE b == books[k.server]
             a == [client |-> k.client, payload |-> k.payload, status |-> "state",
                   state |-> [sides |-> b.sides, matches |-> b.matches]]
  <2>1. /\ calls' = calls \ {k} /\ Reply(k, a)
        /\ UNCHANGED <<books, uncreated, waiting, requests>>
    BY <1>8 DEF HandleGetOrderbook
  <2>2. k.server \in Nodes
    BY <1>0 DEF TypeOK, Attempt, Nodes
  <2>3. \A t \in OrderType : \A o \in b.sides[t] : Known(o)
    BY <2>2 DEF AllKnown, KnownBooks, KnownBook
  <2>4. a.state.sides = b.sides
    OBVIOUS
  <2> HIDE DEF a, b
  <2>5. \A x \in answers' : x \in answers \/ x = a
    BY <2>1 DEF Reply
  <2>6. \A x \in answers' : \/ x \in answers
                            \/ \A t \in OrderType : \A o \in x.state.sides[t] : Known(o)
    BY <2>3, <2>4, <2>5
  <2>7. QED
    BY <1>0, <2>1, <2>6, KnownStep
<1>9. ASSUME NEW s \in Servers, AnswerSubmit(s) PROVE AllKnown'
  <2>1. /\ ~Idle(books[s]) /\ books' = [books EXCEPT ![s] = EndCall(@)]
        /\ Reply(serving[s], Status(serving[s], "success"))
        /\ UNCHANGED <<uncreated, waiting, requests, calls>>
    BY <1>9 DEF AnswerSubmit
  <2>2. s \in Nodes /\ KnownBook(EndCall(books[s]))
    BY <2>1, KnownAtEnd DEF IInv, EveryBookLegal, AllKnown, KnownBooks, Nodes
  <2>3. \A a \in answers' : a \in answers \/ a.status # "state"
    BY <2>1 DEF Reply, Status
  <2>4. QED
    BY <1>0, <2>1, <2>2, <2>3, KnownStep
<1>10. ASSUME NEW s \in Restarting, Restart(s) PROVE AllKnown'
  <2>1. /\ books' = [books EXCEPT ![s] = EmptyBook] /\ calls' \subseteq calls
        /\ UNCHANGED <<uncreated, waiting, requests, answers>>
    BY <1>10 DEF Restart
  <2>2. s \in Nodes /\ KnownBook(EmptyBook)
    BY NodesAssumption DEF Nodes, KnownBook, EmptyBook, EmptySides, Idle
  <2>3. QED
    BY <1>0, <2>1, <2>2, KnownStep
<1>11. CASE UNCHANGED vars
  BY <1>0, <1>11, KnownStep DEF vars
<1>12. QED
  BY <1>1, <1>2, <1>3, <1>4, <1>5, <1>6, <1>7, <1>8, <1>9, <1>10, <1>11,
     CreateOrderKnown, AcquireMutexKnown, RoundKnown, ReceiveAnswerKnown, Zenon DEF Next

\* However often it is sent, matched, copied with a book, lost and sent again, an
\* order that rests or travels anywhere is what is left of one its client created
\* and submitted: it keeps its terms and never grows.
THEOREM OrdersKeepTheirTerms == Spec => []TermsKept
<1>1. AllKnown => TermsKept
  BY DEF AllKnown, KnownBooks, KnownBook, KnownSent, TermsKept
<1>2. QED
  BY <1>1, InitKnown, NextKnown, InvariantHolds, PTL DEF Spec

-----------------------------------------------------------------------------
(***************************************************************************)
(* The order mutex and the requests.                                       *)
(*                                                                         *)
(* Both properties count; the invariants that are inductive say the same   *)
(* without a cardinality.  HolderAlone is about the mutex, AnswersInv      *)
(* about what is on its way for a request: each step loses such a token,   *)
(* makes it, answers it or ends its attempt, and there is a lemma for each *)
(* of the four.                                                            *)
(***************************************************************************)

(* The mutex first.  Cardinalities are awkward to reason about; what is    *)
(* inductive is that a client whose mutex is held has, once its addOrder   *)
(* has returned, one submission under way and no second.                   *)

Mine(c) == {r \in requests : r.client = c /\ IsSubmit(r)}

HolderAlone ==
  \A c \in Clients :
    /\ submission[c] = NoSubmission => Mine(c) = {} /\ Idle(books[c])
    /\ submission[c] # NoSubmission /\ Idle(books[c]) => \E r : Mine(c) = {r}
    /\ ~Idle(books[c]) => Mine(c) = {}

\* A mutex that is held is told from one that is free.
LEMMA HeldMutex ==
  ASSUME NEW x \in Submission
  PROVE  x # NoSubmission
<1>1. "matches" \in DOMAIN x /\ "matches" \notin DOMAIN NoSubmission
  BY DEF Submission, NoSubmission
<1>2. QED
  BY <1>1

\* Steps that neither take nor release a mutex, and leave the submissions alone.
LEMMA MutexUntouched ==
  ASSUME HolderAlone, submission' = submission,
         \A c \in Clients : Idle(books'[c]) <=> Idle(books[c]),
         \A r : IsSubmit(r) => (r \in requests' <=> r \in requests)
  PROVE  HolderAlone'
<1>1. \A c \in Clients : Mine(c)' = Mine(c)
  BY Zenon DEF Mine, IsSubmit
<1>2. QED
  BY <1>1 DEF HolderAlone

\* Of a request nothing but its progress changes.
LEMMA MutexGoesOn ==
  ASSUME HolderAlone, NEW r \in requests, NEW q,
         q.client = r.client, q.payload = r.payload,
         requests' = (requests \ {r}) \cup {q}, submission' = submission,
         \A c \in Clients : Idle(books'[c]) <=> Idle(books[c])
  PROVE  HolderAlone'
<1>1. ASSUME NEW c \in Clients, c = r.client /\ IsSubmit(r)
      PROVE  r \in Mine(c) /\ Mine(c)' = (Mine(c) \ {r}) \cup {q}
  BY <1>1 DEF Mine, IsSubmit
<1>2. ASSUME NEW c \in Clients, ~(c = r.client /\ IsSubmit(r))
      PROVE  Mine(c)' = Mine(c)
  BY <1>2 DEF Mine, IsSubmit
<1>3. ASSUME NEW c \in Clients, NEW x, Mine(c) = {x}
      PROVE  \E y : Mine(c)' = {y}
  BY <1>1, <1>2, <1>3
<1>4. ASSUME NEW c \in Clients, Mine(c) = {}
      PROVE  Mine(c)' = {}
  BY <1>1, <1>2, <1>4
<1>5. QED
  BY <1>3, <1>4 DEF HolderAlone

\* A request that is over takes its submission with it.
LEMMA MutexReleased ==
  ASSUME HolderAlone, TypeOK, NEW r \in requests, Over(r), Quiet,
         \A c \in Clients : Idle(books'[c])
  PROVE  HolderAlone'
<1>1. requests' = requests \ {r}
  BY DEF Over
<1>2. r.client \in Clients /\ submission \in [Clients -> Submission \cup {NoSubmission}]
      /\ \A c \in Clients : Idle(books[c])
  BY DEF TypeOK, Request, Quiet, Nodes
<1>3. CASE ~IsSubmit(r)
  <2>1. submission' = submission
    BY <1>3 DEF Over
  <2>2. \A x : IsSubmit(x) => (x \in requests' <=> x \in requests)
    BY <1>1, <1>3, Zenon
  <2>3. QED
    BY <1>2, <2>1, <2>2, MutexUntouched
<1>4. CASE IsSubmit(r)
  <2>1. submission' = [submission EXCEPT ![r.client] = NoSubmission]
    BY <1>4 DEF Over
  <2>2. \A c \in Clients : c # r.client => Mine(c)' = Mine(c) /\ submission'[c] = submission[c]
    BY <1>1, <1>2, <2>1 DEF Mine, IsSubmit
  <2>3. r \in Mine(r.client) /\ Mine(r.client)' = Mine(r.client) \ {r}
    BY <1>1, <1>4 DEF Mine, IsSubmit
  <2>4. PICK x : Mine(r.client) = {x}
    BY <1>2, <2>3 DEF HolderAlone
  <2>5. Mine(r.client)' = {} /\ submission'[r.client] = NoSubmission
    BY <1>2, <2>1, <2>3, <2>4
  <2>6. QED
    BY <1>2, <2>2, <2>5 DEF HolderAlone
<1>5. QED
  BY <1>3, <1>4

LEMMA AcquireMutexAlone ==
  ASSUME IInv, HolderAlone, NEW c \in Clients, AcquireMutex(c)
  PROVE  HolderAlone'
<1> DEFINE o == Head(waiting[c])
<1>1. /\ Quiet /\ submission[c] = NoSubmission /\ waiting[c] # <<>>
      /\ books' = [books EXCEPT ![c] = BeginCall(@, o)]
      /\ submission' = [submission EXCEPT ![c] = [order |-> o, matches |-> <<>>]]
      /\ UNCHANGED requests
  BY DEF AcquireMutex
<1>2. waiting[c] \in Seq(Order) /\ c \in Nodes
      /\ submission \in [Clients -> Submission \cup {NoSubmission}] /\ books \in [Nodes -> Book]
  BY DEF IInv, TypeOK, Nodes
<1>3. o \in Order
  BY <1>1, <1>2
<1> HIDE DEF o
<1>4. ~Idle(books'[c])
  BY <1>1, <1>2, <1>3, BusyCalls
<1>5. submission'[c] # NoSubmission
  <2>1. submission'[c] = [order |-> o, matches |-> <<>>]
    BY <1>1, <1>2
  <2>2. [order |-> o, matches |-> <<>>] \in Submission
    BY <1>3 DEF Submission
  <2>3. QED
    BY <2>1, <2>2, HeldMutex
<1>6. \A d \in Clients : Mine(d)' = Mine(d)
  BY <1>1 DEF Mine, IsSubmit
<1>7. \A d \in Clients : d # c => submission'[d] = submission[d] /\ books'[d] = books[d]
  BY <1>1, <1>2 DEF Nodes
<1>8. QED
  BY <1>1, <1>4, <1>5, <1>6, <1>7 DEF HolderAlone

LEMMA BroadcastAlone ==
  ASSUME IInv, HolderAlone, NEW c \in Clients, NEW s \in Servers, Broadcast(c, s)
  PROVE  HolderAlone'
<1> DEFINE p == SubmitOrder(books[c].call.order)
           r == [client |-> c, payload |-> p, retryCount |-> 0, awaiting |-> TRUE]
<1>1. /\ ~Idle(books[c])
      /\ books' = [books EXCEPT ![c] = EndCall(@)]
      /\ submission' = [submission EXCEPT ![c].matches = books[c].call.fills]
      /\ requests' = requests \cup {r}
  BY DEF Broadcast, NewRequest
<1>2. /\ c \in Nodes /\ submission[c] \in Submission
      /\ submission \in [Clients -> Submission \cup {NoSubmission}] /\ books \in [Nodes -> Book]
  BY <1>1 DEF IInv, TypeOK, SomebodyWaits, Nodes
<1>3. r.client = c /\ IsSubmit(r)
  BY DEF IsSubmit, SubmitOrder
<1> HIDE DEF p, r
<1>4. Mine(c) = {} /\ Mine(c)' = Mine(c) \cup {r}
  BY <1>1, <1>3 DEF HolderAlone, Mine, IsSubmit
<1>5. Idle(books'[c])
  BY <1>1, <1>2 DEF EndCall, Idle
<1>6. submission'[c] # NoSubmission
  <2>1. submission'[c] = [submission[c] EXCEPT !.matches = books[c].call.fills]
    BY <1>1, <1>2
  <2>2. DOMAIN submission'[c] = DOMAIN submission[c]
    BY <2>1
  <2>3. "matches" \in DOMAIN submission[c] /\ "matches" \notin DOMAIN NoSubmission
    BY <1>2 DEF Submission, NoSubmission
  <2>4. QED
    BY <2>2, <2>3
<1>7. \A d \in Clients :
        d # c => /\ submission'[d] = submission[d] /\ books'[d] = books[d]
                 /\ Mine(d)' = Mine(d)
  BY <1>1, <1>2, <1>3 DEF Mine, IsSubmit, Nodes
<1>8. QED
  BY <1>4, <1>5, <1>6, <1>7 DEF HolderAlone

\* One more attempt, or none.
LEMMA RetryOrGiveUpAlone ==
  ASSUME IInv, HolderAlone, NEW r \in requests, Quiet, RetryOrGiveUp(r) \/ Over(r),
         \A c \in Clients : Idle(books'[c])
  PROVE  HolderAlone'
<1> DEFINE q == [r EXCEPT !.awaiting = FALSE, !.retryCount = @ + 1]
<1>1. r \in Request /\ \A c \in Clients : Idle(books[c])
  BY DEF IInv, TypeOK, Quiet, Nodes
<1>2. q.client = r.client /\ q.payload = r.payload
  BY <1>1 DEF Request
<1>3. CASE requests' = (requests \ {r}) \cup {q} /\ submission' = submission
  <2> HIDE DEF q
  <2>1. QED
    BY <1>1, <1>2, <1>3, MutexGoesOn
<1>4. CASE Over(r)
  BY <1>4, MutexReleased DEF IInv
<1>5. QED
  BY <1>3, <1>4 DEF RetryOrGiveUp

\* Idle books of the clients, from one step to the next.
LEMMA ServersBook ==
  ASSUME TypeOK, NEW s \in Servers, NEW b, books' = [books EXCEPT ![s] = b]
  PROVE  \A c \in Clients : books'[c] = books[c]
BY NodesAssumption DEF TypeOK, Nodes

LEMMA InitAlone == Init => HolderAlone
BY DEF Init, HolderAlone, Mine, Idle, EmptyBook, Nodes

LEMMA NextAlone == IInv /\ HolderAlone /\ [Next]_vars => HolderAlone'
<1> SUFFICES ASSUME IInv, HolderAlone, [Next]_vars PROVE HolderAlone'
  OBVIOUS
<1>0. TypeOK
  BY DEF IInv
<1>1. ASSUME NEW c \in Clients, CreateOrder(c) PROVE HolderAlone'
  BY <1>1, MutexUntouched DEF CreateOrder
<1>2. ASSUME NEW n \in Nodes, Round(n) PROVE HolderAlone'
  <2>1. PICK d : books' = [books EXCEPT ![n] = Iterate(@, d)]
    BY <1>2 DEF Round
  <2>2. books[n] \in Book /\ ~Idle(books[n]) /\ books[n].call.order \in Order
    BY <1>0, <1>2, BookParts DEF Round, TypeOK
  <2>3. ~Idle(Iterate(books[n], d))
    BY <2>2, BusyCalls
  <2>4. \A c \in Clients : Idle(books'[c]) <=> Idle(books[c])
    BY <1>0, <2>1, <2>2, <2>3 DEF TypeOK, Nodes
  <2>5. QED
    BY <1>2, <2>4, MutexUntouched DEF Round
<1>3. ASSUME NEW c \in Clients, NEW id \in Cancellable, NEW s \in Servers,
             CancelOrder(c, id, s)
      PROVE  HolderAlone'
  <2> DEFINE r == [client |-> c, payload |-> CancelOrderOf(id), retryCount |-> 0,
                   awaiting |-> TRUE]
  <2>1. /\ Quiet /\ books' = [books EXCEPT ![c] = WithoutOrder(@, id)]
        /\ requests' = requests \cup {r} /\ submission' = submission
    BY <1>3 DEF CancelOrder, NewRequest
  <2>2. ~IsSubmit(r)
    BY DEF IsSubmit, CancelOrderOf
  <2> HIDE DEF r
  <2>3. \A d \in Clients : Idle(books'[d]) <=> Idle(books[d])
    BY <1>0, <2>1 DEF TypeOK, WithoutOrder, Idle, Nodes
  <2>4. QED
    BY <2>1, <2>2, <2>3, MutexUntouched
<1>4. ASSUME NEW c \in Clients, NEW slot \in SyncSlots, NEW s \in Servers,
             StartSync(c, slot, s)
      PROVE  HolderAlone'
  <2> DEFINE r == [client |-> c, payload |-> GetOrderbook(slot), retryCount |-> 0,
                   awaiting |-> TRUE]
  <2>1. requests' = requests \cup {r} /\ UNCHANGED <<books, submission>>
    BY <1>4 DEF StartSync, NewRequest
  <2>2. ~IsSubmit(r)
    BY DEF IsSubmit, GetOrderbook
  <2> HIDE DEF r
  <2>3. QED
    BY <2>1, <2>2, MutexUntouched
<1>5. ASSUME NEW r \in requests, NEW s \in Servers, Retry(r, s) PROVE HolderAlone'
  <2> DEFINE q == [r EXCEPT !.awaiting = TRUE]
  <2>1. /\ requests' = (requests \ {r}) \cup {q} /\ UNCHANGED <<books, submission>>
    BY <1>5 DEF Retry
  <2>2. q.client = r.client /\ q.payload = r.payload
    BY <1>0 DEF TypeOK, Request
  <2> HIDE DEF q
  <2>3. QED
    BY <2>1, <2>2, MutexGoesOn
<1>6. ASSUME NEW r \in requests, AttemptFails(r) PROVE HolderAlone'
  <2>1. Quiet /\ RetryOrGiveUp(r) /\ UNCHANGED books
    BY <1>6 DEF AttemptFails
  <2>2. QED
    BY <2>1, RetryOrGiveUpAlone DEF Quiet, Nodes
<1>7. ASSUME NEW r \in requests, ReceiveAnswer(r) PROVE HolderAlone'
  <2>1. PICK a \in answers :
          /\ RetryOrGiveUp(r) \/ Over(r)
          /\ books' = IF a.status = "state"
                        THEN [books EXCEPT ![r.client] = InstallState(@, a.state)]
                        ELSE books
    BY <1>7 DEF ReceiveAnswer
  <2>2. Quiet
    BY <1>7 DEF ReceiveAnswer
  <2>3. Idle(InstallState(books[r.client], a.state))
    BY DEF InstallState, BookOf, Idle
  <2>4. \A c \in Clients : Idle(books'[c])
    BY <1>0, <2>1, <2>2, <2>3 DEF TypeOK, Quiet, Nodes
  <2>5. QED
    BY <2>1, <2>2, <2>4, RetryOrGiveUpAlone
<1>8. ASSUME NEW k \in calls, HandleSubmit(k) \/ HandleCancel(k) \/ HandleGetOrderbook(k)
      PROVE  HolderAlone'
  <2>1. k.server \in Servers
    BY <1>0 DEF TypeOK, Attempt
  <2>2. UNCHANGED <<requests, submission>>
    BY <1>8 DEF HandleSubmit, HandleCancel, HandleGetOrderbook
  <2>3. books' = books \/ \E b : books' = [books EXCEPT ![k.server] = b]
    BY <1>8, Zenon DEF HandleSubmit, HandleCancel, HandleGetOrderbook
  <2>4. \A c \in Clients : books'[c] = books[c]
    BY <1>0, <2>1, <2>3, ServersBook
  <2>5. QED
    BY <2>2, <2>4, MutexUntouched
<1>9. ASSUME NEW s \in Servers, AnswerSubmit(s) PROVE HolderAlone'
  <2>1. \A c \in Clients : books'[c] = books[c]
    BY <1>0, <1>9, ServersBook DEF AnswerSubmit
  <2>2. QED
    BY <1>9, <2>1, MutexUntouched DEF AnswerSubmit
<1>10. ASSUME NEW s \in Restarting, Restart(s) PROVE HolderAlone'
  <2>1. \A c \in Clients : books'[c] = books[c]
    BY <1>0, <1>10, NodesAssumption, ServersBook DEF Restart
  <2>2. QED
    BY <1>10, <2>1, MutexUntouched DEF Restart
<1>11. CASE UNCHANGED vars
  BY <1>11, MutexUntouched DEF vars
<1>12. QED
  BY <1>1, <1>2, <1>3, <1>4, <1>5, <1>6, <1>7, <1>8, <1>9, <1>10, <1>11,
     AcquireMutexAlone, BroadcastAlone, Zenon DEF Next

\* A client's order mutex is held by the one submission under way, from its
\* addOrder to the end of its request: no second submission overlaps it, and no
\* request outlives it.
THEOREM MutexIsHeld == Spec => []MutexHeld
<1>1. HolderAlone => MutexHeld
  <2> SUFFICES ASSUME HolderAlone, NEW c \in Clients
               PROVE  IF submission[c] = NoSubmission
                        THEN Mine(c) = {} /\ Idle(books[c])
                        ELSE Cardinality(Mine(c)) = (IF Idle(books[c]) THEN 1 ELSE 0)
    BY DEF MutexHeld, Mine
  <2>1. CASE submission[c] = NoSubmission
    BY <2>1 DEF HolderAlone
  <2>2. CASE submission[c] # NoSubmission /\ Idle(books[c])
    <3>1. PICK r : Mine(c) = {r}
      BY <2>2 DEF HolderAlone
    <3>2. QED
      BY <2>2, <3>1, FS_Singleton
  <2>3. CASE submission[c] # NoSubmission /\ ~Idle(books[c])
    <3>1. Mine(c) = {}
      BY <2>3 DEF HolderAlone
    <3>2. QED
      BY <2>3, <3>1, FS_EmptySet
  <2>4. QED
    BY <2>1, <2>2, <2>3
<1>2. QED
  BY <1>1, InitAlone, NextAlone, InvariantHolds, PTL DEF Spec

-----------------------------------------------------------------------------
(* The answers a request awaits.  An awaited attempt is on its way, in the *)
(* hands of a server, or answered: one of the three, of one request.       *)

Served == {serving[s] : s \in {t \in Servers : ~Idle(books[t])}}

Pending == {k \in calls \cup Served : k.awaited}

OneBusy ==
  /\ \A m, n \in Nodes : ~Idle(books[m]) /\ ~Idle(books[n]) => m = n
  /\ \A s \in Servers : ~Idle(books[s]) => serving[s] \notin calls

OneOfEach ==
  /\ \A q, r \in requests : SameRequest(q, r) => q = r
  /\ \A j, k \in Pending : SameRequest(j, k) => j = k
  /\ \A a, b \in answers : SameRequest(a, b) => a = b
  /\ \A k \in Pending, a \in answers : ~SameRequest(k, a)

Awaited ==
  \A x \in Pending \cup answers : \E r \in requests : r.awaiting /\ SameRequest(x, r)

AnswersInv == OneBusy /\ OneOfEach /\ Awaited

\* A set with no two elements.
LEMMA AtMostOne ==
  ASSUME NEW S, \A x, y \in S : x = y
  PROVE  /\ S = {} => Cardinality(S) = 0
         /\ S # {} => Cardinality(S) = 1
<1>1. S = {} => Cardinality(S) = 0
  BY FS_EmptySet
<1>2. ASSUME NEW x \in S PROVE Cardinality(S) = 1
  <2>1. S = {x}
    OBVIOUS
  <2>2. QED
    BY <2>1, FS_Singleton
<1>3. QED
  BY <1>1, <1>2

\* No server has an attempt in its hands while no addOrder runs.
LEMMA QuietServes ==
  /\ Quiet => OneBusy /\ Pending = {k \in calls : k.awaited}
  /\ Quiet' => OneBusy' /\ Pending' = {k \in calls' : k.awaited}
<1>1. ASSUME Quiet PROVE OneBusy /\ Pending = {k \in calls : k.awaited}
  <2>1. Served = {}
    BY <1>1 DEF Quiet, Served, Nodes
  <2>2. QED
    BY <1>1, <2>1 DEF Quiet, OneBusy, Pending, Nodes
<1>2. ASSUME Quiet' PROVE OneBusy' /\ Pending' = {k \in calls' : k.awaited}
  <2>1. Served' = {}
    BY <1>2 DEF Quiet, Served, Nodes
  <2>2. QED
    BY <1>2, <2>1 DEF Quiet, OneBusy, Pending, Nodes
<1>3. QED
  BY <1>1, <1>2

\* Attempts and answers get lost.
LEMMA TokensLost ==
  ASSUME OneOfEach, Awaited, requests' = requests,
         Pending' \subseteq Pending, answers' \subseteq answers
  PROVE  OneOfEach' /\ Awaited'
BY DEF OneOfEach, Awaited, SameRequest

\* An awaited attempt is answered.
LEMMA TokenAnswered ==
  ASSUME OneOfEach, Awaited, requests' = requests,
         NEW k \in Pending, NEW a, SameRequest(a, k),
         Pending' \subseteq Pending \ {k}, answers' \subseteq answers \cup {a}
  PROVE  OneOfEach' /\ Awaited'
<1>1. /\ \A b \in answers : ~SameRequest(a, b)
      /\ \A j \in Pending' : ~SameRequest(j, a)
  BY DEF OneOfEach, SameRequest
<1>2. OneOfEach'
  BY <1>1 DEF OneOfEach, SameRequest
<1>3. Awaited'
  BY DEF Awaited, SameRequest
<1>4. QED
  BY <1>2, <1>3

\* A request makes an attempt, its first or one more.
LEMMA TokenMade ==
  ASSUME OneOfEach, Awaited, NEW r, NEW k, r.awaiting, SameRequest(k, r),
         NEW others, others \subseteq requests, requests' = others \cup {r},
         \A q \in others : ~SameRequest(q, r),
         \A q \in requests : q \in others \/ ~q.awaiting,
         Pending' \subseteq Pending \cup {k}, answers' = answers
  PROVE  OneOfEach' /\ Awaited'
<1>1. \A x \in Pending \cup answers : \E q \in others : q.awaiting /\ SameRequest(x, q)
  BY DEF Awaited
<1>2. \A x \in Pending \cup answers : ~SameRequest(x, k)
  BY <1>1 DEF SameRequest
<1>3. OneOfEach'
  BY <1>2 DEF OneOfEach, SameRequest
<1>4. Awaited'
  BY <1>1 DEF Awaited
<1>5. QED
  BY <1>3, <1>4

\* An attempt is over: nobody waits for its answer any more.
LEMMA TokenOver ==
  ASSUME OneOfEach, Awaited, TypeOK, NEW r \in requests, RetryOrGiveUp(r) \/ Over(r),
         Pending' \subseteq {k \in Pending : ~SameRequest(k, r)},
         answers' \subseteq {a \in answers : ~SameRequest(a, r)}
  PROVE  OneOfEach' /\ Awaited'
<1> DEFINE q == [r EXCEPT !.awaiting = FALSE, !.retryCount = @ + 1]
<1>1. q.payload = r.payload /\ q.client = r.client
  BY DEF TypeOK, Request
<1> HIDE DEF q
<1>2. requests' = (requests \ {r}) \cup {q} \/ requests' = requests \ {r}
  BY DEF RetryOrGiveUp, Over, q
<1>3. OneOfEach'
  BY <1>1, <1>2 DEF OneOfEach, SameRequest
<1>4. \A x \in Pending' \cup answers' :
        \E p \in requests \ {r} : p.awaiting /\ SameRequest(x, p)
  BY DEF Awaited
<1>5. Awaited'
  BY <1>2, <1>4 DEF Awaited
<1>6. QED
  BY <1>3, <1>5

\* A new request of a client, like none it has under way.
LEMMA NewRequestAnswers ==
  ASSUME OneOfEach, Awaited, NEW c, NEW p, NEW s, NewRequest(c, p, s),
         \A q \in requests : ~(q.client = c /\ q.payload = p),
         Quiet', Pending = {k \in calls : k.awaited}, answers' = answers
  PROVE  OneOfEach' /\ Awaited'
<1> DEFINE r == [client |-> c, payload |-> p, retryCount |-> 0, awaiting |-> TRUE]
           k == AttemptOf(r, s)
<1>1. requests' = requests \cup {r} /\ calls' = calls \cup {k}
  BY DEF NewRequest
<1>2. r.awaiting /\ r.client = c /\ r.payload = p /\ SameRequest(k, r)
  BY DEF AttemptOf, SameRequest
<1> HIDE DEF r, k
<1>3. Pending' \subseteq Pending \cup {k}
  BY <1>1, QuietServes
<1>4. \A q \in requests : ~SameRequest(q, r)
  BY <1>2 DEF SameRequest
<1>5. QED
  BY <1>1, <1>2, <1>3, <1>4, TokenMade

LEMMA InitAnswers == Init => AnswersInv
<1> SUFFICES ASSUME Init PROVE AnswersInv
  OBVIOUS
<1>1. Quiet
  BY DEF Init, Quiet, Idle, EmptyBook
<1>2. OneBusy /\ Pending = {}
  BY <1>1, QuietServes DEF Init
<1>3. QED
  BY <1>2 DEF Init, AnswersInv, OneOfEach, Awaited

\* A server replies to an attempt it has taken.
LEMMA ReplyAnswers ==
  ASSUME AnswersInv, NEW k \in calls \cup Served, NEW a,
         a.client = k.client, a.payload = k.payload, Reply(k, a),
         Pending' \subseteq Pending \ {k}, UNCHANGED requests
  PROVE  OneOfEach' /\ Awaited'
<1>1. CASE k.awaited
  <2>1. k \in Pending /\ answers' = answers \cup {a} /\ SameRequest(a, k)
    BY <1>1 DEF Pending, Reply, SameRequest
  <2>2. QED
    BY <2>1, TokenAnswered DEF AnswersInv
<1>2. CASE ~k.awaited
  BY <1>2, TokensLost DEF AnswersInv, Reply
<1>3. QED
  BY <1>1, <1>2

LEMMA HandleSubmitAnswers ==
  ASSUME IInv, AnswersInv, NEW k \in calls, HandleSubmit(k)
  PROVE  AnswersInv'
<1> DEFINE s == k.server
           o == FromObject(k.payload.order)
<1>1. /\ Quiet /\ IsSubmit(k) /\ calls' = calls \ {k} /\ UNCHANGED requests
      /\ \/ /\ books' = [books EXCEPT ![s] = BeginCall(@, o)]
            /\ serving' = [serving EXCEPT ![s] = k]
            /\ UNCHANGED answers
         \/ /\ \E st \in {"success", "error"} : Reply(k, Status(k, st))
            /\ UNCHANGED books
  BY DEF HandleSubmit
<1>2. /\ s \in Servers /\ s \in Nodes /\ books \in [Nodes -> Book]
      /\ serving \in [Servers -> Attempt \cup {NotServing}]
  BY DEF IInv, TypeOK, Attempt, Nodes
<1>3. Pending = {j \in calls : j.awaited}
  BY <1>1, QuietServes
<1> HIDE DEF o, s
<1>4. CASE /\ books' = [books EXCEPT ![s] = BeginCall(@, o)]
           /\ serving' = [serving EXCEPT ![s] = k]
           /\ UNCHANGED answers
  <2>1. \A n \in Nodes : ~Idle(books'[n]) => n = s
    BY <1>1, <1>2, <1>4 DEF Quiet
  <2>2. serving'[s] = k
    BY <1>2, <1>4
  <2>3. Served' \subseteq {k}
    BY <2>1, <2>2 DEF Served, Nodes
  <2>4. OneBusy'
    BY <1>1, <2>1, <2>2 DEF OneBusy, Nodes
  <2>5. Pending' \subseteq Pending
    BY <1>1, <1>3, <2>3 DEF Pending
  <2>6. QED
    BY <1>1, <1>4, <2>4, <2>5, TokensLost DEF AnswersInv
<1>5. ASSUME NEW st \in {"success", "error"}, Reply(k, Status(k, st)), UNCHANGED books
      PROVE  AnswersInv'
  <2>1. Quiet'
    BY <1>1, <1>5 DEF Quiet
  <2>2. OneBusy' /\ Pending' \subseteq Pending \ {k}
    BY <1>1, <1>3, <2>1, QuietServes
  <2>3. Status(k, st).client = k.client /\ Status(k, st).payload = k.payload
    BY DEF Status
  <2>4. QED
    BY <1>1, <1>5, <2>2, <2>3, ReplyAnswers DEF AnswersInv
<1>6. QED
  BY <1>1, <1>4, <1>5

LEMMA HandleOthersAnswers ==
  ASSUME IInv, AnswersInv, NEW k \in calls, HandleCancel(k) \/ HandleGetOrderbook(k)
  PROVE  AnswersInv'
<1>1. /\ Quiet /\ calls' = calls \ {k} /\ UNCHANGED requests
      /\ \E a : a.client = k.client /\ a.payload = k.payload /\ Reply(k, a)
  BY DEF HandleCancel, HandleGetOrderbook, Status
<1>2. Quiet'
  <2>1. CASE HandleCancel(k)
    BY <1>1, <2>1 DEF HandleCancel, Quiet, WithoutOrder, Idle, IInv, TypeOK
  <2>2. CASE HandleGetOrderbook(k)
    BY <1>1, <2>2 DEF HandleGetOrderbook, Quiet
  <2>3. QED
    BY <2>1, <2>2
<1>3. OneBusy' /\ Pending' \subseteq Pending \ {k}
  BY <1>1, <1>2, QuietServes
<1>4. QED
  BY <1>1, <1>3, ReplyAnswers DEF AnswersInv

LEMMA AnswerSubmitAnswers ==
  ASSUME IInv, AnswersInv, NEW s \in Servers, AnswerSubmit(s)
  PROVE  AnswersInv'
<1> DEFINE k == serving[s]
<1>1. /\ ~Idle(books[s]) /\ books' = [books EXCEPT ![s] = EndCall(@)]
      /\ Reply(k, Status(k, "success"))
      /\ UNCHANGED <<requests, calls>>
  BY DEF AnswerSubmit
<1>2. s \in Nodes /\ k \in Served /\ k \notin calls
  BY <1>1 DEF Served, AnswersInv, OneBusy, Nodes
<1>3. Quiet'
  BY <1>1, <1>2 DEF Quiet, AnswersInv, OneBusy, EndCall, Idle, IInv, TypeOK
<1> HIDE DEF k
<1>4. OneBusy' /\ Pending' \subseteq Pending \ {k}
  BY <1>1, <1>2, <1>3, QuietServes DEF Pending
<1>5. Status(k, "success").client = k.client /\ Status(k, "success").payload = k.payload
  BY DEF Status
<1>6. QED
  BY <1>1, <1>2, <1>4, <1>5, ReplyAnswers DEF AnswersInv

LEMMA AttemptFailsAnswers ==
  ASSUME IInv, AnswersInv, NEW r \in requests, AttemptFails(r)
  PROVE  AnswersInv'
<1> DEFINE sent == {k \in calls : k.awaited /\ SameRequest(k, r)}
<1>1. /\ Quiet /\ RetryOrGiveUp(r) /\ UNCHANGED books
      /\ \/ calls' = calls \ sent
         \/ calls' = (calls \ sent) \cup {[k EXCEPT !.awaited = FALSE] : k \in sent}
      /\ answers' \subseteq {a \in answers : ~SameRequest(a, r)}
  BY Zenon DEF AttemptFails
<1>2. \A k \in calls' : \/ k \in calls \ sent
                        \/ \E j \in calls : k = [j EXCEPT !.awaited = FALSE]
  BY <1>1, Zenon
<1>3. \A k \in calls' : k.awaited => k \in calls \ sent
  BY <1>2, Unawaited DEF IInv, TypeOK
<1>4. Quiet'
  BY <1>1 DEF Quiet
<1>5. OneBusy' /\ Pending' \subseteq {k \in Pending : ~SameRequest(k, r)}
  BY <1>1, <1>3, <1>4, QuietServes
<1>6. QED
  BY <1>1, <1>5, TokenOver DEF AnswersInv, IInv

LEMMA ReceiveAnswerAnswers ==
  ASSUME IInv, AnswersInv, NEW r \in requests, ReceiveAnswer(r)
  PROVE  AnswersInv'
<1>1. PICK a \in answers :
        /\ SameRequest(a, r) /\ answers' = answers \ {a}
        /\ RetryOrGiveUp(r) \/ Over(r)
        /\ books' = IF a.status = "state"
                      THEN [books EXCEPT ![r.client] = InstallState(@, a.state)]
                      ELSE books
  BY DEF ReceiveAnswer
<1>2. Quiet /\ calls' = calls
  BY DEF ReceiveAnswer
<1>3. Quiet'
  BY <1>1, <1>2 DEF Quiet, InstallState, BookOf, Idle, IInv, TypeOK
<1>4. /\ OneBusy' /\ Pending' = Pending
  BY <1>2, <1>3, QuietServes
<1>5. /\ \A k \in Pending : ~SameRequest(k, r)
      /\ \A b \in answers : SameRequest(b, r) => b = a
  BY <1>1 DEF AnswersInv, OneOfEach, SameRequest
<1>6. QED
  BY <1>1, <1>4, <1>5, TokenOver DEF AnswersInv, IInv

LEMMA BroadcastAnswers ==
  ASSUME IInv, HolderAlone, AnswersInv, NEW c \in Clients, NEW s \in Servers,
         Broadcast(c, s)
  PROVE  AnswersInv'
<1> DEFINE p == SubmitOrder(books[c].call.order)
<1>1. /\ ~Idle(books[c]) /\ books' = [books EXCEPT ![c] = EndCall(@)]
      /\ NewRequest(c, p, s) /\ answers' = answers
  BY DEF Broadcast
<1>2. Quiet'
  BY <1>1 DEF Quiet, AnswersInv, OneBusy, EndCall, Idle, IInv, TypeOK, Nodes
<1>3. Pending = {k \in calls : k.awaited}
  <2>1. \A t \in Servers : Idle(books[t])
    BY <1>1, NodesAssumption DEF AnswersInv, OneBusy, Nodes
  <2>2. Served = {}
    BY <2>1 DEF Served
  <2>3. QED
    BY <2>2 DEF Pending
<1>4. \A q \in requests : ~(q.client = c /\ q.payload = p)
  BY <1>1 DEF HolderAlone, Mine, IsSubmit, SubmitOrder
<1>5. OneOfEach' /\ Awaited'
  <2> HIDE DEF p
  <2>1. QED
    BY <1>1, <1>2, <1>3, <1>4, NewRequestAnswers DEF AnswersInv
<1>6. QED
  BY <1>2, <1>5, QuietServes DEF AnswersInv

LEMMA NextAnswers == IInv /\ HolderAlone /\ AnswersInv /\ [Next]_vars => AnswersInv'
<1> SUFFICES ASSUME IInv, HolderAlone, AnswersInv, [Next]_vars PROVE AnswersInv'
  OBVIOUS
<1>0. TypeOK
  BY DEF IInv
<1>1. ASSUME UNCHANGED <<books, requests, calls, serving, answers>> PROVE AnswersInv'
  BY <1>1 DEF AnswersInv, OneBusy, OneOfEach, Awaited, Pending, Served
<1>2. ASSUME NEW c \in Clients, AcquireMutex(c) PROVE AnswersInv'
  <2>1. Quiet /\ UNCHANGED <<requests, calls, serving, answers>>
    BY <1>2 DEF AcquireMutex
  <2>2. \A n \in Nodes : n # c => books'[n] = books[n]
    BY <1>0, <1>2 DEF AcquireMutex, TypeOK
  <2>3. \A n \in Nodes : n # c => Idle(books'[n])
    BY <2>1, <2>2 DEF Quiet
  <2>4. \A t \in Servers : Idle(books'[t])
    BY <2>3, NodesAssumption DEF Nodes
  <2>5. OneBusy' /\ Served' = {}
    BY <2>3, <2>4 DEF OneBusy, Served
  <2>6. Pending' \subseteq Pending
    BY <2>1, <2>5 DEF Pending
  <2>7. QED
    BY <2>1, <2>5, <2>6, TokensLost DEF AnswersInv
<1>3. ASSUME NEW n \in Nodes, Round(n) PROVE AnswersInv'
  <2>1. PICK d : books' = [books EXCEPT ![n] = Iterate(@, d)]
    BY <1>3 DEF Round
  <2>2. ~Idle(books[n]) /\ UNCHANGED <<requests, calls, serving, answers>>
    BY <1>3 DEF Round
  <2>3. books[n].call.order \in Order
    BY <1>0, <2>2, BookParts DEF TypeOK
  <2>4. ~Idle(Iterate(books[n], d))
    BY <2>3, BusyCalls
  <2>5. \A m \in Nodes : Idle(books'[m]) <=> Idle(books[m])
    BY <1>0, <2>1, <2>2, <2>4 DEF TypeOK
  <2>6. Served' = Served
    BY <2>2, <2>5 DEF Served, Nodes
  <2>7. OneBusy' /\ Pending' = Pending
    BY <2>2, <2>5, <2>6 DEF AnswersInv, OneBusy, Pending, Nodes
  <2>8. QED
    BY <2>2, <2>7, TokensLost DEF AnswersInv
<1>4. ASSUME NEW c \in Clients, NEW id \in Cancellable, NEW s \in Servers,
             CancelOrder(c, id, s)
      PROVE  AnswersInv'
  <2>1. /\ Quiet /\ books' = [books EXCEPT ![c] = WithoutOrder(@, id)]
        /\ NewRequest(c, CancelOrderOf(id), s) /\ answers' = answers
        /\ \A q \in requests : ~(q.client = c /\ q.payload = CancelOrderOf(id))
    BY <1>4 DEF CancelOrder
  <2>2. Quiet'
    BY <1>0, <2>1 DEF Quiet, WithoutOrder, Idle, TypeOK
  <2>3. QED
    BY <2>1, <2>2, QuietServes, NewRequestAnswers DEF AnswersInv
<1>5. ASSUME NEW c \in Clients, NEW slot \in SyncSlots, NEW s \in Servers,
             StartSync(c, slot, s)
      PROVE  AnswersInv'
  <2>1. /\ Quiet /\ UNCHANGED books
        /\ NewRequest(c, GetOrderbook(slot), s) /\ answers' = answers
        /\ \A q \in requests : ~(q.client = c /\ q.payload = GetOrderbook(slot))
    BY <1>5 DEF StartSync
  <2>2. Quiet'
    BY <2>1 DEF Quiet
  <2>3. QED
    BY <2>1, <2>2, QuietServes, NewRequestAnswers DEF AnswersInv
<1>6. ASSUME NEW r \in requests, NEW s \in Servers, Retry(r, s) PROVE AnswersInv'
  <2> DEFINE q == [r EXCEPT !.awaiting = TRUE]
             k == AttemptOf(r, s)
             others == requests \ {r}
  <2>1. /\ Quiet /\ ~r.awaiting /\ UNCHANGED <<books, answers>>
        /\ requests' = others \cup {q} /\ calls' = calls \cup {k}
    BY <1>6 DEF Retry
  <2>2. /\ q.awaiting /\ q.client = r.client /\ q.payload = r.payload
        /\ k.client = r.client /\ k.payload = r.payload
    BY <1>0 DEF TypeOK, Request, AttemptOf
  <2> HIDE DEF q, k
  <2>3. Quiet'
    BY <2>1 DEF Quiet
  <2>4. OneBusy' /\ Pending' \subseteq Pending \cup {k}
    BY <2>1, <2>3, QuietServes
  <2>5. /\ SameRequest(k, q) /\ \A x \in others : ~SameRequest(x, q)
        /\ \A x \in requests : x \in others \/ ~x.awaiting
    BY <2>1, <2>2 DEF AnswersInv, OneOfEach, SameRequest
  <2> HIDE DEF others
  <2>6. others \subseteq requests
    BY DEF others
  <2>7. QED
    BY <2>1, <2>2, <2>4, <2>5, <2>6, TokenMade DEF AnswersInv
<1>7. ASSUME NEW s \in Restarting, Restart(s) PROVE AnswersInv'
  <2>1. /\ Quiet /\ books' = [books EXCEPT ![s] = EmptyBook] /\ calls' \subseteq calls
        /\ UNCHANGED <<requests, answers>>
    BY <1>7 DEF Restart
  <2>2. Quiet'
    BY <1>0, <2>1 DEF Quiet, EmptyBook, Idle, TypeOK
  <2>3. OneBusy' /\ Pending' \subseteq Pending
    BY <2>1, <2>2, QuietServes
  <2>4. QED
    BY <2>1, <2>3, TokensLost DEF AnswersInv
<1>8. ASSUME NEW c \in Clients, CreateOrder(c) PROVE AnswersInv'
  BY <1>1, <1>8 DEF CreateOrder
<1>9. CASE UNCHANGED vars
  BY <1>1, <1>9 DEF vars
<1>10. QED
  BY <1>2, <1>3, <1>4, <1>5, <1>6, <1>7, <1>8, <1>9, BroadcastAnswers,
     AttemptFailsAnswers, ReceiveAnswerAnswers, HandleSubmitAnswers,
     HandleOthersAnswers, AnswerSubmitAnswers, Zenon DEF Next

\* A request is answered at most once, and only by its last attempt: an attempt
\* given up leaves nothing behind that could be taken for the answer to a later
\* one.
THEOREM OneAnswerIsAwaited == Spec => []OneAnswerAwaited
<1>1. AnswersInv => OneAnswerAwaited
  <2> SUFFICES ASSUME AnswersInv, NEW r \in requests
               PROVE  LET A == {k \in calls \cup Served : k.awaited /\ SameRequest(k, r)}
                          B == {a \in answers : SameRequest(a, r)}
                      IN  Cardinality(A) + Cardinality(B) <= (IF r.awaiting THEN 1 ELSE 0)
    BY DEF OneAnswerAwaited, Served
  <2> DEFINE A == {k \in calls \cup Served : k.awaited /\ SameRequest(k, r)}
             B == {a \in answers : SameRequest(a, r)}
  <2>1. A \subseteq Pending /\ B \subseteq answers
        /\ \A x \in A \cup B : SameRequest(x, r)
    BY DEF Pending
  <2> HIDE DEF A, B
  <2>2. /\ \A x, y \in A : x = y
        /\ \A x, y \in B : x = y
        /\ A = {} \/ B = {}
    BY <2>1 DEF AnswersInv, OneOfEach, SameRequest
  <2>3. ~r.awaiting => A = {} /\ B = {}
    BY <2>1 DEF AnswersInv, OneOfEach, Awaited, SameRequest
  <2>4. /\ A = {} => Cardinality(A) = 0
        /\ A # {} => Cardinality(A) = 1
        /\ B = {} => Cardinality(B) = 0
        /\ B # {} => Cardinality(B) = 1
    BY <2>2, AtMostOne
  <2>5. Cardinality(A) + Cardinality(B) <= (IF r.awaiting THEN 1 ELSE 0)
    <3>1. CASE A = {}
      BY <2>3, <2>4, <3>1
    <3>2. CASE A # {}
      BY <2>2, <2>3, <2>4, <3>2
    <3>3. QED
      BY <3>1, <3>2
  <2>6. QED
    BY <2>5 DEF A, B
<1>2. QED
  BY <1>1, InitAlone, NextAlone, InitAnswers, NextAnswers, InvariantHolds, PTL DEF Spec

-----------------------------------------------------------------------------
(* What a client sends to the servers.  A request is made from the locals  *)
(* of addOrder, so the invariant says of them, while addOrder runs, what   *)
(* BroadcastsRemainder says of the request; and HolderAlone says that no   *)
(* request of an earlier submission is left when the submission changes.   *)

CallOfSubmission ==
  \A c \in Clients :
    ~Idle(books[c]) => LET call == books[c].call
                       IN /\ Conserves(call)
                          /\ call.order.id = submission[c].order.id
                          /\ call.entryAmount = submission[c].order.amount

\* The addOrder of a client that runs on is that of the same submission.
LEMMA CallStays ==
  ASSUME CallOfSubmission,
         \A c \in Clients : ~Idle(books'[c]) => /\ books'[c] = books[c]
                                                /\ submission'[c] = submission[c]
  PROVE  CallOfSubmission'
BY DEF CallOfSubmission

\* A submission that is waiting for its answer goes on as it was sent.
LEMMA SentStays ==
  ASSUME BroadcastsRemainder,
         \A r \in requests' : IsSubmit(r) =>
           /\ submission'[r.client] = submission[r.client]
           /\ \E q \in requests : q.client = r.client /\ q.payload = r.payload
  PROVE  BroadcastsRemainder'
<1> SUFFICES ASSUME NEW r \in requests', IsSubmit(r)
             PROVE  LET sub == submission'[r.client]
                    IN /\ r.payload.order.id = sub.order.id
                       /\ r.payload.order.amount + Filled(sub.matches) = sub.order.amount
  BY DEF BroadcastsRemainder, IsSubmit
<1>1. PICK q \in requests : q.client = r.client /\ q.payload = r.payload
  OBVIOUS
<1>2. IsSubmit(q)
  BY <1>1 DEF IsSubmit
<1>3. QED
  BY <1>1, <1>2 DEF BroadcastsRemainder

LEMMA AcquireMutexRemainder ==
  ASSUME IInv, HolderAlone, CallOfSubmission, BroadcastsRemainder,
         NEW c \in Clients, AcquireMutex(c)
  PROVE  CallOfSubmission' /\ BroadcastsRemainder'
<1> DEFINE o == Head(waiting[c])
           sub == [order |-> o, matches |-> <<>>]
<1>1. /\ Quiet /\ submission[c] = NoSubmission /\ waiting[c] # <<>>
      /\ books' = [books EXCEPT ![c] = BeginCall(@, o)]
      /\ submission' = [submission EXCEPT ![c] = sub]
      /\ UNCHANGED requests
  BY DEF AcquireMutex
<1>2. waiting[c] \in Seq(Order) /\ c \in Nodes
      /\ submission \in [Clients -> Submission \cup {NoSubmission}] /\ books \in [Nodes -> Book]
  BY DEF IInv, TypeOK, Nodes
<1>3. o \in Order
  BY <1>1, <1>2
<1> HIDE DEF o
<1>4. books'[c] = BeginCall(books[c], o) /\ submission'[c] = sub
  BY <1>1, <1>2
<1>5. \A d \in Clients : d # c => books'[d] = books[d] /\ submission'[d] = submission[d]
  BY <1>1, <1>2 DEF Nodes
<1>6. CallOfSubmission'
  <2>1. Conserves(BeginCall(books[c], o).call)
    BY <1>3, BeginConserves
  <2>2. BeginCall(books[c], o).call.order = o /\ BeginCall(books[c], o).call.entryAmount = o.amount
    BY DEF BeginCall
  <2>3. QED
    BY <1>4, <1>5, <2>1, <2>2 DEF CallOfSubmission
<1>7. \A r \in requests : IsSubmit(r) => r.client # c
  BY <1>1 DEF HolderAlone, Mine
<1>8. \A r \in requests : r.client \in Clients
  BY DEF IInv, TypeOK, Request
<1>9. BroadcastsRemainder'
  BY <1>1, <1>5, <1>7, <1>8, SentStays
<1>10. QED
  BY <1>6, <1>9

LEMMA BroadcastRemainder ==
  ASSUME IInv, HolderAlone, CallOfSubmission, BroadcastsRemainder,
         NEW c \in Clients, NEW s \in Servers, Broadcast(c, s)
  PROVE  CallOfSubmission' /\ BroadcastsRemainder'
<1> DEFINE call == books[c].call
           p == SubmitOrder(call.order)
           r == [client |-> c, payload |-> p, retryCount |-> 0, awaiting |-> TRUE]
<1>1. /\ ~Idle(books[c])
      /\ books' = [books EXCEPT ![c] = EndCall(@)]
      /\ submission' = [submission EXCEPT ![c].matches = call.fills]
      /\ requests' = requests \cup {r}
  BY DEF Broadcast, NewRequest
<1>2. /\ c \in Nodes /\ submission[c] \in Submission
      /\ submission \in [Clients -> Submission \cup {NoSubmission}] /\ books \in [Nodes -> Book]
  BY <1>1 DEF IInv, TypeOK, SomebodyWaits, Nodes
<1>3. /\ r.client = c /\ r.payload.order = call.order
  BY DEF SubmitOrder
<1>4. /\ submission'[c].order = submission[c].order
      /\ submission'[c].matches = call.fills
  <2>1. submission'[c] = [submission[c] EXCEPT !.matches = call.fills]
    BY <1>1, <1>2
  <2>2. QED
    BY <1>2, <2>1 DEF Submission
<1>5. /\ call.order.id = submission[c].order.id
      /\ Filled(call.fills) + call.order.amount = submission[c].order.amount
  BY <1>1 DEF CallOfSubmission, Conserves
<1>6. call.order.amount \in Nat /\ Filled(call.fills) \in Nat
  <2>1. call.order \in Order /\ call.fills \in Seq(Match)
    BY <1>1, <1>2, BookParts
  <2>2. Filled(call.fills) \in Nat
    BY <2>1, FilledNat
  <2>3. QED
    BY <2>1, <2>2 DEF Order
<1>7. call.order.amount + Filled(call.fills) = submission[c].order.amount
  BY <1>5, <1>6
<1>8. \A q \in requests : IsSubmit(q) => q.client # c /\ q.client \in Clients
  BY <1>1 DEF HolderAlone, Mine, IInv, TypeOK, Request
<1>9. \A d \in Clients : d # c => books'[d] = books[d] /\ submission'[d] = submission[d]
  BY <1>1, <1>2 DEF Nodes
<1>10. Idle(books'[c])
  BY <1>1, <1>2 DEF EndCall, Idle
<1>11. CallOfSubmission'
  BY <1>9, <1>10, CallStays
<1> HIDE DEF p, r
<1>12. BroadcastsRemainder'
  <2> SUFFICES ASSUME NEW q \in requests', IsSubmit(q)
               PROVE  LET sub == submission'[q.client]
                      IN /\ q.payload.order.id = sub.order.id
                         /\ q.payload.order.amount + Filled(sub.matches) = sub.order.amount
    BY DEF BroadcastsRemainder, IsSubmit
  <2>1. CASE q = r
    BY <1>3, <1>4, <1>5, <1>7, <2>1
  <2>2. CASE q \in requests
    <3>1. submission'[q.client] = submission[q.client]
      BY <1>8, <1>9, <2>2
    <3>2. QED
      BY <2>2, <3>1 DEF BroadcastsRemainder
  <2>3. QED
    BY <1>1, <2>1, <2>2
<1>13. QED
  BY <1>11, <1>12

\* One more attempt, or none: the submission is over with its request.
LEMMA RetryOrGiveUpRemainder ==
  ASSUME IInv, HolderAlone, BroadcastsRemainder, NEW r \in requests, Quiet,
         RetryOrGiveUp(r) \/ Over(r)
  PROVE  BroadcastsRemainder'
<1> DEFINE q == [r EXCEPT !.awaiting = FALSE, !.retryCount = @ + 1]
<1>1. r \in Request /\ \A c \in Clients : Idle(books[c])
  BY DEF IInv, TypeOK, Quiet, Nodes
<1>2. q.client = r.client /\ q.payload = r.payload
  BY <1>1 DEF Request
<1>3. CASE requests' = (requests \ {r}) \cup {q} /\ submission' = submission
  <2> HIDE DEF q
  <2>1. QED
    BY <1>2, <1>3, SentStays
<1>4. CASE Over(r)
  <2>1. requests' = requests \ {r}
    BY <1>4 DEF Over
  <2>2. ASSUME NEW x \in requests', IsSubmit(x)
        PROVE  submission'[x.client] = submission[x.client]
    <3>1. CASE ~IsSubmit(r)
      BY <1>4, <3>1 DEF Over
    <3>2. CASE IsSubmit(r)
      <4>1. x # r /\ x \in requests /\ x.client \in Clients /\ r.client \in Clients
        BY <1>1, <2>1, <2>2 DEF IInv, TypeOK, Request
      <4>2. ASSUME x.client = r.client PROVE FALSE
        <5>1. x \in Mine(r.client) /\ r \in Mine(r.client)
          BY <2>2, <3>2, <4>1, <4>2 DEF Mine
        <5>2. Mine(r.client) = {} \/ \E y : Mine(r.client) = {y}
          BY <1>1, <4>1 DEF HolderAlone
        <5>3. QED
          BY <4>1, <5>1, <5>2
      <4>3. submission' = [submission EXCEPT ![r.client] = NoSubmission]
        BY <1>4, <3>2 DEF Over
      <4>4. submission \in [Clients -> Submission \cup {NoSubmission}]
        BY DEF IInv, TypeOK
      <4>5. QED
        BY <4>1, <4>2, <4>3, <4>4
    <3>3. QED
      BY <3>1, <3>2
  <2>3. QED
    BY <2>1, <2>2, SentStays
<1>5. QED
  BY <1>3, <1>4 DEF RetryOrGiveUp

LEMMA NextRemainder ==
  IInv /\ HolderAlone /\ CallOfSubmission /\ BroadcastsRemainder /\ [Next]_vars
    => CallOfSubmission' /\ BroadcastsRemainder'
<1> SUFFICES ASSUME IInv, HolderAlone, CallOfSubmission, BroadcastsRemainder, [Next]_vars
             PROVE  CallOfSubmission' /\ BroadcastsRemainder'
  OBVIOUS
<1>0. TypeOK
  BY DEF IInv
<1>1. ASSUME NEW c \in Clients, CreateOrder(c)
      PROVE  CallOfSubmission' /\ BroadcastsRemainder'
  BY <1>1, CallStays, SentStays DEF CreateOrder
<1>2. ASSUME NEW n \in Nodes, Round(n)
      PROVE  CallOfSubmission' /\ BroadcastsRemainder'
  <2>1. PICK d : Looping(books[n].call, d) /\ books' = [books EXCEPT ![n] = Iterate(@, d)]
    BY <1>2 DEF Round
  <2>2. ~Idle(books[n]) /\ UNCHANGED <<submission, requests>>
    BY <1>2 DEF Round
  <2>3. BroadcastsRemainder'
    BY <2>2, SentStays
  <2>4. LegalBook(books[n]) /\ books'[n] = Iterate(books[n], d)
        /\ \A m \in Nodes : m # n => books'[m] = books[m]
    BY <1>0, <2>1 DEF IInv, EveryBookLegal, TypeOK
  <2>5. n \in Clients =>
          /\ Conserves(books'[n].call)
          /\ books'[n].call.entryAmount = books[n].call.entryAmount
          /\ books'[n].call.order.id = books[n].call.order.id
    <3>1. n \in Clients => Conserves(books[n].call)
      BY <2>2 DEF CallOfSubmission
    <3>2. QED
      BY <2>1, <2>2, <2>4, <3>1, IterateConserves
  <2>6. CallOfSubmission'
    BY <2>2, <2>4, <2>5 DEF CallOfSubmission, Nodes
  <2>7. QED
    BY <2>3, <2>6
<1>3. ASSUME NEW c \in Clients, NEW id \in Cancellable, NEW s \in Servers,
             CancelOrder(c, id, s)
      PROVE  CallOfSubmission' /\ BroadcastsRemainder'
  <2> DEFINE r == [client |-> c, payload |-> CancelOrderOf(id), retryCount |-> 0,
                   awaiting |-> TRUE]
  <2>1. /\ Quiet /\ books' = [books EXCEPT ![c] = WithoutOrder(@, id)]
        /\ requests' = requests \cup {r} /\ submission' = submission
    BY <1>3 DEF CancelOrder, NewRequest
  <2>2. ~IsSubmit(r)
    BY DEF IsSubmit, CancelOrderOf
  <2> HIDE DEF r
  <2>3. \A d \in Clients : Idle(books'[d])
    BY <1>0, <2>1 DEF TypeOK, WithoutOrder, Idle, Nodes, Quiet
  <2>4. QED
    BY <2>1, <2>2, <2>3, CallStays, SentStays
<1>4. ASSUME NEW c \in Clients, NEW slot \in SyncSlots, NEW s \in Servers,
             StartSync(c, slot, s)
      PROVE  CallOfSubmission' /\ BroadcastsRemainder'
  <2> DEFINE r == [client |-> c, payload |-> GetOrderbook(slot), retryCount |-> 0,
                   awaiting |-> TRUE]
  <2>1. requests' = requests \cup {r} /\ UNCHANGED <<books, submission>>
    BY <1>4 DEF StartSync, NewRequest
  <2>2. ~IsSubmit(r)
    BY DEF IsSubmit, GetOrderbook
  <2> HIDE DEF r
  <2>3. QED
    BY <2>1, <2>2, CallStays, SentStays
<1>5. ASSUME NEW r \in requests, NEW s \in Servers, Retry(r, s)
      PROVE  CallOfSubmission' /\ BroadcastsRemainder'
  <2> DEFINE q == [r EXCEPT !.awaiting = TRUE]
  <2>1. /\ requests' = (requests \ {r}) \cup {q} /\ UNCHANGED <<books, submission>>
    BY <1>5 DEF Retry
  <2>2. q.client = r.client /\ q.payload = r.payload
    BY <1>0 DEF TypeOK, Request
  <2> HIDE DEF q
  <2>3. QED
    BY <2>1, <2>2, CallStays, SentStays
<1>6. ASSUME NEW r \in requests, AttemptFails(r)
      PROVE  CallOfSubmission' /\ BroadcastsRemainder'
  <2>1. Quiet /\ RetryOrGiveUp(r) /\ UNCHANGED books
    BY <1>6 DEF AttemptFails
  <2>2. CallOfSubmission'
    BY <2>1 DEF CallOfSubmission, Quiet, Nodes
  <2>3. QED
    BY <2>1, <2>2, RetryOrGiveUpRemainder
<1>7. ASSUME NEW r \in requests, ReceiveAnswer(r)
      PROVE  CallOfSubmission' /\ BroadcastsRemainder'
  <2>1. PICK a \in answers :
          /\ RetryOrGiveUp(r) \/ Over(r)
          /\ books' = IF a.status = "state"
                        THEN [books EXCEPT ![r.client] = InstallState(@, a.state)]
                        ELSE books
    BY <1>7 DEF ReceiveAnswer
  <2>2. Quiet
    BY <1>7 DEF ReceiveAnswer
  <2>3. Idle(InstallState(books[r.client], a.state))
    BY DEF InstallState, BookOf, Idle
  <2>4. \A c \in Clients : Idle(books'[c])
    BY <1>0, <2>1, <2>2, <2>3 DEF TypeOK, Quiet, Nodes
  <2>5. CallOfSubmission'
    BY <2>4 DEF CallOfSubmission
  <2>6. QED
    BY <2>1, <2>2, <2>5, RetryOrGiveUpRemainder
<1>8. ASSUME UNCHANGED <<requests, submission>>,
             \A c \in Clients : books'[c] = books[c]
      PROVE  CallOfSubmission' /\ BroadcastsRemainder'
  BY <1>8, CallStays, SentStays
<1>9. ASSUME NEW k \in calls, HandleSubmit(k) \/ HandleCancel(k) \/ HandleGetOrderbook(k)
      PROVE  CallOfSubmission' /\ BroadcastsRemainder'
  <2>1. k.server \in Servers
    BY <1>0 DEF TypeOK, Attempt
  <2>2. UNCHANGED <<requests, submission>>
    BY <1>9 DEF HandleSubmit, HandleCancel, HandleGetOrderbook
  <2>3. books' = books \/ \E b : books' = [books EXCEPT ![k.server] = b]
    BY <1>9, Zenon DEF HandleSubmit, HandleCancel, HandleGetOrderbook
  <2>4. \A c \in Clients : books'[c] = books[c]
    BY <1>0, <2>1, <2>3, ServersBook
  <2>5. QED
    BY <1>8, <2>2, <2>4
<1>10. ASSUME NEW s \in Servers, AnswerSubmit(s)
       PROVE  CallOfSubmission' /\ BroadcastsRemainder'
  <2>1. \A c \in Clients : books'[c] = books[c]
    BY <1>0, <1>10, ServersBook DEF AnswerSubmit
  <2>2. QED
    BY <1>8, <1>10, <2>1 DEF AnswerSubmit
<1>11. ASSUME NEW s \in Restarting, Restart(s)
       PROVE  CallOfSubmission' /\ BroadcastsRemainder'
  <2>1. \A c \in Clients : books'[c] = books[c]
    BY <1>0, <1>11, NodesAssumption, ServersBook DEF Restart
  <2>2. QED
    BY <1>8, <1>11, <2>1 DEF Restart
<1>12. CASE UNCHANGED vars
  BY <1>8, <1>12 DEF vars
<1>13. QED
  BY <1>1, <1>2, <1>3, <1>4, <1>5, <1>6, <1>7, <1>9, <1>10, <1>11, <1>12,
     AcquireMutexRemainder, BroadcastRemainder, Zenon DEF Next

\* What a client sends of an order, through all its retries, is what its own
\* matching left of it: with what it matched, it is the whole order.
THEOREM RemainderIsSent == Spec => []BroadcastsRemainder
<1>1. Init => CallOfSubmission /\ BroadcastsRemainder
  BY DEF Init, CallOfSubmission, BroadcastsRemainder, Idle, EmptyBook, Nodes
<1>2. QED
  BY <1>1, InitAlone, NextAlone, NextRemainder, InvariantHolds, PTL DEF Spec
=============================================================================
