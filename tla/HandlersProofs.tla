--------------------------- MODULE HandlersProofs ---------------------------
(***************************************************************************)
(* What holds of a server for every set of requests, in every order,       *)
(* states of no legal book among them.                                     *)
(*                                                                         *)
(* The inductive invariant is TypeOK with MutexPassedOn: the operations on *)
(* arrays keep their types whatever the arrays hold, and a handler that    *)
(* returns at once finds the mutex free and leaves it free.  From it the   *)
(* two action properties follow step by step: a legal book stays legal by  *)
(* the lemmas of BookArraysProofs, and an error comes before a change or   *)
(* after the removal of a filled order.                                    *)
(***************************************************************************)
EXTENDS Handlers, BookArraysProofs

\* TypeOK without the arrays.
ServiceTyped ==
  /\ plain \in BOOLEAN
  /\ queue \in Seq(Rids)
  /\ holder \in Rids \cup {Free}
  /\ status \in [Rids -> {"unsent", "waiting", "running"} \cup Replies]

\* Who holds the mutex while addOrder runs is a submission.
HolderSubmits == holder # Free => Payloads[holder].action = "SUBMIT_ORDER"

IInv == TypeOK /\ MutexPassedOn /\ HolderSubmits

\* TypeOK is the types of the arrays and of the rest.
LEMMA TypesInTwo ==
  /\ TypeOK <=> ArraysTyped /\ ServiceTyped
  /\ (TypeOK)' <=> ArraysTyped' /\ ServiceTyped'
BY DEF TypeOK, ArraysTyped, CallTyped, ServiceTyped

-----------------------------------------------------------------------------
(* What the payloads bring.                                                *)

\* Data that is valid makes an order.
LEMMA FromObjectType ==
  ASSUME NEW d \in OrderData, IsValidOrderData(d)
  PROVE  LET o == FromObject(d)
         IN o \in Order /\ ValidInputs(o) /\ o.amount = d.amount
<1> DEFINE a == IF d.originalAmount = 0 THEN d.amount ELSE d.originalAmount
           st == IF d.status = "none" THEN "open" ELSE d.status
           o == [d EXCEPT !.originalAmount = a, !.status = st]
<1>1. FromObject(d) = o
  BY DEF FromObject, NewOrder
<1>2. /\ d.id \in Nat /\ d.type \in OrderType /\ d.price \in Nat \ {0} /\ d.amount \in Nat
      /\ d.originalAmount \in Nat /\ d.timestamp \in Nat
      /\ d.status \in OrderStatus \cup {"none"}
  BY DEF OrderData, IsValidOrderData
<1>3. a \in Nat \ {0}
  BY <1>2 DEF IsValidOrderData
<1>4. st \in OrderStatus /\ (st # "filled" => d.amount > 0)
  BY <1>2 DEF IsValidOrderData, OrderStatus
<1> HIDE DEF a, st
<1>5. o.price = d.price /\ o.amount = d.amount /\ o.status = st
  BY DEF OrderData
<1>6. o \in Order
  BY <1>2, <1>3, <1>4 DEF OrderData, Order
<1> HIDE DEF o
<1>7. ValidInputs(o)
  BY <1>2, <1>4, <1>5 DEF ValidInputs
<1>8. QED
  BY <1>1, <1>5, <1>6, <1>7

\* What is left of a list are orders.
LEMMA SafelyMapType ==
  ASSUME NEW list \in Seq(OrderData)
  PROVE  SafelyMap(list) \in Seq(Order)
<1> DEFINE P == {i \in DOMAIN list : IsValidOrderData(list[i])}
           R == {p \in P \X P : p[1] < p[2]}
           line == Ranked(P, R)
           n == Cardinality(P)
<1>1. DOMAIN list = 1..Len(list) /\ Len(list) \in Nat
  OBVIOUS
<1>2. IsFiniteSet(P) /\ P \subseteq Nat
  <2>1. IsFiniteSet(1..Len(list))
    BY <1>1, FS_Interval
  <2>2. QED
    BY <1>1, <2>1, FS_Subset
<1>3. \A i \in P : FromObject(list[i]) \in Order
  BY FromObjectType
<1>4. SafelyMap(list) = [k \in 1..n |-> FromObject(list[line[k]])]
  BY DEF SafelyMap
<1> HIDE DEF P
<1>5. \A i, j \in P : <<i, j>> \in R <=> i < j
  OBVIOUS
<1>6. LinesUp(R, P)
  <2> HIDE DEF R
  <2>1. QED
    BY <1>2, <1>5 DEF LinesUp
<1> HIDE DEF R
<1>7. n \in Nat /\ line \in [1..n -> P]
  BY <1>2, <1>6, RankedLine
<1> HIDE DEF line, n
<1>8. QED
  BY <1>3, <1>4, <1>7

\* An order that a handler accepts.
LEMMA SubmittedOrder ==
  ASSUME NEW rid \in Rids, Payloads[rid].action = "SUBMIT_ORDER",
         Payloads[rid].data # NoData, IsValidOrderData(Payloads[rid].data)
  PROVE  LET o == FromObject(Payloads[rid].data)
         IN o \in Order /\ ValidInputs(o) /\ o.amount = Payloads[rid].data.amount
<1>1. Payloads[rid] # Malformed
  BY DEF Malformed
<1>2. Payloads[rid].data \in OrderData
  BY <1>1, PayloadsAssumption DEF DataOf
<1>3. QED
  BY <1>2, FromObjectType

\* A state that a handler accepts.
LEMMA SyncedState ==
  ASSUME NEW rid \in Rids, Payloads[rid].action = "SYNC_ORDERBOOK",
         Payloads[rid].data # NoData
  PROVE  LET s == MappedState(Payloads[rid].data)
         IN s.buyOrders \in Seq(Order) /\ s.sellOrders \in Seq(Order) /\ s.matches \in Seq(Match)
<1> DEFINE d == Payloads[rid].data
<1>1. Payloads[rid] # Malformed
  BY DEF Malformed
<1>2. d \in StateData
  BY <1>1, PayloadsAssumption DEF DataOf
<1>3. d.buyOrders \in Seq(OrderData) /\ d.sellOrders \in Seq(OrderData) /\ d.matches \in Seq(Match)
  BY <1>2 DEF StateData
<1> HIDE DEF d
<1>4. SafelyMap(d.buyOrders) \in Seq(Order) /\ SafelyMap(d.sellOrders) \in Seq(Order)
  BY <1>3, SafelyMapType
<1>5. QED
  BY <1>3, <1>4 DEF MappedState, d

-----------------------------------------------------------------------------
(* The types.                                                              *)

\* Turn takes a request of Rids off the queue.
LEMMA TurnTakes ==
  ASSUME TypeOK, NEW rid, NEW action, Turn(rid, action)
  PROVE  /\ ~Called /\ rid \in Rids /\ Payloads[rid].action = action
         /\ queue' \in Seq(Rids)
BY DEF Turn, TypeOK

\* Answering keeps the type of the answers.
LEMMA ReplyType ==
  ASSUME TypeOK, NEW rid, NEW s \in {"waiting", "running"} \cup Replies, Reply(rid, s)
  PROVE  status' \in [Rids -> {"unsent", "waiting", "running"} \cup Replies]
BY DEF TypeOK, Reply

\* A step that leaves the book alone.
LEMMA SameTypes == ArraysTyped /\ UNCHANGED bookVars => ArraysTyped'
BY DEF ArraysTyped, Called, bookVars

\* Every step of a server keeps the types.
LEMMA NextTypes == TypeOK /\ [Next]_vars => TypeOK'
<1> SUFFICES ASSUME TypeOK, [Next]_vars PROVE ArraysTyped' /\ ServiceTyped'
  BY TypesInTwo
<1>0. ArraysTyped /\ ServiceTyped
  BY TypesInTwo
<1>1. ASSUME NEW rid \in Rids, Arrive(rid) PROVE ArraysTyped' /\ ServiceTyped'
  <2>1. UNCHANGED bookVars /\ plain' = plain /\ holder' = holder
    BY <1>1 DEF Arrive
  <2>2. /\ \E s \in {"waiting", "running"} \cup Replies : Reply(rid, s)
        /\ queue' = queue \/ queue' = Append(queue, rid)
    BY <1>1, Zenon DEF Arrive, Replies, ReadReply
  <2>3. queue' \in Seq(Rids)
    BY <1>0, <2>2 DEF ServiceTyped
  <2>4. QED
    BY <1>0, <2>1, <2>2, <2>3, ReplyType, SameTypes DEF ServiceTyped
<1>2. ASSUME NEW rid \in Rids, HandleSubmit(rid) PROVE ArraysTyped' /\ ServiceTyped'
  <2> DEFINE p == Payloads[rid].data
             o == FromObject(p)
  <2>1. /\ Payloads[rid].action = "SUBMIT_ORDER" /\ queue' \in Seq(Rids) /\ plain' = plain
    BY <1>2, TurnTakes DEF HandleSubmit
  <2>2. CASE /\ p # NoData /\ IsValidOrderData(p)
             /\ Reply(rid, "running") /\ holder' = rid /\ AddOrder(o)
    <3>1. o \in Order
      BY <2>1, <2>2, SubmittedOrder
    <3>2. ArraysTyped'
      BY <1>0, <2>2, <3>1, AddOrderTypes
    <3>3. QED
      BY <1>0, <2>1, <2>2, <3>2, ReplyType DEF ServiceTyped
  <2>3. CASE /\ \E s \in Replies : Reply(rid, s)
             /\ UNCHANGED <<bookVars, holder>>
    BY <1>0, <2>1, <2>3, ReplyType, SameTypes DEF ServiceTyped
  <2>4. QED
    BY <1>2, <2>2, <2>3, Zenon DEF HandleSubmit, Replies
<1>3. ASSUME NEW rid \in Rids, HandleSync(rid) PROVE ArraysTyped' /\ ServiceTyped'
  <2> DEFINE s == Payloads[rid].data
  <2>1. /\ Payloads[rid].action = "SYNC_ORDERBOOK" /\ queue' \in Seq(Rids) /\ holder' = holder
    BY <1>3, TurnTakes DEF HandleSync
  <2>2. CASE s = NoData
    <3>1. Reply(rid, "invalid") /\ UNCHANGED bookVars /\ plain' = plain
      BY <1>3, <2>2 DEF HandleSync, IsValidState
    <3>2. QED
      BY <1>0, <2>1, <3>1, ReplyType, SameTypes DEF ServiceTyped, Replies
  <2>3. CASE s # NoData
    <3>1. Reply(rid, "success") /\ SetState(MappedState(s)) /\ plain' \in BOOLEAN
      BY <1>3, <2>3 DEF HandleSync, IsValidState
    <3>2. ArraysTyped'
      BY <2>1, <2>3, <3>1, SyncedState, SetStateTypes
    <3>3. QED
      BY <1>0, <2>1, <3>1, <3>2, ReplyType DEF ServiceTyped, Replies
  <2>4. QED
    BY <2>2, <2>3
<1>4. ASSUME NEW rid \in Rids, HandleAnnounce(rid) PROVE ArraysTyped' /\ ServiceTyped'
  <2>1. queue' \in Seq(Rids) /\ UNCHANGED bookVars /\ plain' = plain /\ holder' = holder
    BY <1>4, TurnTakes DEF HandleAnnounce
  <2>2. \E s \in Replies : Reply(rid, s)
    BY <1>4, Zenon DEF HandleAnnounce, Replies
  <2>3. QED
    BY <1>0, <2>1, <2>2, ReplyType, SameTypes DEF ServiceTyped
<1>5. ASSUME NEW rid \in Rids, HandleCancel(rid) PROVE ArraysTyped' /\ ServiceTyped'
  <2>1. queue' \in Seq(Rids) /\ plain' = plain /\ holder' = holder
    BY <1>5, TurnTakes DEF HandleCancel
  <2>2. /\ \E s \in Replies : Reply(rid, s)
        /\ UNCHANGED bookVars \/ \E id : CancelOrder(id)
    BY <1>5, Zenon DEF HandleCancel, Replies
  <2>3. ArraysTyped'
    BY <1>0, <2>2, SameTypes, CancelTakes
  <2>4. QED
    BY <1>0, <2>1, <2>2, <2>3, ReplyType DEF ServiceTyped
<1>6. CASE Round
  BY <1>0, <1>6, MatchNextTypes DEF Round, ServiceTyped
<1>7. CASE SubmitReturns
  <2>1. ArraysTyped' /\ Reply(holder, "success") /\ holder' = Free /\ plain' = plain /\ queue' = queue
    BY <1>0, <1>7, ReturnTypes DEF SubmitReturns
  <2>2. QED
    BY <1>0, <2>1, ReplyType DEF ServiceTyped, Replies
<1>8. CASE UNCHANGED vars
  BY <1>0, <1>8, SameTypes DEF vars, ServiceTyped
<1>9. QED
  BY <1>1, <1>2, <1>3, <1>4, <1>5, <1>6, <1>7, <1>8 DEF Next

\* The server starts with an empty book.
LEMMA InitTypes == Init => TypeOK
<1> SUFFICES ASSUME Init PROVE ArraysTyped /\ ServiceTyped
  BY TypesInTwo
<1>1. ArraysTyped
  BY DEF Init, EmptyArrays, ArraysTyped, Called
<1>2. plain \in BOOLEAN /\ holder \in Rids \cup {Free}
  BY Zenon DEF Init
<1>3. queue \in Seq(Rids)
  BY DEF Init
<1>4. status \in [Rids -> {"unsent", "waiting", "running"} \cup Replies]
  BY DEF Init
<1>5. QED
  BY <1>1, <1>2, <1>3, <1>4, Zenon DEF ServiceTyped

\* The state of a server keeps its types, whatever it is sent.
THEOREM ServerTypes == Spec => []TypeOK
BY InitTypes, NextTypes, PTL DEF Spec

-----------------------------------------------------------------------------
(* The mutex and the queue for it.                                         *)

\* Whoever joins the queue of others is in it once.
LEMMA JoinsOnce ==
  ASSUME NEW q \in Seq(Rids), \A i, j \in DOMAIN q : q[i] = q[j] => i = j,
         NEW rid \in Rids, rid \notin ToSet(q)
  PROVE  LET r == Append(q, rid)
         IN /\ ToSet(r) = ToSet(q) \cup {rid}
            /\ \A i, j \in DOMAIN r : r[i] = r[j] => i = j
<1> DEFINE r == Append(q, rid)
           n == Len(q)
<1>1. /\ n \in Nat /\ DOMAIN q = 1..n /\ DOMAIN r = 1..(n + 1)
      /\ \A i \in 1..n : r[i] = q[i]
      /\ r[n + 1] = rid
  OBVIOUS
<1> HIDE DEF r, n
<1>2. \A i \in 1..(n + 1) : i \in 1..n \/ i = n + 1
  BY <1>1
<1>3. \A i \in 1..n : q[i] # rid /\ i \in 1..(n + 1)
  BY <1>1 DEF ToSet
<1>4. ToSet(r) = ToSet(q) \cup {rid}
  <2>1. n + 1 \in 1..(n + 1)
    BY <1>1
  <2>2. QED
    BY <1>1, <1>2, <1>3, <2>1 DEF ToSet
<1>5. \A i, j \in DOMAIN r : r[i] = r[j] => i = j
  BY <1>1, <1>2, <1>3
<1>6. QED
  BY <1>4, <1>5 DEF r

\* The first who leaves it is not in it any more; the others are.
LEMMA LeavesOnce ==
  ASSUME NEW q \in Seq(Rids), \A i, j \in DOMAIN q : q[i] = q[j] => i = j, q # <<>>
  PROVE  /\ Head(q) \in ToSet(q)
         /\ ToSet(Tail(q)) = ToSet(q) \ {Head(q)}
         /\ \A i, j \in DOMAIN Tail(q) : Tail(q)[i] = Tail(q)[j] => i = j
<1> DEFINE r == Tail(q)
           n == Len(r)
           h == Head(q)
<1>1. /\ n \in Nat /\ DOMAIN r = 1..n /\ DOMAIN q = 1..(n + 1)
      /\ \A i \in 1..n : r[i] = q[i + 1]
      /\ q[1] = h
  OBVIOUS
<1> HIDE DEF r, n, h
<1>2. \A i \in 1..(n + 1) : i = 1 \/ (i - 1 \in 1..n /\ (i - 1) + 1 = i)
  BY <1>1
<1>3. \A i \in 1..n : i + 1 \in 1..(n + 1) /\ i + 1 # 1
  BY <1>1
<1>4. 1 \in 1..(n + 1)
  BY <1>1
<1>5. \A i, j \in 1..n : r[i] = r[j] => i = j
  <2> SUFFICES ASSUME NEW i \in 1..n, NEW j \in 1..n, r[i] = r[j] PROVE i = j
    OBVIOUS
  <2>1. i + 1 = j + 1
    BY <1>1, <1>3
  <2>2. QED
    BY <1>1, <2>1
<1>6. \A i \in 1..n : r[i] # h /\ r[i] \in ToSet(q)
  BY <1>1, <1>3, <1>4 DEF ToSet
<1>7. ASSUME NEW x \in ToSet(q), x # h PROVE x \in ToSet(r)
  <2>1. PICK i \in 1..(n + 1) : q[i] = x
    BY <1>1 DEF ToSet
  <2>2. i - 1 \in 1..n /\ r[i - 1] = x
    BY <1>1, <1>2, <1>7, <2>1
  <2>3. QED
    BY <1>1, <2>2 DEF ToSet
<1>8. h \in ToSet(q)
  BY <1>1, <1>4 DEF ToSet
<1>9. ToSet(r) = ToSet(q) \ {h}
  <2>1. \A x \in ToSet(r) : \E i \in 1..n : r[i] = x
    BY <1>1 DEF ToSet
  <2>2. QED
    BY <1>6, <1>7, <2>1
<1>10. QED
  BY <1>1, <1>5, <1>8, <1>9 DEF r, h

\* A handler that has had its turn and answers at once.
LEMMA AnswersAtOnce ==
  ASSUME TypeOK, MutexPassedOn, NEW rid \in Rids, NEW action, Turn(rid, action),
         NEW s \in Replies, Reply(rid, s), UNCHANGED holder, ~Called'
  PROVE  MutexPassedOn'
<1>1. /\ queue \in Seq(Rids) /\ queue # <<>> /\ rid = Head(queue) /\ queue' = Tail(queue)
      /\ holder = Free /\ holder' = Free
      /\ \A i, j \in DOMAIN queue : queue[i] = queue[j] => i = j
  BY DEF TypeOK, Turn, MutexPassedOn
<1>2. /\ ToSet(queue') = ToSet(queue) \ {rid}
      /\ \A i, j \in DOMAIN queue' : queue'[i] = queue'[j] => i = j
  BY <1>1, LeavesOnce
<1>3. status'[rid] = s /\ s \notin {"running", "waiting"}
      /\ \A q \in Rids \ {rid} : status'[q] = status[q]
  BY DEF Reply, TypeOK, Replies
<1>4. \A q \in Rids : /\ status'[q] = "running" <=> q = holder'
                      /\ status'[q] = "waiting" <=> q \in ToSet(queue')
  BY <1>1, <1>2, <1>3, FreeAssumption DEF MutexPassedOn
<1>5. holder' = Free /\ ~Called'
  BY <1>1
<1>6. QED
  BY <1>2, <1>4, <1>5 DEF MutexPassedOn

\* The steps that touch neither the mutex nor who waits.
LEMMA StaysPassedOn ==
  ASSUME MutexPassedOn, UNCHANGED <<queue, holder, status>>,
         Called' <=> Called
  PROVE  MutexPassedOn'
BY DEF MutexPassedOn

\* Every step keeps the mutex and the queue in order.
LEMMA NextPassedOn == TypeOK /\ MutexPassedOn /\ [Next]_vars => MutexPassedOn'
<1> SUFFICES ASSUME TypeOK, MutexPassedOn, [Next]_vars PROVE MutexPassedOn'
  OBVIOUS
<1>0. TypeOK /\ ArraysTyped
  BY TypesInTwo
<1>10. UNCHANGED bookVars => (Called' <=> Called)
  BY DEF bookVars, Called
<1>1. ASSUME NEW rid \in Rids, Arrive(rid) PROVE MutexPassedOn'
  <2>1. /\ ~Called /\ ~Called' /\ holder' = holder /\ status[rid] = "unsent"
        /\ holder = Free /\ queue \in Seq(Rids) /\ rid \notin ToSet(queue)
        /\ \A i, j \in DOMAIN queue : queue[i] = queue[j] => i = j
    BY <1>0, <1>1, <1>10 DEF Arrive, MutexPassedOn, TypeOK
  <2>2. CASE /\ \E s \in Replies : Reply(rid, s)
             /\ queue' = queue
    <3>1. PICK s \in Replies : status' = [status EXCEPT ![rid] = s]
      BY <2>2 DEF Reply
    <3>2. /\ status'[rid] \notin {"running", "waiting"}
          /\ \A q \in Rids \ {rid} : status'[q] = status[q]
      BY <1>0, <3>1 DEF TypeOK, Replies
    <3>3. \A q \in Rids : /\ status'[q] = "running" <=> q = holder'
                          /\ status'[q] = "waiting" <=> q \in ToSet(queue')
      BY <2>1, <2>2, <3>2, FreeAssumption DEF MutexPassedOn
    <3>4. QED
      BY <2>1, <2>2, <3>3 DEF MutexPassedOn
  <2>3. CASE Reply(rid, "waiting") /\ queue' = Append(queue, rid)
    <3>1. /\ ToSet(queue') = ToSet(queue) \cup {rid}
          /\ \A i, j \in DOMAIN queue' : queue'[i] = queue'[j] => i = j
      BY <2>1, <2>3, JoinsOnce
    <3>2. /\ status'[rid] = "waiting"
          /\ \A q \in Rids \ {rid} : status'[q] = status[q]
      BY <1>0, <2>3 DEF Reply, TypeOK
    <3>3. \A q \in Rids : /\ status'[q] = "running" <=> q = holder'
                          /\ status'[q] = "waiting" <=> q \in ToSet(queue')
      BY <2>1, <3>1, <3>2, FreeAssumption DEF MutexPassedOn
    <3>4. QED
      BY <2>1, <3>1, <3>3 DEF MutexPassedOn
  <2>4. QED
    BY <1>1, <2>2, <2>3, Zenon DEF Arrive, Replies, ReadReply
<1>2. ASSUME NEW rid \in Rids, HandleSubmit(rid) PROVE MutexPassedOn'
  <2> DEFINE o == FromObject(Payloads[rid].data)
  <2>1. Turn(rid, "SUBMIT_ORDER") /\ ~Called
    BY <1>2 DEF HandleSubmit, Turn
  <2>2. CASE (\E s \in Replies : Reply(rid, s)) /\ UNCHANGED <<bookVars, holder>>
    <3>1. ~Called' /\ UNCHANGED holder
      BY <1>10, <2>1, <2>2
    <3>2. QED
      BY <1>0, <2>1, <2>2, <3>1, AnswersAtOnce
  <2>3. CASE Reply(rid, "running") /\ holder' = rid /\ AddOrder(o)
    <3>1. /\ queue \in Seq(Rids) /\ queue # <<>> /\ rid = Head(queue)
          /\ queue' = Tail(queue) /\ holder = Free
          /\ \A i, j \in DOMAIN queue : queue[i] = queue[j] => i = j
      BY <1>0, <2>1 DEF TypeOK, Turn, MutexPassedOn
    <3>2. /\ ToSet(queue') = ToSet(queue) \ {rid}
          /\ \A i, j \in DOMAIN queue' : queue'[i] = queue'[j] => i = j
      BY <3>1, LeavesOnce
    <3>3. status'[rid] = "running" /\ \A q \in Rids \ {rid} : status'[q] = status[q]
      BY <1>0, <2>3 DEF Reply, TypeOK
    <3>4. \A q \in Rids : /\ status'[q] = "running" <=> q = holder'
                          /\ status'[q] = "waiting" <=> q \in ToSet(queue')
      BY <2>3, <3>1, <3>2, <3>3, FreeAssumption DEF MutexPassedOn
    <3>5. Called' /\ holder' # Free
      <4>1. "round" \in DOMAIN call' /\ "round" \notin DOMAIN NotCalled
        BY <2>3 DEF AddOrder, NotCalled
      <4>2. QED
        BY <2>3, <4>1, FreeAssumption DEF Called
    <3>6. QED
      BY <3>2, <3>4, <3>5 DEF MutexPassedOn
  <2>4. QED
    BY <1>2, <2>2, <2>3, Zenon DEF HandleSubmit, Replies
<1>3. ASSUME NEW rid \in Rids, HandleSync(rid) PROVE MutexPassedOn'
  <2>1. Turn(rid, "SYNC_ORDERBOOK") /\ ~Called /\ UNCHANGED holder
    BY <1>3 DEF HandleSync, Turn
  <2>2. /\ \E s \in Replies : Reply(rid, s)
        /\ UNCHANGED bookVars \/ \E s : SetState(s)
    BY <1>3, Zenon DEF HandleSync, Replies
  <2>3. ~Called'
    BY <1>10, <2>1, <2>2 DEF SetState, Called
  <2>4. QED
    BY <1>0, <2>1, <2>2, <2>3, AnswersAtOnce
<1>4. ASSUME NEW rid \in Rids, HandleAnnounce(rid) PROVE MutexPassedOn'
  <2>1. /\ Turn(rid, "ANNOUNCE_MATCH") /\ ~Called /\ UNCHANGED holder
        /\ UNCHANGED bookVars
        /\ \E s \in Replies : Reply(rid, s)
    BY <1>4, Zenon DEF HandleAnnounce, Turn, Replies
  <2>2. QED
    BY <1>0, <1>10, <2>1, AnswersAtOnce
<1>5. ASSUME NEW rid \in Rids, HandleCancel(rid) PROVE MutexPassedOn'
  <2>1. /\ Turn(rid, "CANCEL_ORDER") /\ ~Called /\ UNCHANGED holder
        /\ \E s \in Replies : Reply(rid, s)
        /\ UNCHANGED bookVars \/ \E id : CancelOrder(id)
    BY <1>5, Zenon DEF HandleCancel, Turn, Replies
  <2>2. ~Called'
    BY <1>10, <2>1 DEF CancelOrder, Called
  <2>3. QED
    BY <1>0, <2>1, <2>2, AnswersAtOnce
<1>6. CASE Round
  <2>1. Called /\ Called' /\ UNCHANGED <<queue, holder, status>>
    BY <1>0, <1>6, MatchNextTypes DEF Round
  <2>2. QED
    BY <2>1, StaysPassedOn
<1>7. CASE SubmitReturns
  <2>1. /\ Called /\ ~Called' /\ holder' = Free
        /\ Reply(holder, "success") /\ queue' = queue
    BY <1>0, <1>7, ReturnTypes DEF SubmitReturns
  <2>2. holder \in Rids
    BY <1>0, <2>1 DEF TypeOK, MutexPassedOn
  <2>3. /\ status'[holder] = "success" /\ status[holder] = "running"
        /\ \A q \in Rids \ {holder} : status'[q] = status[q]
    BY <1>0, <2>1, <2>2 DEF Reply, TypeOK, MutexPassedOn
  <2>4. \A q \in Rids : /\ status'[q] = "running" <=> q = holder'
                        /\ status'[q] = "waiting" <=> q \in ToSet(queue')
    BY <2>1, <2>2, <2>3, FreeAssumption DEF MutexPassedOn
  <2>5. QED
    BY <2>1, <2>4 DEF MutexPassedOn
<1>8. CASE UNCHANGED vars
  BY <1>8, <1>10, StaysPassedOn DEF vars
<1>9. QED
  BY <1>1, <1>2, <1>3, <1>4, <1>5, <1>6, <1>7, <1>8 DEF Next

\* The mutex is free, or held by a submission.
LEMMA NextHolder == TypeOK /\ HolderSubmits /\ [Next]_vars => HolderSubmits'
<1> SUFFICES ASSUME TypeOK, HolderSubmits, [Next]_vars PROVE HolderSubmits'
  OBVIOUS
<1>1. \/ holder' = holder \/ holder' = Free
      \/ \E rid \in Rids : Turn(rid, "SUBMIT_ORDER") /\ holder' = rid
  BY Zenon DEF Next, Arrive, HandleSubmit, HandleSync, HandleAnnounce, HandleCancel, Round,
     SubmitReturns, vars
<1>2. QED
  BY <1>1 DEF HolderSubmits, Turn

\* The invariant holds in every reachable state.
THEOREM ServerInvariant == Spec => []IInv
<1>1. Init => MutexPassedOn /\ HolderSubmits
  <2> SUFFICES ASSUME Init PROVE MutexPassedOn /\ HolderSubmits
    OBVIOUS
  <2>1. ~Called /\ holder = Free /\ queue = <<>>
    BY DEF Init, EmptyArrays, Called
  <2>2. \A rid \in Rids : status[rid] = "unsent"
    BY DEF Init
  <2>3. QED
    BY <2>1, <2>2, FreeAssumption DEF MutexPassedOn, HolderSubmits, ToSet
<1>2. QED
  BY <1>1, InitTypes, NextTypes, NextPassedOn, NextHolder, PTL DEF Spec, IInv

\* The mutex comes back from every handler, and no request is lost for it.
THEOREM MutexComesBack == Spec => []MutexPassedOn
<1>1. IInv => MutexPassedOn
  BY DEF IInv
<1>2. QED
  BY <1>1, ServerInvariant, PTL

-----------------------------------------------------------------------------
(* What a step takes on, and what it loses.                                *)

\* An answer is to the request that is served; no other is answered by the way.
LEMMA OneAnswer ==
  ASSUME TypeOK, NEW r, NEW s, Reply(r, s), NEW rid \in Rids, status'[rid] # status[rid]
  PROVE  rid = r /\ status'[rid] = s
BY DEF TypeOK, Reply

\* Whoever has its turn was waiting.
LEMMA TurnWaited ==
  ASSUME IInv, NEW rid \in Rids, NEW action, Turn(rid, action), NEW s, s # "waiting",
         Reply(rid, s)
  PROVE  status'[rid] # status[rid] /\ status'[rid] = s
<1>1. TypeOK /\ MutexPassedOn
  BY DEF IInv
<1>2. queue \in Seq(Rids) /\ queue # <<>> /\ rid = Head(queue)
      /\ \A i, j \in DOMAIN queue : queue[i] = queue[j] => i = j
  BY <1>1 DEF TypeOK, Turn, MutexPassedOn
<1>3. rid \in ToSet(queue)
  BY <1>2, LeavesOnce
<1>4. status[rid] = "waiting"
  BY <1>1, <1>3 DEF MutexPassedOn
<1>5. status'[rid] = s
  BY <1>1 DEF Reply, TypeOK
<1>6. QED
  BY <1>4, <1>5

\* The legal books of the server are those of BookArraysProofs.
LEMMA LegalInTwo ==
  /\ ArraysTyped /\ ServerBookLegal => ArraysLegal
  /\ ArraysLegal' => ServerBookLegal'
BY DEF ArraysTyped, ServerBookLegal, ArraysLegal, LocalsOK

\* A step that leaves the book alone leaves it legal.
LEMMA SameLegal == ServerBookLegal /\ UNCHANGED bookVars => ServerBookLegal'
BY DEF ServerBookLegal, ArraysSorted, TheBook, Called, bookVars

\* A legal book stays legal, but for what a request brings.
LEMMA LegalStep ==
  ASSUME IInv, Next, ServerBookLegal
  PROVE  ServerBookLegal' \/ \E rid \in Rids : TakesOn(rid) /\ ~Lawful(Payloads[rid])
<1>0. TypeOK /\ ArraysTyped /\ ArraysLegal
  BY TypesInTwo, LegalInTwo DEF IInv
<1>1. ASSUME NEW rid \in Rids, Arrive(rid) \/ HandleAnnounce(rid) PROVE ServerBookLegal'
  BY <1>1, SameLegal DEF Arrive, HandleAnnounce
<1>2. ASSUME NEW rid \in Rids, HandleSubmit(rid), Lawful(Payloads[rid]) \/ ~TakesOn(rid)
      PROVE  ServerBookLegal'
  <2> DEFINE p == Payloads[rid].data
             o == FromObject(p)
  <2>1. Payloads[rid].action = "SUBMIT_ORDER" /\ Turn(rid, "SUBMIT_ORDER")
    BY <1>2 DEF HandleSubmit, Turn
  <2>2. CASE /\ p # NoData /\ IsValidOrderData(p)
             /\ Reply(rid, "running") /\ AddOrder(o)
    <3>1. o \in Order /\ ValidInputs(o) /\ o.amount = p.amount
      BY <2>1, <2>2, SubmittedOrder
    <3>2. TakesOn(rid)
      BY <2>1, <2>2, TurnWaited DEF TakesOn
    <3>3. o.amount <= o.originalAmount
      BY <1>2, <2>1, <3>1, <3>2 DEF Lawful
    <3> HIDE DEF o, p
    <3>4. QED
      BY <1>0, <2>2, <3>1, <3>3, AddOrderStep, LegalInTwo
  <2>3. CASE UNCHANGED bookVars
    BY <2>3, SameLegal
  <2>4. QED
    BY <1>2, <2>2, <2>3, Zenon DEF HandleSubmit
<1>3. ASSUME NEW rid \in Rids, HandleSync(rid), Lawful(Payloads[rid]) \/ ~TakesOn(rid)
      PROVE  ServerBookLegal'
  <2> DEFINE s == Payloads[rid].data
             t == MappedState(s)
  <2>1. Payloads[rid].action = "SYNC_ORDERBOOK" /\ Turn(rid, "SYNC_ORDERBOOK")
    BY <1>3 DEF HandleSync, Turn
  <2>2. CASE s # NoData /\ Reply(rid, "success") /\ SetState(t)
    <3>1. TakesOn(rid)
      BY <2>1, <2>2, TurnWaited DEF TakesOn
    <3>2. LegalState(t)
      BY <1>3, <2>1, <3>1 DEF Lawful
    <3>3. t.buyOrders \in Seq(Order) /\ t.sellOrders \in Seq(Order) /\ t.matches \in Seq(Match)
      BY <2>1, <2>2, SyncedState
    <3> HIDE DEF t
    <3>4. QED
      BY <2>2, <3>2, <3>3, SetStateStep, LegalInTwo
  <2>3. CASE UNCHANGED bookVars
    BY <2>3, SameLegal
  <2>4. QED
    BY <1>3, <2>2, <2>3, Zenon DEF HandleSync, IsValidState
<1>4. ASSUME NEW rid \in Rids, HandleCancel(rid) PROVE ServerBookLegal'
  <2>1. UNCHANGED bookVars \/ \E id : CancelOrder(id)
    BY <1>4, Zenon DEF HandleCancel
  <2>2. ASSUME NEW id, CancelOrder(id) PROVE ServerBookLegal'
    <3>1. CASE FindOrderById(id)
      BY <1>0, <2>2, <3>1, CancelStep, LegalInTwo
    <3>2. CASE ~FindOrderById(id)
      BY <1>0, <2>2, <3>2, CancelTakes, SameLegal
    <3>3. QED
      BY <3>1, <3>2
  <2>3. QED
    BY <2>1, <2>2, SameLegal
<1>5. CASE Round
  BY <1>0, <1>5, MatchNextStep, LegalInTwo DEF Round
<1>6. CASE SubmitReturns
  BY <1>0, <1>6, ReturnStep, LegalInTwo DEF SubmitReturns
<1>7. QED
  BY <1>1, <1>2, <1>3, <1>4, <1>5, <1>6, Zenon DEF Next

\* A lawful state makes the book legal.
LEMMA LawfulSync ==
  ASSUME IInv, Next, NEW rid \in Rids, TakesOn(rid),
         Payloads[rid].action = "SYNC_ORDERBOOK", Lawful(Payloads[rid])
  PROVE  ServerBookLegal'
<1> DEFINE s == Payloads[rid].data
           t == MappedState(s)
<1>0. TypeOK /\ status'[rid] # status[rid] /\ status'[rid] \in {"running", "success"}
  BY DEF IInv, TakesOn
<1>1. ASSUME NEW r \in Rids, Arrive(r) PROVE FALSE
  <2>1. \A x : Reply(r, x) => r = rid /\ x \in {"running", "success"}
    BY <1>0, OneAnswer
  <2>2. QED
    BY <1>1, <2>1 DEF Arrive
<1>2. ASSUME NEW r \in Rids, NEW action, Turn(r, action), NEW x, Reply(r, x)
      PROVE  r = rid /\ action = "SYNC_ORDERBOOK" /\ x \in {"running", "success"}
  BY <1>0, <1>2, OneAnswer DEF Turn
<1>3. ASSUME NEW r \in Rids, HandleSubmit(r) \/ HandleAnnounce(r) \/ HandleCancel(r) PROVE FALSE
  <2>1. \E action \in {"SUBMIT_ORDER", "ANNOUNCE_MATCH", "CANCEL_ORDER"} :
          Turn(r, action) /\ \E x : Reply(r, x)
    BY <1>3, Zenon DEF HandleSubmit, HandleAnnounce, HandleCancel
  <2>2. QED
    BY <1>2, <2>1
<1>4. ASSUME Round PROVE FALSE
  BY <1>0, <1>4 DEF Round
<1>5. ASSUME SubmitReturns PROVE FALSE
  <2>1. rid = holder
    BY <1>0, <1>5, OneAnswer DEF SubmitReturns
  <2>2. QED
    BY <2>1, FreeAssumption DEF IInv, HolderSubmits
<1>6. ASSUME NEW r \in Rids, HandleSync(r) PROVE ServerBookLegal'
  <2>1. r = rid /\ ~Reply(r, "invalid")
    <3>1. Turn(r, "SYNC_ORDERBOOK") /\ \E x : Reply(r, x)
      BY <1>6, Zenon DEF HandleSync
    <3>2. QED
      BY <1>2, <3>1
  <2>2. s # NoData /\ SetState(t)
    BY <1>6, <2>1 DEF HandleSync, IsValidState
  <2>3. LegalState(t)
    BY DEF Lawful
  <2>4. t.buyOrders \in Seq(Order) /\ t.sellOrders \in Seq(Order) /\ t.matches \in Seq(Match)
    BY <2>2, SyncedState
  <2> HIDE DEF t
  <2>5. QED
    BY <2>2, <2>3, <2>4, SetStateStep, LegalInTwo
<1>7. QED
  BY <1>1, <1>3, <1>4, <1>5, <1>6, Zenon DEF Next

\* Whatever requests reach a server, its book becomes illegal only by what one of
\* them brings in, and legal again by a lawful state.
THEOREM ServersStayLegal == Spec => IllegalOnlyFromPeers
<1>1. IInv /\ [Next]_vars =>
        [/\ ServerBookLegal =>
              ServerBookLegal' \/ \E rid \in Rids : TakesOn(rid) /\ ~Lawful(Payloads[rid])
         /\ \A rid \in Rids :
              TakesOn(rid) /\ Payloads[rid].action = "SYNC_ORDERBOOK" /\ Lawful(Payloads[rid])
                => ServerBookLegal']_vars
  BY LegalStep, LawfulSync
<1>2. QED
  BY <1>1, ServerInvariant, PTL DEF Spec, IllegalOnlyFromPeers

\* A request is answered with an error before its handler has changed anything,
\* or after a cancellation took out a filled order.
LEMMA ErrorStep ==
  ASSUME IInv, Next, NEW rid \in Rids, Fails(rid)
  PROVE  /\ UNCHANGED <<matches, call, plain>>
         /\ \/ UNCHANGED <<buyOrders, sellOrders>>
            \/ /\ Payloads[rid].action = "CANCEL_ORDER"
               /\ LET id == Payloads[rid].data.orderId
                  IN \/ LosesFilled(buyOrders, buyOrders', id) /\ UNCHANGED sellOrders
                     \/ LosesFilled(sellOrders, sellOrders', id) /\ UNCHANGED buyOrders
<1>0. /\ TypeOK /\ ArraysTyped
      /\ status'[rid] # status[rid] /\ status'[rid] \in {"invalid", "error"}
  BY TypesInTwo DEF IInv, Fails
<1>1. ASSUME UNCHANGED <<bookVars, plain>>
      PROVE  UNCHANGED <<matches, call, plain>> /\ UNCHANGED <<buyOrders, sellOrders>>
  BY <1>1 DEF bookVars
<1>2. ASSUME NEW r \in Rids, Arrive(r) \/ HandleAnnounce(r) PROVE UNCHANGED <<bookVars, plain>>
  BY <1>2 DEF Arrive, HandleAnnounce
<1>3. ASSUME NEW r \in Rids, HandleSubmit(r) PROVE UNCHANGED <<bookVars, plain>>
  <2>1. ~Reply(r, "running")
    BY <1>0, OneAnswer
  <2>2. QED
    BY <1>3, <2>1 DEF HandleSubmit
<1>4. ASSUME NEW r \in Rids, HandleSync(r) PROVE UNCHANGED <<bookVars, plain>>
  <2>1. ~Reply(r, "success")
    BY <1>0, OneAnswer
  <2>2. QED
    BY <1>4, <2>1 DEF HandleSync
<1>5. ASSUME Round PROVE FALSE
  BY <1>0, <1>5 DEF Round
<1>6. ASSUME SubmitReturns PROVE FALSE
  <2>1. ~Reply(holder, "success")
    BY <1>0, OneAnswer
  <2>2. QED
    BY <1>6, <2>1 DEF SubmitReturns
<1>7. ASSUME NEW r \in Rids, HandleCancel(r), ~UNCHANGED <<bookVars, plain>>
      PROVE  LET id == Payloads[rid].data.orderId
             IN /\ Payloads[rid].action = "CANCEL_ORDER"
                /\ UNCHANGED <<matches, call, plain>>
                /\ \/ LosesFilled(buyOrders, buyOrders', id) /\ UNCHANGED sellOrders
                   \/ LosesFilled(sellOrders, sellOrders', id) /\ UNCHANGED buyOrders
  <2> DEFINE id == Payloads[r].data.orderId
  <2>1. plain' = plain /\ Payloads[r].action = "CANCEL_ORDER"
    BY <1>7 DEF HandleCancel, Turn
  <2>2. \E x : Reply(r, x)
    BY <1>7, Zenon DEF HandleCancel
  <2>3. r = rid /\ ~Reply(r, "success")
    BY <1>0, <2>2, OneAnswer
  <2>4. /\ CancelOrder(id)
        /\ Reply(r, IF FindOrderById(id) /\ ~CanCancel(ToCancel(id)) THEN "error" ELSE "success")
    BY <1>7, <2>1 DEF HandleCancel
  <2>5. FindOrderById(id) /\ ToCancel(id).status = "filled"
    BY <2>3, <2>4 DEF CanCancel
  <2> HIDE DEF id
  <2>6. /\ UNCHANGED <<matches, call>>
        /\ \/ LosesFilled(buyOrders, buyOrders', id) /\ UNCHANGED sellOrders
           \/ LosesFilled(sellOrders, sellOrders', id) /\ UNCHANGED buyOrders
    BY <1>0, <2>4, <2>5, CancelTakes DEF LosesFilled
  <2>7. QED
    BY <2>1, <2>3, <2>6 DEF id
<1>8. QED
  BY <1>1, <1>2, <1>3, <1>4, <1>5, <1>6, <1>7 DEF Next

\* A request answered with an error has lost no order that could be cancelled, and
\* changed nothing else.
THEOREM ErrorsAreClean == Spec => ErrorsLoseOnlyFilled
<1>1. IInv /\ [Next]_vars =>
        [\A rid \in Rids : Fails(rid) =>
           /\ UNCHANGED <<matches, call, plain>>
           /\ \/ UNCHANGED <<buyOrders, sellOrders>>
              \/ /\ Payloads[rid].action = "CANCEL_ORDER"
                 /\ LET id == Payloads[rid].data.orderId
                    IN \/ LosesFilled(buyOrders, buyOrders', id) /\ UNCHANGED sellOrders
                       \/ LosesFilled(sellOrders, sellOrders', id) /\ UNCHANGED buyOrders]_vars
  BY ErrorStep
<1>2. QED
  BY <1>1, ServerInvariant, PTL DEF Spec, ErrorsLoseOnlyFilled
=============================================================================
