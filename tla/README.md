# A TLA+ model of the Bitfinex P2P Exchange

This directory models the order book and the peer-to-peer service of the
exchange in `src/`, checks them on small instances with TLC, and proves the
safety of most of it for all instances with TLAPS.

## The system

| Component | State | Operations | Talks to |
|---|---|---|---|
| `Order` (`models/Order.ts`) | terms (id, type, price, original amount, timestamp), amount left, status | constructor, `updateAfterMatch`, `cancel`, `canMatchWith`, `clone`, `toJSON`, `fromObject` | - |
| `OrderBook` (`models/OrderBook.ts`) | buy orders, sell orders, log of matches | `addOrder`, `cancelOrder`, `getState`, `setState` | calls `Order` |
| `P2PService` (`services/P2PService.ts`) | an order book, the order mutex, timers | `start`, `stop`, `submitOrder`, `cancelOrder`, `getOrderbookState`, the sync timer, `handleRequest` | its `OrderBook`; other nodes, by Grenache requests |
| Client (`client.ts`) | - | creates an order every 5 s and submits it | `P2PService` |
| Server (`server.ts`) | - | keeps the service running; restarted by docker-compose after a crash | `P2PService` |
| Transport (`patch-grenache-http.js`, and Grenache under it) | the table of outstanding requests, `conf.dest` of each transport | `sendRequest`, `post`, `getOpts` | the grape, the peers' HTTP servers |
| Deployment (`docker-compose.yml`) | the containers and their addresses, the container map | start, restart after a failure | - |
| Logger, configuration, error classes, build and test scripts | - | - | - |

A client adds an order to its *own* book first, matching it there, and then
sends what is left of it (or the filled order, which servers ignore) to some
server, with up to five retries of ten seconds each. It holds the order mutex
meanwhile. Every five seconds it asks some server for its book and replaces its
own by the answer, without the mutex. Servers change their books by the requests
they handle only, and keep them in memory.

What is hard, and what would make each component correct:

- **Order book.** One `addOrder` is a loop over *clones* of the resting orders
  while it removes the orders the clones stand for. It is correct when no
  crossing pair of orders is ever left in the book, ids stay unique, only open
  orders rest, matches follow price-time priority within both limits, amounts
  are conserved, and no order trades more than it was created for.
- **Submission.** It changes the local book, waits, retries and gives up. It is
  correct when exactly the remainder is sent, the mutex is always released, late
  answers are told from current ones, and no order is executed twice.
- **One request over HTTP.** A promise is settled by a timer or by a callback,
  and the other still comes; a table remembers who waits for what. It is correct
  when a call returns the answer to its last attempt, no timer outlives its
  attempt, and a table entry is left behind only when an answer names another request.
- **Handlers.** Each leaves through several returns and throws with the mutex
  held, and `SYNC_ORDERBOOK` installs any state whose lists hold objects. They are
  correct when each request is answered, the mutex comes back, an error loses no
  order that could be cancelled, and no step makes a legal book illegal but by what
  the request brings in.
- **Coming and going.** Servers announce themselves to a grape that forgets in
  its own time, containers change their addresses while the container map stays as it
  is, processes stop and are restarted. It is correct when a post goes where the map,
  or else Docker, has the announced address and nowhere else, every start ends, and
  clients find servers again that the map does not hide.
- **Synchronisation.** Books are replaced in the middle of submissions, by
  answers that may be old, from servers that may have restarted. It is correct
  when books stay legal and the replicas come to agree.

The hazards, line by line, are the `hazards` of `PROJECT.json`.

## The modules

| Module | Models | State |
|---|---|---|
| `Orders` | `Order`: pure operators | - |
| `Matching` | `OrderBook`: its operations as operators on a book record `[sides, matches, call]`, and what a legal book is (`LegalBook`) | - |
| `OrderBook` | one book under any sequence of calls | `book` |
| `BookArrays` | the operations on the arrays of the code, with their pushes, sorts, index lookups and splices, whatever the arrays hold | `buyOrders`, `sellOrders`, `matches`, `call` |
| `OrderBookArrays` | one book on arrays, under the calls that `OrderBook` allows | those of `BookArrays` |
| `LiveBook` | abstract: what `addOrder` promises trade by trade | `sides`, `log`, `taker` |
| `AtomicCall`, `AtomicBook` | abstract: what a call of `addOrder` promises as a whole, without a loop, and a book on which it is one step | `sides`, `log` |
| `Ranking` | the elements of a set in the order of a relation: what a sort returns | - |
| `OrderBookRefinement` | the mappings by which `OrderBook` implements both | - |
| `Handlers` | `handleRequest` of one server: all five actions, their checks, the mutex | those of `BookArrays`, `plain`, `queue`, `holder`, `status` |
| `Transport` | `requestWithTimeout` with its promises and timers, over the patched `sendRequest` and `post` | `phase`, `retryCount`, `result`, `settled`, `timers`, `wire`, `table`, `executed` |
| `RemoteCall` | abstract: what a caller of `requestWithTimeout` may count on | `phase`, `retryCount`, `executed` |
| `Exchange` | clients and servers with a book each, and the requests between them | `books`, `uncreated`, `waiting`, `submission`, `requests`, `calls`, `serving`, `answers` |
| `Discovery` | `start`, `stop`, announcing, the initial syncs, restarts, addresses | `life`, `address`, `announcements`, `dest`, `syncAttempt`, `held` |
| `MC...` | instances for TLC | |
| `...Proofs` | the theorems | |

`Orders`, `Matching` and the rest build on each other as follows:

    Orders <- Matching <- OrderBook <- OrderBookRefinement
                                         (implements LiveBook and AtomicBook)
                       <- BookArrays <- OrderBookArrays   (implements OrderBook)
                                     <- Handlers
                       <- Exchange
    Transport   (implements RemoteCall)
    Discovery

`Exchange` composes the clients with the handlers they use; `Handlers` has all of
the handlers of one server, with their checks and the mutex, and `Transport` what
is inside one request of `Exchange`. `Discovery` is about which server a request
reaches, if any; `Exchange` lets it be any server.

Operators named "... with a bug" are variants of the definition after them, made
to see each property fail (`mutants` in `PROJECT.json`). No specification uses
them.

### How the book corresponds to the code

`sides["buy"]` and `sides["sell"]` are the arrays `buyOrders` and `sellOrders`
as sets: every operation ends with both sorted by the same total order
(`Precedes`), so the set says what the array is. `BookArrays` has the arrays
themselves; `OrderBookArrays` calls them as `OrderBook` is called, and it is proved
that they implement the sets. The sets need a legal book. `Handlers`, whose book may
become illegal, runs on the arrays. Orders are values. The objects in a side are the
book's own; a candidate of a call is a copy, as `clone` makes it, and filling the
copy leaves the resting order as it was.

`addOrder` is cut into `BeginCall` (the checks, `findMatchingOrders`, the sort),
one `Iterate` per round of the loop and `EndCall` (the remainder rests). The
locals of the call are `book.call`. Nothing else happens to the book in between,
as the code is synchronous there. One step per round, rather than a recursive
operator for the loop, is what makes the matching provable.

`LiveBook` and `AtomicBook` (with `AtomicCall`) share no operator with `Matching`: they say what
matching is in their own words. `LiveBook` looks at the book afresh before each
trade, where the code works off a list of clones it made beforehand. In
`AtomicBook` one step takes the whole queue of crossing orders into account; the
mapping lets all of a call take effect at its first step: what is still to come
of a call is what an order like its own would do to the book as it stands. Both keep the one
thing that is the code's doing and no ideal: an order taken in part offers its
whole amount again (finding 1).

### How the handlers correspond to the code

`Arrive` is the head of `handleRequest`, before the mutex; a read is answered
there. `HandleSubmit`, `HandleSync`, `HandleAnnounce` and `HandleCancel` are the
cases of its `switch`, each from the mutex to the reply; of `SUBMIT_ORDER` the
rounds of `addOrder` are separate steps, as in `BookArrays`. `plain` says whether
the log holds matches that are not made of `Order` objects (finding 4).

Nothing is assumed of a payload but the types of its fields (`PayloadsAssumption`).
`IsValidState` is what `isValidState` checks, that the lists are there and hold
objects; `SafelyMap` drops the orders that cannot be parsed and lets the filled ones
through; `SetState` sorts and installs the rest. So a book may come to hold filled
or cancelled orders, two with one id, a crossing pair, or orders of the other side.
`Lawful` says which payloads would keep a legal book legal, and is used in a property
only. In a match, `Null` for an order passes `isValidMatchData` and throws when the
log asks for its id; in a cancellation, `EmptyId` passes the handler and is refused by
`cancelOrder`.

### How a request corresponds to the code

In `Transport`, `Attempt` is one pass of the loop of `requestWithTimeout`: the
promise, its timer, `client.request`. The lookup of a server, the transport's
table and `handleReply` are Grenache's, which is not in the repository; they are
modelled from how the patch and the service use them. Posts are lost, delayed,
fail, and are answered after their time. `Settle` is `resolve` or `reject`, of
which the first counts.

The patch takes the id of an answer from the body of the answer
(`patch-grenache-http.js:183`), so `PostReturns` lets an answer name its own request,
another that servers have had, or none that is outstanding. In the last two cases
the entry of its own request stays in the table (`wire` is "astray"); the attempt
ends by its timer. A body that is valid JSON and not iterable makes the callback throw:
of the table the same becomes, and that the process may end by it is `Crash` in
`Discovery`.

### How the exchange corresponds to the code

| Action | Code |
|---|---|
| `CreateOrder` | the client's timer: `createRandomOrder`, and `submitOrder` up to `orderMutex.acquire()` |
| `AcquireMutex`, `Round`, `Broadcast` | `submitOrder` from the mutex to the first attempt of its request |
| `CancelOrder` | `cancelOrder` on a client: its own book, then the first attempt |
| `StartSync` | a tick of the sync timer |
| `Retry`, `AttemptFails`, `ReceiveAnswer` | the loop of `requestWithTimeout`, and what its caller does at the end of it (release the mutex, install the state) |
| `HandleSubmit`, `Round`, `AnswerSubmit`, `HandleCancel`, `HandleGetOrderbook` | the cases of `handleRequest` that clients use |
| `Restart` | a crash, and `restart: on-failure` |

A *request* is a call of `requestWithTimeout`; each of its *attempts* is a
member of `calls` until a server handles it. An attempt whose time is up may
still be handled, with nobody awaiting the answer, or be lost. Attempts and
answers overtake each other freely. An attempt that could not be sent at all is
one that is lost. That a late answer cannot count for a later attempt, which
`Exchange` builds on, is proved of `Transport`. In `Exchange` each answer names its
own request, as the servers of this repository answer.

Server handlers acquire the mutex and then await nothing, so they run one after
another anyway and the server's mutex is left out of `Exchange`; `Handlers` has
it. While a book is inside `addOrder` all other nodes stand still (`Quiet`); such
a call touches no state but its own node's, so every behaviour is equivalent to
one of that form.

A client that submits before any sync has succeeded is what `startClient` leaves
when its initial attempts all failed. Errors whose message contains "Invalid",
which are not retried, arise from malformed data only, and no client sends any.

### How discovery corresponds to the code

`Start` is Docker giving a container an address and the process calling `start`,
up to its first wait; `ServerReady`, `BeginSync`, `SyncFails` and `SyncSucceeds`
go through `startServer`, `startClient` and the periodic sync. `AnnounceTick` is
`announceInterval`, which runs from `start` on, before the server's own wait is
over. `Interrupt` and `Crash` are the process handlers of `client.ts` and
`server.ts`; Docker starts again what exits with an error. `stop` withdraws
nothing from the grape, so `announcements` holds what was true once until
`Expire`. `dest` is `conf.dest` of each transport, which `getOpts` rewrites in
place every time it is used.

`docker-compose.yml` gives the services of its map no fixed addresses, so
`AddressesOf` may let Docker give a container an address that the map has for
another; `src/README.md:74` shows one. `MeantBy` is the node an address is taken for:
the one the map names, right or wrong, and otherwise the one that has the address.
`held` is the server whose book, as it still is, a client has a copy of; when that
server stops or crashes the book is gone, and the copy counts no more.

## What is checked

| Run | Instance | Shows |
|---|---|---|
| `book_market` | all orders of 3 ids, 2 types, 2 prices, 2 amounts (one id has one unit only), with and without ties in time, one partly filled, two no longer active; two snapshots of other nodes; no submission once the log has 2 matches | the book is typed, uncrossed, with unique ids and open orders only, fair matches, consistent calls, conserved amounts; price-time priority; orders leave only when filled; every call returns; it implements `LiveBook` and `AtomicBook` |
| `book_arrays` | six orders with every kind of tie; two states whose arrays are out of order; no submission once the log has 3 matches | the arrays are in price-time order at every moment, and implement `OrderBook` |
| `handlers` | eight requests of every kind but reads, each at any time: two orders that cross, a filled one, a lawful state, an unlawful one (a filled order, one on the wrong side, two with one id, a crossing pair, one that cannot be parsed), a cancellation, a match with a null order, a malformed payload | the types; the mutex comes back; the book becomes illegal only by what a request brings in; an error loses nothing but a filled order; every request is answered |
| `transport` | two overlapping calls, two retries each; answers name any request servers have had, or none | answers belong to the last attempt, no timer outlives its attempt, the table keeps only entries whose answer named another request, the calls implement `RemoteCall`, every call ends |
| `discovery` | two servers and a client; a server may be given its address of the map, the other's, or one that is not in the map; two sync attempts | posts go where the map or else Docker has the address, every start ends, a client and a server that stay, and that the map does not hide, find each other |
| `exchange_crash` | two clients, a seller and a buyer who wants more; one server that restarts; one retry | all books legal, orders keep their terms |
| `exchange_client` | one client with a sell and a buy order, cancellations of the first, one retry, syncs | books legal; mutex, awaited answers and sent amounts in step; every submission returns |
| `exchange_agree` | one client, one server that restarts, two overlapping syncs, one retry | the books come to agree for good |
| `book_overfill` | a sell order for 3 and two buy orders for 2, each submitted once | **finding 1** |
| `exchange_diverge` | one client, two servers, one order | **finding 2** |
| `exchange_retry` | two clients, one server, two orders of one unit | **finding 3** |
| `handlers_reads` | a peer's state with a match, a submission, a read | **finding 4** |

### Bounds

- Three ids, two prices, two amounts and two times are enough for a call that
  fills one candidate and part of the next, for ties at every stage of the
  comparator, and for a filled order to be submitted again.
- `MaxMatches` bounds the log: no submission begins once it is reached, a call
  in progress goes on. Two let a call begin after a trade and trade itself, with
  one candidate or more.
- `MaxRetries` is 5 in the code, 1 or 2 here: one retry already brings a late
  first attempt, a late answer and a second server; two, in `transport`, bring a
  late attempt after a late attempt.
- `MaxSyncAttempts` is 5 in the code, 2 here: a first, a last, and the delay
  between.
- `SyncSlots` bounds the syncs of a client under way at once (the code has no
  bound); two are enough for one answer to overtake another.
- A client does not cancel an order again while its earlier cancellation is
  under way.
- Orders are few (`Created`), as each one adds a mutex period with retries;
  with two clients they are also matched locally, on the other side's server,
  and late.
- In `handlers` each request arrives once; the lawful state brings the id of one of
  the orders, so that order comes again too. Handlers are left in every way: by the
  early return, after the reply, and by a throw before and after a change.
- Two servers and the two addresses of the map are enough for one server to have the
  other's address, and for both to be exchanged.

What is proved holds without any of these bounds. No symmetry is used: ids are
compared by the code, and clients own different orders. `CHECK_DEADLOCK FALSE` is
where a finite supply of calls, requests or matches comes to its end, or users
have stopped every node.

### Fairness

- `OrderBook!FairSpec`: a call that has begun goes on; it is synchronous code.
- `Handlers!FairSpec`: so does whoever has the mutex, and the mutex goes to the
  first who waits. No request need ever arrive.
- `Transport!FairSpec`: timers fire, those of the attempts and those of the
  delays. Nothing is assumed of the network, so that `EveryCallEnds` is due to
  the timers alone.
- `Exchange!FairSpec`: loops go on, a free mutex goes to the first in the queue
  (async-mutex queues), a backoff ends, an attempt ends by an answer or by its
  timer. No attempt has to succeed. `Quiet` cannot starve these: there are
  finitely many orders and retries, hence finitely many calls of `addOrder`.
- `Exchange!NetworkSpec` adds the environment that `AllBooksAgree` needs:
  servers handle the submissions that reach them, sync timers go off (they are
  intervals), attempts of a sync end, and a client's syncs are handled and
  answered in time again and again. The last is strong fairness, an assumption
  on the network: it may lose or delay any number of them, but not all from some
  point on. No fairness is assumed of restarts: a server
  may never crash. It crashes in a run only finitely often, since `Restart`
  needs a book to lose and there are finitely many submissions to fill one.
- `Discovery!FairSpec`: Docker starts what is down (`restart: on-failure`),
  timers go off, an initial sync ends one way or the other, the grape forgets
  what is not renewed. A client picks a server at random, so one that can answer
  it again and again does so some time: strong fairness for each server.

## What is proved

| Theorem | Module | Says |
|---|---|---|
| `AlwaysLegal`, and from it `TypeCorrect`, `NeverCrossed`, `OneOrderPerId`, `OnlyOpenOrdersRest`, `MatchesAlwaysFair`, `ClonesStayCurrent` | `OrderBookProofs` | the invariants of one book |
| `Priority`, `OnlyFilledOrdersLeave` | `OrderBookProofs` | its action properties |
| `NothingLost` | `OrderBookProofs` | amounts are conserved in every call |
| `TradesAgainstLiveBook` | `OrderBookProofs` | `OrderBook` implements `LiveBook` |
| `CallsAreAtomic` | `OrderBookProofs` | `OrderBook` implements `AtomicBook` |
| `ArraysAlwaysLegal`, `AlwaysSorted` | `OrderBookArraysProofs` | the arrays stand for a legal book and are sorted |
| `ArraysImplementSets` | `OrderBookArraysProofs` | `OrderBookArrays` implements `OrderBook` |
| `CallsGoOn`, `RoundsRunOut` | `OrderBookProofs` | a call is never stuck and makes finitely many rounds |
| `ServerTypes`, `ServersStayLegal`, `ErrorsAreClean`, `MutexComesBack` | `HandlersProofs` | safety of a server, whatever it is sent |
| `TransportTypes`, `LateAnswersIgnored`, `OneTimerPerWait`, `EntriesAccountedFor` | `TransportProofs` | safety of a request |
| `TransportKeepsPromise` | `TransportProofs` | `Transport` implements `RemoteCall` |
| `ExchangeTypes`, `BooksStayLegal`, `OrdersKeepTheirTerms` | `ExchangeProofs` | what books and orders keep in the exchange |
| `MutexIsHeld`, `OneAnswerIsAwaited`, `RemainderIsSent` | `ExchangeProofs` | the client's mutex, its requests and what they carry |
| `DiscoveryTypes`, `MapIsFollowed` | `DiscoveryProofs` | whom an announcement leads to, for any map |

They hold for every value of the constants that the named assumptions of the
modules allow: any orders that passed the constructor, any number of clients,
servers, requests and retries, any container map and addresses, any payloads of
the types of the wire. The books that `OrderBook` and `OrderBookArrays` install as
snapshots are legal ones (of finitely many orders, as a book's arrays are). In the
exchange they come from nodes that run this code and are proved legal
(`BooksStayLegal`); what becomes of a server that is sent others is in `Handlers`.

**The book.** `BookUncrossed` is not inductive: what `EndCall` pushes crosses
nothing only because every resting order the incoming one crosses was a candidate
(`CallLegal`) and a round leaves the incoming order active only when it took the
candidate out of the book. That in turn needs unique ids (removal by id takes
the candidate alone) and active resting orders (no round is skipped, `RoundIsAFill`).
`LegalBook` is the conjunction of all this. Each operation has a lemma in
`MatchingProofs` (`BeginLegal`, `IterateLegal`, `EndLegal`, `CancelLegal`,
`ParsedStateLegal`), which every module with a book uses. The action properties
follow from the invariant and from what a round does (`CallStep`, `RoundEffect`),
and so does the refinement: in a legal book the first clone left is the first
order of the book that crosses, as the book stands.

**What a call amounts to.** `FillsConserve` is inductive with `LegalBook`: a round
is a fill, for no more than the order asks. For `AtomicBook` the mapping says what
is still to come, so the proof shows that a round does not change it
(`RoundKeepsEffect`). The clone that is next is the first of the queue
(`CandidatesQueue`). Either it is used up, and every other order in the queue has as
much less ahead of it as the incoming order asks less (`FirstUsedUp`), so that the
same orders are reached, each for the same amount; or it covers the incoming order
and nothing else is reached (`FirstEnough`). Totals are folds over sets, taken in
an order that nobody knows; `SumRemove` and `SumsAgree` show that any order can
be taken out first, by induction on the set: a family of finite sets has a member
none of whose proper subsets is in it (`SmallestSet`, as proper inclusion is well
founded there), and for the family of counterexamples there is none. The trades are the ranking of the orders reached:
without its first element a ranking moves up by one (`RankedFirst`).

**The arrays.** The invariant (`ArraysLegal`) has the arrays sorted, the book they
stand for legal, and the clones left in the sorted list strictly in price-time
order. `Ranked` is the sort: it lines up any finite set by a relation that orders it
(`RankedLine`), and by ids an array holds no two orders that compare equal. Then
an index lookup and a splice remove what `RemoveOrder` removes, and the next clone
of the list is the first of the candidates.

**The handlers.** The invariant is `TypeOK` and `MutexPassedOn`, and says nothing of
what the book holds: the operations of `BookArrays` keep their types on any arrays. A
handler that returns at once found the mutex free and leaves it free, and the only one
that takes it is the one whose `addOrder` runs. The two action properties are proved
from it step by step. `ServersStayLegal` starts from a book that is legal and uses what
`BookArraysProofs` says of each operation on such a book; the one case left open is a
step that takes on a payload that is not `Lawful`. `ErrorsAreClean` needs no legal book:
an error precedes any change, or follows a removal by `CancelOrder`, and then the
order found first under the id was filled.

**The request.** `AnswerOfLastAttempt` is not inductive, as an old attempt's
answer may come at any moment; what keeps it out is that the promise of an
attempt is settled when the call has gone on (`SettledWhenLeft`), and that only
an attempt that was made is on the wire. An answer may name any request that servers
have had, so the same argument is made for the request it names. `EntriesAccountedFor`
then says which posts an entry of the table can belong to.

**The exchange.** Every book stays legal because what travels is fit to be taken
in: orders in requests and attempts (`FitOrders`), states in answers
(`LegalStates`), orders waiting for the mutex (`OwnOrders`). `TermsKept` needs the
same of all places an order can be in, the books inside answers and the orders
inside calls included (`AllKnown`), and that an order waits once (`WaitOnce`).
The mutex and the awaited answers are stated with cardinalities and proved by
invariants without: `HolderAlone`, and `AnswersInv`, which says that an awaited
attempt is on its way, in the hands of a server, or answered, one of the three.
`BroadcastsRemainder` needs conservation in the client's own call, and that the call
and the submission belong together (`CallOfSubmission`).

**Discovery.** `MapIsFollowed` assumes nothing of the map but that its names are no
addresses (`AddressAssumption`): then the rewriting of `conf.dest`, for good and again on
every use, does what one rewriting does (`RewrittenTwice`), and a post goes to the node
an address is meant for, the announcer if it is that node. Whether it is depends on
the deployment.

Only model-checked are the liveness properties, as the prover has no ENABLED:
`CallReturns`, `EveryRequestAnswered`, `EveryCallEnds`, `EverySubmissionReturns`,
`AllBooksAgree`, `StartsEnd`, `ClientsCatchUp`. What the code contributes to some of
them is safety, and that is proved: for `CallReturns`, that a call always has a step
to take (`CallsGoOn`) and runs out of candidates (`RoundsRunOut`); for
`EveryRequestAnswered`, that whoever waits is in the queue and the mutex is free
when no call runs (`MutexComesBack`); for `EveryCallEnds`, that a call that waits has
a timer (`OneTimerPerWait`); for `EverySubmissionReturns`, that a client which holds
the mutex is in `addOrder` or has exactly one request (`MutexIsHeld`). The fairness
that turns these into liveness is left to TLC. The safety properties and
refinements of the passing runs are all proved.

## What the findings say

1. `OrderBook.findMatchingOrders` clones, so a partial fill of a resting order is
   lost on the book, and the order is matched again for what it has given already: in
   `book_overfill` a sell order for 3 is matched for 4 and still rests with 3. The
   clone's own check ("Filled amount exceeds available amount") cannot see it.
2. Nothing links two servers. `SYNC_ORDERBOOK` and `ANNOUNCE_MATCH` have
   handlers and no sender. With one server the books do agree in the end
   (`exchange_agree`), though only because a sync throws away whatever the
   client matched by itself.
3. `addOrder` recognises a repeated order only while it rests. A retry after a
   late answer executes a filled order again.
4. The handler of `SYNC_ORDERBOOK` stores the matches of the message as they
   came. They have no `toJSON`, so every `GET_ORDERBOOK` afterwards is an error.

Two things the properties allow because the code does them. `cancelOrder` removes an
order and then finds out whether it can be cancelled, so a filled order that a
`SYNC_ORDERBOOK` brought is gone when the answer says that it was not cancelled
(`ErrorsLoseOnlyFilled` says that nothing else is). And the container map is fixed
while addresses are not: a server that was given an address the map has for another
is not reached by what it announces, and a client finds it only under an address of
its own (`PostsFollowTheMap`, `ClientsCatchUp`).

## Not modelled

- The rounding of doubles: amounts are naturals, a unit being 0.01. A remainder
  that rounding leaves of an order is beyond TLC's integers.
- The version counter and `clientId` of orders, which no branch of the book or
  of the service reads.
- Restarts of clients in `Exchange`: a client that starts again has an empty
  book, no requests and new orders, as a further client would. `Discovery` has
  them.
- Who told whom of a match: a match made in a client's book is known to that
  client only, and is dropped by its next sync. No document says otherwise.
- Compression, the `secure` options and `requestStream` of the transport patch,
  which no code of the repository asks for, and its installation, a text
  substitution at build time.
- `LoggerService`, the displays of client and server, the configuration and the
  entry point (read once, no state), the error classes (unused), the build and
  test scripts.
