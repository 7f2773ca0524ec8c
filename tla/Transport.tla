----------------------------- MODULE Transport ------------------------------
(***************************************************************************)
(* How a client asks a server: requestWithTimeout with its promise and its *)
(* timer (src/src/services/P2PService.ts) over the patched HTTP transport  *)
(* of Grenache (src/patch-grenache-http.js).  Exchange takes a request as  *)
(* a whole; here is why it may.                                            *)
(*                                                                         *)
(* An attempt looks a server up, is entered in the transport's table of    *)
(* outstanding requests and posted.  Its promise is settled by the timer   *)
(* or by the callback, whichever comes first, but the other still comes:   *)
(* nothing withdraws an attempt whose timer has fired, which may yet find  *)
(* its server, be executed and answered.                                   *)
(*                                                                         *)
(* The lookup, the table and handleReply are Grenache's, and external; so  *)
(* is the server.  Compression is left out: no caller asks for it.         *)
(***************************************************************************)
EXTENDS Naturals

CONSTANTS
  Calls,      \* the calls of requestWithTimeout, which overlap
  MaxRetries  \* maxRetries (5 in the code)

ASSUME MaxRetriesAssumption == MaxRetries \in Nat

VARIABLES
  phase,       \* phase[q]: where call q is in its loop
  retryCount,  \* retryCount[q]
  result,      \* result[q]: the attempt whose answer it returned
  settled,     \* the attempts whose promise is resolved or rejected
  timers,      \* the attempts whose timeout is set
  wire,        \* wire[rid]: what has become of the attempt's post
  table,       \* the attempts whose callback handleReply would find
  executed     \* the attempts that a server has executed

vars == <<phase, retryCount, result, settled, timers, wire, table, executed>>

\* An attempt, and the rid it is known by on the wire.
Rid == Calls \X (0..MaxRetries)

Current(q) == <<q, retryCount[q]>>

NoResult == <<>>

Phases == {"new", "awaiting", "pausing", "done", "failed"}

\* How an attempt may end: well; with an error worth a retry; or with one that
\* has "Invalid" in it.
Outcomes == {"ok", "error", "invalid"}

-----------------------------------------------------------------------------
Init ==
  /\ phase = [q \in Calls |-> "new"]
  /\ retryCount = [q \in Calls |-> 0]
  /\ result = [q \in Calls |-> NoResult]
  /\ settled = {}
  /\ timers = {}
  /\ wire = [rid \in Rid |-> "none"]
  /\ table = {}
  /\ executed = {}

\* The loop begins, or the delay before a retry is over: a new promise, its
\* timer, and client.request.
Attempt(q) ==
  /\ phase[q] \in {"new", "pausing"}
  /\ phase' = [phase EXCEPT ![q] = "awaiting"]
  /\ timers' = timers \cup {Current(q)}
  /\ wire' = [wire EXCEPT ![Current(q)] = "looking"]
  /\ UNCHANGED <<retryCount, result, settled, table, executed>>

-----------------------------------------------------------------------------
\* GoOn with a bug: one retry too many.
GoOnOnceMore(q, rid, outcome) ==
  IF outcome = "ok"
    THEN /\ phase' = [phase EXCEPT ![q] = "done"]
         /\ result' = [result EXCEPT ![q] = rid]
         /\ UNCHANGED retryCount
  ELSE IF outcome = "invalid" \/ retryCount[q] > MaxRetries
    THEN /\ phase' = [phase EXCEPT ![q] = "failed"]
         /\ UNCHANGED <<retryCount, result>>
  ELSE /\ phase' = [phase EXCEPT ![q] = "pausing"]
       /\ retryCount' = [retryCount EXCEPT ![q] = @ + 1]
       /\ UNCHANGED result

\* The loop of call q goes on after its attempt: it returns, gives up or pauses.
GoOn(q, rid, outcome) ==
  IF outcome = "ok"
    THEN /\ phase' = [phase EXCEPT ![q] = "done"]
         /\ result' = [result EXCEPT ![q] = rid]
         /\ UNCHANGED retryCount
  ELSE IF outcome = "invalid" \/ retryCount[q] >= MaxRetries
    THEN /\ phase' = [phase EXCEPT ![q] = "failed"]
         /\ UNCHANGED <<retryCount, result>>
  ELSE /\ phase' = [phase EXCEPT ![q] = "pausing"]
       /\ retryCount' = [retryCount EXCEPT ![q] = @ + 1]
       /\ UNCHANGED result

\* Settle with a bug: the request that waits is told, whichever attempt it waits
\* for.
SettleAny(rid, outcome) ==
  /\ settled' = settled \cup {rid}
  /\ IF phase[rid[1]] = "awaiting"
       THEN GoOn(rid[1], rid, outcome)
       ELSE UNCHANGED <<phase, retryCount, result>>

\* resolve or reject: only the first counts.
Settle(rid, outcome) ==
  /\ settled' = settled \cup {rid}
  /\ IF rid \notin settled
       THEN GoOn(rid[1], rid, outcome)
       ELSE UNCHANGED <<phase, retryCount, result>>

\* Callback with a bug: an answer that is not an object is dropped.
CallbackDropping(rid, outcome) ==
  /\ timers' = timers \ {rid}
  /\ IF outcome = "invalid"
       THEN UNCHANGED <<settled, phase, retryCount, result>>
       ELSE Settle(rid, outcome)

\* Callback with a bug: the timer goes on.
CallbackKeepingTimer(rid, outcome) == UNCHANGED timers /\ Settle(rid, outcome)

\* The callback given to client.request.
Callback(rid, outcome) ==
  /\ timers' = timers \ {rid}
  /\ Settle(rid, outcome)

\* handleReply calls back what is in the table, and takes it out.
HandleReply(rid, outcome) ==
  /\ table' = table \ {rid}
  /\ IF rid \in table
       THEN Callback(rid, outcome)
       ELSE UNCHANGED <<timers, settled, phase, retryCount, result>>

\* The time of an attempt is up.
TimerFires(rid) ==
  /\ rid \in timers
  /\ timers' = timers \ {rid}
  /\ Settle(rid, "error")
  /\ UNCHANGED <<wire, table, executed>>

-----------------------------------------------------------------------------
\* No server announces the service, or the grape does not answer.
LookupFails(rid) ==
  /\ wire[rid] = "looking"
  /\ wire' = [wire EXCEPT ![rid] = "closed"]
  /\ Callback(rid, "error")
  /\ UNCHANGED <<table, executed>>

\* A server is found: sendRequest posts the attempt, awaited or not.
SendRequest(rid) ==
  /\ wire[rid] = "looking"
  /\ wire' = [wire EXCEPT ![rid] = "sent"]
  /\ table' = table \cup {rid}
  /\ UNCHANGED <<phase, retryCount, result, settled, timers, executed>>

Execute(rid) ==
  /\ wire[rid] = "sent"
  /\ wire' = [wire EXCEPT ![rid] = "executed"]
  /\ executed' = executed \cup {rid}
  /\ UNCHANGED <<phase, retryCount, result, settled, timers, table>>

\* PostFails with a bug: it is only logged.
PostFailsSilently(rid) ==
  /\ wire[rid] \in {"sent", "executed"}
  /\ wire' = [wire EXCEPT ![rid] = "closed"]
  /\ UNCHANGED <<phase, retryCount, result, settled, timers, table, executed>>

\* The connection fails or times out, before or after the server had the post.
\* isExecuted lets one event of a post through, so nothing comes of it any more.
PostFails(rid) ==
  /\ wire[rid] \in {"sent", "executed"}
  /\ wire' = [wire EXCEPT ![rid] = "closed"]
  /\ HandleReply(rid, "error")
  /\ UNCHANGED executed

\* An answer arrives.  One that cannot be parsed is an error (ERR_REPLY_EMPTY) of
\* its own request; otherwise the body says which request it is for.  That may be
\* another that servers have had, or none that is outstanding (a foreign rid, none,
\* or no array): then this one's entry stays where it is, its post being over.
PostReturns(rid) ==
  /\ wire[rid] = "executed"
  /\ \/ \E named \in executed, outcome \in Outcomes :
          /\ wire' = [wire EXCEPT ![rid] = IF named = rid THEN "closed" ELSE "astray"]
          /\ HandleReply(named, outcome)
     \/ /\ wire' = [wire EXCEPT ![rid] = "astray"]
        /\ UNCHANGED <<phase, retryCount, result, settled, timers, table>>
  /\ UNCHANGED executed

Next ==
  \/ \E q \in Calls : Attempt(q)
  \/ \E rid \in Rid :
       \/ TimerFires(rid)
       \/ LookupFails(rid) \/ SendRequest(rid) \/ Execute(rid)
       \/ PostFails(rid) \/ PostReturns(rid)

Spec == Init /\ [][Next]_vars

\* The runtime fires its timers: that of the attempt, and that of the delay.
\* Nothing is assumed of the network.
FairSpec ==
  /\ Spec
  /\ \A q \in Calls :
       /\ WF_vars(Attempt(q))
       /\ WF_vars(\E n \in 0..MaxRetries : TimerFires(<<q, n>>))

-----------------------------------------------------------------------------
\* The variables have the types of the code's state.
TypeOK ==
  /\ phase \in [Calls -> Phases]
  /\ retryCount \in [Calls -> 0..MaxRetries]
  /\ result \in [Calls -> Rid \cup {NoResult}]
  /\ settled \subseteq Rid
  /\ timers \subseteq Rid
  /\ wire \in [Rid -> {"none", "looking", "sent", "executed", "closed", "astray"}]
  /\ table \subseteq Rid
  /\ executed \subseteq Rid

\* A call returns the answer to its last attempt, never that of an attempt it has
\* given up, though such an answer may come while it waits for the next.
AnswerOfLastAttempt ==
  \A q \in Calls : phase[q] = "done" => result[q] = Current(q)

\* A timer is set exactly for the attempt that a call is waiting for: every wait
\* is bounded, and no timer of an earlier attempt cuts a later one short.
TimerWhileAwaiting ==
  timers = {Current(q) : q \in {c \in Calls : phase[c] = "awaiting"}}

\* What is left behind in the table of outstanding requests: an entry whose post
\* is over is one whose answer named another request.  On every other way out, a
\* failed connection or an answer nobody awaits any more, the entry is gone.
OnlyAstrayLeaks ==
  \A rid \in Rid :
    rid \in table => wire[rid] \in {"sent", "executed", "astray"}

\* Every call ends, whatever the network does.
EveryCallEnds == \A q \in Calls : <>(phase[q] \in {"done", "failed"})

\* What callers rely on (RemoteCall).
Promised == INSTANCE RemoteCall

RemoteCallSpec == Promised!Spec
=============================================================================
