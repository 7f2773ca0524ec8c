----------------------------- MODULE RemoteCall -----------------------------
(***************************************************************************)
(* What a caller of requestWithTimeout may count on, without timers,       *)
(* sockets or tables: a call is tried a bounded number of times, one try   *)
(* after the other; each try is executed at most once by a server, perhaps *)
(* after the caller has given it up; and a call succeeds only by the       *)
(* answer to the try it is waiting for, which a server has executed.       *)
(***************************************************************************)
EXTENDS Naturals

CONSTANTS
  Calls,      \* the calls of requestWithTimeout
  MaxRetries  \* a call is tried at most once more than this

VARIABLES
  phase,       \* phase[q]: how far call q is
  retryCount,  \* retryCount[q]: the tries given up
  executed     \* the tries a server has executed

vars == <<phase, retryCount, executed>>

Phases == {"new", "awaiting", "pausing", "done", "failed"}

Init ==
  /\ phase = [q \in Calls |-> "new"]
  /\ retryCount = [q \in Calls |-> 0]
  /\ executed = {}

Try(q) ==
  /\ phase[q] \in {"new", "pausing"}
  /\ phase' = [phase EXCEPT ![q] = "awaiting"]
  /\ UNCHANGED <<retryCount, executed>>

Execute(q, n) ==
  /\ \/ n < retryCount[q]
     \/ n = retryCount[q] /\ phase[q] \in {"awaiting", "done", "failed"}
  /\ <<q, n>> \notin executed
  /\ executed' = executed \cup {<<q, n>>}
  /\ UNCHANGED <<phase, retryCount>>

Succeed(q) ==
  /\ phase[q] = "awaiting"
  /\ <<q, retryCount[q]>> \in executed
  /\ phase' = [phase EXCEPT ![q] = "done"]
  /\ UNCHANGED <<retryCount, executed>>

Retry(q) ==
  /\ phase[q] = "awaiting"
  /\ retryCount[q] < MaxRetries
  /\ phase' = [phase EXCEPT ![q] = "pausing"]
  /\ retryCount' = [retryCount EXCEPT ![q] = @ + 1]
  /\ UNCHANGED executed

Fail(q) ==
  /\ phase[q] = "awaiting"
  /\ phase' = [phase EXCEPT ![q] = "failed"]
  /\ UNCHANGED <<retryCount, executed>>

Next ==
  \E q \in Calls :
    \/ Try(q) \/ Succeed(q) \/ Retry(q) \/ Fail(q)
    \/ \E n \in 0..MaxRetries : Execute(q, n)

Spec == Init /\ [][Next]_vars
=============================================================================
