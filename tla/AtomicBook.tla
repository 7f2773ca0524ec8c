----------------------------- MODULE AtomicBook -----------------------------
(***************************************************************************)
(* A book on which addOrder is one step (AtomicCall).                      *)
(***************************************************************************)
EXTENDS AtomicCall, Sequences

CONSTANTS Incoming, Snapshots, MaxMatches

VARIABLES sides, log

vars == <<sides, log>>

-----------------------------------------------------------------------------
Init ==
  /\ sides = [t \in {"buy", "sell"} |-> {}]
  /\ log = <<>>

AddOrder(o) ==
  /\ Len(log) < MaxMatches
  /\ o.status \in {"open", "partially_filled"}
  /\ \A r \in sides["buy"] \cup sides["sell"] : r.id # o.id
  /\ sides' = SidesAfter(sides, o)
  /\ log' = log \o Trades(sides, o)

CancelOrder(o) ==
  /\ sides' = [t \in {"buy", "sell"} |-> {r \in sides[t] : r.id # o.id}]
  /\ UNCHANGED log

SetState(s) ==
  /\ sides' = s.sides
  /\ log' = s.matches

Next ==
  \/ \E o \in Incoming : AddOrder(o) \/ CancelOrder(o)
  \/ \E s \in Snapshots : SetState(s)

Spec == Init /\ [][Next]_vars
=============================================================================
