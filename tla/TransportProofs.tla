--------------------------- MODULE TransportProofs --------------------------
(***************************************************************************)
(* Transport for every number of calls and of retries.                     *)
(*                                                                         *)
(* That a call returns the answer to its last attempt is not inductive: an *)
(* old attempt's answer may come at any moment.  What keeps it out is that *)
(* the promise of an attempt is settled as soon as the call has gone on    *)
(* (SettledWhenLeft), that only an attempt which was made is on the wire   *)
(* (OnlyMadeOnWire), and that what an answer names was executed            *)
(* (ExecutedOnWire).                                                       *)
(***************************************************************************)
EXTENDS Transport, TLAPS

\* Attempt n of call q has been made.
Made(q, n) ==
  \/ n < retryCount[q]
  \/ n = retryCount[q] /\ phase[q] \in {"awaiting", "done", "failed"}

\* Attempt n of call q is over.
Left(q, n) ==
  \/ n < retryCount[q]
  \/ n = retryCount[q] /\ phase[q] \in {"done", "failed"}

SettledWhenLeft ==
  \A q \in Calls : \A n \in 0..MaxRetries : <<q, n>> \in settled <=> Left(q, n)

OnlyMadeOnWire ==
  \A q \in Calls : \A n \in 0..MaxRetries : wire[<<q, n>>] # "none" <=> Made(q, n)

ExecutedOnWire ==
  \A rid \in Rid :
    /\ rid \in executed => wire[rid] \in {"executed", "closed", "astray"}
    /\ wire[rid] = "executed" => rid \in executed

Timed ==
  \A q \in Calls : \A n \in 0..MaxRetries :
    <<q, n>> \in timers <=> n = retryCount[q] /\ phase[q] = "awaiting"

IInv ==
  /\ TypeOK
  /\ SettledWhenLeft
  /\ OnlyMadeOnWire
  /\ ExecutedOnWire
  /\ OnlyAstrayLeaks
  /\ Timed
  /\ AnswerOfLastAttempt

\* Before any call nothing is set, posted or settled.
LEMMA InitIInv == Init => IInv
<1> SUFFICES ASSUME Init PROVE IInv
  OBVIOUS
<1> USE MaxRetriesAssumption
<1>1. TypeOK
  BY DEF Init, TypeOK, Phases
<1>2. SettledWhenLeft /\ OnlyMadeOnWire /\ Timed
  BY DEF Init, SettledWhenLeft, OnlyMadeOnWire, Timed, Left, Made, Rid
<1>3. ExecutedOnWire /\ OnlyAstrayLeaks /\ AnswerOfLastAttempt
  BY DEF Init, ExecutedOnWire, OnlyAstrayLeaks, AnswerOfLastAttempt
<1>4. QED
  BY <1>1, <1>2, <1>3 DEF IInv

\* What a settlement does to an attempt that its call waits for, and to any other.
LEMMA SettleCases ==
  ASSUME IInv, NEW q \in Calls, NEW n \in 0..MaxRetries, NEW outcome,
         wire[<<q, n>>] # "none",
         Settle(<<q, n>>, outcome)
  PROVE  \/ /\ <<q, n>> \in settled
            /\ UNCHANGED <<settled, phase, retryCount, result>>
         \/ /\ <<q, n>> \notin settled
            /\ n = retryCount[q] /\ phase[q] = "awaiting"
            /\ settled' = settled \cup {<<q, n>>}
            /\ GoOn(q, <<q, n>>, outcome)
<1>1. CASE <<q, n>> \in settled
  BY <1>1 DEF Settle
<1>2. CASE <<q, n>> \notin settled
  <2>1. ~Left(q, n) /\ Made(q, n)
    BY <1>2 DEF IInv, SettledWhenLeft, OnlyMadeOnWire
  <2>2. n = retryCount[q] /\ phase[q] = "awaiting"
    BY <2>1 DEF Left, Made
  <2>3. QED
    BY <1>2, <2>2 DEF Settle
<1>3. QED
  BY <1>1, <1>2

\* The call goes on from the attempt it waited for: the types, and which attempts
\* are made and left.
LEMMA GoOnEffect ==
  ASSUME TypeOK, NEW q \in Calls, NEW outcome,
         phase[q] = "awaiting", GoOn(q, Current(q), outcome)
  PROVE  /\ phase' \in [Calls -> Phases]
         /\ retryCount' \in [Calls -> 0..MaxRetries]
         /\ result' \in [Calls -> Rid \cup {NoResult}]
         /\ phase'[q] # "awaiting"
         /\ \A c \in Calls : c # q => /\ phase'[c] = phase[c]
                                      /\ retryCount'[c] = retryCount[c]
                                      /\ result'[c] = result[c]
         /\ \A c \in Calls : \A m \in 0..MaxRetries :
              /\ Made(c, m)' <=> Made(c, m)
              /\ Left(c, m)' <=> Left(c, m) \/ <<c, m>> = Current(q)
         /\ phase'[q] = "done" =>
              /\ outcome = "ok"
              /\ result'[q] = Current(q) /\ retryCount'[q] = retryCount[q]
<1> USE MaxRetriesAssumption
<1>0. /\ phase \in [Calls -> Phases] /\ retryCount \in [Calls -> 0..MaxRetries]
      /\ result \in [Calls -> Rid \cup {NoResult}] /\ Current(q) \in Rid
  BY DEF TypeOK, Current, Rid
<1>1. CASE outcome = "ok"
  <2>1. /\ phase' = [phase EXCEPT ![q] = "done"]
        /\ result' = [result EXCEPT ![q] = Current(q)]
        /\ retryCount' = retryCount
    BY <1>1 DEF GoOn
  <2>2. QED
    BY <1>0, <1>1, <2>1 DEF Phases, Made, Left, Current
<1>2. CASE /\ outcome # "ok"
           /\ phase' = [phase EXCEPT ![q] = "failed"]
           /\ UNCHANGED <<retryCount, result>>
  BY <1>0, <1>2 DEF Phases, Made, Left, Current
<1>3. CASE /\ outcome # "ok"
           /\ ~(retryCount[q] >= MaxRetries)
           /\ phase' = [phase EXCEPT ![q] = "pausing"]
           /\ retryCount' = [retryCount EXCEPT ![q] = @ + 1]
           /\ UNCHANGED result
  <2>1. retryCount[q] \in Nat /\ retryCount[q] + 1 \in 0..MaxRetries
    BY <1>0, <1>3
  <2>2. /\ phase' \in [Calls -> Phases]
        /\ retryCount' \in [Calls -> 0..MaxRetries]
        /\ phase'[q] = "pausing" /\ retryCount'[q] = retryCount[q] + 1
    BY <1>0, <1>3, <2>1 DEF Phases
  <2>3. \A c \in Calls : c # q => phase'[c] = phase[c] /\ retryCount'[c] = retryCount[c]
    BY <1>0, <1>3
  <2>4. ASSUME NEW c \in Calls, NEW m \in 0..MaxRetries
        PROVE  /\ Made(c, m)' <=> Made(c, m)
               /\ Left(c, m)' <=> Left(c, m) \/ <<c, m>> = Current(q)
    <3>1. CASE c = q
      <4>1. Made(c, m) <=> m < retryCount[q] + 1
        BY <1>0, <3>1, <2>1 DEF Made
      <4>2. Made(c, m)' <=> m < retryCount[q] + 1
        BY <2>2, <3>1 DEF Made
      <4>3. Left(c, m)' <=> m < retryCount[q] + 1
        BY <2>2, <3>1 DEF Left
      <4>4. Left(c, m) <=> m < retryCount[q]
        BY <3>1 DEF Left
      <4>5. <<c, m>> = Current(q) <=> m = retryCount[q]
        BY <3>1 DEF Current
      <4>6. QED
        BY <2>1, <4>1, <4>2, <4>3, <4>4, <4>5
    <3>2. CASE c # q
      <4>1. <<c, m>> # Current(q)
        BY <3>2 DEF Current
      <4>2. QED
        BY <2>3, <3>2, <4>1 DEF Made, Left
    <3>3. QED
      BY <3>1, <3>2
  <2>5. QED
    BY <1>0, <1>3, <2>2, <2>3, <2>4
<1>4. QED
  BY <1>1, <1>2, <1>3 DEF GoOn

\* The end of an attempt by its timer or its callback, as far as the call and its
\* promises and timers are concerned.
LEMMA AttemptEnds ==
  ASSUME IInv, NEW q \in Calls, NEW n \in 0..MaxRetries, NEW outcome,
         wire[<<q, n>>] # "none",
         timers' = timers \ {<<q, n>>}, Settle(<<q, n>>, outcome)
  PROVE  /\ phase' \in [Calls -> Phases]
         /\ retryCount' \in [Calls -> 0..MaxRetries]
         /\ result' \in [Calls -> Rid \cup {NoResult}]
         /\ settled' \subseteq Rid /\ timers' \subseteq Rid
         /\ \A c \in Calls : \A m \in 0..MaxRetries : Made(c, m)' <=> Made(c, m)
         /\ SettledWhenLeft' /\ Timed' /\ AnswerOfLastAttempt'
<1> USE MaxRetriesAssumption
<1> DEFINE rid == <<q, n>>
<1>0. /\ TypeOK /\ SettledWhenLeft /\ Timed /\ AnswerOfLastAttempt
      /\ rid \in Rid
  BY DEF IInv, Rid
<1>1. CASE rid \in settled /\ UNCHANGED <<settled, phase, retryCount, result>>
  <2>1. Left(q, n)
    BY <1>0, <1>1 DEF SettledWhenLeft
  <2>2. rid \notin timers
    BY <1>0, <2>1 DEF Timed, Left, TypeOK
  <2>3. timers' = timers
    BY <2>2
  <2>4. QED
    BY <1>0, <1>1, <2>3
       DEF TypeOK, Made, SettledWhenLeft, Left, Timed, AnswerOfLastAttempt, Current
<1>2. CASE /\ rid \notin settled
           /\ n = retryCount[q] /\ phase[q] = "awaiting"
           /\ settled' = settled \cup {rid}
           /\ GoOn(q, rid, outcome)
  <2>1. rid = Current(q)
    BY <1>2 DEF Current
  <2>2. /\ phase' \in [Calls -> Phases]
        /\ retryCount' \in [Calls -> 0..MaxRetries]
        /\ result' \in [Calls -> Rid \cup {NoResult}]
        /\ phase'[q] # "awaiting"
        /\ \A c \in Calls : c # q => /\ phase'[c] = phase[c]
                                     /\ retryCount'[c] = retryCount[c]
                                     /\ result'[c] = result[c]
        /\ \A c \in Calls : \A m \in 0..MaxRetries :
             /\ Made(c, m)' <=> Made(c, m)
             /\ Left(c, m)' <=> Left(c, m) \/ <<c, m>> = rid
        /\ phase'[q] = "done" =>
             result'[q] = rid /\ retryCount'[q] = retryCount[q]
    BY <1>0, <1>2, <2>1, GoOnEffect
  <2>3. SettledWhenLeft'
    BY <1>0, <1>2, <2>2 DEF SettledWhenLeft
  <2>4. ASSUME NEW c \in Calls, NEW m \in 0..MaxRetries
        PROVE  <<c, m>> \in timers' <=> m = retryCount'[c] /\ phase'[c] = "awaiting"
    <3>1. CASE c = q
      <4>1. <<c, m>> \in timers => <<c, m>> = rid
        BY <1>0, <1>2, <3>1 DEF Timed
      <4>2. QED
        BY <2>2, <3>1, <4>1
    <3>2. CASE c # q
      <4>1. <<c, m>> # rid
        BY <3>2
      <4>2. QED
        BY <1>0, <2>2, <3>2, <4>1 DEF Timed
    <3>3. QED
      BY <3>1, <3>2
  <2>5. ASSUME NEW c \in Calls, phase'[c] = "done"
        PROVE  result'[c] = <<c, retryCount'[c]>>
    <3>1. CASE c = q
      BY <1>2, <2>2, <2>5, <3>1
    <3>2. CASE c # q
      BY <1>0, <2>2, <2>5, <3>2 DEF AnswerOfLastAttempt, Current
    <3>3. QED
      BY <3>1, <3>2
  <2>6. settled' \subseteq Rid /\ timers' \subseteq Rid
    BY <1>0, <1>2 DEF TypeOK
  <2>7. QED
    BY <2>2, <2>3, <2>4, <2>5, <2>6 DEF Timed, AnswerOfLastAttempt, Current
<1>3. QED
  BY <1>1, <1>2, SettleCases

\* handleReply calls back once or does nothing.
LEMMA ReplyEnds ==
  ASSUME IInv, NEW q \in Calls, NEW n \in 0..MaxRetries, NEW outcome,
         wire[<<q, n>>] # "none", HandleReply(<<q, n>>, outcome)
  PROVE  /\ phase' \in [Calls -> Phases]
         /\ retryCount' \in [Calls -> 0..MaxRetries]
         /\ result' \in [Calls -> Rid \cup {NoResult}]
         /\ settled' \subseteq Rid /\ timers' \subseteq Rid
         /\ \A c \in Calls : \A m \in 0..MaxRetries : Made(c, m)' <=> Made(c, m)
         /\ SettledWhenLeft' /\ Timed' /\ AnswerOfLastAttempt'
<1>1. CASE Callback(<<q, n>>, outcome)
  BY <1>1, AttemptEnds DEF Callback
<1>2. CASE UNCHANGED <<timers, settled, phase, retryCount, result>>
  BY <1>2 DEF IInv, TypeOK, Made, SettledWhenLeft, Left, Timed, AnswerOfLastAttempt, Current
<1>3. QED
  BY <1>1, <1>2 DEF HandleReply

\* The wire of one attempt moves on; that of the others stays.
LEMMA WireMoves ==
  ASSUME TypeOK, NEW rid \in Rid,
         NEW w \in {"none", "looking", "sent", "executed", "closed", "astray"},
         wire' = [wire EXCEPT ![rid] = w]
  PROVE  /\ wire' \in [Rid -> {"none", "looking", "sent", "executed", "closed", "astray"}]
         /\ wire'[rid] = w
         /\ \A r \in Rid : r # rid => wire'[r] = wire[r]
BY DEF TypeOK

\* With every attempt that was on the wire still there, and no other.
LEMMA WireKept ==
  ASSUME IInv, NEW rid \in Rid, wire[rid] # "none", wire'[rid] # "none",
         \A r \in Rid : r # rid => wire'[r] = wire[r],
         \A c \in Calls : \A m \in 0..MaxRetries : Made(c, m)' <=> Made(c, m)
  PROVE  OnlyMadeOnWire'
<1>1. ASSUME NEW c \in Calls, NEW m \in 0..MaxRetries
      PROVE  wire'[<<c, m>>] # "none" <=> Made(c, m)'
  <2>1. <<c, m>> \in Rid
    BY DEF Rid
  <2>2. wire'[<<c, m>>] # "none" <=> wire[<<c, m>>] # "none"
    BY <2>1
  <2>3. QED
    BY <2>2 DEF IInv, OnlyMadeOnWire
<1>2. QED
  BY <1>1 DEF OnlyMadeOnWire

-----------------------------------------------------------------------------
\* Every step keeps the invariant.
LEMMA NextIInv == IInv /\ [Next]_vars => IInv'
<1> SUFFICES ASSUME IInv, [Next]_vars PROVE IInv'
  OBVIOUS
<1> USE MaxRetriesAssumption
<1>0. /\ TypeOK /\ SettledWhenLeft /\ OnlyMadeOnWire /\ ExecutedOnWire
      /\ OnlyAstrayLeaks /\ Timed /\ AnswerOfLastAttempt
  BY DEF IInv
<1>1. ASSUME NEW q \in Calls, Attempt(q) PROVE IInv'
  <2>1. /\ Current(q) \in Rid /\ retryCount[q] \in 0..MaxRetries
        /\ phase[q] \in {"new", "pausing"}
    BY <1>0, <1>1 DEF TypeOK, Current, Rid, Attempt
  <2>2. /\ phase' = [phase EXCEPT ![q] = "awaiting"]
        /\ timers' = timers \cup {Current(q)}
        /\ wire' = [wire EXCEPT ![Current(q)] = "looking"]
        /\ UNCHANGED <<retryCount, result, settled, table, executed>>
    BY <1>1 DEF Attempt
  <2>3. ~Made(q, retryCount[q])
    BY <1>0, <2>1 DEF Made, TypeOK
  <2>4. wire[Current(q)] = "none"
    BY <1>0, <2>1, <2>3 DEF OnlyMadeOnWire, Current
  <2>5. /\ wire' \in [Rid -> {"none", "looking", "sent", "executed", "closed", "astray"}]
        /\ wire'[Current(q)] = "looking"
        /\ \A r \in Rid : r # Current(q) => wire'[r] = wire[r]
    BY <1>0, <2>1, <2>2, WireMoves
  <2>6. phase' \in [Calls -> Phases]
    BY <1>0, <2>2 DEF TypeOK, Phases
  <2>7. TypeOK'
    BY <1>0, <2>1, <2>2, <2>5, <2>6 DEF TypeOK
  <2>8. SettledWhenLeft' /\ Timed' /\ AnswerOfLastAttempt'
    BY <1>0, <2>1, <2>2
       DEF TypeOK, SettledWhenLeft, Left, Timed, AnswerOfLastAttempt, Current
  <2>9. OnlyMadeOnWire'
    <3> SUFFICES ASSUME NEW c \in Calls, NEW m \in 0..MaxRetries
                 PROVE  wire'[<<c, m>>] # "none" <=> Made(c, m)'
      BY DEF OnlyMadeOnWire
    <3>1. <<c, m>> \in Rid
      BY DEF Rid
    <3>2. CASE <<c, m>> = Current(q)
      BY <1>0, <2>2, <2>5, <3>2 DEF TypeOK, Made, Current
    <3>3. CASE <<c, m>> # Current(q)
      <4>1. wire'[<<c, m>>] = wire[<<c, m>>]
        BY <2>5, <3>1, <3>3
      <4>2. Made(c, m)' <=> Made(c, m)
        BY <1>0, <2>1, <2>2, <3>3 DEF TypeOK, Made, Current
      <4>3. QED
        BY <1>0, <4>1, <4>2 DEF OnlyMadeOnWire
    <3>4. QED
      BY <3>2, <3>3
  <2>10. ExecutedOnWire' /\ OnlyAstrayLeaks'
    BY <1>0, <2>2, <2>4, <2>5 DEF ExecutedOnWire, OnlyAstrayLeaks
  <2>11. QED
    BY <2>7, <2>8, <2>9, <2>10 DEF IInv
<1>2. ASSUME NEW rid \in Rid, TimerFires(rid) PROVE IInv'
  <2>1. PICK q \in Calls, n \in 0..MaxRetries : rid = <<q, n>>
    BY DEF Rid
  <2>2. Made(q, n)
    BY <1>0, <1>2, <2>1 DEF TimerFires, Timed, Made
  <2>3. wire[rid] # "none"
    BY <1>0, <2>1, <2>2 DEF OnlyMadeOnWire
  <2>4. timers' = timers \ {rid} /\ Settle(rid, "error") /\ UNCHANGED <<wire, table, executed>>
    BY <1>2 DEF TimerFires
  <2>5. /\ phase' \in [Calls -> Phases]
        /\ retryCount' \in [Calls -> 0..MaxRetries]
        /\ result' \in [Calls -> Rid \cup {NoResult}]
        /\ settled' \subseteq Rid /\ timers' \subseteq Rid
        /\ \A c \in Calls : \A m \in 0..MaxRetries : Made(c, m)' <=> Made(c, m)
        /\ SettledWhenLeft' /\ Timed' /\ AnswerOfLastAttempt'
    BY <2>1, <2>3, <2>4, AttemptEnds
  <2>6. OnlyMadeOnWire' /\ ExecutedOnWire' /\ OnlyAstrayLeaks'
    BY <1>0, <2>4, <2>5 DEF OnlyMadeOnWire, ExecutedOnWire, OnlyAstrayLeaks
  <2>7. QED
    BY <1>0, <2>4, <2>5, <2>6 DEF IInv, TypeOK
<1>3. ASSUME NEW rid \in Rid, LookupFails(rid) PROVE IInv'
  <2>1. PICK q \in Calls, n \in 0..MaxRetries : rid = <<q, n>>
    BY DEF Rid
  <2>2. /\ wire[rid] = "looking" /\ wire' = [wire EXCEPT ![rid] = "closed"]
        /\ timers' = timers \ {rid} /\ Settle(rid, "error")
        /\ UNCHANGED <<table, executed>>
    BY <1>3 DEF LookupFails, Callback
  <2>3. /\ phase' \in [Calls -> Phases]
        /\ retryCount' \in [Calls -> 0..MaxRetries]
        /\ result' \in [Calls -> Rid \cup {NoResult}]
        /\ settled' \subseteq Rid /\ timers' \subseteq Rid
        /\ \A c \in Calls : \A m \in 0..MaxRetries : Made(c, m)' <=> Made(c, m)
        /\ SettledWhenLeft' /\ Timed' /\ AnswerOfLastAttempt'
    BY <2>1, <2>2, AttemptEnds
  <2>4. /\ wire' \in [Rid -> {"none", "looking", "sent", "executed", "closed", "astray"}]
        /\ wire'[rid] = "closed" /\ \A r \in Rid : r # rid => wire'[r] = wire[r]
    BY <1>0, <2>2, WireMoves
  <2>5. OnlyMadeOnWire'
    BY <2>2, <2>3, <2>4, WireKept
  <2>6. ExecutedOnWire' /\ OnlyAstrayLeaks'
    BY <1>0, <2>2, <2>4 DEF ExecutedOnWire, OnlyAstrayLeaks
  <2>7. QED
    BY <1>0, <2>2, <2>3, <2>4, <2>5, <2>6 DEF IInv, TypeOK
<1>4. ASSUME NEW rid \in Rid, SendRequest(rid) PROVE IInv'
  <2>1. /\ wire[rid] = "looking" /\ wire' = [wire EXCEPT ![rid] = "sent"]
        /\ table' = table \cup {rid}
        /\ UNCHANGED <<phase, retryCount, result, settled, timers, executed>>
    BY <1>4 DEF SendRequest
  <2>2. /\ wire' \in [Rid -> {"none", "looking", "sent", "executed", "closed", "astray"}]
        /\ wire'[rid] = "sent" /\ \A r \in Rid : r # rid => wire'[r] = wire[r]
    BY <1>0, <2>1, WireMoves
  <2>3. OnlyMadeOnWire'
    BY <2>1, <2>2, WireKept DEF Made
  <2>4. ExecutedOnWire' /\ OnlyAstrayLeaks'
    BY <1>0, <2>1, <2>2 DEF ExecutedOnWire, OnlyAstrayLeaks
  <2>5. QED
    BY <1>0, <2>1, <2>2, <2>3, <2>4
       DEF IInv, TypeOK, SettledWhenLeft, Left, Timed, AnswerOfLastAttempt, Current
<1>5. ASSUME NEW rid \in Rid, Execute(rid) PROVE IInv'
  <2>1. /\ wire[rid] = "sent" /\ wire' = [wire EXCEPT ![rid] = "executed"]
        /\ executed' = executed \cup {rid}
        /\ UNCHANGED <<phase, retryCount, result, settled, timers, table>>
    BY <1>5 DEF Execute
  <2>2. /\ wire' \in [Rid -> {"none", "looking", "sent", "executed", "closed", "astray"}]
        /\ wire'[rid] = "executed" /\ \A r \in Rid : r # rid => wire'[r] = wire[r]
    BY <1>0, <2>1, WireMoves
  <2>3. OnlyMadeOnWire'
    BY <2>1, <2>2, WireKept DEF Made
  <2>4. ExecutedOnWire' /\ OnlyAstrayLeaks'
    BY <1>0, <2>1, <2>2 DEF ExecutedOnWire, OnlyAstrayLeaks
  <2>5. QED
    BY <1>0, <2>1, <2>2, <2>3, <2>4
       DEF IInv, TypeOK, SettledWhenLeft, Left, Timed, AnswerOfLastAttempt, Current
<1>6. ASSUME NEW rid \in Rid, PostFails(rid) PROVE IInv'
  <2>1. PICK q \in Calls, n \in 0..MaxRetries : rid = <<q, n>>
    BY DEF Rid
  <2>2. /\ wire[rid] \in {"sent", "executed"} /\ wire' = [wire EXCEPT ![rid] = "closed"]
        /\ executed' = executed
    BY <1>6 DEF PostFails
  <2>3. PICK outcome : HandleReply(rid, outcome)
    BY <1>6 DEF PostFails
  <2>4. /\ phase' \in [Calls -> Phases]
        /\ retryCount' \in [Calls -> 0..MaxRetries]
        /\ result' \in [Calls -> Rid \cup {NoResult}]
        /\ settled' \subseteq Rid /\ timers' \subseteq Rid
        /\ \A c \in Calls : \A m \in 0..MaxRetries : Made(c, m)' <=> Made(c, m)
        /\ SettledWhenLeft' /\ Timed' /\ AnswerOfLastAttempt'
    BY <2>1, <2>2, <2>3, ReplyEnds
  <2>5. table' = table \ {rid}
    BY <2>3 DEF HandleReply
  <2>6. /\ wire' \in [Rid -> {"none", "looking", "sent", "executed", "closed", "astray"}]
        /\ wire'[rid] = "closed" /\ \A r \in Rid : r # rid => wire'[r] = wire[r]
    BY <1>0, <2>2, WireMoves
  <2>7. OnlyMadeOnWire'
    BY <2>2, <2>4, <2>6, WireKept
  <2>8. ExecutedOnWire' /\ OnlyAstrayLeaks'
    BY <1>0, <2>2, <2>5, <2>6 DEF ExecutedOnWire, OnlyAstrayLeaks
  <2>9. QED
    BY <1>0, <2>2, <2>4, <2>5, <2>6, <2>7, <2>8 DEF IInv, TypeOK
<1>7. ASSUME NEW rid \in Rid, PostReturns(rid) PROVE IInv'
  <2>1. PICK w \in {"closed", "astray"} : wire' = [wire EXCEPT ![rid] = w]
    BY <1>7 DEF PostReturns
  <2>2. wire[rid] = "executed" /\ executed' = executed /\ table' \subseteq table
    BY <1>7 DEF PostReturns, HandleReply
  <2>3. rid \in table' => w = "astray"
    BY <1>0, <1>7, <2>1 DEF PostReturns, HandleReply, TypeOK
  <2>4. /\ phase' \in [Calls -> Phases]
        /\ retryCount' \in [Calls -> 0..MaxRetries]
        /\ result' \in [Calls -> Rid \cup {NoResult}]
        /\ settled' \subseteq Rid /\ timers' \subseteq Rid
        /\ \A c \in Calls : \A m \in 0..MaxRetries : Made(c, m)' <=> Made(c, m)
        /\ SettledWhenLeft' /\ Timed' /\ AnswerOfLastAttempt'
    <3>1. CASE \E named \in executed, outcome \in Outcomes : HandleReply(named, outcome)
      <4>1. PICK named \in executed, outcome \in Outcomes : HandleReply(named, outcome)
        BY <3>1
      <4>2. named \in Rid /\ wire[named] # "none"
        BY <1>0, <4>1 DEF TypeOK, ExecutedOnWire
      <4>3. PICK q \in Calls, n \in 0..MaxRetries : named = <<q, n>>
        BY <4>2 DEF Rid
      <4> QED  BY <4>1, <4>2, <4>3, ReplyEnds
    <3>2. CASE UNCHANGED <<phase, retryCount, result, settled, timers>>
      BY <1>0, <3>2
         DEF TypeOK, Made, SettledWhenLeft, Left, Timed, AnswerOfLastAttempt, Current
    <3> QED  BY <1>7, <3>1, <3>2 DEF PostReturns
  <2>5. /\ wire' \in [Rid -> {"none", "looking", "sent", "executed", "closed", "astray"}]
        /\ wire'[rid] = w /\ \A r \in Rid : r # rid => wire'[r] = wire[r]
    BY <1>0, <2>1, WireMoves
  <2>6. OnlyMadeOnWire'
    BY <2>1, <2>2, <2>4, <2>5, WireKept
  <2>7. ExecutedOnWire'
    BY <1>0, <2>1, <2>2, <2>5 DEF ExecutedOnWire
  <2>8. OnlyAstrayLeaks'
    BY <1>0, <2>2, <2>3, <2>5 DEF OnlyAstrayLeaks
  <2> QED
    BY <1>0, <2>2, <2>4, <2>5, <2>6, <2>7, <2>8 DEF IInv, TypeOK
<1>8. CASE UNCHANGED vars
  BY <1>0, <1>8
     DEF vars, IInv, TypeOK, SettledWhenLeft, Left, OnlyMadeOnWire, Made, ExecutedOnWire,
         OnlyAstrayLeaks, Timed, AnswerOfLastAttempt, Current
<1>9. QED
  BY <1>1, <1>2, <1>3, <1>4, <1>5, <1>6, <1>7, <1>8 DEF Next

\* The invariant holds in every reachable state.
THEOREM TransportInvariant == Spec => []IInv
BY InitIInv, NextIInv, PTL DEF Spec

\* A call returns the answer to its last attempt.
THEOREM LateAnswersIgnored == Spec => []AnswerOfLastAttempt
<1>1. IInv => AnswerOfLastAttempt
  BY DEF IInv
<1>2. QED
  BY <1>1, TransportInvariant, PTL

\* The state of the transport keeps its types.
THEOREM TransportTypes == Spec => []TypeOK
<1>1. IInv => TypeOK
  BY DEF IInv
<1>2. QED
  BY <1>1, TransportInvariant, PTL

\* An entry of the table is owed an answer, or its answer named another request.
THEOREM EntriesAccountedFor == Spec => []OnlyAstrayLeaks
<1>1. IInv => OnlyAstrayLeaks
  BY DEF IInv
<1>2. QED
  BY <1>1, TransportInvariant, PTL

\* The timers that are set are those of the attempts that are waited for.
THEOREM OneTimerPerWait == Spec => []TimerWhileAwaiting
<1>1. ASSUME IInv PROVE TimerWhileAwaiting
  <2>1. TypeOK /\ Timed
    BY <1>1 DEF IInv
  <2>2. \A q \in Calls : retryCount[q] \in 0..MaxRetries
    BY <2>1 DEF TypeOK
  <2>3. ASSUME NEW rid \in timers
        PROVE  \E c \in Calls : phase[c] = "awaiting" /\ rid = Current(c)
    <3>1. PICK q \in Calls, n \in 0..MaxRetries : rid = <<q, n>>
      BY <2>1 DEF TypeOK, Rid
    <3>2. QED
      BY <2>1, <3>1 DEF Timed, Current
  <2>4. ASSUME NEW c \in Calls, phase[c] = "awaiting" PROVE Current(c) \in timers
    BY <2>1, <2>2, <2>4 DEF Timed, Current
  <2>5. QED
    BY <2>3, <2>4 DEF TimerWhileAwaiting
<1>2. QED
  BY <1>1, TransportInvariant, PTL

-----------------------------------------------------------------------------
(* Transport implements RemoteCall.                                        *)

\* A settlement is a step of the call, or nothing the caller sees.
LEMMA SettleRefines ==
  ASSUME IInv, NEW q \in Calls, NEW n \in 0..MaxRetries, NEW outcome,
         wire[<<q, n>>] # "none", Settle(<<q, n>>, outcome), executed' = executed,
         outcome = "ok" => <<q, n>> \in executed
  PROVE  \/ Promised!Succeed(q) \/ Promised!Retry(q) \/ Promised!Fail(q)
         \/ UNCHANGED Promised!vars
<1>1. CASE UNCHANGED <<settled, phase, retryCount, result>>
  BY <1>1 DEF Promised!vars
<1>2. CASE n = retryCount[q] /\ phase[q] = "awaiting" /\ GoOn(q, <<q, n>>, outcome)
  <2>1. retryCount[q] \in 0..MaxRetries
    BY DEF IInv, TypeOK
  <2>2. CASE outcome = "ok"
    BY <1>2, <2>2 DEF GoOn, Promised!Succeed
  <2>3. CASE phase' = [phase EXCEPT ![q] = "failed"] /\ UNCHANGED <<retryCount, result>>
    BY <1>2, <2>3 DEF Promised!Fail
  <2>4. CASE /\ ~(retryCount[q] >= MaxRetries)
             /\ phase' = [phase EXCEPT ![q] = "pausing"]
             /\ retryCount' = [retryCount EXCEPT ![q] = @ + 1]
    <3>1. retryCount[q] < MaxRetries
      BY <2>1, <2>4, MaxRetriesAssumption
    <3>2. QED
      BY <1>2, <2>4, <3>1 DEF Promised!Retry
  <2>5. QED
    BY <1>2, <2>2, <2>3, <2>4 DEF GoOn
<1>3. QED
  BY <1>1, <1>2, SettleCases

\* So is what handleReply does.
LEMMA ReplyRefines ==
  ASSUME IInv, NEW q \in Calls, NEW n \in 0..MaxRetries, NEW outcome,
         wire[<<q, n>>] # "none", HandleReply(<<q, n>>, outcome), executed' = executed,
         outcome = "ok" => <<q, n>> \in executed
  PROVE  \/ Promised!Succeed(q) \/ Promised!Retry(q) \/ Promised!Fail(q)
         \/ UNCHANGED Promised!vars
<1>1. CASE Callback(<<q, n>>, outcome)
  BY <1>1, SettleRefines DEF Callback
<1>2. CASE UNCHANGED <<timers, settled, phase, retryCount, result>>
  BY <1>2 DEF Promised!vars
<1>3. QED
  BY <1>1, <1>2 DEF HandleReply

\* Every step of the transport is a step of RemoteCall or none.
LEMMA NextRefines == IInv /\ [Next]_vars => [Promised!Next]_(Promised!vars)
<1> SUFFICES ASSUME IInv, [Next]_vars PROVE Promised!Next \/ UNCHANGED Promised!vars
  OBVIOUS
<1>1. ASSUME NEW q \in Calls, Attempt(q) PROVE Promised!Next
  <2>1. Promised!Try(q)
    BY <1>1 DEF Attempt, Promised!Try
  <2>2. QED
    BY <2>1 DEF Promised!Next
<1>2. ASSUME NEW rid \in Rid,
             TimerFires(rid) \/ LookupFails(rid) \/ PostFails(rid) \/ PostReturns(rid)
      PROVE  Promised!Next \/ UNCHANGED Promised!vars
  <2>1. PICK q \in Calls, n \in 0..MaxRetries : rid = <<q, n>>
    BY DEF Rid
  <2>2. executed' = executed
    BY <1>2 DEF TimerFires, LookupFails, PostFails, PostReturns
  <2>3. wire[rid] # "none"
    <3>1. CASE TimerFires(rid)
      BY <2>1, <3>1 DEF TimerFires, IInv, Timed, OnlyMadeOnWire, Made
    <3>2. CASE LookupFails(rid) \/ PostFails(rid) \/ PostReturns(rid)
      BY <3>2 DEF LookupFails, PostFails, PostReturns
    <3>3. QED
      BY <1>2, <3>1, <3>2
  <2>4. CASE TimerFires(rid) \/ LookupFails(rid)
    <3>1. Settle(rid, "error")
      BY <2>4 DEF TimerFires, LookupFails, Callback
    <3>2. QED
      BY <2>1, <2>2, <2>3, <3>1, SettleRefines DEF Promised!Next
  <2>5. CASE PostFails(rid)
    <3>1. HandleReply(rid, "error")
      BY <2>5 DEF PostFails
    <3>2. QED
      BY <2>1, <2>2, <2>3, <3>1, ReplyRefines DEF Promised!Next
  <2>6. CASE PostReturns(rid)
    <3>1. CASE \E named \in executed, outcome \in Outcomes : HandleReply(named, outcome)
      <4>1. PICK named \in executed, outcome \in Outcomes : HandleReply(named, outcome)
        BY <3>1
      <4>2. named \in Rid /\ wire[named] # "none"
        BY <4>1 DEF IInv, TypeOK, ExecutedOnWire
      <4>3. PICK c \in Calls, m \in 0..MaxRetries : named = <<c, m>>
        BY <4>2 DEF Rid
      <4> QED  BY <2>2, <4>1, <4>2, <4>3, ReplyRefines DEF Promised!Next
    <3>2. CASE UNCHANGED <<phase, retryCount>>
      BY <2>2, <3>2 DEF Promised!vars
    <3> QED  BY <2>6, <3>1, <3>2 DEF PostReturns
  <2>7. QED
    BY <1>2, <2>4, <2>5, <2>6
<1>3. ASSUME NEW rid \in Rid, SendRequest(rid) PROVE UNCHANGED Promised!vars
  BY <1>3 DEF SendRequest, Promised!vars
<1>4. ASSUME NEW rid \in Rid, Execute(rid) PROVE Promised!Next
  <2>1. PICK q \in Calls, n \in 0..MaxRetries : rid = <<q, n>>
    BY DEF Rid
  <2>2. Made(q, n)
    BY <1>4, <2>1 DEF Execute, IInv, OnlyMadeOnWire
  <2>3. rid \notin executed
    BY <1>4 DEF Execute, IInv, ExecutedOnWire
  <2>4. Promised!Execute(q, n)
    BY <1>4, <2>1, <2>2, <2>3 DEF Execute, Made, Promised!Execute
  <2>5. QED
    BY <2>4 DEF Promised!Next
<1>5. CASE UNCHANGED vars
  BY <1>5 DEF vars, Promised!vars
<1>6. QED
  BY <1>1, <1>2, <1>3, <1>4, <1>5 DEF Next

\* The promise, the timer, the table and the sockets together do what RemoteCall
\* promises: a bounded number of tries, one after the other, each executed at
\* most once, and success only by the answer to the try that is waited for.
THEOREM TransportKeepsPromise == Spec => RemoteCallSpec
<1>1. Init => Promised!Init
  BY DEF Init, Promised!Init
<1>2. IInv /\ [Next]_vars => [Promised!Next]_(Promised!vars)
  BY NextRefines
<1>3. QED
  BY <1>1, <1>2, TransportInvariant, PTL DEF Spec, RemoteCallSpec, Promised!Spec
=============================================================================
