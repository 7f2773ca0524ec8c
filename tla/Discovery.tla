----------------------------- MODULE Discovery ------------------------------
(***************************************************************************)
(* How nodes come, find one another and go: start and stop of P2PService   *)
(* (src/src/services/P2PService.ts), the processes around it (client.ts,   *)
(* server.ts and the restart policy of docker-compose.yml), and the        *)
(* rewriting of addresses to container names in the patched transport      *)
(* (src/patch-grenache-http.js).                                           *)
(*                                                                         *)
(* A server announces its address in the grape every second; a client      *)
(* tries a few times to copy some server's book, then trades, copying      *)
(* again every few seconds.  An attempt to copy is a request as a whole    *)
(* (Transport).  Docker gives a container an address when it starts, not   *)
(* always the same; the grape forgets what is not announced again, in its  *)
(* own time.  Of a book only its origin is kept.                           *)
(***************************************************************************)
EXTENDS Naturals

CONSTANTS
  Servers, Clients,
  Port,            \* Port[s]: NODE_PORT
  Address,
  AddressesOf,     \* AddressesOf[n]: the addresses Docker may give to a node
  ContainerMap,    \* CONTAINER_IP_MAP
  MaxSyncAttempts, \* maxSyncAttempts (5 in the code)
  Stopping         \* the nodes that users may stop

VARIABLES
  life,          \* life[n]: how far the process of a node is
  address,       \* address[n]: the address of its container
  announcements, \* the pairs of a server and an address the grape answers with
  dest,          \* dest[c][a]: conf.dest of client c's transport for address a
  syncAttempt,   \* syncAttempt[c]: attempt, in startClient
  held           \* held[c]: the server whose book, as it still is, c has a copy of

vars == <<life, address, announcements, dest, syncAttempt, held>>

Nodes == Servers \cup Clients

NoAddress == "none"
NoServer == "none"

ASSUME NodesAssumption ==
  /\ Servers \cap Clients = {}
  /\ Stopping \subseteq Nodes
  /\ NoServer \notin Nodes

\* The map is from addresses to names, and a name is not an address.
ASSUME AddressAssumption ==
  /\ AddressesOf \in [Nodes -> SUBSET Address]
  /\ DOMAIN ContainerMap \subseteq Address
  /\ \A a \in DOMAIN ContainerMap : ContainerMap[a] \in Nodes
  /\ Address \cap Nodes = {}
  /\ NoAddress \notin Address

ASSUME AttemptsAssumption == MaxSyncAttempts \in Nat \ {0}

Phases == {"down", "waiting", "syncing", "pausing", "running", "stopped"}

-----------------------------------------------------------------------------
\* A process that a request can reach: it has called listen, and is still there.
Listening(n) == n \in Servers /\ life[n] \in {"waiting", "running"}

Up(n) == life[n] \notin {"down", "stopped"}

\* What a name or an address leads to in Docker's network.
Resolves(host, n) == Up(n) /\ (host = n \/ host = address[n])

\* The node that getOpts takes an address for: the one the map names, right or not,
\* and else the one that has it.
MeantBy(a, n) ==
  IF a \in DOMAIN ContainerMap THEN ContainerMap[a] = n ELSE address[n] = a

\* What getOpts makes of the host of conf.dest.
Rewritten(host) == IF host \in DOMAIN ContainerMap THEN ContainerMap[host] ELSE host

\* GetOpts with a bug: the transports of a client have one conf between them.
GetOptsShared(c, a) ==
  dest' = [dest EXCEPT ![c] = [b \in Address |-> Rewritten(dest[c][a])]]

\* getOpts: conf.dest is rewritten for good, each time the transport is used.
GetOpts(c, a) == dest' = [dest EXCEPT ![c][a] = Rewritten(@)]

\* The server that answers a post for port p by client c's transport for a.
Reaches(c, a, p, s) == Listening(s) /\ Port[s] = p /\ Resolves(Rewritten(dest[c][a]), s)

-----------------------------------------------------------------------------
Init ==
  /\ life = [n \in Nodes |-> "down"]
  /\ address = [n \in Nodes |-> NoAddress]
  /\ announcements = {}
  /\ dest = [c \in Clients |-> [a \in Address |-> a]]
  /\ syncAttempt = [c \in Clients |-> 0]
  /\ held = [c \in Clients |-> NoServer]

\* A container is given an address and its process calls start: a server listens
\* and sets its timer, both then wait.  Transports and attempts begin anew.
Start(n) ==
  /\ life[n] = "down"
  /\ \E a \in AddressesOf[n] \ {address[m] : m \in Nodes} :
       address' = [address EXCEPT ![n] = a]
  /\ life' = [life EXCEPT ![n] = "waiting"]
  /\ dest' = [c \in Clients |-> IF c = n THEN [a \in Address |-> a] ELSE dest[c]]
  /\ syncAttempt' = [c \in Clients |-> IF c = n THEN 0 ELSE syncAttempt[c]]
  /\ UNCHANGED <<announcements, held>>

\* The server's five seconds are over: start returns to main.
ServerReady(s) ==
  /\ life[s] = "waiting"
  /\ life' = [life EXCEPT ![s] = "running"]
  /\ UNCHANGED <<address, announcements, dest, syncAttempt, held>>

\* Announcing with a bug: the timer is cleared when start returns.
AnnouncingAtStart(s) == life[s] = "waiting"

\* announceInterval is set.
Announcing(s) == Listening(s)

AnnounceTick(s) ==
  /\ Announcing(s)
  /\ announcements' = announcements \cup {<<s, address[s]>>}
  /\ UNCHANGED <<life, address, dest, syncAttempt, held>>

\* The grape forgets an announcement that is not renewed.
Expire(s, a) ==
  /\ <<s, a>> \in announcements
  /\ ~(Announcing(s) /\ address[s] = a)
  /\ announcements' = announcements \ {<<s, a>>}
  /\ UNCHANGED <<life, address, dest, syncAttempt, held>>

-----------------------------------------------------------------------------
\* The client's ten seconds, or its delay between two attempts, are over.
BeginSync(c) ==
  /\ life[c] \in {"waiting", "pausing"}
  /\ life' = [life EXCEPT ![c] = "syncing"]
  /\ syncAttempt' = [syncAttempt EXCEPT ![c] = @ + 1]
  /\ UNCHANGED <<address, announcements, dest, held>>

\* SyncFails with a bug: one attempt too many.
SyncFailsOnceMore(c) ==
  /\ life[c] = "syncing"
  /\ life' = [life EXCEPT ![c] = IF syncAttempt[c] <= MaxSyncAttempts
                                   THEN "pausing" ELSE "running"]
  /\ UNCHANGED <<address, announcements, dest, syncAttempt, held>>

\* SyncFails with a bug: the last failure is not the end of the loop.
SyncFailsForEver(c) ==
  /\ life[c] = "syncing"
  /\ life' = [life EXCEPT ![c] = "pausing"]
  /\ syncAttempt' = [syncAttempt EXCEPT ![c] = 0]
  /\ UNCHANGED <<address, announcements, dest, held>>

\* An initial attempt to sync fails, whatever was posted.
SyncFails(c) ==
  /\ life[c] = "syncing"
  /\ life' = [life EXCEPT ![c] = IF syncAttempt[c] < MaxSyncAttempts
                                   THEN "pausing" ELSE "running"]
  /\ UNCHANGED <<address, announcements, dest, syncAttempt, held>>

\* A client syncs, in startClient or periodically: its transport for an announced
\* address posts, and the answer is the book of the server it reaches.
SyncSucceeds(c, s, a) ==
  /\ life[c] \in {"syncing", "running"}
  /\ <<s, a>> \in announcements
  /\ GetOpts(c, a)
  /\ \E t \in Servers :
       /\ Reaches(c, a, Port[s], t)
       /\ held' = [held EXCEPT ![c] = t]
  /\ life' = [life EXCEPT ![c] = "running"]
  /\ UNCHANGED <<address, announcements, syncAttempt>>

\* A client posts in vain: nothing is there, or the answer is lost or late.
PostFails(c, s, a) ==
  /\ life[c] \in {"syncing", "running"}
  /\ <<s, a>> \in announcements
  /\ GetOpts(c, a)
  /\ UNCHANGED <<life, address, announcements, syncAttempt, held>>

-----------------------------------------------------------------------------
\* With the process goes its memory: a server's book, and a client's copy.
Gone(n, phase) ==
  /\ Up(n)
  /\ life' = [life EXCEPT ![n] = phase]
  /\ address' = [address EXCEPT ![n] = NoAddress]
  /\ held' = [c \in Clients |-> IF n \in {c, held[c]} THEN NoServer ELSE held[c]]
  /\ UNCHANGED <<announcements, dest, syncAttempt>>

\* SIGINT: stop, and exit(0), after which Docker does not start the container
\* again.  stop withdraws nothing from the grape.
Interrupt(n) == Gone(n, "stopped")

\* start throws, an exception or a rejection is not caught, or the process dies:
\* it exits with an error, and Docker starts the container again.
Crash(n) == Gone(n, "down")

Next ==
  \/ \E n \in Nodes : Start(n) \/ Crash(n)
  \/ \E n \in Stopping : Interrupt(n)
  \/ \E s \in Servers : ServerReady(s) \/ AnnounceTick(s)
  \/ \E s \in Servers, a \in Address : Expire(s, a)
  \/ \E c \in Clients : BeginSync(c) \/ SyncFails(c)
  \/ \E c \in Clients, s \in Servers, a \in Address :
       SyncSucceeds(c, s, a) \/ PostFails(c, s, a)

Spec == Init /\ [][Next]_vars

\* Docker starts what is down, timers go off, an attempt to sync ends, and the
\* grape forgets in the end.  A client picks any server at random, so one that
\* can answer it again and again does so some time.
FairSpec ==
  /\ Spec
  /\ \A n \in Nodes : WF_vars(Start(n))
  /\ \A s \in Servers :
       /\ WF_vars(ServerReady(s))
       /\ WF_vars(AnnounceTick(s))
       /\ \A a \in Address : WF_vars(Expire(s, a))
  /\ \A c \in Clients :
       /\ WF_vars(BeginSync(c))
       /\ WF_vars(SyncFails(c) \/ \E s \in Servers, a \in Address : SyncSucceeds(c, s, a))
       /\ \A s \in Servers : SF_vars(\E a \in Address : SyncSucceeds(c, s, a))

-----------------------------------------------------------------------------
\* The variables have the types of the code's state.
TypeOK ==
  /\ life \in [Nodes -> Phases]
  /\ address \in [Nodes -> Address \cup {NoAddress}]
  /\ announcements \subseteq Servers \X Address
  /\ dest \in [Clients -> [Address -> Address \cup Nodes]]
  /\ syncAttempt \in [Clients -> 0..MaxSyncAttempts]
  /\ held \in [Clients -> Servers \cup {NoServer}]

\* conf.dest is rewritten for good, again on every use, and survives the restarts
\* of servers.  For all that, a post for an announcement goes to the node that the
\* map, or else Docker, knows under the announced address, and to no other.  So the
\* announcer is reached whenever it is that node, and never when Docker gave it an
\* address the map has for another.
PostsFollowTheMap ==
  \A c \in Clients, s \in Servers, a \in Address :
    Up(c) /\ <<s, a>> \in announcements =>
      /\ \A n \in Nodes : Resolves(Rewritten(dest[c][a]), n) => MeantBy(a, n)
      /\ Listening(s) /\ MeantBy(a, s) =>
           /\ Reaches(c, a, Port[s], s)
           /\ \A n \in Nodes : Resolves(Rewritten(dest[c][a]), n) => n = s

\* Every start ends, though no server is ever found: a client trades in the end,
\* unless its process goes.
StartsEnd ==
  \A n \in Nodes : life[n] = "waiting" ~> life[n] \notin {"waiting", "syncing", "pausing"}

\* A server that stays, under an address the map does not give to another, and a
\* client that stays find each other, whatever becomes of the others and whatever
\* the grape still tells of them: again and again the client has a copy of the book
\* of a server that is there.
ClientsCatchUp ==
  \A s \in Servers, c \in Clients :
    <>[](Listening(s) /\ MeantBy(address[s], s)) /\ <>[]Up(c) => []<>(held[c] # NoServer)
=============================================================================
