--------------------------- MODULE DiscoveryProofs ---------------------------
(***************************************************************************)
(* Proofs about Discovery: types, and that posts go where the container    *)
(* map or Docker has the announced address, and nowhere else, for any      *)
(* number of nodes, any addresses and any map.                             *)
(***************************************************************************)
EXTENDS Discovery, TLAPS

\* Docker gives no address to two nodes at a time.
AddressesInUse ==
  \A n \in Nodes : address[n] # NoAddress =>
    \A m \in Nodes : address[m] = address[n] => m = n

\* A node whose process is there has an address.
UpHasAddress == \A n \in Nodes : Up(n) => address[n] # NoAddress

\* A transport's destination is as announced, or rewritten, and never twice.
DestOf == \A c \in Clients, a \in Address : dest[c][a] \in {a, Rewritten(a)}

\* startClient goes on to an attempt only while it has one left.
SyncsLeft == \A c \in Clients :
  life[c] \in {"waiting", "pausing"} => syncAttempt[c] < MaxSyncAttempts

IInv ==
  /\ TypeOK /\ AddressesInUse /\ UpHasAddress /\ DestOf
  /\ SyncsLeft

-----------------------------------------------------------------------------
\* getOpts may be applied again to what it has rewritten: a name is not in the map.
LEMMA RewrittenTwice ==
  ASSUME NEW a \in Address
  PROVE  /\ Rewritten(a) \in Address \cup Nodes
         /\ Rewritten(Rewritten(a)) = Rewritten(a)
<1>1. CASE a \in DOMAIN ContainerMap
  <2>1. Rewritten(a) = ContainerMap[a] /\ ContainerMap[a] \in Nodes
    BY <1>1, AddressAssumption DEF Rewritten
  <2>2. ContainerMap[a] \notin DOMAIN ContainerMap
    BY <2>1, AddressAssumption
  <2> QED  BY <2>1, <2>2 DEF Rewritten
<1>2. CASE a \notin DOMAIN ContainerMap
  BY <1>2 DEF Rewritten
<1> QED  BY <1>1, <1>2

\* getOpts keeps the destinations of the right form.
LEMMA GetOptsKeepsDest ==
  ASSUME TypeOK, DestOf, NEW c \in Clients, NEW a \in Address, GetOpts(c, a)
  PROVE  /\ dest' \in [Clients -> [Address -> Address \cup Nodes]]
         /\ DestOf'
<1>1. dest[c][a] \in {a, Rewritten(a)}
  BY DEF DestOf
<1>2. Rewritten(dest[c][a]) = Rewritten(a) /\ Rewritten(a) \in Address \cup Nodes
  BY <1>1, RewrittenTwice
<1>3. dest' = [dest EXCEPT ![c][a] = Rewritten(a)]
  BY <1>2 DEF GetOpts
<1>4. dest \in [Clients -> [Address -> Address \cup Nodes]]
  BY DEF TypeOK
<1>5. dest' \in [Clients -> [Address -> Address \cup Nodes]]
  BY <1>2, <1>3, <1>4
<1>6. ASSUME NEW d \in Clients, NEW b \in Address
      PROVE  dest'[d][b] \in {b, Rewritten(b)}
  <2>1. dest[d][b] \in {b, Rewritten(b)}
    BY DEF DestOf
  <2>2. CASE d = c /\ b = a
    BY <2>2, <1>3, <1>4
  <2>3. CASE ~(d = c /\ b = a)
    <3>1. dest'[d][b] = dest[d][b]
      BY <2>3, <1>3, <1>4
    <3> QED  BY <2>1, <3>1
  <2> QED  BY <2>2, <2>3
<1>7. DestOf'
  BY <1>6 DEF DestOf, Rewritten
<1> QED  BY <1>5, <1>7

-----------------------------------------------------------------------------
LEMMA InitKeeps == Init => IInv
<1> SUFFICES ASSUME Init PROVE IInv
  OBVIOUS
<1>1. TypeOK
  BY AttemptsAssumption DEF Init, TypeOK, Phases
<1>2. DestOf
  BY DEF Init, DestOf
<1>3. AddressesInUse /\ UpHasAddress
  BY DEF Init, AddressesInUse, UpHasAddress, Up
<1>4. SyncsLeft
  BY DEF Init, SyncsLeft, Nodes
<1> QED  BY <1>1, <1>2, <1>3, <1>4 DEF IInv

LEMMA StartKeeps ==
  ASSUME IInv, NEW n \in Nodes, Start(n) PROVE IInv'
<1> USE DEF IInv
<1>1. PICK a \in AddressesOf[n] \ {address[m] : m \in Nodes} :
        address' = [address EXCEPT ![n] = a]
  BY DEF Start
<1>2. a \in Address /\ a # NoAddress
  BY <1>1, AddressAssumption
<1>3. TypeOK'
  <2>1. life' \in [Nodes -> Phases]
    BY DEF Start, TypeOK, Phases
  <2>2. address' \in [Nodes -> Address \cup {NoAddress}]
    BY <1>1, <1>2 DEF TypeOK
  <2>3. dest' \in [Clients -> [Address -> Address \cup Nodes]]
    BY DEF Start, TypeOK
  <2>4. syncAttempt' \in [Clients -> 0..MaxSyncAttempts]
    BY AttemptsAssumption DEF Start, TypeOK
  <2>5. held' \in [Clients -> Servers \cup {NoServer}]
    BY DEF Start, TypeOK
  <2>6. announcements' \subseteq Servers \X Address
    BY DEF Start, TypeOK
  <2> QED  BY <2>1, <2>2, <2>3, <2>4, <2>5, <2>6 DEF TypeOK
<1>4. AddressesInUse'
  <2>1. \A m \in Nodes : address'[m] = IF m = n THEN a ELSE address[m]
    BY <1>1 DEF TypeOK
  <2>2. \A m \in Nodes : address[m] # a
    BY <1>1
  <2> QED  BY <1>1, <2>1, <2>2 DEF AddressesInUse
<1>6. UpHasAddress'
  BY <1>1, <1>2 DEF Start, UpHasAddress, Up, TypeOK
<1>7. DestOf'
  <2>1. \A c \in Clients, b \in Address : dest'[c][b] \in {b, dest[c][b]}
    BY DEF Start
  <2> QED  BY <2>1 DEF DestOf, Rewritten
<1>8. SyncsLeft'
  BY AttemptsAssumption DEF Start, SyncsLeft, TypeOK, Nodes
<1> QED  BY <1>3, <1>4, <1>6, <1>7, <1>8

LEMMA GoneKeeps ==
  ASSUME IInv, NEW n \in Nodes, NEW phase \in {"down", "stopped"}, Gone(n, phase)
  PROVE  IInv'
<1> USE DEF IInv
<1>1. TypeOK'
  BY DEF Gone, TypeOK, Phases
<1>2. \A m \in Nodes : address'[m] = IF m = n THEN NoAddress ELSE address[m]
  BY DEF Gone, TypeOK
<1>3. AddressesInUse'
  BY <1>2 DEF AddressesInUse
<1>4. DestOf'
  BY DEF Gone, DestOf, Rewritten
<1>5. UpHasAddress'
  BY <1>2 DEF Gone, UpHasAddress, Up, TypeOK
<1>6. SyncsLeft'
  BY DEF Gone, SyncsLeft, TypeOK, Nodes
<1> QED  BY <1>1, <1>3, <1>4, <1>5, <1>6

LEMMA ServerKeeps ==
  ASSUME IInv, NEW s \in Servers, ServerReady(s) \/ AnnounceTick(s)
  PROVE  IInv'
<1> USE DEF IInv
<1>0. s \in Nodes
  BY DEF Nodes
<1>1. CASE ServerReady(s)
  <2>1. TypeOK'
    BY <1>0, <1>1 DEF ServerReady, TypeOK, Phases
  <2>2. AddressesInUse' /\ DestOf'
    BY <1>1 DEF ServerReady, AddressesInUse, DestOf, Rewritten
  <2>3. UpHasAddress'
    BY <1>0, <1>1 DEF ServerReady, UpHasAddress, Up, TypeOK
  <2>4. SyncsLeft'
    BY <1>0, <1>1 DEF ServerReady, SyncsLeft, TypeOK, Nodes
  <2> QED  BY <2>1, <2>2, <2>3, <2>4
<1>2. CASE AnnounceTick(s)
  <2>1. address[s] # NoAddress
    BY <1>0, <1>2 DEF AnnounceTick, Announcing, Listening, UpHasAddress, Up
  <2>2. address[s] \in Address
    BY <1>0, <2>1 DEF TypeOK
  <2>3. TypeOK'
    BY <1>2, <2>2 DEF AnnounceTick, TypeOK
  <2>5. AddressesInUse' /\ UpHasAddress' /\ DestOf' /\ SyncsLeft'
    BY <1>2 DEF AnnounceTick, SyncsLeft, AddressesInUse, UpHasAddress, Up, DestOf, Rewritten
  <2> QED  BY <2>3, <2>5
<1> QED  BY <1>1, <1>2

LEMMA ExpireKeeps ==
  ASSUME IInv, NEW s \in Servers, NEW a \in Address, Expire(s, a)
  PROVE  IInv'
BY DEF IInv, SyncsLeft, Expire, TypeOK, AddressesInUse, UpHasAddress, Up, DestOf, Rewritten

LEMMA ClientKeeps ==
  ASSUME IInv, NEW c \in Clients,
         BeginSync(c) \/ SyncFails(c)
  PROVE  IInv'
<1> USE DEF IInv
<1>0. c \in Nodes
  BY DEF Nodes
<1>1. life' \in [Nodes -> Phases] /\ UpHasAddress'
  <2>1. CASE BeginSync(c)
    BY <1>0, <2>1 DEF BeginSync, TypeOK, Phases, UpHasAddress, Up
  <2>2. CASE SyncFails(c)
    BY <1>0, <2>2 DEF SyncFails, TypeOK, Phases, UpHasAddress, Up
  <2> QED  BY <2>1, <2>2
<1>2. syncAttempt' \in [Clients -> 0..MaxSyncAttempts]
  <2>1. CASE BeginSync(c)
    <3>1. syncAttempt[c] < MaxSyncAttempts /\ syncAttempt[c] \in Nat
      BY <2>1 DEF BeginSync, SyncsLeft, TypeOK
    <3> QED  BY <2>1, <3>1, AttemptsAssumption DEF BeginSync, TypeOK
  <2>2. CASE SyncFails(c)
    BY <2>2 DEF SyncFails, TypeOK
  <2> QED  BY <2>1, <2>2
<1>3. TypeOK'
  BY <1>1, <1>2 DEF BeginSync, SyncFails, TypeOK
<1>4. AddressesInUse' /\ DestOf'
  BY DEF BeginSync, SyncFails, AddressesInUse, DestOf, Rewritten
<1>5. SyncsLeft'
  <2>1. CASE BeginSync(c)
    BY <1>0, <2>1 DEF BeginSync, SyncsLeft, TypeOK
  <2>2. CASE SyncFails(c)
    BY <1>0, <2>2 DEF SyncFails, SyncsLeft, TypeOK
  <2> QED  BY <2>1, <2>2
<1> QED  BY <1>1, <1>3, <1>4, <1>5

LEMMA PostKeeps ==
  ASSUME IInv, NEW c \in Clients, NEW s \in Servers, NEW a \in Address,
         SyncSucceeds(c, s, a) \/ PostFails(c, s, a)
  PROVE  IInv'
<1> USE DEF IInv
<1>0. c \in Nodes
  BY DEF Nodes
<1>1. /\ dest' \in [Clients -> [Address -> Address \cup Nodes]]
      /\ DestOf'
  BY GetOptsKeepsDest DEF SyncSucceeds, PostFails
<1>2. CASE SyncSucceeds(c, s, a)
  <2>1. life' = [life EXCEPT ![c] = "running"]
    BY <1>2 DEF SyncSucceeds
  <2>2. life' \in [Nodes -> Phases]
    BY <2>1, <1>0 DEF TypeOK, Phases
  <2>3. PICK t \in Servers : held' = [held EXCEPT ![c] = t]
    BY <1>2 DEF SyncSucceeds
  <2>4. held' \in [Clients -> Servers \cup {NoServer}]
    BY <2>3 DEF TypeOK
  <2>5. UNCHANGED <<address, announcements, syncAttempt>>
    BY <1>2 DEF SyncSucceeds
  <2>6. TypeOK'
    BY <1>1, <2>2, <2>4, <2>5 DEF TypeOK
  <2>7. AddressesInUse'
    BY <2>5 DEF AddressesInUse
  <2>8. Up(c)
    BY <1>2 DEF SyncSucceeds, Up
  <2>9. UpHasAddress' /\ SyncsLeft'
    BY <1>0, <2>1, <2>5, <2>8 DEF UpHasAddress, SyncsLeft, Up, TypeOK, Nodes
  <2> QED  BY <1>1, <2>6, <2>7, <2>9
<1>3. CASE PostFails(c, s, a)
  BY <1>1, <1>3 DEF PostFails, TypeOK, AddressesInUse, UpHasAddress, Up,
                    SyncsLeft
<1> QED  BY <1>2, <1>3

-----------------------------------------------------------------------------
LEMMA NextKeeps == IInv /\ [Next]_vars => IInv'
<1> SUFFICES ASSUME IInv, [Next]_vars PROVE IInv'
  OBVIOUS
<1>1. ASSUME NEW n \in Nodes, Start(n) PROVE IInv'
  BY <1>1, StartKeeps
<1>2. ASSUME NEW n \in Nodes, Crash(n) PROVE IInv'
  BY <1>2, GoneKeeps DEF Crash
<1>3. ASSUME NEW n \in Stopping, Interrupt(n) PROVE IInv'
  BY <1>3, GoneKeeps, NodesAssumption DEF Interrupt
<1>4. ASSUME NEW s \in Servers, ServerReady(s) \/ AnnounceTick(s) PROVE IInv'
  BY <1>4, ServerKeeps
<1>5. ASSUME NEW s \in Servers, NEW a \in Address, Expire(s, a) PROVE IInv'
  BY <1>5, ExpireKeeps
<1>6. ASSUME NEW c \in Clients, BeginSync(c) \/ SyncFails(c) PROVE IInv'
  BY <1>6, ClientKeeps
<1>7. ASSUME NEW c \in Clients, NEW s \in Servers, NEW a \in Address,
             SyncSucceeds(c, s, a) \/ PostFails(c, s, a)
      PROVE  IInv'
  BY <1>7, PostKeeps
<1>8. CASE UNCHANGED vars
  BY <1>8 DEF vars, IInv, TypeOK, AddressesInUse, UpHasAddress, Up, DestOf,
              Rewritten, SyncsLeft
<1> QED  BY <1>1, <1>2, <1>3, <1>4, <1>5, <1>6, <1>7, <1>8 DEF Next

LEMMA DiscoveryInvariant == Spec => []IInv
<1> QED  BY InitKeeps, NextKeeps, PTL DEF Spec

\* Every state is well typed; a client makes at most MaxSyncAttempts initial
\* attempts to sync (startClient).
THEOREM DiscoveryTypes == Spec => []TypeOK
<1>1. IInv => TypeOK
  BY DEF IInv
<1> QED  BY <1>1, DiscoveryInvariant, PTL

\* Whatever the map says (docker-compose.yml, CONTAINER_IP_MAP) and however often
\* getOpts has rewritten conf.dest, a post for an announcement goes to the node
\* the map names for its address, or else the one that has it, and to no other.
THEOREM MapIsFollowed == Spec => []PostsFollowTheMap
<1>1. ASSUME IInv, NEW c \in Clients, NEW s \in Servers, NEW a \in Address,
             NEW n \in Nodes
      PROVE  /\ Resolves(Rewritten(dest[c][a]), n) => MeantBy(a, n)
             /\ Listening(s) /\ MeantBy(a, s) =>
                  /\ Reaches(c, a, Port[s], s)
                  /\ Resolves(Rewritten(dest[c][a]), n) => n = s
  <2> USE <1>1 DEF IInv
  <2>1. Rewritten(dest[c][a]) = Rewritten(a)
    <3>1. dest[c][a] \in {a, Rewritten(a)}
      BY DEF DestOf
    <3> QED  BY <3>1, RewrittenTwice
  <2>2. s \in Nodes /\ (Listening(s) => Up(s))
    BY DEF Nodes, Listening, Up
  <2>3. CASE a \in DOMAIN ContainerMap
    <3>1. Rewritten(a) = ContainerMap[a] /\ Rewritten(a) \in Nodes
      BY <2>3, AddressAssumption DEF Rewritten
    <3>2. address[n] # Rewritten(a)
      <4>1. Rewritten(a) \notin Address \cup {NoAddress}
        BY <3>1, NodesAssumption, AddressAssumption DEF NoAddress, NoServer
      <4> QED  BY <4>1 DEF TypeOK
    <3> QED  BY <2>1, <2>2, <2>3, <3>1, <3>2 DEF Reaches, Resolves, MeantBy
  <2>4. CASE a \notin DOMAIN ContainerMap
    <3>1. Rewritten(a) = a
      BY <2>4 DEF Rewritten
    <3>2. a \notin Nodes /\ a # NoAddress
      BY AddressAssumption
    <3>3. address[s] = a /\ address[n] = a => n = s
      BY <2>2, <3>2 DEF AddressesInUse
    <3> QED  BY <2>1, <2>2, <2>4, <3>1, <3>2, <3>3 DEF Reaches, Resolves, MeantBy
  <2> QED  BY <2>3, <2>4
<1>2. ASSUME IInv PROVE PostsFollowTheMap
  <2> SUFFICES ASSUME NEW c \in Clients, NEW s \in Servers, NEW a \in Address
               PROVE  /\ \A n \in Nodes : Resolves(Rewritten(dest[c][a]), n) => MeantBy(a, n)
                      /\ Listening(s) /\ MeantBy(a, s) =>
                           /\ Reaches(c, a, Port[s], s)
                           /\ \A n \in Nodes : Resolves(Rewritten(dest[c][a]), n) => n = s
    BY Zenon DEF PostsFollowTheMap
  <2>1. s \in Nodes
    BY DEF Nodes
  <2> QED  BY <1>1, <1>2, <2>1, Zenon
<1> QED  BY <1>2, DiscoveryInvariant, PTL
=============================================================================
