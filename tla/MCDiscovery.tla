---------------------------- MODULE MCDiscovery -----------------------------
(***************************************************************************)
(* Small instances of Discovery: two servers and a client, of the four     *)
(* addresses two that the map names the servers for.                       *)
(***************************************************************************)
EXTENDS Discovery, TLC

CONSTANTS s1, s2, c1, a1, a2, a3, a4

TwoServers == {s1, s2}
OneClient == {c1}
Ports == (s1 :> 1024) @@ (s2 :> 3025)
FourAddresses == {a1, a2, a3, a4}
TheMap == (a1 :> s1) @@ (a2 :> s2)

\* Docker gives a server the address the map has for it, one the map has for the
\* other server, or one the map does not have.
AsDockerLikes == (s1 :> {a1, a2, a3}) @@ (s2 :> {a1, a2, a3}) @@ (c1 :> {a4})
=============================================================================
