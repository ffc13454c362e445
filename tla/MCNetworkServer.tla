---------------------------- MODULE MCNetworkServer ----------------------------
(* The network thread with two connections from one address or from two.   *)
EXTENDS NetworkServer, TLC

CONSTANTS c1, c2, a1, a2

MCClient  == {c1, c2}
MCAddress == {a1, a2}

SameHost  == [c \in Client |-> a1]
OtherHost == (c1 :> a1) @@ (c2 :> a2)

(* Two connections with their addresses may change places.                 *)
Symmetry == {p \in Permutations(MCClient \cup MCAddress) :
               /\ {p[c] : c \in MCClient} = MCClient
               /\ \A c \in MCClient : p[host[c]] = host[p[c]]}
===============================================================================
