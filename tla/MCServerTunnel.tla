-------------------------- MODULE MCServerTunnel --------------------------
(* Model values and request lists for checking Server with public and      *)
(* tunnel connections.                                                     *)
EXTENDS Server, TLC

CONSTANTS s1, s2, q1, t1, web

NoConfigured == [n \in {} |-> 0]

PoolRaw == [name |-> web, port |-> NoPort, token |-> TRUE, prio |-> 0]

OnePool == {<<PoolRaw>>}
=============================================================================
