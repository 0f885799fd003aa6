------------------------- MODULE MCServerLifecycle -------------------------
(* Model values and request lists for checking ServerLifecycle.            *)
EXTENDS ServerLifecycle, TLC

CONSTANTS s1, s2, q1, t1, web

NoConfigured == [n \in {} |-> 0]

PoolRaw == [name |-> web, port |-> NoPort, token |-> TRUE, prio |-> 0]

OnePool == {<<PoolRaw>>}

\* At most Few control and public connections come in a behaviour, whichever
\* they are: two sessions, or a session and a user, with a tunnel. The bound
\* stops only arrivals, which nothing makes happen.
CONSTANT Few

Arrived == {h \in Sessions \cup Publics : pc[h] # "none"}

FewNext == LifecycleNext /\ Cardinality(Arrived') <= Few

FewSpec == LifecycleInit /\ [][FewNext]_all /\ LifecycleFairness
=============================================================================
