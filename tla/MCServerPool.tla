--------------------------- MODULE MCServerPool ---------------------------
(* Model values and request lists for checking Server in pool mode.        *)
EXTENDS Server, TLC

CONSTANTS s1, s2, s3, web

SessionSymmetry == Permutations({s1, s2, s3})

NoConfigured == [n \in {} |-> 0]

\* A pool registration of priority k, with the shared token or a wrong one.
PoolRaw(k, ok) == [name |-> web, port |-> NoPort, token |-> ok, prio |-> k]

\* One pool service, at either priority.
OnePool == {<<PoolRaw(k, TRUE)>> : k \in Priorities}

\* Two pool services in one request.
TwoPools == OnePool \cup {<<PoolRaw(0, TRUE), PoolRaw(0, TRUE)>>}
=============================================================================
