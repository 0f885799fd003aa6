-------------------------- MODULE MCServerRegular --------------------------
(* Model values and request lists for checking Server without a pool:      *)
(* one configured service, dynamic services, names and ports that clash,   *)
(* a public user and two tunnels.                                          *)
EXTENDS Server, TLC

CONSTANTS s1, s2, q1, t1, t2, web, app

Symmetry == Permutations({s1, s2}) \cup Permutations({t1, t2})

WebConfigured == web :> 7

Ask(n, p, ok) == [name |-> n, port |-> p, token |-> ok, prio |-> 0]

\* A dynamic service on the configured one's port; one on a port of its own,
\* then the configured one, which may be taken or is refused its token; the
\* dynamic one without a port.
Mixed == {<<Ask(app, 7, TRUE)>>,
          <<Ask(app, 8, TRUE), Ask(web, NoPort, TRUE)>>,
          <<Ask(app, 8, TRUE), Ask(web, NoPort, FALSE)>>,
          <<Ask(app, NoPort, TRUE)>>}
=============================================================================
