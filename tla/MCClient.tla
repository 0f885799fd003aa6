------------------------------ MODULE MCClient ------------------------------
(* Model values, certificates and fingerprints for checking Client.        *)
EXTENDS Client, TLC

CONSTANTS t1, t2

Pattern(before, after) == [prefix |-> before, suffix |-> after, wildcard |-> TRUE]

\* Two certificates that differ in their last byte only.
TwoCerts == {<<0, 1, 0>>, <<0, 1, 1>>}

\* The first certificate; a wildcard for no byte, at the end or in the middle,
\* and for all of them.
Written == {Exact(<<0, 1, 0>>), Pattern(<<0, 1, 1>>, <<>>), Pattern(<<0>>, <<1, 0>>),
            Pattern(<<>>, <<>>)}
=============================================================================
