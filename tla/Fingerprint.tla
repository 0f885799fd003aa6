---------------------------- MODULE Fingerprint ----------------------------
(***************************************************************************)
(* Fingerprints of server certificates (src/py_frp/security.py): a digest  *)
(* of Length bytes, or a pattern with one wildcard `...` for zero or more  *)
(* whole bytes. Text and hexadecimal digits are left out: a fingerprint is *)
(* what _parse_fingerprint makes of it.                                    *)
(***************************************************************************)
EXTENDS Naturals, Sequences

CONSTANTS
    Bytes,   \* the values of a byte
    Length   \* bytes of a digest: 32 for SHA-256

ASSUME LengthAssumption == Length \in Nat

Digests == {d \in Seq(Bytes) : Len(d) = Length}

Fingerprints == [prefix : Seq(Bytes), suffix : Seq(Bytes), wildcard : BOOLEAN]

\* Without a wildcard every byte is there; with one, no more than fit.
WellFormed(p) ==
    \/ p.wildcard /\ Len(p.prefix) + Len(p.suffix) <= Length
    \/ ~p.wildcard /\ Len(p.prefix) = Length /\ p.suffix = <<>>

\* format_fingerprint.
Exact(d) == [prefix |-> d, suffix |-> <<>>, wildcard |-> FALSE]

\* Fault: the bytes after the wildcard are not compared.
PrefixOnly(actual, prefix, suffix) == SubSeq(actual, 1, Len(prefix)) = prefix

\* _wildcard_fingerprint_matches: the first and the last bytes agree.
WildcardMatches(actual, prefix, suffix) ==
    /\ Len(actual) = Length
    /\ Len(prefix) + Len(suffix) <= Len(actual)
    /\ SubSeq(actual, 1, Len(prefix)) = prefix
    /\ SubSeq(actual, Len(actual) - Len(suffix) + 1, Len(actual)) = suffix

\* Two patterns are equal when they are written alike.
FingerprintsEqual(left, right) ==
    \/ left.wildcard = right.wildcard /\ left = right
    \/ /\ left.wildcard /\ ~right.wildcard
       /\ WildcardMatches(right.prefix, left.prefix, left.suffix)
    \/ /\ ~left.wildcard /\ right.wildcard
       /\ WildcardMatches(left.prefix, right.prefix, right.suffix)

\* What a fingerprint means: the bytes as written, with some bytes in place of
\* the wildcard.
Fits(d, p) ==
    IF p.wildcard
    THEN \E n \in 0 .. Length : \E bytes \in [1 .. n -> Bytes] :
            d = p.prefix \o bytes \o p.suffix
    ELSE d = p.prefix

=============================================================================
