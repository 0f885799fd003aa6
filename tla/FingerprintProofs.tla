------------------------- MODULE FingerprintProofs -------------------------
(* The comparison of fingerprints computes what they mean, for digests and *)
(* bytes of any size.                                                      *)
EXTENDS Fingerprint, SequenceTheorems, TLAPS

\* The first and the last elements of a sequence put together from three.
LEMMA Cut ==
    ASSUME NEW x \in Seq(Bytes), NEW y \in Seq(Bytes), NEW z \in Seq(Bytes),
           NEW s, s = x \o y \o z
    PROVE  /\ Len(s) = Len(x) + Len(y) + Len(z)
           /\ SubSeq(s, 1, Len(x)) = x
           /\ SubSeq(s, Len(x) + Len(y) + 1, Len(x) + Len(y) + Len(z)) = z
<1> DEFINE a == Len(x)
           m == Len(x) + Len(y)
           k == Len(x) + Len(y) + Len(z)
<1>1. /\ s \in Seq(Bytes) /\ Len(s) = k
      /\ \A i \in 1 .. a : s[i] = x[i]
      /\ \A i \in 1 .. Len(z) : s[m + i] = z[i]
      /\ a \in Nat /\ m \in Nat /\ k \in Nat /\ Len(z) \in Nat /\ a <= m /\ m <= k
  <2>1. /\ x \o y \in Seq(Bytes) /\ Len(x \o y) = m
        /\ \A i \in 1 .. m : (x \o y)[i] = IF i <= Len(x) THEN x[i] ELSE y[i - Len(x)]
    BY ConcatProperties
  <2>2. /\ s \in Seq(Bytes) /\ Len(s) = m + Len(z)
        /\ \A i \in 1 .. m + Len(z) : s[i] = IF i <= m THEN (x \o y)[i] ELSE z[i - m]
    BY <2>1, ConcatProperties
  <2> QED BY <2>1, <2>2
<1>2. SubSeq(s, 1, a) = x
  <2>1. /\ SubSeq(s, 1, a) \in Seq(Bytes) /\ Len(SubSeq(s, 1, a)) = a
        /\ \A i \in 1 .. a : SubSeq(s, 1, a)[i] = s[i]
    BY <1>1, SubSeqProperties
  <2> QED BY <1>1, <2>1, SeqEqual
<1>3. SubSeq(s, m + 1, k) = z
  <2>1. /\ SubSeq(s, m + 1, k) \in Seq(Bytes) /\ Len(SubSeq(s, m + 1, k)) = Len(z)
        /\ \A i \in 1 .. Len(z) : SubSeq(s, m + 1, k)[i] = s[m + i]
    BY <1>1, SubSeqProperties
  <2> QED BY <1>1, <2>1, SeqEqual
<1> QED BY <1>1, <1>2, <1>3

\* A sequence is its first, its middle and its last elements.
LEMMA Join ==
    ASSUME NEW S, NEW d \in Seq(S), NEW a \in Nat, NEW z \in Nat, a + z <= Len(d)
    PROVE  d = SubSeq(d, 1, a) \o SubSeq(d, a + 1, Len(d) - z)
                 \o SubSeq(d, Len(d) - z + 1, Len(d))
<1> DEFINE m == Len(d) - z
<1>0. m \in Nat /\ a <= m /\ m <= Len(d) /\ Len(d) \in Nat
  OBVIOUS
<1> HIDE DEF m
<1>1. SubSeq(d, 1, a) \o SubSeq(d, a + 1, m) = SubSeq(d, 1, m)
  <2>1. /\ 1 \in 1 .. Len(d) + 1 /\ a \in 1 - 1 .. Len(d) /\ m \in a .. Len(d)
    BY <1>0
  <2> QED BY <2>1, ConcatAdjacentSubSeq
<1>2. SubSeq(d, 1, m) \o SubSeq(d, m + 1, Len(d)) = SubSeq(d, 1, Len(d))
  <2>1. /\ 1 \in 1 .. Len(d) + 1 /\ m \in 1 - 1 .. Len(d) /\ Len(d) \in m .. Len(d)
    BY <1>0
  <2> QED BY <2>1, ConcatAdjacentSubSeq
<1>3. SubSeq(d, 1, Len(d)) = d
  BY SubSeqFull
<1> QED BY <1>1, <1>2, <1>3 DEF m

\* The comparison of a digest with a pattern, as _wildcard_fingerprint_matches
\* makes it, holds exactly of the digests that some bytes in place of the
\* wildcard make of the pattern.
LEMMA WildcardFits ==
    ASSUME NEW d \in Digests, NEW x \in Seq(Bytes), NEW y \in Seq(Bytes),
           Len(x) + Len(y) <= Length
    PROVE  WildcardMatches(d, x, y) <=>
              \E n \in 0 .. Length : \E bytes \in [1 .. n -> Bytes] : d = x \o bytes \o y
<1> DEFINE a == Len(x)
           z == Len(y)
<1>1. /\ d \in Seq(Bytes) /\ Len(d) = Length /\ Length \in Nat
      /\ a \in Nat /\ z \in Nat /\ a + z <= Length
  BY LengthAssumption DEF Digests
<1>2. ASSUME WildcardMatches(d, x, y)
      PROVE  \E n \in 0 .. Length : \E bytes \in [1 .. n -> Bytes] : d = x \o bytes \o y
  <2> DEFINE bytes == SubSeq(d, a + 1, Length - z)
             n == Length - z - a
  <2>1. /\ x = SubSeq(d, 1, a)
        /\ y = SubSeq(d, Length - z + 1, Length)
    BY <1>1, <1>2 DEF WildcardMatches
  <2>2. d = x \o bytes \o y
    <3>1. d = SubSeq(d, 1, a) \o SubSeq(d, a + 1, Len(d) - z)
                \o SubSeq(d, Len(d) - z + 1, Len(d))
      BY <1>1, Join
    <3> QED BY <1>1, <2>1, <3>1
  <2>3. bytes \in Seq(Bytes) /\ Len(bytes) = n /\ n \in 0 .. Length
    <3>1. \A i \in a + 1 .. Length - z : d[i] \in Bytes
      BY <1>1
    <3>2. a + 1 \in Int /\ Length - z \in Int
      BY <1>1
    <3>3. Len(bytes) = IF a + 1 <= Length - z THEN Length - z - (a + 1) + 1 ELSE 0
      BY <3>1, <3>2, SubSeqProperties
    <3>4. bytes \in Seq(Bytes)
      BY <3>1, <3>2, SubSeqProperties
    <3>5. a \in Nat /\ z \in Nat /\ Length \in Nat /\ a + z <= Length
      BY <1>1
    <3> HIDE DEF a, z, bytes
    <3> QED BY <3>3, <3>4, <3>5
  <2>4. bytes \in [1 .. n -> Bytes]
    <3> HIDE DEF bytes
    <3> QED BY <2>3
  <2> QED BY <1>1, <2>2, <2>3, <2>4
<1>3. ASSUME \E n \in 0 .. Length : \E bytes \in [1 .. n -> Bytes] : d = x \o bytes \o y
      PROVE  WildcardMatches(d, x, y)
  <2>1. PICK n \in 0 .. Length :
           \E bytes \in [1 .. n -> Bytes] : d = x \o bytes \o y
    BY <1>3
  <2>2. PICK bytes \in [1 .. n -> Bytes] : d = x \o bytes \o y
    BY <2>1
  <2>3. bytes \in Seq(Bytes) /\ Len(bytes) \in Nat
    BY <1>1
  <2>4. /\ Len(d) = a + Len(bytes) + z
        /\ SubSeq(d, 1, a) = x
        /\ SubSeq(d, a + Len(bytes) + 1, a + Len(bytes) + z) = y
    <3>1. x \in Seq(Bytes) /\ bytes \in Seq(Bytes) /\ y \in Seq(Bytes)
      BY <1>1, <2>3
    <3>2. /\ Len(d) = Len(x) + Len(bytes) + Len(y)
          /\ SubSeq(d, 1, Len(x)) = x
          /\ SubSeq(d, Len(x) + Len(bytes) + 1,
                    Len(x) + Len(bytes) + Len(y)) = y
      BY ONLY <2>2, <3>1, Cut
    <3> QED BY <3>2
  <2>5. a + Len(bytes) = Len(d) - z /\ a + Len(bytes) + z = Len(d)
    BY <1>1, <2>3, <2>4
  <2>6. SubSeq(d, Len(d) - z + 1, Len(d)) = y
    BY <2>4, <2>5
  <2> QED BY <1>1, <2>4, <2>6 DEF WildcardMatches
<1> QED BY <1>2, <1>3

\* A server is accepted exactly when its certificate fits the trusted
\* fingerprint.
THEOREM EqualIffFits ==
    ASSUME NEW d \in Digests, NEW p \in Fingerprints, WellFormed(p)
    PROVE  FingerprintsEqual(Exact(d), p) <=> Fits(d, p)
<1>1. CASE p.wildcard
  <2>1. /\ p.prefix \in Seq(Bytes) /\ p.suffix \in Seq(Bytes)
        /\ Len(p.prefix) + Len(p.suffix) <= Length
    BY <1>1 DEF Fingerprints, WellFormed
  <2>2. WildcardMatches(d, p.prefix, p.suffix) <=> Fits(d, p)
    BY <1>1, <2>1, WildcardFits DEF Fits
  <2> QED BY <1>1, <2>2 DEF FingerprintsEqual, Exact
<1>2. CASE ~p.wildcard
  <2>1. p = Exact(p.prefix)
    BY <1>2 DEF Exact, Fingerprints, WellFormed
  <2>2. Exact(d) = p <=> d = p.prefix
    BY <2>1 DEF Exact
  <2>3. Exact(d).wildcard = FALSE
    BY DEF Exact
  <2> QED BY <1>2, <2>2, <2>3 DEF FingerprintsEqual, Fits
<1> QED BY <1>1, <1>2 DEF Fingerprints

=============================================================================
