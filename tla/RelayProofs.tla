---------------------------- MODULE RelayProofs ----------------------------
(* A relay is a pair of byte streams (StreamPair), however many chunks are *)
(* sent, whatever breaks and whenever; and one that nothing disturbs is    *)
(* complete.                                                               *)
EXTENDS TunnelRelay, SequenceTheorems, TLAPS

-----------------------------------------------------------------------------
(* Frames on their way.                                                    *)

\* The frames w of a direction follow on the n chunks that arrived of the s
\* that were sent; there is an end frame only after all of them.
InLine(w, n, s, ended) ==
    \A i \in 1 .. Len(w) :
       \/ w[i] = n + i /\ n + i <= s
       \/ w[i] = EOF /\ ended /\ n + i = s + 1

LEMMA LineAppend ==
    ASSUME NEW S, NEW w \in Seq(S), NEW n \in Nat, NEW s \in Nat, NEW ended, NEW f \in S,
           InLine(w, n, s, ended),
           \/ f = n + Len(w) + 1 /\ f <= s
           \/ f = EOF /\ ended /\ n + Len(w) = s
    PROVE  InLine(Append(w, f), n, s, ended)
<1>1. Len(Append(w, f)) = Len(w) + 1 /\ Append(w, f)[Len(w) + 1] = f /\ Len(w) \in Nat
  BY AppendProperties
<1>2. \A i \in 1 .. Len(w) : Append(w, f)[i] = w[i]
  BY AppendProperties
<1> QED
  BY <1>1, <1>2 DEF InLine

LEMMA Cut ==
    ASSUME NEW S, NEW w \in Seq(S), NEW k \in 0 .. Len(w)
    PROVE  /\ Truncated(w, k) \in Seq(S) /\ Len(Truncated(w, k)) = k
           /\ \A i \in 1 .. k : Truncated(w, k)[i] = w[i]
  BY SubSeqProperties DEF Truncated

LEMMA LineCut ==
    ASSUME NEW S, NEW w \in Seq(S), NEW n \in Nat, NEW s \in Nat, NEW ended,
           NEW k \in 0 .. Len(w), InLine(w, n, s, ended)
    PROVE  InLine(Truncated(w, k), n, s, ended)
  BY Cut DEF InLine

\* More is sent, or the sender ends.
LEMMA LineGrow ==
    ASSUME NEW w, NEW n \in Nat, NEW s \in Nat, NEW t \in Nat, NEW a \in BOOLEAN,
           NEW b \in BOOLEAN, Len(w) \in Nat, InLine(w, n, s, a), s <= t, a => b /\ s = t
    PROVE  InLine(w, n, t, b)
  BY DEF InLine

\* The first chunk of a line is the next one; the end frame is the last frame.
LEMMA LineHead ==
    ASSUME NEW S, NEW w \in Seq(S), NEW n \in Nat, NEW s \in Nat, NEW ended,
           w # <<>>, InLine(w, n, s, ended)
    PROVE  /\ Head(w) \in S /\ Tail(w) \in Seq(S) /\ Len(Tail(w)) = Len(w) - 1
           /\ Head(w) # EOF => Head(w) = n + 1 /\ n < s /\ InLine(Tail(w), n + 1, s, ended)
           /\ Head(w) = EOF => ended /\ n = s /\ Len(w) = 1 /\ InLine(Tail(w), n, s, ended)
<1>1. /\ Head(w) \in S /\ Tail(w) \in Seq(S) /\ Len(Tail(w)) = Len(w) - 1
      /\ \A i \in 1 .. Len(Tail(w)) : Tail(w)[i] = w[i + 1]
      /\ Len(w) \in Nat \ {0} /\ Head(w) = w[1]
  BY HeadTailProperties, EmptySeq
<1>2. \/ w[1] = n + 1 /\ n + 1 <= s
      \/ w[1] = EOF /\ ended /\ n + 1 = s + 1
  BY <1>1 DEF InLine
<1>3. Head(w) # EOF => Head(w) = n + 1 /\ n < s /\ InLine(Tail(w), n + 1, s, ended)
  <2>1. \A i \in 1 .. Len(Tail(w)) : i + 1 \in 1 .. Len(w) /\ n + (i + 1) = (n + 1) + i
    BY <1>1
  <2> QED
    BY <1>1, <1>2, <2>1 DEF InLine
<1>4. ASSUME Head(w) = EOF
      PROVE  ended /\ n = s /\ Len(w) = 1 /\ InLine(Tail(w), n, s, ended)
  <2>1. ended /\ n = s
    BY <1>1, <1>2, <1>4 DEF EOF
  <2>2. 2 \notin 1 .. Len(w)
    BY <2>1 DEF InLine
  <2>3. Len(w) = 1
    BY <1>1, <2>2
  <2>4. Len(Tail(w)) = 0
    BY <1>1, <2>3
  <2>5. InLine(Tail(w), n, s, ended)
    BY ONLY <2>4 DEF InLine
  <2> QED
    BY <2>1, <2>3, <2>5
<1> QED
  BY <1>1, <1>3, <1>4

-----------------------------------------------------------------------------
(* The inductive invariant.                                                *)

\* While its reader may write to its peer, a direction is in line, and as long
\* as it is not broken nothing read from its peer is missing.
Flow(e) ==
    peer[Other(e)] # "reset" =>
       /\ InLine(wire[e], Len(got[e]), sent[e], peer[e] # "open")
       /\ up[e] = "run" /\ ~Broken(e) => Len(got[e]) + Len(wire[e]) = taken[e]

\* A task reads no more than was sent.
Tally == \A e \in Ends : taken[e] <= sent[e]

\* Tasks run only as long as the relay they belong to.
Wound == \A e \in Ends : pipe[e] # "run" => up[e] # "run" /\ down[e] # "run"

\* Nothing is read after an end of stream is passed on.
Said == \A e \in told : down[Other(e)] # "run"

IInv == TypeOK /\ Tally /\ Wound /\ Said /\ \A e \in Ends : Flow(e)

LEMMA OtherEnd == \A e \in Ends : Other(e) \in Ends /\ Other(e) # e /\ Other(Other(e)) = e
                                    /\ \A f \in Ends : f = e \/ f = Other(e)
  BY DEF Ends, Other

LEMMA InitInv == Init => IInv
<1> SUFFICES ASSUME Init PROVE IInv
  OBVIOUS
<1>1. TypeOK
  <2>1. <<>> \in Seq(Nat) /\ <<>> \in Seq(Nat \ {EOF})
    OBVIOUS
  <2>2. wire \in [Ends -> Seq(Nat)] /\ got \in [Ends -> Seq(Nat \ {EOF})]
    BY <2>1 DEF Init
  <2>3. sent \in [Ends -> Nat] /\ taken \in [Ends -> Nat]
    BY DEF Init
  <2> QED
    BY <2>2, <2>3 DEF Init, TypeOK, Tasks
<1>2. \A e \in Ends : Flow(e)
  BY OtherEnd DEF Init, Flow, InLine
<1> QED
  BY <1>1, <1>2 DEF Init, IInv, Tally, Wound, Said

-----------------------------------------------------------------------------
(* Steps of peers and of the network.                                      *)

LEMMA PeerSteps ==
    ASSUME IInv, NEW e \in Ends, PeerSend(e) \/ PeerEnd(e) \/ PeerReset(e) \/ PeerReads(e)
    PROVE  IInv'
<1> USE OtherEnd, BoundAssumption DEF IInv, ups, downs
<1>1. UNCHANGED <<ups, wire, cut, down, got, told, pipe>> /\ \A f \in Ends : Len(got[f]) \in Nat
  BY DEF PeerSend, PeerEnd, PeerReset, PeerReads, TypeOK
<1>2. sent' \in [Ends -> Nat] /\ peer' \in [Ends -> {"open", "ended", "reset"}]
         /\ trouble' \in BOOLEAN /\ \A f \in Ends : sent[f] <= sent'[f]
  <2>1. \A f \in Ends : sent[f] \in Nat
    BY DEF TypeOK
  <2>2. CASE PeerSend(e)
    BY <2>1, <2>2 DEF PeerSend, TypeOK
  <2>3. CASE PeerEnd(e) \/ PeerReset(e) \/ PeerReads(e)
    <3>1. sent' = sent /\ peer' \in [Ends -> {"open", "ended", "reset"}] /\ trouble' \in BOOLEAN
      BY <2>3 DEF PeerEnd, PeerReset, PeerReads, TypeOK
    <3>2. sent \in [Ends -> Nat]
      BY DEF TypeOK
    <3> QED
      BY <2>1, <3>1, <3>2
  <2> QED
    BY <2>2, <2>3
<1>2A. TypeOK'
  BY <1>1, <1>2 DEF PeerSend, PeerEnd, PeerReset, PeerReads, TypeOK
<1>2B. Tally'
  BY <1>1, <1>2 DEF TypeOK, Tally
<1>3. Wound' /\ Said'
  BY <1>1 DEF Wound, Said
<1>4. ASSUME NEW f \in Ends PROVE Flow(f)'
  <2>1. /\ peer[Other(f)] = "reset" => peer'[Other(f)] = "reset"
        /\ peer[f] # "open" => peer'[f] # "open" /\ sent'[f] = sent[f]
        /\ sent'[f] >= sent[f] /\ sent[f] \in Nat /\ sent'[f] \in Nat
    BY <1>1, <1>2 DEF PeerSend, PeerEnd, PeerReset, PeerReads, TypeOK
  <2>2. Len(wire[f]) \in Nat
    BY DEF TypeOK
  <2>3. InLine(wire[f], Len(got[f]), sent[f], peer[f] # "open")
           => InLine(wire[f], Len(got[f]), sent'[f], peer'[f] # "open")
    BY <1>1, <2>1, <2>2, LineGrow
  <2>4. Broken(f)' = Broken(f)
    BY <1>1 DEF Broken, Gone
  <2> QED
    BY <1>1, <2>1, <2>3, <2>4 DEF Flow
<1> QED
  BY <1>2A, <1>2B, <1>3, <1>4

LEMMA BreakStep ==
    ASSUME IInv, TunnelBreak
    PROVE  IInv'
<1> USE OtherEnd DEF IInv, ups, downs
<1>1. PICK k \in 0 .. Len(wire["server"]), m \in 0 .. Len(wire["client"]) :
         wire' = [wire EXCEPT !["server"] = Truncated(@, k), !["client"] = Truncated(@, m)]
  BY DEF TunnelBreak
<1> DEFINE n == [e \in Ends |-> IF e = "server" THEN k ELSE m]
<1>2. \A e \in Ends : /\ wire[e] \in Seq(Nat) /\ n[e] \in 0 .. Len(wire[e])
                       /\ wire'[e] = Truncated(wire[e], n[e])
  BY <1>1 DEF TypeOK, Ends
<1> HIDE DEF n
<1>3. \A e \in Ends : wire'[e] \in Seq(Nat)
  BY <1>2, Cut
<1>4. TypeOK'
  <2>1. wire' \in [Ends -> Seq(Nat)]
    BY <1>1, <1>3 DEF TypeOK
  <2> QED
    BY <2>1 DEF TunnelBreak, TypeOK
<1>5. Tally' /\ Wound' /\ Said'
  BY DEF TunnelBreak, Tally, Wound, Said
<1>6. ASSUME NEW e \in Ends PROVE Flow(e)'
  <2>1. Broken(e)'
    BY DEF TunnelBreak, Broken, Gone
  <2>2. peer' = peer /\ got' = got /\ sent' = sent
    BY DEF TunnelBreak
  <2>3. Len(got[e]) \in Nat /\ sent[e] \in Nat
    BY DEF TypeOK
  <2>4. wire'[e] = Truncated(wire[e], n[e])
    BY <1>2
  <2>5. InLine(wire[e], Len(got[e]), sent[e], peer[e] # "open")
           => InLine(wire'[e], Len(got[e]), sent[e], peer[e] # "open")
    BY <1>2, <2>3, <2>4, LineCut
  <2> QED
    BY <2>1, <2>2, <2>5 DEF Flow
<1> QED
  BY <1>4, <1>5, <1>6

-----------------------------------------------------------------------------
(* Steps of the two tasks.                                                 *)

LEMMA UpSteps ==
    ASSUME IInv, NEW e \in Ends, UpStep(e)
    PROVE  IInv'
<1> USE OtherEnd DEF IInv, ups, downs
<1>1. UNCHANGED <<peer, sent, cut, downs, pipe>>
  BY DEF UpStep, UpData, UpEnd, UpFails
<1>2. PICK f \in Nat :
         /\ wire' \in {wire, [wire EXCEPT ![e] = Append(@, f)]}
         /\ wire' # wire =>
              /\ ~Broken(e) /\ up[e] = "run"
              /\ \/ f = taken[e] + 1 /\ f <= sent[e]
                 \/ f = EOF /\ peer[e] # "open" /\ taken[e] = sent[e]
  <2>1. CASE UpData(e)
    <3>1. taken[e] + 1 \in Nat /\ taken[e] + 1 <= sent[e]
      BY <2>1, BoundAssumption DEF UpData, TypeOK
    <3>2. wire' = wire \/ (wire' = [wire EXCEPT ![e] = Append(@, taken[e] + 1)] /\ ~Broken(e))
      BY <2>1 DEF UpData, Write
    <3>3. up[e] = "run"
      BY <2>1 DEF UpData
    <3>4. \/ wire' = wire
          \/ /\ wire' = [wire EXCEPT ![e] = Append(@, taken[e] + 1)]
             /\ ~Broken(e) /\ up[e] = "run" /\ taken[e] + 1 <= sent[e]
      BY <3>1, <3>2, <3>3
    <3> DEFINE c == taken[e] + 1
    <3>5. c \in Nat
      BY <3>1
    <3>6. \/ wire' = wire
          \/ /\ wire' = [wire EXCEPT ![e] = Append(@, c)]
             /\ ~Broken(e) /\ up[e] = "run" /\ c = taken[e] + 1 /\ c <= sent[e]
      BY <3>4
    <3> HIDE DEF c
    <3> WITNESS c \in Nat
    <3> QED
      BY <3>6
  <2>2. CASE UpEnd(e)
    <3>1. wire' = wire \/ (wire' = [wire EXCEPT ![e] = Append(@, EOF)] /\ ~Broken(e))
      BY <2>2 DEF UpEnd, SayEnd, Write
    <3>2. up[e] = "run" /\ peer[e] # "open" /\ taken[e] = sent[e] /\ EOF \in Nat
      BY <2>2, BoundAssumption DEF UpEnd, EOF
    <3> QED
      BY <3>1, <3>2
  <2>3. CASE UpFails(e)
    BY <2>3, BoundAssumption DEF UpFails
  <2> QED
    BY <2>1, <2>2, <2>3 DEF UpStep
<1>3. \A d \in Ends : wire[d] \in Seq(Nat) /\ wire'[d] \in Seq(Nat)
  <2>1. \A d \in Ends : wire[d] \in Seq(Nat)
    BY DEF TypeOK
  <2>2. Append(wire[e], f) \in Seq(Nat)
    BY <2>1, AppendProperties
  <2>3. wire \in [Ends -> Seq(Nat)]
    BY DEF TypeOK
  <2>4. CASE wire' = wire
    BY <2>1, <2>4
  <2>5. CASE wire' = [wire EXCEPT ![e] = Append(@, f)]
    BY <2>1, <2>2, <2>3, <2>5
  <2> QED
    BY <1>2, <2>4, <2>5
<1>4. /\ up' \in [Ends -> Tasks] /\ taken' \in [Ends -> Nat] /\ up[e] = "run"
      /\ \A d \in Ends : taken'[d] <= sent[d] /\ (up'[d] = "run" => up[d] = "run")
      /\ trouble' = trouble
  <2>1. \A d \in Ends : /\ sent[d] \in Nat /\ taken[d] \in Nat
                         /\ taken[d] <= sent[d] /\ up[d] \in Tasks
    BY DEF TypeOK, Tally
  <2>2. CASE UpData(e)
    <3>1. taken[e] + 1 \in Nat /\ taken[e] + 1 <= sent[e]
      BY <2>1, <2>2, BoundAssumption DEF UpData
    <3>2. taken' = [taken EXCEPT ![e] = taken[e] + 1] /\ up' = up /\ up[e] = "run"
      BY <2>2 DEF UpData
    <3> QED
      BY <2>1, <2>2, <3>1, <3>2 DEF UpData, TypeOK
  <2>3. CASE UpEnd(e) \/ UpFails(e)
    <3>1. taken' = taken /\ trouble' = trouble /\ up[e] = "run"
      BY <2>3 DEF UpEnd, UpFails
    <3>2. up' = [up EXCEPT ![e] = "done"] \/ up' = [up EXCEPT ![e] = "failed"]
      BY <2>3 DEF UpEnd, UpFails
    <3>3. up \in [Ends -> Tasks] /\ taken \in [Ends -> Nat]
      BY DEF TypeOK
    <3>4. up' \in [Ends -> Tasks] /\ \A d \in Ends : up'[d] = "run" => up[d] = "run"
      BY <3>2, <3>3 DEF Tasks
    <3> QED
      BY <2>1, <3>1, <3>3, <3>4
  <2> QED
    BY <2>2, <2>3 DEF UpStep
<1>4A. TypeOK'
  <2>1. wire' \in [Ends -> Seq(Nat)]
    BY <1>2, <1>3 DEF TypeOK
  <2> QED
    BY <1>1, <1>4, <2>1 DEF TypeOK
<1>5. Tally' /\ Wound' /\ Said'
  BY <1>1, <1>4 DEF Tally, Wound, Said
<1>6. Flow(Other(e))'
  <2> DEFINE d == Other(e)
  <2>1. wire'[d] = wire[d] /\ taken'[d] = taken[d] /\ up'[d] = up[d] /\ Broken(d)' = Broken(d)
    BY <1>1, <1>2 DEF Broken, Gone, TypeOK, UpStep, UpData, UpEnd, UpFails
  <2>2. Flow(d)
    OBVIOUS
  <2> QED
    BY <1>1, <2>1, <2>2 DEF Flow
<1>7. Flow(e)'
  <2> SUFFICES ASSUME peer[Other(e)] # "reset" PROVE Flow(e)'
    BY <1>1 DEF Flow
  <2>1. Len(got[e]) \in Nat /\ sent[e] \in Nat /\ taken[e] \in Nat /\ Len(wire[e]) \in Nat
    BY <1>3 DEF TypeOK
  <2>2. wire' = wire => InLine(wire'[e], Len(got[e]), sent[e], peer[e] # "open")
    BY DEF Flow
  <2>3. wire' # wire => InLine(wire'[e], Len(got[e]), sent[e], peer[e] # "open")
                          /\ Len(wire'[e]) = Len(wire[e]) + 1
    <3> SUFFICES ASSUME wire' # wire
                 PROVE  InLine(wire'[e], Len(got[e]), sent[e], peer[e] # "open")
                          /\ Len(wire'[e]) = Len(wire[e]) + 1
      OBVIOUS
    <3>1. wire'[e] = Append(wire[e], f)
      BY <1>2 DEF TypeOK
    <3>2. Len(got[e]) + Len(wire[e]) = taken[e]
      BY <1>2 DEF Flow
    <3>3. InLine(wire[e], Len(got[e]), sent[e], peer[e] # "open")
      BY DEF Flow
    <3>4. \/ f = Len(got[e]) + Len(wire[e]) + 1 /\ f <= sent[e]
          \/ f = EOF /\ peer[e] # "open" /\ Len(got[e]) + Len(wire[e]) = sent[e]
      BY <1>2, <2>1, <3>2
    <3>5. wire[e] \in Seq(Nat)
      BY <1>3
    <3>6. InLine(Append(wire[e], f), Len(got[e]), sent[e], peer[e] # "open")
      BY <2>1, <3>3, <3>4, <3>5, LineAppend
    <3>7. Len(Append(wire[e], f)) = Len(wire[e]) + 1
      BY <3>5, AppendProperties
    <3> QED
      BY <3>1, <3>6, <3>7
  <2>4. up'[e] = "run" /\ ~Broken(e) => wire' # wire /\ taken'[e] = taken[e] + 1 /\ up[e] = "run"
    <3> SUFFICES ASSUME up'[e] = "run", ~Broken(e)
                 PROVE  wire' # wire /\ taken'[e] = taken[e] + 1 /\ up[e] = "run"
      OBVIOUS
    <3>1. UpData(e)
      BY DEF UpStep, UpEnd, UpFails, TypeOK
    <3>2. wire'[e] = Append(wire[e], taken[e] + 1)
      BY <3>1 DEF UpData, Write, TypeOK
    <3>3. Len(wire'[e]) = Len(wire[e]) + 1
      BY <1>3, <3>2, AppendProperties
    <3> QED
      BY <2>1, <3>1, <3>3 DEF UpData, TypeOK
  <2>5. Broken(e)' = Broken(e)
    BY <1>1 DEF Broken, Gone
  <2>6. got' = got /\ sent' = sent /\ peer' = peer
    BY <1>1
  <2>7. up'[e] = "run" /\ ~Broken(e) => Len(got[e]) + Len(wire'[e]) = taken'[e]
    <3>1. up[e] = "run" /\ ~Broken(e) => Len(got[e]) + Len(wire[e]) = taken[e]
      BY DEF Flow
    <3>2. Len(wire'[e]) \in Nat
      BY <1>3
    <3> SUFFICES ASSUME up'[e] = "run", ~Broken(e)
                 PROVE  Len(got[e]) + Len(wire'[e]) = taken'[e]
      OBVIOUS
    <3>3. /\ Len(wire'[e]) = Len(wire[e]) + 1 /\ taken'[e] = taken[e] + 1
          /\ Len(got[e]) + Len(wire[e]) = taken[e]
      BY <2>3, <2>4, <3>1
    <3>4. Len(got[e]) + (Len(wire[e]) + 1) = taken[e] + 1
      <4> DEFINE x == Len(got[e])
                 y == Len(wire[e])
                 z == taken[e]
      <4>1. x \in Nat /\ y \in Nat /\ z \in Nat
        BY <2>1
      <4>2. x + y = z
        BY <3>3
      <4> HIDE DEF x, y, z
      <4>3. x + (y + 1) = z + 1
        BY ONLY <4>1, <4>2
      <4> QED
        BY <4>3 DEF x, y, z
    <3> QED
      BY <3>3, <3>4
  <2> QED
    BY <2>2, <2>3, <2>5, <2>6, <2>7 DEF Flow
<1> QED
  BY <1>4A, <1>5, <1>6, <1>7

\* A wait in drain that fails changes nothing but the task.
LEMMA DrainSteps ==
    ASSUME IInv, NEW e \in Ends, DrainFails(e)
    PROVE  IInv'
<1> USE OtherEnd DEF IInv, ups, downs
<1>1. /\ UNCHANGED <<peer, sent, taken, wire, cut, got, told, unread, pipe, trouble>>
      /\ up' = [up EXCEPT ![e] = "failed"] \/ up' = up
      /\ down' = [down EXCEPT ![e] = "failed"] \/ down' = down
  BY DEF DrainFails, UpDrainFails, DownDrainFails
<1>2. TypeOK'
  BY <1>1 DEF TypeOK, Tasks
<1>3. \A f \in Ends : /\ up'[f] = "run" => up[f] = "run"
                      /\ down'[f] = "run" => down[f] = "run"
                      /\ Broken(f)' = Broken(f)
  BY <1>1 DEF TypeOK, Broken, Gone
<1>4. Tally' /\ Wound' /\ Said'
  <2>1. \A f \in told : Other(f) \in Ends
    BY DEF TypeOK
  <2> QED
    BY <1>1, <1>3, <2>1 DEF Tally, Wound, Said
<1>5. ASSUME NEW f \in Ends PROVE Flow(f)'
  <2>1. UNCHANGED <<peer, sent, taken, wire, got>> /\ Broken(f)' = Broken(f)
           /\ (up'[f] = "run" => up[f] = "run")
    BY <1>1, <1>3
  <2>2. Flow(f)
    OBVIOUS
  <2> QED
    BY <2>1, <2>2 DEF Flow
<1> QED
  BY <1>2, <1>4, <1>5

LEMMA DownSteps ==
    ASSUME IInv, NEW e \in Ends, DownStep(e)
    PROVE  IInv'
<1> DEFINE d == Other(e)
<1> USE OtherEnd DEF IInv, ups, downs
<1>1. UNCHANGED <<peer, sent, ups, cut, pipe>>
  BY DEF DownStep, DownData, DownEnd, DownFails
<1>2. /\ wire[d] \in Seq(Nat) /\ Len(got[d]) \in Nat /\ sent[d] \in Nat
      /\ taken[d] \in Nat /\ Len(wire[d]) \in Nat /\ got[d] \in Seq(Nat \ {EOF})
      /\ taken[d] <= sent[d]
  BY DEF TypeOK, Tally
<1>3. wire[d] # <<>> => /\ Head(wire[d]) \in Nat
                        /\ Tail(wire[d]) \in Seq(Nat)
  BY <1>2, HeadTailProperties
<1>4. CASE DownFails(e)
  BY <1>1, <1>4 DEF DownFails, TypeOK, Tasks, Tally, Wound, Said, Flow, Broken, Gone
<1>5. CASE DownData(e)
  <2> USE <1>5 DEF DownData, Arrives, Frame, IsData, Consume
  <2>1. Head(wire[d]) \in Nat \ {EOF} /\ wire' = [wire EXCEPT ![d] = Tail(wire[d])]
    BY <1>3, BoundAssumption DEF EOF
  <2>2. \A h \in Ends : got'[h] \in Seq(Nat \ {EOF}) /\ wire'[h] \in Seq(Nat)
    <3>1. \A h \in Ends : got[h] \in Seq(Nat \ {EOF}) /\ wire[h] \in Seq(Nat)
      BY DEF TypeOK
    <3>2. Append(got[d], Head(wire[d])) \in Seq(Nat \ {EOF})
      BY <2>1, <3>1, AppendProperties
    <3>3. got' = got \/ got' = [got EXCEPT ![d] = Append(got[d], Head(wire[d]))]
      OBVIOUS
    <3>4. Tail(wire[d]) \in Seq(Nat)
      BY <1>3
    <3>5. got \in [Ends -> Seq(Nat \ {EOF})] /\ wire \in [Ends -> Seq(Nat)]
      BY DEF TypeOK
    <3>6. \A h \in Ends : got'[h] \in Seq(Nat \ {EOF})
      BY ONLY <3>1, <3>2, <3>3, <3>5, OtherEnd
    <3>7. \A h \in Ends : wire'[h] \in Seq(Nat)
      BY ONLY <2>1, <3>1, <3>4, <3>5, OtherEnd
    <3> QED
      BY <3>6, <3>7
  <2>3. TypeOK'
    <3>1. wire' \in [Ends -> Seq(Nat)] /\ got' \in [Ends -> Seq(Nat \ {EOF})]
      BY <2>1, <2>2 DEF TypeOK
    <3>2. unread' \subseteq Ends /\ UNCHANGED <<down, told, trouble>>
      BY DEF TypeOK
    <3> QED
      BY <1>1, <3>1, <3>2 DEF TypeOK
  <2>4. Tally' /\ Wound' /\ Said'
    BY <1>1 DEF Tally, Wound, Said
  <2>5. Flow(e)'
    <3>1. got'[e] = got[e] /\ wire'[e] = wire[e]
      BY <2>1 DEF TypeOK
    <3>2. Broken(e)' = Broken(e)
      BY <1>1 DEF Broken, Gone
    <3>3. Flow(e)
      OBVIOUS
    <3> QED
      BY <1>1, <3>1, <3>2, <3>3 DEF Flow
  <2>6. Flow(d)'
    <3> SUFFICES ASSUME peer[e] # "reset" PROVE Flow(d)'
      BY <1>1 DEF Flow
    <3>1. got'[d] = Append(got[d], Head(wire[d])) /\ wire'[d] = Tail(wire[d])
      BY <2>1 DEF TypeOK
    <3>2. Len(got'[d]) = Len(got[d]) + 1
      BY <1>2, <2>1, <3>1, AppendProperties
    <3>3. InLine(wire[d], Len(got[d]), sent[d], peer[d] # "open")
      BY DEF Flow
    <3>4. /\ Len(Tail(wire[d])) = Len(wire[d]) - 1
          /\ InLine(Tail(wire[d]), Len(got[d]) + 1, sent[d], peer[d] # "open")
      BY <1>2, <3>3, LineHead
    <3>5. up[d] = "run" /\ ~Broken(d) => Len(got'[d]) + Len(wire'[d]) = taken[d]
      <4>1. up[d] = "run" /\ ~Broken(d) => Len(got[d]) + Len(wire[d]) = taken[d]
        BY DEF Flow
      <4>2. Len(got'[d]) = Len(got[d]) + 1 /\ Len(wire'[d]) = Len(wire[d]) - 1
        BY <3>1, <3>2, <3>4
      <4>3. up[d] = "run" /\ ~Broken(d) => (Len(got[d]) + 1) + (Len(wire[d]) - 1) = taken[d]
        <5> DEFINE x == Len(got[d])
                   y == Len(wire[d])
                   z == taken[d]
        <5>1. x \in Nat /\ y \in Nat /\ z \in Nat
          BY <1>2
        <5>2. up[d] = "run" /\ ~Broken(d) => x + y = z
          BY <4>1
        <5> HIDE DEF x, y, z
        <5>3. x + y = z => (x + 1) + (y - 1) = z
          BY ONLY <5>1
        <5>4. up[d] = "run" /\ ~Broken(d) => (x + 1) + (y - 1) = z
          BY <5>2, <5>3
        <5> QED
          BY <5>4 DEF x, y, z
      <4> QED
        BY <4>2, <4>3
    <3>6. InLine(wire'[d], Len(got'[d]), sent'[d], peer'[d] # "open")
      BY <1>1, <3>1, <3>2, <3>4
    <3>7. (up'[d] = "run" /\ ~Broken(d)') => Len(got'[d]) + Len(wire'[d]) = taken'[d]
      <4>1. Broken(d)' = Broken(d) /\ up' = up /\ taken' = taken
        BY <1>1 DEF Broken, Gone
      <4> QED
        BY <3>5, <4>1
    <3> QED
      BY <3>6, <3>7 DEF Flow
  <2> QED
    BY <2>3, <2>4, <2>5, <2>6
<1>6. CASE DownEnd(e)
  <2> USE <1>6 DEF DownEnd, Arrives, Frame, Consume
  <2>1. wire' = [wire EXCEPT ![d] = Tail(wire[d])] /\ Head(wire[d]) = EOF
    OBVIOUS
  <2>2. \A h \in Ends : wire'[h] \in Seq(Nat)
    BY <1>3, <2>1 DEF TypeOK
  <2>3. TypeOK'
    BY <1>1, <2>1, <2>2 DEF TypeOK, Tasks
  <2>4. Tally' /\ Wound' /\ Said'
    BY <1>1 DEF Tally, Wound, Said, TypeOK
  <2>5. Flow(e)'
    BY <1>1, <2>1 DEF Flow, Broken, Gone, TypeOK
  <2>6. Flow(d)'
    <3> SUFFICES ASSUME peer[e] # "reset" PROVE Flow(d)'
      BY <1>1 DEF Flow
    <3>1. wire'[d] = Tail(wire[d])
      BY <2>1 DEF TypeOK
    <3>2. InLine(wire[d], Len(got[d]), sent[d], peer[d] # "open")
      BY DEF Flow
    <3>3. /\ Len(got[d]) = sent[d] /\ Len(wire[d]) = 1
          /\ InLine(Tail(wire[d]), Len(got[d]), sent[d], peer[d] # "open")
      BY <1>2, <2>1, <3>2, LineHead
    <3>4. ~(up[d] = "run" /\ ~Broken(d))
      <4>1. up[d] = "run" /\ ~Broken(d) => Len(got[d]) + Len(wire[d]) = taken[d]
        BY DEF Flow
      <4> QED
        BY <1>2, <3>3, <4>1
    <3> QED
      BY <1>1, <3>1, <3>3, <3>4 DEF Flow, Broken, Gone
  <2> QED
    BY <2>3, <2>4, <2>5, <2>6
<1> QED
  BY <1>4, <1>5, <1>6 DEF DownStep

-----------------------------------------------------------------------------
(* Steps of pipe_tunnel_streams.                                           *)

LEMMA PipeSteps ==
    ASSUME IInv, NEW e \in Ends, PipeFails(e) \/ PipeDone(e) \/ (PipeCancelled /\ e = "client")
    PROVE  IInv'
<1> USE OtherEnd DEF IInv, ups, downs, PipeFails, PipeDone, PipeCancelled, Wordless
<1>1. /\ UNCHANGED <<peer, sent, taken, wire, cut, got, told>> /\ pipe[e] = "run"
      /\ pipe' = [pipe EXCEPT ![e] = "closing"] \/ pipe' = [pipe EXCEPT ![e] = "leaving"]
  OBVIOUS
<1>2. /\ UNCHANGED unread /\ up'[e] # "run" /\ down'[e] # "run" /\ trouble' \in BOOLEAN
      /\ up' = up \/ up' = Collect(up, e)
      /\ down' = down \/ down' = Collect(down, e)
  BY DEF Collect, BothDone, TypeOK
<1>2A. /\ up' \in [Ends -> Tasks] /\ down' \in [Ends -> Tasks]
       /\ pipe' \in [Ends -> {"run", "leaving", "closing", "flushing", "closed"}]
       /\ \A f \in Ends :
             /\ up'[f] = "run" => up[f] = "run"
             /\ down'[f] = "run" => down[f] = "run"
             /\ f # e => pipe'[f] = pipe[f]
  <2>1. up \in [Ends -> Tasks] /\ down \in [Ends -> Tasks]
           /\ pipe \in [Ends -> {"run", "leaving", "closing", "flushing", "closed"}]
    BY DEF TypeOK
  <2>2. up' \in [Ends -> Tasks] /\ \A f \in Ends : up'[f] = "run" => up[f] = "run"
    BY ONLY <1>2, <2>1 DEF Collect, Tasks
  <2>3. down' \in [Ends -> Tasks] /\ \A f \in Ends : down'[f] = "run" => down[f] = "run"
    BY ONLY <1>2, <2>1 DEF Collect, Tasks
  <2>4. /\ pipe' \in [Ends -> {"run", "leaving", "closing", "flushing", "closed"}]
        /\ \A f \in Ends : f # e => pipe'[f] = pipe[f]
    BY ONLY <1>1, <2>1
  <2> QED
    BY ONLY <2>2, <2>3, <2>4
<1>3. TypeOK'
  <2>1. UNCHANGED <<peer, sent, taken, wire, cut, got, told, unread>>
    BY <1>1, <1>2
  <2>2. TypeOK /\ trouble' \in BOOLEAN
    BY <1>2
  <2> QED
    BY ONLY <1>2A, <2>1, <2>2 DEF TypeOK
<1>4. Tally' /\ Wound' /\ Said'
  <2>1. \A f \in told : Other(f) \in Ends
    BY DEF TypeOK
  <2> QED
    BY <1>1, <1>2, <1>2A, <2>1 DEF Tally, Wound, Said
<1>5. \A f \in Ends : Broken(f)' = Broken(f) /\ (up'[f] = "run" => up[f] = "run")
  BY <1>1, <1>2 DEF Broken, Gone, Collect, TypeOK
<1>6. ASSUME NEW f \in Ends PROVE Flow(f)'
  BY <1>1, <1>5 DEF Flow
<1> QED
  BY <1>3, <1>4, <1>6

\* Writers that are flushed change nothing but where the relay stands.
LEMMA FlushSteps ==
    ASSUME IInv, NEW e \in Ends, LocalFlushed(e) \/ PipeEnd(e)
    PROVE  IInv'
<1> USE OtherEnd DEF IInv, ups, downs
<1>1. /\ UNCHANGED <<peer, sent, up, taken, wire, cut, down, got, told, unread, trouble>>
      /\ \/ pipe[e] = "leaving" /\ pipe' = [pipe EXCEPT ![e] = "closing"]
         \/ pipe[e] = "flushing" /\ pipe' = [pipe EXCEPT ![e] = "closed"]
  BY DEF LocalFlushed, PipeEnd
<1>2. TypeOK'
  BY <1>1 DEF TypeOK
<1>3. \A f \in Ends : Gone(f)' = Gone(f) /\ (pipe'[f] # "run" => pipe[f] # "run")
  BY <1>1 DEF TypeOK, Gone
<1>4. \A f \in Ends : Broken(f)' = Broken(f)
  BY <1>1, <1>3 DEF Broken, Gone
<1>5. Tally' /\ Wound' /\ Said'
  BY <1>1, <1>3 DEF Tally, Wound, Said
<1>6. ASSUME NEW f \in Ends PROVE Flow(f)'
  BY <1>1, <1>4 DEF Flow
<1> QED
  BY <1>2, <1>5, <1>6

LEMMA CloseStep ==
    ASSUME IInv, NEW e \in Ends, PipeClose(e) \/ PipeAborts(e)
    PROVE  IInv'
<1> DEFINE d == Other(e)
<1> USE OtherEnd DEF IInv, ups, downs
<1>1. PICK n \in 0 .. Len(wire[e]) :
         wire' = [wire EXCEPT ![e] = Truncated(wire[e], n), ![d] = <<>>]
  BY DEF PipeClose, PipeAborts, HangUp
<1>2. /\ UNCHANGED <<peer, sent, up, taken, cut, down, got, told, unread>> /\ pipe[e] = "closing"
      /\ pipe' = [pipe EXCEPT ![e] = "flushing"]
  BY DEF PipeClose, PipeAborts, HangUp
<1>3. /\ wire[e] \in Seq(Nat) /\ Len(got[e]) \in Nat /\ sent[e] \in Nat
      /\ wire'[e] = Truncated(wire[e], n) /\ wire'[d] = <<>>
  BY <1>1 DEF TypeOK
<1>4. Truncated(wire[e], n) \in Seq(Nat) /\ <<>> \in Seq(Nat)
  BY <1>3, Cut
<1>5. TypeOK'
  <2>1. trouble' \in BOOLEAN /\ wire' \in [Ends -> Seq(Nat)]
    BY <1>1, <1>4 DEF PipeClose, PipeAborts, TypeOK
  <2> QED
    BY <1>2, <2>1 DEF TypeOK
<1>6. Tally' /\ Wound' /\ Said'
  BY <1>2 DEF Tally, Wound, Said, TypeOK
<1>7. Flow(e)'
  <2>1. up'[e] # "run"
    BY <1>2 DEF Wound
  <2>2. InLine(wire[e], Len(got[e]), sent[e], peer[e] # "open")
           => InLine(wire'[e], Len(got[e]), sent[e], peer[e] # "open")
    BY <1>3, LineCut
  <2> QED
    BY <1>2, <2>1, <2>2 DEF Flow
<1>8. Flow(d)'
  <2>1. Broken(d)'
    BY <1>2 DEF Broken, Gone, TypeOK
  <2> QED
    BY <1>2, <1>3, <2>1 DEF Flow, InLine
<1> QED
  BY <1>5, <1>6, <1>7, <1>8

LEMMA StutterStep ==
    ASSUME IInv, UNCHANGED vars
    PROVE  IInv'
  BY DEF IInv, vars, ups, downs, TypeOK, Tally, Wound, Said, Flow, InLine, Broken, Gone

LEMMA NextSteps ==
    ASSUME Next
    PROVE  \/ UNCHANGED vars
           \/ TunnelBreak
           \/ \E e \in Ends : \/ PeerSend(e) \/ PeerEnd(e) \/ PeerReset(e) \/ PeerReads(e)
                              \/ UpStep(e) \/ DownStep(e) \/ DrainFails(e)
                              \/ PipeFails(e) \/ PipeDone(e) \/ (PipeCancelled /\ e = "client")
                              \/ LocalFlushed(e) \/ PipeEnd(e)
                              \/ PipeClose(e) \/ PipeAborts(e)
<1>1. "client" \in Ends
  BY DEF Ends
<1> QED
  BY <1>1 DEF Next, Idle, PipeStep

LEMMA Inductive == Spec => []IInv
<1>1. IInv /\ [Next]_vars => IInv'
  BY NextSteps, PeerSteps, BreakStep, UpSteps, DownSteps, DrainSteps, PipeSteps, FlushSteps,
     CloseStep, StutterStep
<1> QED
  BY InitInv, <1>1, PTL DEF Spec

-----------------------------------------------------------------------------
(* The theorems.                                                           *)

\* The variables of a relay keep their types; in particular, an end frame is
\* never passed on as data (_copy_from_tunnel).
THEOREM TypeCorrect == Spec => []TypeOK
<1>1. IInv => TypeOK
  BY DEF IInv
<1> QED
  BY Inductive, <1>1, PTL

-----------------------------------------------------------------------------
(* The refinement.                                                         *)

Ended == {e \in Ends : peer[e] # "open"}
Over  == {e \in Ends : pipe[e] = "closed"}

LEMMA OppositeEnd ==
    ASSUME NEW e \in Ends
    PROVE  Pair!Opposite(e) = Other(e)
<1>1. \A o \in Ends : o # e <=> o = Other(e)
  BY OtherEnd
<1>2. Other(e) \in Ends /\ Other(e) # e
  BY OtherEnd
<1> QED
  BY <1>1, <1>2 DEF Pair!Opposite

LEMMA PairVars ==
    ASSUME UNCHANGED <<sent, got, told>>, Ended' = Ended, Over' = Over
    PROVE  UNCHANGED Pair!pairVars
  BY DEF Pair!pairVars, Ended, Over

LEMMA PairInit == Init => Pair!Init
  BY DEF Init, Pair!Init

LEMMA PairStep ==
    ASSUME IInv, Next
    PROVE  Pair!Next \/ UNCHANGED Pair!pairVars
<1> USE OtherEnd DEF ups, downs
<1> DEFINE Goal == Pair!Next \/ UNCHANGED Pair!pairVars
<1>1. CASE UNCHANGED vars
  BY <1>1, PairVars DEF vars, downs, Ended, Over
<1>2. CASE TunnelBreak
  BY <1>2, PairVars DEF TunnelBreak, Ended, Over
<1>3. ASSUME NEW e \in Ends, PeerSend(e) PROVE Goal
  <2>1. Ended' = Ended /\ Over' = Over /\ e \notin Ended
    BY <1>3 DEF PeerSend, Ended, Over
  <2>2. Pair!Send(e)
    BY <1>3, <2>1 DEF PeerSend, Pair!Send, Ended, Over
  <2> QED
    BY <2>2 DEF Pair!Next
<1>4. ASSUME NEW e \in Ends, PeerEnd(e) \/ PeerReset(e) PROVE Goal
  <2>1. Ended' = Ended \cup {e} /\ Over' = Over
    BY <1>4 DEF PeerEnd, PeerReset, Ended, Over, IInv, TypeOK
  <2>2. Pair!Finish(e)
    BY <1>4, <2>1 DEF PeerEnd, PeerReset, Pair!Finish, Ended, Over
  <2> QED
    BY <2>2 DEF Pair!Next
<1>5. ASSUME NEW e \in Ends,
             \/ PeerReads(e) \/ UpStep(e) \/ DrainFails(e)
             \/ PipeFails(e) \/ PipeDone(e) \/ (PipeCancelled /\ e = "client")
             \/ LocalFlushed(e) \/ PipeClose(e) \/ PipeAborts(e)
      PROVE  Goal
  <2> USE DEF PeerReads, UpStep, UpData, UpEnd, UpFails, DrainFails, UpDrainFails, DownDrainFails,
              PipeFails, PipeDone, PipeCancelled, LocalFlushed, PipeClose, PipeAborts, HangUp
  <2>1. UNCHANGED <<sent, got, told, peer>>
    BY <1>5
  <2>2. Over' = Over
    <3>1. \/ pipe' = pipe
          \/ /\ pipe[e] # "closed"
             /\ \E p \in {"leaving", "closing", "flushing"} : pipe' = [pipe EXCEPT ![e] = p]
      BY <1>5
    <3> QED
      BY <3>1 DEF Over, IInv, TypeOK
  <2> QED
    BY <2>1, <2>2, PairVars DEF Ended
<1>6. ASSUME NEW e \in Ends, DownStep(e) PROVE Goal
  <2> DEFINE d == Other(e)
  <2>1. UNCHANGED <<peer, sent, pipe>> /\ down[e] = "run"
    BY <1>6 DEF DownStep, DownData, DownEnd, DownFails
  <2>2. Ended' = Ended /\ Over' = Over
    BY <2>1 DEF Ended, Over
  <2>3. d \notin told /\ e \notin Over /\ Pair!Opposite(d) = e /\ d \in Ends
    BY <2>1, OppositeEnd DEF IInv, Said, Wound, Over
  <2>4. CASE UNCHANGED <<got, told>>
    BY <2>1, <2>2, <2>4, PairVars
  <2>5. CASE ~UNCHANGED <<got, told>>
    <3>1. peer[e] # "reset" /\ wire[d] # <<>>
      BY <1>6, <2>5 DEF DownStep, DownData, DownEnd, DownFails, Arrives
    <3>2. InLine(wire[d], Len(got[d]), sent[d], peer[d] # "open")
      BY <2>3, <3>1 DEF IInv, Flow
    <3>3. wire[d] \in Seq(Nat) /\ Len(got[d]) \in Nat /\ sent[d] \in Nat
      BY <2>3 DEF IInv, TypeOK
    <3>4. /\ Head(wire[d]) # EOF => Head(wire[d]) = Len(got[d]) + 1 /\ Len(got[d]) < sent[d]
          /\ Head(wire[d]) = EOF => peer[d] # "open" /\ Len(got[d]) = sent[d]
      <4> DEFINE w == wire[d]
                 n == Len(got[d])
                 s == sent[d]
                 ended == peer[d] # "open"
      <4>1. w \in Seq(Nat) /\ n \in Nat /\ s \in Nat /\ w # <<>> /\ InLine(w, n, s, ended)
        BY <3>1, <3>2, <3>3
      <4> HIDE DEF w, n, s, ended
      <4>2. /\ Head(w) # EOF => Head(w) = n + 1 /\ n < s
            /\ Head(w) = EOF => ended /\ n = s
        BY ONLY <4>1, LineHead
      <4> QED
        BY <4>2 DEF w, n, s, ended
    <3>5. CASE Head(wire[d]) # EOF
      <4>1. told' = told /\ got' = [got EXCEPT ![d] = Append(@, Head(wire[d]))]
        BY <1>6, <2>5, <3>1, <3>5 DEF DownStep, DownData, DownEnd, DownFails, Frame, IsData
      <4>2. got' = [got EXCEPT ![d] = Append(@, Len(@) + 1)]
        BY <3>4, <3>5, <4>1
      <4>3. Pair!Arrive(d)
        BY <2>1, <2>2, <2>3, <3>4, <3>5, <4>1, <4>2 DEF Pair!Arrive, Ended, Over
      <4> QED
        BY <2>3, <4>3 DEF Pair!Next
    <3>6. CASE Head(wire[d]) = EOF
      <4>1. got' = got /\ told' = told \cup {d}
        BY <1>6, <2>5, <3>1, <3>6 DEF DownStep, DownData, DownEnd, DownFails, Frame, IsData
      <4>2. Pair!Tell(d)
        BY <2>1, <2>2, <2>3, <3>4, <3>6, <4>1 DEF Pair!Tell, Ended, Over
      <4> QED
        BY <2>3, <4>2 DEF Pair!Next
    <3> QED
      BY <3>5, <3>6
  <2> QED
    BY <2>4, <2>5
<1>7. ASSUME NEW e \in Ends, PipeEnd(e) PROVE Goal
  <2>1. Ended' = Ended /\ Over' = Over \cup {e}
    BY <1>7 DEF PipeEnd, Ended, Over, IInv, TypeOK
  <2>2. Pair!Stop(e)
    BY <1>7, <2>1 DEF PipeEnd, Pair!Stop, Ended, Over
  <2> QED
    BY <2>2 DEF Pair!Next
<1> QED
  BY <1>1, <1>2, <1>3, <1>4, <1>5, <1>6, <1>7, NextSteps

\* However many chunks the peers send, and however ends, resets, cancellations
\* and a lost tunnel interleave: what reaches a peer is what the other one
\* sent, in order, and the end of a stream only after all of it
\* (pipe_tunnel_streams, _copy_to_tunnel, _copy_from_tunnel).
THEOREM RelayIsStreamPair == Spec => RelayPromise
<1>1. IInv /\ [Next]_vars => [Pair!Next]_(Pair!pairVars)
  <2>1. UNCHANGED vars => UNCHANGED Pair!pairVars
    BY DEF vars, downs, Pair!pairVars
  <2> QED
    BY <2>1, PairStep
<1> QED
  BY Inductive, PairInit, <1>1, PTL DEF Spec, RelayPromise, Pair!Spec

-----------------------------------------------------------------------------
(* Relays that nothing disturbs.                                           *)

\* Nothing is reset, lost, cancelled or failed, and an end closes only when
\* both of its directions are done.
Sound ==
    /\ ~cut
    /\ \A e \in Ends :
          /\ peer[e] # "reset"
          /\ up[e] \in {"run", "done"} /\ down[e] \in {"run", "done"}
          /\ pipe[e] # "run" => up[e] = "done" /\ down[e] = "done"

\* A direction that was read to its end is complete at the other end, or what
\* is missing is on its way, and the end frame with it.
Underway(e) ==
    /\ down[Other(e)] = "done" => e \in told
    /\ e \in told => up[e] = "done" /\ wire[e] = <<>> /\ Len(got[e]) = sent[e]
    /\ up[e] = "done" =>
          /\ peer[e] = "ended"
          /\ e \notin told => /\ Len(got[e]) + Len(wire[e]) = sent[e] + 1
                              /\ Len(got[e]) <= sent[e]

Undisturbed == ~trouble => Sound /\ \A e \in Ends : Underway(e)

\* What an undisturbed relay is between two steps.
Still == IInv /\ Sound /\ \A e \in Ends : Underway(e)

\* Lengths are numbers.
LEMMA Numbers ==
    ASSUME TypeOK, NEW e \in Ends
    PROVE  /\ sent[e] \in Nat /\ taken[e] \in Nat /\ wire[e] \in Seq(Nat)
           /\ Len(wire[e]) \in Nat /\ got[e] \in Seq(Nat \ {EOF}) /\ Len(got[e]) \in Nat
  BY DEF TypeOK

\* A direction that is still read is not broken.
LEMMA Unbroken ==
    ASSUME Still, NEW e \in Ends, up[e] = "run"
    PROVE  ~Broken(e) /\ e \notin told /\ down[Other(e)] = "run"
  BY OtherEnd DEF Still, Sound, Underway, Broken, Gone, IInv, TypeOK

\* Nor does a wait in drain fail.
LEMMA SoundDrain ==
    ASSUME Still, NEW e \in Ends
    PROVE  ~DrainFails(e)
<1>1. ~UpDrainFails(e)
  <2>1. CASE up[e] = "run"
    BY <2>1, Unbroken DEF UpDrainFails
  <2>2. CASE up[e] = "done"
    BY <2>2, OtherEnd DEF UpDrainFails, Still, Sound, Underway, Broken, Gone
  <2> QED
    BY <2>1, <2>2 DEF UpDrainFails
<1>2. ~DownDrainFails(e)
  BY DEF DownDrainFails, Still, Sound
<1> QED
  BY <1>1, <1>2 DEF DrainFails

\* A peer that has ended sends no more.
LEMMA SoundPeers ==
    ASSUME Still, ~trouble', NEW e \in Ends,
           PeerSend(e) \/ PeerEnd(e) \/ PeerReset(e) \/ PeerReads(e)
    PROVE  Sound' /\ \A f \in Ends : Underway(f)'
<1> USE OtherEnd DEF Still, IInv, ups, downs
<1>1. UNCHANGED <<ups, wire, cut, down, got, told, pipe>>
  BY DEF PeerSend, PeerEnd, PeerReset, PeerReads
<1>2. PeerSend(e) \/ PeerEnd(e) \/ PeerReads(e)
  BY DEF PeerReset
<1>3. \A f \in Ends : /\ peer'[f] # "reset"
                      /\ up[f] = "done" => peer'[f] = peer[f] /\ sent'[f] = sent[f]
  BY <1>2 DEF PeerSend, PeerEnd, PeerReads, Sound, Underway, TypeOK
<1>4. Sound'
  BY <1>1, <1>3 DEF Sound
<1>5. ASSUME NEW f \in Ends PROVE Underway(f)'
  BY <1>1, <1>3 DEF Underway
<1> QED
  BY <1>4, <1>5

\* A direction whose end is read is not broken: the end frame is written.
LEMMA SoundUp ==
    ASSUME Still, NEW e \in Ends, UpStep(e)
    PROVE  Sound' /\ \A f \in Ends : Underway(f)'
<1> USE OtherEnd DEF Still, IInv, ups, downs
<1>1. UNCHANGED <<peer, sent, cut, downs, pipe>> /\ up[e] = "run"
  BY DEF UpStep, UpData, UpEnd, UpFails
<1>2. ~Broken(e) /\ e \notin told /\ down[Other(e)] = "run" /\ pipe[e] = "run"
  BY <1>1, Unbroken DEF Sound, TypeOK
<1>3. ~UpFails(e)
  BY <1>2 DEF UpFails, Sound
<1>4. CASE UpData(e)
  <2>1. up' = up /\ \A f \in Ends : f # e => wire'[f] = wire[f]
    BY <1>4 DEF UpData, Write, TypeOK
  <2>2. Sound'
    BY <1>1, <2>1 DEF Sound
  <2>3. ASSUME NEW f \in Ends PROVE Underway(f)'
    BY <1>1, <1>2, <2>1 DEF Underway
  <2> QED
    BY <2>2, <2>3
<1>5. CASE UpEnd(e)
  <2>1. /\ up' = [up EXCEPT ![e] = "done"] /\ peer[e] = "ended" /\ taken[e] = sent[e]
        /\ wire' = [wire EXCEPT ![e] = Append(wire[e], EOF)]
    BY <1>2, <1>5 DEF UpEnd, SayEnd, Write
  <2>2. up'[e] = "done" /\ \A f \in Ends : f # e => up'[f] = up[f] /\ wire'[f] = wire[f]
    BY <2>1 DEF TypeOK
  <2>3. Sound'
    BY <1>1, <1>2, <2>2 DEF Sound
  <2>4. Len(wire'[e]) = Len(wire[e]) + 1
    <3>1. EOF \in Nat /\ wire'[e] = Append(wire[e], EOF)
      BY <2>1, BoundAssumption DEF EOF, TypeOK
    <3>2. wire[e] \in Seq(Nat)
      BY Numbers
    <3> QED
      BY <3>1, <3>2, AppendProperties
  <2>5. Len(got[e]) + Len(wire[e]) = sent[e]
    BY <1>1, <1>2, <2>1 DEF Flow, Sound
  <2>6. Len(got[e]) + Len(wire'[e]) = sent[e] + 1 /\ Len(got[e]) <= sent[e]
    <3> DEFINE x == Len(got[e])
               y == Len(wire[e])
               z == sent[e]
    <3>1. x \in Nat /\ y \in Nat /\ z \in Nat /\ x + y = z
      BY <2>5, Numbers
    <3> HIDE DEF x, y, z
    <3>2. x + (y + 1) = z + 1 /\ x <= z
      BY ONLY <3>1
    <3> QED
      BY <2>4, <3>2 DEF x, y, z
  <2>7. Underway(e)'
    BY <1>1, <1>2, <2>1, <2>2, <2>6 DEF Underway
  <2>8. Underway(Other(e))'
    BY <1>1, <2>2 DEF Underway
  <2> QED
    BY <2>3, <2>7, <2>8
<1> QED
  BY <1>3, <1>4, <1>5 DEF UpStep

\* There is an end frame to read as long as the other end has not been told.
LEMMA SoundDown ==
    ASSUME Still, NEW e \in Ends, DownStep(e)
    PROVE  Sound' /\ \A f \in Ends : Underway(f)'
<1> DEFINE d == Other(e)
<1> USE OtherEnd DEF Still, IInv, ups, downs
<1>1. UNCHANGED <<peer, sent, ups, cut, pipe>> /\ down[e] = "run"
  BY DEF DownStep, DownData, DownEnd, DownFails
<1>2. peer[e] # "reset" /\ d \notin told /\ pipe[e] = "run" /\ d \in Ends
  BY <1>1 DEF Sound, Said, TypeOK
<1>3. /\ InLine(wire[d], Len(got[d]), sent[d], peer[d] # "open")
      /\ up[d] = "run" => Len(got[d]) + Len(wire[d]) = taken[d]
  BY <1>2, Unbroken DEF Flow
<1>4. wire[d] # <<>> =>
         /\ Len(Tail(wire[d])) = Len(wire[d]) - 1
         /\ Head(wire[d]) # EOF => Len(got[d]) < sent[d]
         /\ Head(wire[d]) = EOF => Len(got[d]) = sent[d] /\ Len(wire[d]) = 1
  <2> DEFINE w == wire[d]
             n == Len(got[d])
             s == sent[d]
             ended == peer[d] # "open"
  <2>1. w \in Seq(Nat) /\ n \in Nat /\ s \in Nat /\ InLine(w, n, s, ended)
    BY <1>2, <1>3, Numbers
  <2> HIDE DEF w, n, s, ended
  <2>2. w # <<>> => /\ Len(Tail(w)) = Len(w) - 1
                    /\ Head(w) # EOF => n < s
                    /\ Head(w) = EOF => n = s /\ Len(w) = 1
    BY ONLY <2>1, LineHead
  <2> QED
    BY <2>2 DEF w, n, s, ended
<1>5. ~DownFails(e)
  <2>1. CASE Gone(d)
    <3>1. up[d] = "done" /\ Len(got[d]) + Len(wire[d]) = sent[d] + 1 /\ Len(got[d]) <= sent[d]
      BY <1>2, <2>1 DEF Sound, Underway, Gone
    <3>2. Len(wire[d]) # 0
      <4> DEFINE x == Len(got[d])
                 y == Len(wire[d])
                 z == sent[d]
      <4>1. x \in Nat /\ y \in Nat /\ z \in Nat /\ x + y = z + 1 /\ x <= z
        BY <1>2, <3>1, Numbers
      <4> HIDE DEF x, y, z
      <4>2. y # 0
        BY ONLY <4>1
      <4> QED
        BY <4>2 DEF y
    <3> QED
      BY <1>2, <3>2 DEF DownFails, Arrives
  <2>2. CASE ~Gone(d)
    BY <1>2, <2>2 DEF DownFails, Broken, Sound
  <2> QED
    BY <2>1, <2>2
<1>6. CASE DownData(e)
  <2>1. /\ wire[d] # <<>> /\ Head(wire[d]) # EOF /\ down' = down /\ told' = told
        /\ wire' = [wire EXCEPT ![d] = Tail(wire[d])]
        /\ got' = [got EXCEPT ![d] = Append(got[d], Head(wire[d]))]
    BY <1>2, <1>6 DEF DownData, Arrives, Frame, IsData, Consume
  <2>2. Len(got'[d]) = Len(got[d]) + 1 /\ wire'[d] = Tail(wire[d])
    <3>1. got[d] \in Seq(Nat \ {EOF}) /\ wire[d] \in Seq(Nat)
      BY <1>2, Numbers
    <3>2. Head(wire[d]) \in Nat \ {EOF}
      <4>1. Head(wire[d]) \in Nat
        BY <2>1, <3>1, HeadTailProperties
      <4> QED
        BY <2>1, <4>1, BoundAssumption DEF EOF
    <3>3. got'[d] = Append(got[d], Head(wire[d])) /\ wire'[d] = Tail(wire[d])
      BY <1>2, <2>1 DEF TypeOK
    <3> QED
      BY <3>1, <3>2, <3>3, AppendProperties
  <2>3. got'[e] = got[e] /\ wire'[e] = wire[e]
    BY <2>1 DEF TypeOK
  <2>4. Sound'
    BY <1>1, <2>1 DEF Sound
  <2>5. Underway(e)'
    BY <1>1, <2>1, <2>3 DEF Underway
  <2>6. up[d] = "done" => /\ Len(got'[d]) + Len(wire'[d]) = sent[d] + 1
                          /\ Len(got'[d]) <= sent[d]
    <3> DEFINE x == Len(got[d])
               y == Len(wire[d])
               z == sent[d]
    <3>1. x \in Nat /\ y \in Nat /\ z \in Nat /\ x < z
      BY <1>2, <1>4, <2>1, Numbers
    <3>2. up[d] = "done" => x + y = z + 1
      BY <1>2 DEF Underway
    <3>3. Len(got'[d]) = x + 1 /\ Len(wire'[d]) = y - 1
      BY <1>4, <2>1, <2>2
    <3> HIDE DEF x, y, z
    <3>4. x + y = z + 1 => (x + 1) + (y - 1) = z + 1 /\ x + 1 <= z
      BY ONLY <3>1
    <3> QED
      BY <3>2, <3>3, <3>4 DEF z
  <2>7. Underway(d)'
    BY <1>1, <1>2, <2>1, <2>6 DEF Underway
  <2> QED
    BY <2>4, <2>5, <2>7
<1>7. CASE DownEnd(e)
  <2>1. /\ wire[d] # <<>> /\ Head(wire[d]) = EOF /\ got' = got
        /\ down' = [down EXCEPT ![e] = "done"] /\ told' = told \cup {d}
        /\ wire' = [wire EXCEPT ![d] = Tail(wire[d])]
    BY <1>2, <1>7 DEF DownEnd, Arrives, Frame, Consume
  <2>2. Len(got[d]) = sent[d] /\ Len(wire[d]) = 1
    BY <1>4, <2>1
  <2>3. up[d] = "done"
    <3>1. up[d] # "run"
      <4>1. taken[d] <= sent[d] /\ Len(got[d]) \in Nat /\ taken[d] \in Nat /\ sent[d] \in Nat
        BY <1>2, Numbers DEF Tally
      <4>2. up[d] = "run" => sent[d] + 1 = taken[d]
        BY <1>3, <2>2
      <4> QED
        BY <4>1, <4>2
    <3> QED
      BY <1>2, <3>1 DEF Sound
  <2>4. wire'[d] = <<>>
    <3>1. wire'[d] = Tail(wire[d]) /\ wire[d] \in Seq(Nat)
      BY <1>2, <2>1, Numbers DEF TypeOK
    <3>2. Tail(wire[d]) \in Seq(Nat)
      BY <2>1, <3>1, HeadTailProperties
    <3>3. Len(Tail(wire[d])) = 0
      BY <1>4, <2>1, <2>2
    <3> QED
      BY <3>1, <3>2, <3>3, EmptySeq
  <2>5. Sound'
    BY <1>1, <2>1 DEF Sound, TypeOK
  <2>6. Underway(e)'
    BY <1>1, <1>2, <2>1 DEF Underway, TypeOK
  <2>7. Underway(d)'
    BY <1>1, <1>2, <2>1, <2>2, <2>3, <2>4 DEF Underway
  <2> QED
    BY <2>5, <2>6, <2>7
<1> QED
  BY <1>5, <1>6, <1>7 DEF DownStep

\* What an end wrote last is lost only if something is in flight to it.
LEMMA SoundPipe ==
    ASSUME Still, ~trouble', NEW e \in Ends,
           \/ PipeFails(e) \/ PipeDone(e) \/ (PipeCancelled /\ e = "client")
           \/ LocalFlushed(e) \/ PipeEnd(e) \/ PipeClose(e) \/ PipeAborts(e)
    PROVE  Sound' /\ \A f \in Ends : Underway(f)'
<1> USE OtherEnd DEF Still, IInv, ups, downs
<1>1. ~PipeFails(e) /\ ~PipeCancelled /\ ~PipeAborts(e)
  BY DEF PipeFails, SomeFailed, Sound, PipeCancelled, PipeAborts
<1>2. CASE PipeDone(e)
  BY <1>2 DEF PipeDone, BothDone, Sound, Underway, TypeOK
<1>3. CASE PipeClose(e)
  <2> DEFINE d == Other(e)
  <2>1. PICK n \in 0 .. Len(wire[e]) :
           /\ Arrives(e) \/ n = Len(wire[e])
           /\ wire' = [wire EXCEPT ![e] = Truncated(wire[e], n), ![d] = <<>>]
    BY <1>3 DEF PipeClose, HangUp
  <2>2. /\ UNCHANGED <<peer, sent, up, taken, cut, down, got, told>> /\ pipe[e] = "closing"
        /\ pipe' = [pipe EXCEPT ![e] = "flushing"]
    BY <1>3 DEF PipeClose, HangUp
  <2>3. up[e] = "done" /\ down[e] = "done" /\ d \in told /\ wire[d] = <<>>
    BY <2>2 DEF Sound, Underway
  <2>4. wire'[e] = wire[e] /\ wire'[d] = <<>>
    <3>1. n = Len(wire[e])
      BY <2>1, <2>3 DEF Arrives
    <3>2. wire'[e] = Truncated(wire[e], n) /\ wire'[d] = <<>>
      BY <2>1 DEF TypeOK
    <3>3. wire[e] \in Seq(Nat)
      BY Numbers
    <3>4. Truncated(wire[e], n) = wire[e]
      BY <3>1, <3>3 DEF Truncated
    <3> QED
      BY <3>2, <3>4
  <2>5. Sound'
    BY <2>2, <2>3 DEF Sound, TypeOK
  <2>6. Underway(e)' /\ Underway(d)'
    BY <2>2, <2>3, <2>4 DEF Underway
  <2> QED
    BY <2>5, <2>6
<1>4. CASE LocalFlushed(e) \/ PipeEnd(e)
  <2>1. /\ UNCHANGED <<peer, sent, up, taken, wire, cut, down, got, told>>
        /\ pipe[e] # "run" /\ \A f \in Ends : pipe'[f] # "run" => pipe[f] # "run"
    BY <1>4 DEF LocalFlushed, PipeEnd, TypeOK
  <2> QED
    BY <2>1 DEF Sound, Underway
<1> QED
  BY <1>1, <1>2, <1>3, <1>4

\* Every step; those that disturb the relay say so in trouble.
LEMMA UndisturbedStep ==
    ASSUME IInv, Undisturbed, [Next]_vars
    PROVE  Undisturbed'
<1> SUFFICES ASSUME ~trouble' PROVE Sound' /\ \A e \in Ends : Underway(e)'
  BY DEF Undisturbed
<1>1. CASE UNCHANGED vars
  BY <1>1 DEF Undisturbed, vars, ups, downs, Sound, Underway
<1>2. ~TunnelBreak
  BY DEF TunnelBreak
<1>3. ASSUME NEW e \in Ends,
             \/ PeerSend(e) \/ PeerEnd(e) \/ PeerReset(e) \/ PeerReads(e)
             \/ UpStep(e) \/ DownStep(e) \/ DrainFails(e)
             \/ PipeFails(e) \/ PipeDone(e) \/ (PipeCancelled /\ e = "client")
             \/ LocalFlushed(e) \/ PipeEnd(e) \/ PipeClose(e) \/ PipeAborts(e)
      PROVE  Sound' /\ \A f \in Ends : Underway(f)'
  <2>1. ~trouble
    BY <1>3 DEF PeerSend, PeerEnd, PeerReset, PeerReads, UpStep, UpData, UpEnd, UpFails, DownStep,
                DownData, DownEnd, DownFails, DrainFails, UpDrainFails, DownDrainFails, PipeFails,
                PipeDone, PipeCancelled, LocalFlushed, PipeEnd, PipeClose, PipeAborts
  <2>2. Still
    BY <2>1 DEF Undisturbed, Still
  <2> QED
    BY <1>3, <2>2, SoundPeers, SoundUp, SoundDown, SoundDrain, SoundPipe
<1> QED
  BY <1>1, <1>2, <1>3, NextSteps

\* A relay that nothing disturbs ends, at both ends, only when everything both
\* peers sent was passed on with its end, for any number of chunks: neither
\* direction ends the other, and what was written last is not lost
\* (pipe_tunnel_streams).
THEOREM CompleteIfUndisturbed == Spec => []UndisturbedComplete
<1>1. Init => Undisturbed
  BY OtherEnd DEF Init, Undisturbed, Sound, Underway
<1>2. IInv /\ Undisturbed /\ [Next]_vars => Undisturbed'
  BY UndisturbedStep
<1>3. IInv /\ Undisturbed => UndisturbedComplete
  <2> SUFFICES ASSUME IInv, Undisturbed, ~trouble, \A e \in Ends : pipe[e] = "closed"
               PROVE  told = Ends /\ \A e \in Ends : Len(got[e]) = sent[e]
    BY DEF UndisturbedComplete
  <2>1. ASSUME NEW e \in Ends PROVE e \in told /\ Len(got[e]) = sent[e]
    BY OtherEnd DEF Undisturbed, Sound, Underway
  <2>2. told \subseteq Ends
    BY DEF IInv, TypeOK
  <2> QED
    BY <2>1, <2>2
<1> QED
  BY Inductive, <1>1, <1>2, <1>3, PTL DEF Spec

=============================================================================
