----------------------------- MODULE StreamPair -----------------------------
(***************************************************************************)
(* What a relay promises its two peers: a pair of byte streams, one from   *)
(* each end to the other. What arrives is what was sent, in order; an end  *)
(* of stream arrives only after all of it. Either end may close both of    *)
(* its streams, and what did not arrive by then never does.                *)
(***************************************************************************)
EXTENDS Naturals, Sequences

CONSTANTS
    Ends,      \* the two ends; a stream has the name of the end it starts at
    MaxChunks  \* bound: chunks sent on a stream

VARIABLES
    sent,   \* chunks 1 .. sent[e] were sent on stream e
    ended,  \* streams whose sender will send no more
    got,    \* the chunks that arrived
    told,   \* streams whose end arrived
    over    \* ends that are closed

pairVars == <<sent, ended, got, told, over>>

Opposite(e) == CHOOSE o \in Ends : o # e

Init ==
    /\ sent = [e \in Ends |-> 0]
    /\ got = [e \in Ends |-> <<>>]
    /\ ended = {} /\ told = {} /\ over = {}

Send(e) ==
    /\ e \notin ended
    /\ sent[e] < MaxChunks[e]
    /\ sent' = [sent EXCEPT ![e] = @ + 1]
    /\ UNCHANGED <<ended, got, told, over>>

Finish(e) ==
    /\ ended' = ended \cup {e}
    /\ UNCHANGED <<sent, got, told, over>>

Arrive(e) ==
    /\ e \notin told
    /\ Opposite(e) \notin over
    /\ Len(got[e]) < sent[e]
    /\ got' = [got EXCEPT ![e] = Append(@, Len(@) + 1)]
    /\ UNCHANGED <<sent, ended, told, over>>

Tell(e) ==
    /\ e \in ended
    /\ Opposite(e) \notin over
    /\ Len(got[e]) = sent[e]
    /\ told' = told \cup {e}
    /\ UNCHANGED <<sent, ended, got, over>>

Stop(e) ==
    /\ over' = over \cup {e}
    /\ UNCHANGED <<sent, ended, got, told>>

Next == \E e \in Ends : Send(e) \/ Finish(e) \/ Arrive(e) \/ Tell(e) \/ Stop(e)

Spec == Init /\ [][Next]_pairVars

=============================================================================
