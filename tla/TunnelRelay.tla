---------------------------- MODULE TunnelRelay ----------------------------
(***************************************************************************)
(* A paired tunnel: pipe_tunnel_streams of protocol.py at both of its ends *)
(* and the encrypted connection between them. At the server the plain peer *)
(* is the public user, at the client it is the local service. Each end     *)
(* runs one task per direction, _copy_to_tunnel and _copy_from_tunnel, and *)
(* a direction is named after the end its data comes from.                 *)
(***************************************************************************)
EXTENDS Naturals, Sequences, FiniteSets

CONSTANTS
    MaxChunks,   \* bound: chunks the peer at an end sends
    Py311        \* Python 3.11 or later: closing a TLS connection has a limit

Ends == {"server", "client"}

ASSUME BoundAssumption == MaxChunks \in [Ends -> Nat]
ASSUME PythonAssumption == Py311 \in BOOLEAN

\* The end frame of a direction; data frames are chunk numbers.
EOF == 0

Other(e) == IF e = "server" THEN "client" ELSE "server"

VARIABLES
    peer,     \* what the plain peer at an end did with its connection
    sent,     \* chunks the peer has sent
    up,       \* _copy_to_tunnel at an end
    taken,    \* chunks it has read
    wire,     \* frames on their way from an end to the other: chunks and EOF
    cut,      \* the tunnel connection is lost
    down,     \* _copy_from_tunnel at an end
    got,      \* by direction: chunks written to the peer at the other end
    told,     \* directions whose end was passed on by write_eof
    unread,   \* ends whose peer has not taken all that was written to it
    pipe,     \* pipe_tunnel_streams at an end
    trouble   \* history: a reset, a lost connection, a cancellation, an aborted close

ups   == <<up, taken>>
downs == <<down, got, told, unread>>
vars  == <<peer, sent, ups, wire, cut, downs, pipe, trouble>>

Tasks == {"run", "done", "failed", "over"}

Init ==
    /\ peer = [e \in Ends |-> "open"]
    /\ sent = [e \in Ends |-> 0]
    /\ up = [e \in Ends |-> "run"]
    /\ taken = [e \in Ends |-> 0]
    /\ wire = [e \in Ends |-> <<>>]
    /\ cut = FALSE
    /\ down = [e \in Ends |-> "run"]
    /\ got = [e \in Ends |-> <<>>]
    /\ told = {}
    /\ unread = {}
    /\ pipe = [e \in Ends |-> "run"]
    /\ trouble = FALSE

-----------------------------------------------------------------------------
(* The peers and the network.                                              *)

\* What a peer sends when the tasks of its end are over is read by nobody.
PeerSend(e) ==
    /\ peer[e] = "open"
    /\ pipe[e] = "run"
    /\ sent[e] < MaxChunks[e]
    /\ sent' = [sent EXCEPT ![e] = @ + 1]
    /\ UNCHANGED <<peer, ups, wire, cut, downs, pipe, trouble>>

\* The peer sends no more; it may go on reading.
PeerEnd(e) ==
    /\ peer[e] = "open"
    /\ pipe[e] = "run"
    /\ peer' = [peer EXCEPT ![e] = "ended"]
    /\ UNCHANGED <<sent, ups, wire, cut, downs, pipe, trouble>>

PeerReset(e) ==
    /\ peer[e] # "reset"
    /\ pipe[e] # "closed"
    /\ peer' = [peer EXCEPT ![e] = "reset"]
    /\ unread' = unread \ {e}
    /\ trouble' = TRUE
    /\ UNCHANGED <<sent, ups, wire, cut, down, got, told, pipe>>

\* The peer takes what was written to it.
PeerReads(e) ==
    /\ e \in unread
    /\ unread' = unread \ {e}
    /\ UNCHANGED <<peer, sent, ups, wire, cut, down, got, told, pipe, trouble>>

\* The first n frames of a direction are all that will arrive.
Truncated(s, n) == SubSeq(s, 1, n)

TunnelBreak ==
    /\ ~cut
    /\ cut' = TRUE
    /\ \E n \in 0 .. Len(wire["server"]), m \in 0 .. Len(wire["client"]) :
          wire' = [wire EXCEPT !["server"] = Truncated(@, n), !["client"] = Truncated(@, m)]
    /\ trouble' = TRUE
    /\ UNCHANGED <<peer, sent, ups, downs, pipe>>

\* The end has closed its side of the tunnel connection.
Gone(e) == pipe[e] \in {"flushing", "closed"}

\* Nothing an end writes arrives any more.
Broken(e) == cut \/ Gone(Other(e))

Write(e, frame) ==
    wire' = IF Broken(e) THEN wire ELSE [wire EXCEPT ![e] = Append(@, frame)]

-----------------------------------------------------------------------------
(* _copy_to_tunnel. After each write it waits in drain if the other end has *)
(* left too much unread: while there is something unread, it may go on or   *)
(* wait. One that is "done" may still wait for its last frame.             *)

\* A write to a broken connection may go unnoticed for a while.
UpData(e) ==
    /\ up[e] = "run"
    /\ taken[e] < sent[e]
    /\ taken' = [taken EXCEPT ![e] = @ + 1]
    /\ Write(e, taken[e] + 1)
    /\ UNCHANGED <<peer, sent, up, cut, downs, pipe, trouble>>

\* Fault: the end of the stream is not passed on.
Unsaid(e) == UNCHANGED wire

SayEnd(e) == Write(e, EOF)

UpEnd(e) ==
    /\ up[e] = "run"
    /\ peer[e] = "ended"
    /\ taken[e] = sent[e]
    /\ SayEnd(e)
    /\ up' = [up EXCEPT ![e] = "done"]
    /\ UNCHANGED <<peer, sent, taken, cut, downs, pipe, trouble>>

\* Reading fails, or a write to a broken connection does: while the peer is
\* silent nothing is written and a broken tunnel goes unnoticed here.
UpFails(e) ==
    /\ up[e] = "run"
    /\ \/ peer[e] = "reset"
       \/ Broken(e) /\ (taken[e] < sent[e] \/ peer[e] = "ended")
    /\ up' = [up EXCEPT ![e] = "failed"]
    /\ UNCHANGED <<peer, sent, taken, wire, cut, downs, pipe, trouble>>

\* The connection breaks while the task waits in drain: not everything it wrote
\* was read.
UpDrainFails(e) ==
    /\ \/ up[e] = "run" /\ Len(got[e]) < taken[e]
       \/ up[e] = "done" /\ e \notin told
    /\ Broken(e)
    /\ up' = [up EXCEPT ![e] = "failed"]
    /\ UNCHANGED <<peer, sent, taken, wire, cut, downs, pipe, trouble>>

-----------------------------------------------------------------------------
(* _copy_from_tunnel. After each write it waits in drain if its peer has    *)
(* left too much unread: while there is something unread, it may go on or   *)
(* wait, and then it sees neither frames nor the end of the tunnel.        *)

Arrives(e) == wire[Other(e)] # <<>>

Frame(e) == Head(wire[Other(e)])

\* Fault: the type of a frame is not looked at.
AnyFrame(e) == TRUE

IsData(e) == Frame(e) # EOF

Consume(e) == wire' = [wire EXCEPT ![Other(e)] = Tail(@)]

\* A write to a peer that is gone may go unnoticed.
DownData(e) ==
    /\ down[e] = "run"
    /\ Arrives(e)
    /\ IsData(e)
    /\ IF peer[e] = "reset"
       THEN UNCHANGED <<got, unread>>
       ELSE /\ got' = [got EXCEPT ![Other(e)] = Append(@, Frame(e))]
            /\ unread' = unread \cup {e}
    /\ Consume(e)
    /\ UNCHANGED <<peer, sent, ups, cut, down, told, pipe, trouble>>

\* write_eof to a peer that is gone is ignored. It waits for nothing.
DownEnd(e) ==
    /\ down[e] = "run"
    /\ Arrives(e)
    /\ Frame(e) = EOF
    /\ told' = IF peer[e] = "reset" THEN told ELSE told \cup {Other(e)}
    /\ down' = [down EXCEPT ![e] = "done"]
    /\ Consume(e)
    /\ UNCHANGED <<peer, sent, ups, cut, got, unread, pipe, trouble>>

\* The tunnel ends without an end frame, or the peer cannot be written to.
DownFails(e) ==
    /\ down[e] = "run"
    /\ \/ ~Arrives(e) /\ Broken(e)
       \/ Arrives(e) /\ IsData(e) /\ peer[e] = "reset"
    /\ down' = [down EXCEPT ![e] = "failed"]
    /\ UNCHANGED <<peer, sent, ups, wire, cut, got, told, unread, pipe, trouble>>

\* The peer resets its connection while the task waits in drain.
DownDrainFails(e) ==
    /\ down[e] = "run"
    /\ peer[e] = "reset" /\ got[Other(e)] # <<>>
    /\ down' = [down EXCEPT ![e] = "failed"]
    /\ UNCHANGED <<peer, sent, ups, wire, cut, got, told, unread, pipe, trouble>>

-----------------------------------------------------------------------------
(* pipe_tunnel_streams.                                                    *)

\* The tasks of an end are over: one that is still running is cancelled first.
Collect(task, e) == [task EXCEPT ![e] = "over"]

\* Fault: the task passes on an end of stream however it ends, as the finally
\* clause of _copy_stream does.
LastWord(e) == IF up[e] = "run" THEN Write(e, EOF) ELSE UNCHANGED wire

\* A task that is cancelled writes nothing.
Wordless(e) == UNCHANGED wire

\* Fault: the other direction is left to itself.
NeitherRuns(e) ==
    {up[e], down[e]} \cap {"failed"} # {} /\ {up[e], down[e]} \cap {"run"} = {}

SomeFailed(e) == {up[e], down[e]} \cap {"failed"} # {}

\* One direction failed: the other is cancelled.
PipeFails(e) ==
    /\ pipe[e] = "run"
    /\ SomeFailed(e)
    /\ Wordless(e)
    /\ up' = Collect(up, e)
    /\ down' = Collect(down, e)
    /\ pipe' = [pipe EXCEPT ![e] = "closing"]
    /\ UNCHANGED <<peer, sent, taken, cut, got, told, unread, trouble>>

\* Fault: the relay ends with the direction that ends first.
EitherDone(e) == up[e] = "done" \/ down[e] = "done"

BothDone(e) == up[e] = "done" /\ down[e] = "done"

PipeDone(e) ==
    /\ pipe[e] = "run"
    /\ BothDone(e)
    /\ pipe' = [pipe EXCEPT ![e] = "closing"]
    /\ UNCHANGED <<peer, sent, ups, wire, cut, downs, trouble>>

\* The client's session is over and its tunnel tasks are cancelled. The server
\* cancels no relay before its process ends.
PipeCancelled ==
    LET e == "client" IN
    /\ pipe[e] = "run"
    /\ Wordless(e)
    /\ up' = Collect(up, e)
    /\ down' = Collect(down, e)
    /\ pipe' = [pipe EXCEPT ![e] = "leaving"]
    /\ trouble' = TRUE
    /\ UNCHANGED <<peer, sent, taken, cut, got, told, unread>>

\* close_writer waits until the peer has taken what was written to it, or is gone;
\* nothing limits that wait.
Flushed(e) == e \notin unread

\* The finally clause of _open_tunnel closes the connection to the local service
\* first.
LocalFlushed(e) ==
    /\ pipe[e] = "leaving"
    /\ Flushed(e)
    /\ pipe' = [pipe EXCEPT ![e] = "closing"]
    /\ UNCHANGED <<peer, sent, ups, wire, cut, downs, trouble>>

\* The tunnel writer is closed: n frames of what was written arrive, and none of
\* what is in flight to this end.
HangUp(e, n) ==
    /\ pipe[e] = "closing"
    /\ pipe' = [pipe EXCEPT ![e] = "flushing"]
    /\ wire' = [wire EXCEPT ![e] = Truncated(@, n), ![Other(e)] = <<>>]
    /\ UNCHANGED <<peer, sent, ups, cut, downs>>

\* Something in flight to this end resets its sender, and what this end wrote
\* last may then be lost with it.
PipeClose(e) ==
    /\ \E n \in 0 .. Len(wire[e]) :
          /\ Arrives(e) \/ n = Len(wire[e])
          /\ HangUp(e, n)
    /\ UNCHANGED trouble

\* From Python 3.11 on, 30 s without an answer to the TLS close abort the
\* connection, whatever is still to be sent.
PipeAborts(e) ==
    /\ Py311
    /\ wire[e] # <<>>
    /\ \E n \in 0 .. Len(wire[e]) : HangUp(e, n)
    /\ trouble' = TRUE

\* The plain writer, closed together with the tunnel writer, is closed too.
PipeEnd(e) ==
    /\ pipe[e] = "flushing"
    /\ Flushed(e)
    /\ pipe' = [pipe EXCEPT ![e] = "closed"]
    /\ UNCHANGED <<peer, sent, ups, wire, cut, downs, trouble>>

-----------------------------------------------------------------------------
UpStep(e)   == UpData(e) \/ UpEnd(e) \/ UpFails(e)
DownStep(e) == DownData(e) \/ DownEnd(e) \/ DownFails(e)
DrainFails(e) == UpDrainFails(e) \/ DownDrainFails(e)
PipeStep(e) ==
    \/ PipeFails(e) \/ PipeDone(e) \/ LocalFlushed(e)
    \/ PipeClose(e) \/ PipeAborts(e) \/ PipeEnd(e)

\* Nothing is left to happen.
Idle ==
    /\ \A e \in Ends : pipe[e] = "closed"
    /\ UNCHANGED vars

Next ==
    \/ \E e \in Ends : PeerSend(e) \/ PeerEnd(e) \/ PeerReset(e) \/ PeerReads(e)
                         \/ UpStep(e) \/ DownStep(e) \/ DrainFails(e) \/ PipeStep(e)
    \/ TunnelBreak \/ PipeCancelled \/ Idle

Spec == Init /\ [][Next]_vars

\* The other end has read all that this one wrote, or is gone: no drain and no
\* TLS close of this end is kept waiting by it.
Heard(e) == wire[e] = <<>> \/ Broken(e)

\* The event loops of both processes run every task that can run, and a wait in
\* drain or for a close ends when what it waits for is read. Peers need never
\* send, end or read anything, and nothing need ever break.
PipeGoesOn(e) ==
    \/ PipeFails(e) \/ LocalFlushed(e) \/ PipeAborts(e) \/ PipeEnd(e)
    \/ (PipeDone(e) \/ PipeClose(e)) /\ Heard(e)

FairSpec ==
    Spec /\ \A e \in Ends : /\ WF_vars(UpStep(e) /\ Heard(e))
                            /\ WF_vars(DownStep(e) /\ Flushed(e))
                            /\ WF_vars(PipeGoesOn(e))

-----------------------------------------------------------------------------
TypeOK ==
    /\ peer \in [Ends -> {"open", "ended", "reset"}]
    /\ sent \in [Ends -> Nat]
    /\ up \in [Ends -> Tasks]
    /\ taken \in [Ends -> Nat]
    /\ wire \in [Ends -> Seq(Nat)]
    /\ cut \in BOOLEAN
    /\ down \in [Ends -> Tasks]
    /\ got \in [Ends -> Seq(Nat \ {EOF})]
    /\ told \subseteq Ends
    /\ unread \subseteq Ends
    /\ pipe \in [Ends -> {"run", "leaving", "closing", "flushing", "closed"}]
    /\ trouble \in BOOLEAN

\* The relay is a pair of streams: what reaches a peer is what the other one
\* sent, in order, and a half close reaches it only after all of that, however
\* resets, cancellations and a lost tunnel interleave.
Pair == INSTANCE StreamPair WITH
    ended <- {e \in Ends : peer[e] # "open"},
    over  <- {e \in Ends : pipe[e] = "closed"}

RelayPromise == Pair!Spec

\* A relay that nothing disturbs ends, at both ends, only when everything both
\* peers sent has been passed on with its end.
UndisturbedComplete ==
    ~trouble /\ (\A e \in Ends : pipe[e] = "closed") =>
       /\ told = Ends
       /\ \A e \in Ends : Len(got[e]) = sent[e]

\* An end waits for a peer that takes nothing: in drain, or while it closes the
\* connection to that peer. Neither wait has a limit in the code.
Stuck(e) ==
    /\ ~Flushed(e)
    /\ \/ pipe[e] = "run" /\ down[e] = "run"
       \/ pipe[e] \in {"leaving", "flushing"}

\* An end that closes the tunnel takes the other with it. Only two ends are not
\* taken along: one that has been sent the end frame, which notices when its own
\* peer sends or ends, and one that waits for ever for a peer that does not read.
CloseSpreads ==
    \A e \in Ends :
       Gone(e) ~> (Gone(Other(e)) \/ down[Other(e)] = "done" \/ []Stuck(Other(e)))

\* When nothing more can come from either peer, both ends close, unless one of
\* them waits for ever for a peer that does not read.
RelayEnds ==
    (\A e \in Ends : peer[e] # "open" \/ pipe[e] # "run")
       ~> ((\A e \in Ends : pipe[e] = "closed") \/ \E e \in Ends : []Stuck(e))

=============================================================================
