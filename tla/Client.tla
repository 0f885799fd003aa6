------------------------------- MODULE Client -------------------------------
(***************************************************************************)
(* The py-frp client (src/py_frp/client.py): its reconnect loop, one       *)
(* control session at a time, and the tunnel tasks the session starts.     *)
(* What the server sends, what the user answers and whether connections    *)
(* succeed are external choices.                                           *)
(*                                                                         *)
(* An action is what one task does from an await to the next one.          *)
(***************************************************************************)
EXTENDS Fingerprint

CONSTANTS
    Tasks,     \* tunnel tasks, used again when done
    Certs,     \* digests of certificates of servers at the configured address
    Patterns,  \* fingerprints the client may be configured with
    Py311,     \* TRUE: Python 3.11 or later, which gives up closing a TLS
               \*   connection after 30 s
    Py312,     \* TRUE: Python 3.12 or later, whose wait_for loses no cancellation
    None

ASSUME ClientAssumption ==
    /\ Certs \subseteq Digests
    /\ Patterns \subseteq Fingerprints /\ \A p \in Patterns : WellFormed(p)
    /\ None \notin Certs /\ None \notin Fingerprints

ASSUME PythonAssumption == Py311 \in BOOLEAN /\ Py312 \in BOOLEAN /\ (Py312 => Py311)

Trustable == Patterns \cup {Exact(c) : c \in Certs} \cup {None}

VARIABLES
    pc,        \* the await run() and _run_once() are at
    cause,     \* the exception that ended the session
    force,     \* force_connect
    trusted,   \* _trusted_fingerprint
    writer,    \* the control writer
    peer,      \* certificate at the other end of the control connection
    beat,      \* the heartbeat task
    task,      \* the await a tunnel task is at
    hit,       \* tasks with a CancelledError on its way
    tracked,   \* self._tasks
    draining,  \* the tasks _cancel_tunnel_tasks waits for
    loc,       \* tasks with an open local connection
    tun,       \* certificate at the other end of a task's open connection
    deaf,      \* history: tasks of the session whose cancellation was dropped
    update,    \* the package update this process was told of
    cert,      \* certificate of the server now at the address
    told       \* history: certificates of the servers that were sent a token

conf    == <<trusted, force>>
session == <<pc, cause, writer, peer, beat>>
jobs    == <<task, hit, tracked, draining, loc, tun, deaf>>
vars    == <<session, conf, jobs, update, cert, told>>

Init ==
    /\ pc = "connect" /\ cause = "none"
    /\ trusted \in Patterns \cup {None}
    /\ force \in BOOLEAN
    /\ writer = "none" /\ peer = None /\ beat = "none"
    /\ task = [t \in Tasks |-> "none"]
    /\ hit = {} /\ tracked = {} /\ draining = {} /\ loc = {} /\ deaf = {}
    /\ tun = [t \in Tasks |-> None]
    /\ update = "no"
    /\ cert \in Certs
    /\ told = {}

-----------------------------------------------------------------------------
(* From any end of a session to the next one.                              *)

\* Fault: tunnel tasks are forgotten.
CancelNone(S) == hit' = hit /\ draining' = {} /\ tracked' = {}

\* Fault: tunnel tasks are waited for but not cancelled.
CancelLate(S) == hit' = hit /\ draining' = S /\ tracked' = {}

\* _cancel_tunnel_tasks.
CancelAll(S) == hit' = hit \cup S /\ draining' = S /\ tracked' = {}

\* An exception reaches run(): the tunnel tasks are cancelled and waited for.
Drain(c) ==
    /\ pc' = "drain"
    /\ cause' = c
    /\ CancelAll(tracked)
    /\ UNCHANGED <<task, loc, tun, deaf>>

\* An exception reaches the finally clause of _run_once. A heartbeat is
\* cancelled and waited for; without one the writer is closed at once.
Leave(c) ==
    /\ cause' = c
    /\ \/ beat = "none" /\ pc' = "closing" /\ writer' = "closed"
       \/ beat # "none" /\ pc' = "leave" /\ UNCHANGED writer
    /\ UNCHANGED <<peer, beat, jobs>>

\* The writer is closed; wait_closed is awaited.
CloseControl ==
    /\ pc = "leave"
    /\ beat' = "none"
    /\ writer' = "closed"
    /\ pc' = "closing"
    /\ UNCHANGED <<cause, conf, peer, jobs, update, cert, told>>

ControlClosed ==
    /\ pc = "closing"
    /\ Drain(cause)
    /\ UNCHANGED <<conf, writer, peer, beat, update, cert, told>>

\* The tasks are over: run() returns or sleeps.
Drained ==
    /\ pc = "drain"
    /\ \A t \in draining : task[t] = "none"
    /\ draining' = {} /\ deaf' = {}
    /\ pc' = IF cause \in {"security", "fatal", "cancelled"} THEN "stopped" ELSE "sleep"
    /\ UNCHANGED <<cause, conf, writer, peer, beat, task, hit, tracked, loc, tun, update,
                   cert, told>>

\* The reconnect delay, or the one the server asked for, is over.
Wake ==
    /\ pc = "sleep"
    /\ pc' = "connect"
    /\ cause' = "none" /\ writer' = "none" /\ peer' = None
    /\ UNCHANGED <<conf, beat, jobs, update, cert, told>>

-----------------------------------------------------------------------------
(* Connecting and registering.                                             *)

\* Fault: any server will do.
AnyServer(c) == TRUE

\* fingerprints_equal with the trusted one.
Genuine(c) == FingerprintsEqual(Exact(c), trusted)

ConnectFails ==
    /\ pc = "connect"
    /\ Drain("lost")
    /\ UNCHANGED <<conf, writer, peer, beat, update, cert, told>>

\* The server's certificate is compared, or shown to the user. A connection
\* that is refused is closed before the exception goes on.
Reached ==
    /\ pc = "connect"
    /\ peer' = cert
    /\ \/ trusted = None /\ pc' = "confirm" /\ writer' = "open" /\ UNCHANGED cause
       \/ trusted # None /\ Genuine(cert) /\ pc' = "hello" /\ writer' = "open" /\ UNCHANGED cause
       \/ trusted # None /\ ~Genuine(cert) /\ pc' = "closing" /\ writer' = "closed"
             /\ cause' = "security"
    /\ UNCHANGED <<conf, beat, jobs, cert, told>>

Connected == Reached /\ UNCHANGED update

\* The user's answer to the fingerprint question.
Confirm ==
    /\ pc = "confirm"
    /\ \/ trusted' = Exact(peer) /\ pc' = "hello" /\ UNCHANGED <<cause, writer>>
       \/ pc' = "closing" /\ writer' = "closed" /\ cause' = "security" /\ UNCHANGED trusted
    /\ UNCHANGED <<force, peer, beat, jobs, update, cert, told>>

\* A register message, with its tokens, goes to the server.
SendTokens(next) ==
    /\ pc' = next
    /\ told' = told \cup {peer}
    /\ UNCHANGED <<cause, writer, peer, beat, jobs>>

\* End of stream, an error or an unexpected answer.
Refused == (Leave("lost") \/ Leave("fatal")) /\ UNCHANGED told

HelloAnswer ==
    /\ pc = "hello"
    /\ SendTokens("register") \/ Refused
    /\ UNCHANGED <<conf, update, cert>>

\* The heartbeat starts with the service of the session.
Registered ==
    /\ pc \in {"register", "forced"}
    /\ pc' = "serve"
    /\ beat' = "runs"
    /\ UNCHANGED <<cause, conf, writer, peer, jobs, update, cert, told>>

RegisterRefused ==
    /\ pc \in {"register", "forced"}
    /\ Refused
    /\ UNCHANGED <<conf, update, cert>>

\* The pool is full: with force_connect the answer is known, else the user is
\* asked.
ForceRequired ==
    /\ pc = "register"
    /\ \/ force /\ SendTokens("forced")
       \/ ~force /\ pc' = "ask" /\ UNCHANGED <<cause, writer, peer, beat, jobs, told>>
    /\ UNCHANGED <<conf, update, cert>>

ForceAnswer ==
    /\ pc = "ask"
    /\ \/ SendTokens("forced")
       \/ Leave("fatal") /\ UNCHANGED told
    /\ UNCHANGED <<conf, update, cert>>

-----------------------------------------------------------------------------
(* The control loop.                                                       *)

\* A ping cannot be written.
HeartbeatFails ==
    /\ pc = "serve"
    /\ beat = "runs"
    /\ beat' = "failed"
    /\ UNCHANGED <<pc, cause, conf, writer, peer, jobs, update, cert, told>>

\* A dead heartbeat wins over a message that is there.
HeartbeatSeen ==
    /\ pc = "serve"
    /\ beat = "failed"
    /\ Leave("lost")
    /\ UNCHANGED <<conf, update, cert, told>>

Read == pc = "serve" /\ beat = "runs"

ReadOpen(t) ==
    /\ Read
    /\ task[t] = "none"
    /\ task' = [task EXCEPT ![t] = "start"]
    /\ tracked' = tracked \cup {t}
    /\ UNCHANGED <<session, conf, hit, draining, loc, tun, deaf, update, cert, told>>

\* End of stream or an error such as preemption; a fatal error; a restart
\* notice.
ReadEnd ==
    /\ Read
    /\ \E c \in {"lost", "fatal", "restarting"} : Leave(c)
    /\ UNCHANGED <<conf, update, cert, told>>

-----------------------------------------------------------------------------
(* Tunnel tasks.                                                           *)

At(t, p) == task[t] = p /\ t \notin hit

\* The finally clause of _open_tunnel: the local writer is closed and waited
\* for, then the tunnel writer.
Finally(t, stillOpen) ==
    IF t \in loc
    THEN /\ task' = [task EXCEPT ![t] = "close local"]
         /\ loc' = loc \ {t}
         /\ tun' = [tun EXCEPT ![t] = stillOpen]
    ELSE /\ task' = [task EXCEPT ![t] = "close tunnel"]
         /\ tun' = [tun EXCEPT ![t] = None]
         /\ UNCHANGED loc

\* The done callback of the task.
Finish(t) ==
    /\ task' = [task EXCEPT ![t] = "none"]
    /\ tracked' = tracked \ {t}

JobsOnly == UNCHANGED <<session, conf, draining, deaf, update, cert>>

\* The service named is looked up; an unknown one ends the task.
Start(t) ==
    /\ At(t, "start")
    /\ \/ task' = [task EXCEPT ![t] = "local"] /\ UNCHANGED tracked
       \/ Finish(t)
    /\ UNCHANGED <<hit, loc, tun, told>> /\ JobsOnly

\* The local target answers or not; the server is told in either case.
Local(t) ==
    /\ At(t, "local")
    /\ loc' \in {loc, loc \cup {t}}
    /\ task' = [task EXCEPT ![t] = "dial"]
    /\ UNCHANGED <<hit, tracked, tun, told>> /\ JobsOnly

\* A tunnel connection was opened. Its server is verified and the tunnel message
\* written with its token; a refused connection is closed first.
Dialled(t) ==
    \/ /\ Genuine(cert)
       /\ task' = [task EXCEPT ![t] = "send"]
       /\ tun' = [tun EXCEPT ![t] = cert]
       /\ told' = told \cup {cert}
       /\ UNCHANGED loc
    \/ /\ ~Genuine(cert)
       /\ task' = [task EXCEPT ![t] = "refuse"]
       /\ UNCHANGED <<loc, tun, told>>

Dial(t) ==
    /\ At(t, "dial")
    /\ Dialled(t) \/ (Finally(t, None) /\ UNCHANGED told)
    /\ UNCHANGED <<hit, tracked>> /\ JobsOnly

\* Without a local connection the tunnel is closed at once; or it broke.
Sent(t) ==
    /\ At(t, "send")
    /\ \/ t \in loc /\ task' = [task EXCEPT ![t] = "relay"] /\ UNCHANGED <<loc, tun>>
       \/ t \notin loc /\ Finally(t, tun[t])
       \/ Finally(t, None)
    /\ UNCHANGED <<hit, tracked, told>> /\ JobsOnly

\* The relay ends by itself and closes both writers.
RelayEnd(t) ==
    /\ At(t, "relay")
    /\ Finish(t)
    /\ loc' = loc \ {t}
    /\ tun' = [tun EXCEPT ![t] = None]
    /\ UNCHANGED <<hit, told>> /\ JobsOnly

\* A refused tunnel is closed: the SecurityError, which is not caught, ends the
\* task and not the session. Or the local connection is closed.
Closed(t) ==
    /\ At(t, "refuse") \/ At(t, "close local")
    /\ Finally(t, None)
    /\ UNCHANGED <<hit, tracked, told>> /\ JobsOnly

TunnelClosed(t) ==
    /\ At(t, "close tunnel")
    /\ Finish(t)
    /\ UNCHANGED <<hit, loc, tun, told>> /\ JobsOnly

\* The CancelledError arrives. In the finally clause it skips what is left.
Cancelled(t) ==
    /\ t \in hit
    /\ hit' = hit \ {t}
    /\ \/ /\ task[t] \in {"start", "local", "close local", "close tunnel"}
          /\ Finish(t)
          /\ UNCHANGED <<loc, tun>>
       \/ /\ task[t] \in {"dial", "refuse", "send", "relay"}
          /\ Finally(t, tun[t])
          /\ UNCHANGED tracked
    /\ UNCHANGED told /\ JobsOnly

\* The CancelledError arrives when wait_for already has the connection, and
\* wait_for drops it: the task goes on.
Swallowed(t) ==
    /\ ~Py312
    /\ t \in hit
    /\ hit' = hit \ {t}
    /\ \/ /\ task[t] = "local"
          /\ task' = [task EXCEPT ![t] = "dial"]
          /\ loc' = loc \cup {t}
          /\ UNCHANGED <<tun, told>>
       \/ task[t] = "dial" /\ Dialled(t)
    /\ deaf' = deaf \cup {t}
    /\ UNCHANGED <<session, conf, tracked, draining, update, cert>>

-----------------------------------------------------------------------------
(* Package updates, and the server at the address.                         *)

AskUpdate ==
    /\ update = "no"
    /\ update' = "asked"
    /\ UNCHANGED <<session, conf, jobs, cert, told>>

\* Fault: a cancellation that arrives while tasks are cancelled is lost.
Swallow == UNCHANGED <<cause, hit>>

\* gather passes a second cancellation on to the tasks it waits for.
CancelAgain ==
    /\ cause' = "cancelled"
    /\ hit' = hit \cup {t \in draining : task[t] # "none"}

\* Once a server is trusted, run_until_version_change cancels run(), wherever
\* it is. At "leave" this skips the closing of the control writer.
CancelRun ==
    /\ update = "asked"
    /\ trusted # None
    /\ pc # "stopped"
    /\ update' = "cancelled"
    /\ \/ pc \in {"hello", "register", "ask", "forced", "serve"} /\ Leave("cancelled")
       \/ /\ pc \in {"connect", "leave", "closing"}
          /\ Drain("cancelled")
          /\ UNCHANGED <<writer, peer, beat>>
       \/ /\ pc = "drain"
          /\ CancelAgain
          /\ UNCHANGED <<pc, writer, peer, beat, task, tracked, draining, loc, tun, deaf>>
       \/ /\ pc = "sleep"
          /\ pc' = "stopped"
          /\ cause' = "cancelled"
          /\ UNCHANGED <<writer, peer, beat, jobs>>
    /\ UNCHANGED <<conf, cert, told>>

\* As in Swallowed, wait_for may drop the cancellation of run(), which is not
\* cancelled a second time.
CancelLost ==
    /\ ~Py312
    /\ update = "asked"
    /\ trusted # None
    /\ update' = "lost"
    /\ Reached

\* Fault: the new process asks for a fingerprint again.
Forgotten == None

\* The configured fingerprint, or the confirmed one from the environment.
Preserved == trusted

\* run() has returned for an update: the process ends, with all its tasks and
\* connections, and another one starts with its fingerprint.
Restart ==
    /\ pc = "stopped"
    /\ update \in {"cancelled", "lost"}
    /\ pc' = "connect" /\ cause' = "none"
    /\ writer' = "none" /\ peer' = None /\ beat' = "none"
    /\ trusted' = Preserved
    /\ task' = [t \in Tasks |-> "none"]
    /\ hit' = {} /\ tracked' = {} /\ draining' = {} /\ loc' = {}
    /\ deaf' = {}
    /\ tun' = [t \in Tasks |-> None]
    /\ update' = "no"
    /\ UNCHANGED <<force, cert, told>>

\* Another server, or one with another certificate, answers at the address.
NewServer(c) ==
    /\ c # cert
    /\ cert' = c
    /\ UNCHANGED <<session, conf, jobs, update, told>>

-----------------------------------------------------------------------------
\* What the client does by itself; what the server and the user let it do.
RunStep ==
    \/ CloseControl \/ ControlClosed \/ Drained \/ Wake
    \/ ConnectFails \/ Connected \/ HeartbeatSeen

Answer ==
    \/ Confirm \/ HelloAnswer \/ Registered \/ RegisterRefused \/ ForceRequired
    \/ ForceAnswer \/ HeartbeatFails \/ ReadEnd \/ \E t \in Tasks : ReadOpen(t)

TaskStep(t) ==
    \/ Start(t) \/ Local(t) \/ Dial(t) \/ Closed(t) \/ TunnelClosed(t)
    \/ Cancelled(t) \/ Swallowed(t)

Traffic(t) == Sent(t) \/ RelayEnd(t)

Next ==
    \/ RunStep \/ Answer \/ AskUpdate \/ CancelRun \/ CancelLost \/ Restart
    \/ \E t \in Tasks : TaskStep(t) \/ Traffic(t)
    \/ \E c \in Certs : NewServer(c)

Spec == Init /\ [][Next]_vars

\* close_writer waits for the end of a connection: a local service must have
\* read what was sent to it; a server has 30 s, and no limit before Python 3.11.
ClosesControl == pc = "closing" /\ ~Py311

Closes(t) == task[t] = "close local" \/ (~Py311 /\ task[t] \in {"refuse", "close tunnel"})

\* The event loop runs what can run; connection attempts have a timeout. The
\* server may be silent, the user absent, a relay endless, and neither servers
\* nor local services need read.
FairSpec ==
    /\ Spec
    /\ WF_vars(RunStep /\ ~ClosesControl)
    /\ WF_vars(CancelRun)
    /\ \A t \in Tasks :
          /\ WF_vars(TaskStep(t) /\ ~Closes(t))
          /\ WF_vars(Cancelled(t))

-----------------------------------------------------------------------------
RunPC == {"connect", "confirm", "hello", "register", "ask", "forced", "serve", "leave",
          "closing", "drain", "sleep", "stopped"}

TaskPC == {"none", "start", "local", "dial", "refuse", "send", "relay", "close local",
           "close tunnel"}

\* Types; and a task that runs is tracked or waited for.
TypeOK ==
    /\ pc \in RunPC
    /\ cause \in {"none", "lost", "fatal", "restarting", "security", "cancelled"}
    /\ trusted \in Trustable
    /\ force \in BOOLEAN
    /\ writer \in {"none", "open", "closed"}
    /\ peer \in Certs \cup {None}
    /\ beat \in {"none", "runs", "failed"}
    /\ task \in [Tasks -> TaskPC]
    /\ hit \subseteq Tasks /\ tracked \subseteq Tasks
    /\ draining \subseteq Tasks /\ loc \subseteq Tasks /\ deaf \subseteq Tasks
    /\ \A t \in Tasks : task[t] # "none" => t \in tracked \cup draining
    /\ tun \in [Tasks -> Certs \cup {None}]
    /\ update \in {"no", "asked", "cancelled", "lost"}
    /\ cert \in Certs
    /\ told \subseteq Certs

\* Tokens, of registrations and of tunnels, go only to servers whose
\* certificate fits the trusted fingerprint as it is written, whoever answers
\* at the address meanwhile and however often the client restarts.
OnlyTrusted == \A c \in told : trusted # None /\ Fits(c, trusted)

\* The server a client trusts, configured or confirmed, is the one it trusts
\* from then on, restarts for an update included.
TrustKept == [][trusted # None => trusted' = trusted]_vars

\* No tunnel task outlives the session it belongs to: none runs when the
\* client reconnects, sleeps or has stopped, by a cancellation or not.
NoTaskLeft ==
    pc \in {"connect", "confirm", "hello", "register", "ask", "forced", "sleep", "stopped"} =>
       \A t \in Tasks : task[t] = "none"

\* Nor does any connection: a session that ends otherwise than by cancellation
\* has closed its control writer, local and tunnel connections.
NothingLeftOpen ==
    pc \in {"sleep", "stopped"} /\ cause # "cancelled" =>
       /\ writer # "open"
       /\ loc = {}
       /\ \A t \in Tasks : tun[t] = None

\* The client waits for a task that only the task's peers can end: it closes a
\* local connection whose service does not read, or its cancellation was dropped
\* and its relay goes on.
Held(t) ==
    /\ pc = "drain" /\ t \in draining
    /\ task[t] = "close local" \/ (t \in deaf /\ task[t] \in {"send", "relay"})

\* A session that ends is followed by another attempt or by the end of the
\* client, even if relays are endless and servers do not read, unless one task
\* holds it up for ever (Python 3.11 and later).
Reconnects ==
    pc \in {"leave", "closing", "drain"} ~>
       (pc \in {"connect", "stopped"} \/ \E t \in Tasks : []Held(t))

\* A client told of an update that trusts its server stops for it, unless such a
\* task holds it up or its only cancellation is dropped.
UpdateStops ==
    (update = "asked" /\ trusted # None) ~>
       (pc = "stopped" \/ update = "lost" \/ \E t \in Tasks : []Held(t))

=============================================================================
