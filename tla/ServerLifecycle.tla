-------------------------- MODULE ServerLifecycle --------------------------
(***************************************************************************)
(* The server process from the first connection to its exit: the handlers  *)
(* of Server, and the main coroutine that an update or Ctrl+C takes through *)
(* shutdown (_run_server_until_update in cli.py, notify_restarting and     *)
(* close in server.py) while they go on. When it has returned, asyncio.run *)
(* cancels the handlers that are left and waits for their finally clauses. *)
(***************************************************************************)
(* Ctrl+C is that of Python 3.11 and later, which cancels the main         *)
(* coroutine first; before, it cancelled every task at once. A second one  *)
(* is left out.                                                            *)
(***************************************************************************)
EXTENDS Server

CONSTANT Main   \* the main coroutine, when it queues for Server._lock

ASSUME LifecycleAssumption == Main \notin Handlers

VARIABLES
    main,      \* the await _run_server_until_update is at
    restart,   \* TRUE: the update monitor ended the runtime, not Ctrl+C
    mailing,   \* clients notify_restarting has still to tell
    parting,   \* clients whose writers close() has still to close
    shutting,  \* service listeners whose wait_closed() close() awaits
    awaited,   \* connections that close() or a cancelled handler is closing
    cancels,   \* handlers asyncio.run has cancelled that have yet to notice
    owed       \* history: clients served when the update was found that no
               \*   notice was written to yet

lvars == <<main, restart, mailing, parting, shutting, awaited, cancels, owed>>
all   == <<vars, lvars>>

MainPC == {"serve", "drain", "notify", "telling", "close", "clear", "ending",
           "cancelling", "exited"}

LifecycleInit ==
    /\ Init
    /\ main = "serve"
    /\ restart = FALSE
    /\ mailing = {} /\ parting = {} /\ shutting = {}
    /\ awaited = {} /\ cancels = {}
    /\ owed = {}

-----------------------------------------------------------------------------
(* The runtime ends.                                                       *)

Served == {s \in Sessions : pc[s] = "serve" /\ s \notin hungup}

\* Control connections attached to the control listener. It counts those of
\* handlers that run; a client that hung up is not attached any more.
Connected == {s \in Sessions : pc[s] \notin {"none", "leave", "closing", "gone"}} \ hungup

OpenTunnels == {t \in Tunnels : pc[t] \in {"lookup", "paired"}}

\* wait_closed() of the control listener: see Detached.
ControlDetached == Py312 => Connected = {} /\ OpenTunnels = {}

\* The monitor returns a version: the runtime task is cancelled, and asyncio's
\* serve_forever closes the control listener before it lets the error through.
UpdateFound ==
    /\ main = "serve"
    /\ main' = "drain"
    /\ restart' = TRUE
    /\ owed' = Served
    /\ UNCHANGED <<vars, mailing, parting, shutting, awaited, cancels>>

\* Ctrl+C cancels the main coroutine: no restart, and the finally clause
\* closes the server.
Interrupt ==
    /\ main = "serve"
    /\ main' = "drain"
    /\ UNCHANGED <<vars, restart, mailing, parting, shutting, awaited, cancels, owed>>

\* The runtime task is over. Token and certificate go to the environment, and
\* notify_restarting queues for the lock.
Drained ==
    /\ main = "drain"
    /\ ControlDetached
    /\ \/ restart /\ main' = "notify" /\ Queue(Main)
       \/ ~restart /\ main' = "close" /\ UNCHANGED lockq
    /\ UNCHANGED <<maps, pc, ses, wire, data, restart, mailing, parting, shutting, awaited,
                   cancels, owed>>

-----------------------------------------------------------------------------
(* notify_restarting.                                                      *)

Snapshot ==
    /\ main = "notify"
    /\ HasLock(Main)
    /\ mailing' = clients
    /\ main' = "telling"
    /\ Release
    /\ UNCHANGED <<maps, pc, ses, wire, data, restart, parting, shutting, awaited, cancels,
                   owed>>


\* One task per client: written, failed on a closed writer or, for a client
\* that does not read, given up after a second.
NoticeEnds(s) == s \in mailing

Notice(s) ==
    /\ main = "telling"
    /\ NoticeEnds(s)
    /\ mailing' = mailing \ {s}
    /\ owed' = owed \ {s}
    /\ UNCHANGED <<vars, main, restart, parting, shutting, awaited, cancels>>

\* Fault: close() does not wait for the notices.
AtOnce == TRUE

AllTold == mailing = {}

NoticesSent ==
    /\ main = "telling"
    /\ AllTold
    /\ main' = "close"
    /\ UNCHANGED <<vars, restart, mailing, parting, shutting, awaited, cancels, owed>>

-----------------------------------------------------------------------------
(* Server.close.                                                           *)

ControlClosed ==
    /\ main = "close"
    /\ ControlDetached
    /\ main' = "clear"
    /\ Queue(Main)
    /\ UNCHANGED <<maps, pc, ses, wire, data, restart, mailing, parting, shutting, awaited,
                   cancels, owed>>

\* One locked section empties the three maps; without an await the futures
\* fail and the listeners close.
ClearMaps ==
    LET listeners == {ListenerOf(n) : n \in Registered} IN
    /\ main = "clear"
    /\ HasLock(Main)
    /\ services' = [n \in Names |-> None]
    /\ pending' = {}
    /\ clients' = {}
    /\ FailFutures(pending)
    /\ Close(listeners)
    /\ parting' = clients
    /\ shutting' = listeners
    /\ main' = "ending"
    /\ Release
    /\ UNCHANGED <<pc, ses, wire, from, owner, attached, claim, restart, mailing, awaited,
                   cancels, owed>>

\* One task per client. close_writer returns at once if the writer is closed
\* already; otherwise it closes it and waits for the end of the connection.
CloseWriter(s) ==
    /\ main = "ending"
    /\ s \in parting
    /\ parting' = parting \ {s}
    /\ HangUp(s)
    /\ awaited' = IF s \in hungup THEN awaited ELSE awaited \cup {s}
    /\ UNCHANGED <<lockq, maps, pc, ses, reply, data, main, restart, mailing, shutting, cancels,
                   owed>>

\* wait_closed() returns. A client has 30 s since Python 3.11 and no limit
\* before. A public connection is closed when its user has read the data that
\* the relay left, or is gone.
WriterClosed(h) ==
    /\ h \in awaited
    /\ awaited' = awaited \ {h}
    /\ UNCHANGED <<vars, main, restart, mailing, parting, shutting, cancels, owed>>

-----------------------------------------------------------------------------
(* asyncio.run: the main coroutine has returned, or raised RestartRequired. *)

\* Handlers that run. A tunnel's handler returns when it has paired.
Alive == {h \in Handlers : pc[h] \notin {"none", "gone", "done", "closed", "paired"}}

\* close() returned, and the handlers that are left are cancelled.
Returned ==
    /\ main = "ending"
    /\ parting = {} /\ awaited = {}
    /\ Detached(shutting)
    /\ main' = "cancelling"
    /\ cancels' = Alive
    /\ UNCHANGED <<vars, restart, mailing, parting, shutting, awaited, owed>>

\* Where CancelledError takes a handler. A session that is not in _clients yet
\* or is in its finally clause ends there, any other goes to that clause; so
\* does a public connection once it has stored its pending tunnel.
CancelledAt(h) ==
    CASE h \in Sessions -> IF pc[h] \in {"join", "leave", "closing"} THEN "gone" ELSE "leave"
      [] h \in Publics  -> IF pc[h] \in {"send", "wait", "relay"} THEN "finally" ELSE "done"
      [] OTHER -> "closed"

\* A cancelled handler leaves the lock or its queue, and queues again if it has
\* a finally clause to run. A relay closes its tunnel.
Cancelled(h) ==
    LET next   == CancelledAt(h)
        others == SelectSeq(lockq, LAMBDA o : o # h)
        closed == {t \in Tunnels : pc[h] = "relay" /\ fut[h] = t}
    IN
    /\ h \in cancels
    /\ cancels' = cancels \ {h}
    /\ lockq' = IF next \in {"leave", "finally"} THEN Append(others, h) ELSE others
    /\ pc' = [o \in Handlers |-> IF o = h THEN next ELSE IF o \in closed THEN "closed" ELSE pc[o]]
    /\ UNCHANGED <<maps, ses, wire, data, main, restart, mailing, parting, shutting, awaited, owed>>

\* The finally clause of a cancelled handler closes a connection and may have
\* to wait for its end: that of a client, or of a user whose data was relayed.
Closing(h) ==
    /\ main = "cancelling"
    /\ \/ h \in Sessions /\ pc[h] = "closing" /\ h \notin hungup
       \/ h \in Publics /\ pc[h] = "finally" /\ fut[h] \in Tunnels /\ pc[fut[h]] = "closed"

\* Where the end of the process leaves a handler that has started.
Over(h) ==
    IF pc[h] = "none" THEN "none"
    ELSE CASE h \in Sessions -> "gone" [] h \in Publics -> "done" [] OTHER -> "closed"

\* Every handler is over, and the process ends with the connections it has.
Exit ==
    /\ main = "cancelling"
    /\ Alive = {} /\ awaited = {}
    /\ main' = "exited"
    /\ pc' = [h \in Handlers |-> Over(h)]
    /\ lockq' = <<>>
    /\ services' = [n \in Names |-> None]
    /\ clients' = {} /\ pending' = {} /\ listening' = {} /\ attached' = {}
    /\ hungup' = {s \in Sessions : pc[s] # "none"}
    /\ ses' = [s \in Sessions |-> NoLocals]
    /\ from' = [q \in Publics |-> None]
    /\ owner' = [q \in Publics |-> None]
    /\ fut' = [q \in Publics |-> "unset"]
    /\ claim' = [t \in Tunnels |-> None]
    /\ shutting' = {} /\ cancels' = {} /\ owed' = {}
    /\ UNCHANGED <<reply, restart, mailing, parting, awaited>>

-----------------------------------------------------------------------------
MainStep ==
    \/ Drained \/ Snapshot \/ NoticesSent \/ ControlClosed \/ ClearMaps \/ Returned \/ Exit
    \/ \E s \in Sessions : Notice(s) \/ CloseWriter(s)

\* A step of handler h of the running process.
Running(h, A) ==
    /\ main # "exited"
    /\ h \notin cancels
    /\ A
    /\ awaited' \in {awaited, awaited \cup (IF Closing(h) THEN {h} ELSE {})}
    /\ UNCHANGED <<main, restart, mailing, parting, shutting, cancels, owed>>

\* A connection accepted before the control listener closed may send its
\* first message later; Python 3.12 waits for such a connection, too.
MayArrive == Py312 => main \in {"serve", "drain"}

Arrive(s) == MayArrive /\ Connect(s)

ArriveTunnel(t) == MayArrive /\ TunnelConnect(t)

\* What peers do before the handlers are cancelled. A user who leaves later is
\* seen by WriterClosed.
Peers ==
    /\ main # "cancelling"
    /\ \/ \E s \in Sessions :
             Running(s, \/ Arrive(s) \/ Register(s) \/ RefuseHandshake(s)
                        \/ Retry(s) \/ Decline(s) \/ Depart(s))
       \/ \E q \in Publics : Running(q, UserStep(q))
       \/ \E t \in Tunnels : Running(t, ArriveTunnel(t))

LifecycleNext ==
    \/ \E s \in Sessions : Running(s, SessionStep(s))
    \/ \E q \in Publics : Running(q, PublicStep(q))
    \/ \E t \in Tunnels : Running(t, TunnelStep(t))
    \/ \E h \in Handlers : Cancelled(h) \/ WriterClosed(h)
    \/ Peers \/ MainStep \/ UpdateFound \/ Interrupt
    \/ main = "exited" /\ UNCHANGED all

LifecycleSpec == LifecycleInit /\ [][LifecycleNext]_all

\* As Fairness; the main coroutine is one more task. Neither updates nor
\* Ctrl+C need ever come, and no user need ever read or leave.
LifecycleFairness ==
    /\ \A s \in Sessions :
          /\ WF_all(Running(s, SessionStep(s) /\ ~AwaitsVictim(s)))
          /\ WF_all(Running(s, CloseEnds(s) /\ s \in hungup /\ (Decline(s) \/ Depart(s))))
          /\ WF_all(CloseEnds(s) /\ WriterClosed(s))
    /\ \A q \in Publics : WF_all(Running(q, PublicStep(q) /\ ~AwaitsOwner(q)))
    /\ \A t \in Tunnels : WF_all(Running(t, TunnelStep(t)))
    /\ \A h \in Handlers : WF_all(Cancelled(h))
    /\ WF_all(MainStep)

FairLifecycleSpec == LifecycleSpec /\ LifecycleFairness

-----------------------------------------------------------------------------
\* Before a restart closes anything, every client that was served when the
\* update was found has been written the notice (or given up on after its
\* second), unless it left or was evicted: it reconnects after the delay and
\* not at once.
NoticeFirst ==
    restart /\ main \in {"close", "clear", "ending"} =>
       \A s \in owed : reply[s] = "preempted" \/ pc[s] \in {"leave", "closing", "gone"}


\* An update ends the process: nobody who is connected can keep it from its
\* restart.
RestartCompletes == restart ~> main = "exited"

=============================================================================
