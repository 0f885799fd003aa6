---------------------------- MODULE ServerState ----------------------------
(***************************************************************************)
(* The state of the py-frp server that its handlers share                  *)
(* (src/py_frp/server.py): the service, client and pending-tunnel maps,    *)
(* the public listeners, the single asyncio lock that guards the maps, and *)
(* the local variables of each handler that survive an await.              *)
(*                                                                         *)
(* Three kinds of handler run on one event loop, each between two awaits   *)
(* without interruption: a control SESSION (_handle_control), a PUBLIC     *)
(* connection (_handle_public) and a TUNNEL connection (_handle_tunnel).   *)
(* An action of these modules is what a handler does from one await to the *)
(* next.                                                                   *)
(***************************************************************************)
EXTENDS Integers, Sequences, FiniteSets

CONSTANTS
    Sessions,      \* control connections, one ClientSession each
    Publics,       \* connections of public users
    Tunnels,       \* data connections opened by clients
    RegularNames,  \* names a client may ask for in a non-pool registration
    Ports,         \* public ports (host and port together), integers
    PoolPorts,     \* config.port_pool
    BusyPorts,     \* ports another process of the host may hold at times
    Configured,    \* config.services: a function from names to ports
    AllowDynamic,  \* config.allow_dynamic
    Priorities,    \* pool priorities clients use; a lower number ranks higher
    Requests,      \* the service lists a register message may carry
    Stalled,       \* sessions whose client may stop reading what it is sent
    Py311,         \* TRUE: Python 3.11 or later, which gives up closing a TLS
                   \*   connection after 30 s
    Py312,         \* TRUE: the asyncio of Python 3.12.1 and later
    None           \* no session, public, service or listener

\* A pool client sends no remote port: NoPort stands for the missing field.
NoPort == -1

\* A pool service is named after its session (_pool_service_name), whatever
\* name the client sent, so a session doubles as that name.
Names == Sessions \cup RegularNames

\* One entry of a register message. token: whether the token sent is the
\* one the server requires for this entry.
Raw == [name : RegularNames, port : Ports \cup {NoPort},
        token : BOOLEAN, prio : Priorities]

\* An asyncio.Server opened for a service, and the RegisteredService entry.
Listener == [port : Ports, client : Sessions, name : Names]
Service  == [port : Ports, client : Sessions, pool : BOOLEAN, prio : Priorities]

\* A tunnel message: the id of a pending tunnel; ok: its service name and
\* token are those of the pending tunnel.
Claim == [id : Publics, ok : BOOLEAN]

Handlers == Sessions \cup Publics \cup Tunnels

ASSUME KindsAssumption ==
    /\ Sessions \cap Publics = {}
    /\ Sessions \cap Tunnels = {}
    /\ Publics \cap Tunnels = {}
    /\ Sessions \cap RegularNames = {}
    /\ None \notin Handlers \cup RegularNames \cup Service \cup Listener \cup Claim

\* A future that is set holds a tunnel, which is no other state of a future.
ASSUME FutureAssumption == Tunnels \cap {"unset", "pending", "failed", "cancelled"} = {}

ASSUME ConfigAssumption ==
    /\ Ports \subseteq Nat
    /\ PoolPorts \subseteq Ports
    /\ BusyPorts \subseteq Ports
    /\ DOMAIN Configured \subseteq RegularNames
    /\ \A n \in DOMAIN Configured : Configured[n] \in Ports
    /\ AllowDynamic \in BOOLEAN
    /\ Priorities \subseteq Int
    /\ Requests \subseteq Seq(Raw)
    /\ Stalled \subseteq Sessions

ASSUME PythonAssumption == Py311 \in BOOLEAN /\ Py312 \in BOOLEAN /\ (Py312 => Py311)

-----------------------------------------------------------------------------
VARIABLES
    lockq,      \* Server._lock: the holder, then the waiters in FIFO order
    services,   \* Server._services
    clients,    \* keys of Server._clients
    pending,    \* the publics whose tunnel id is a key of Server._pending
    listening,  \* public listeners that are open
    pc,         \* the await each handler is at
    ses,        \* what a control session keeps across its awaits
    reply,      \* the last control message written to each client
    hungup,     \* sessions whose control writer the server has closed
    from,       \* the listener that accepted a public connection
    owner,      \* service.client as the public handler read it
    fut,        \* the future of the pending tunnel
    attached,   \* public connections whose transport is still attached
    claim       \* the tunnel message of a data connection

maps == <<services, clients, pending, listening>>
wire == <<reply, hungup>>
data == <<from, owner, fut, attached, claim>>
vars == <<lockq, maps, pc, ses, wire, data>>

SessionPC == {"none", "join", "greeted", "next", "bind", "bound", "evict",
              "notify", "listen", "insert", "duplicate", "rollback", "drop",
              "dropping", "ask", "serve", "leave", "closing", "gone"}
PublicPC  == {"none", "accepted", "lookup", "insert", "send", "wait", "relay",
              "finally", "done"}
TunnelPC  == {"none", "lookup", "paired", "closed"}

\* The locals of _handle_control and of the registration it awaits:
\*   elders   sessions whose created_at is earlier
\*   todo     the raw services still to register
\*   force    the force argument
\*   made     `registered`: the listeners made so far, in order
\*   binding  the listener being opened or not yet in _services
\*   tried    pool ports the system refused in this pass over the pool
\*   victim   the session it evicted
\*   doomed   victim_pending: publics whose futures are to be failed
\*   shut     listeners whose wait_closed() it awaits
\*   fault    the error that ended _register_client
Faults  == {"none", "force", "fatal", "error"}
Replies == {"none", "registered", "force_required", "preempted", "fatal", "error"}

Locals == [elders : SUBSET Sessions, todo : Seq(Raw), force : BOOLEAN,
           made : Seq(Listener), binding : Listener \cup {None},
           tried : SUBSET PoolPorts, victim : Sessions \cup {None},
           doomed : SUBSET Publics, shut : SUBSET Listener, fault : Faults]

NoLocals == [elders |-> {}, todo |-> <<>>, force |-> FALSE, made |-> <<>>,
             binding |-> None, tried |-> {}, victim |-> None, doomed |-> {},
             shut |-> {}, fault |-> "none"]

Init ==
    /\ lockq = <<>>
    /\ services = [n \in Names |-> None]
    /\ clients = {}
    /\ pending = {}
    /\ listening = {}
    /\ pc = [h \in Handlers |-> "none"]
    /\ ses = [s \in Sessions |-> NoLocals]
    /\ reply = [s \in Sessions |-> "none"]
    /\ hungup = {}
    /\ from = [q \in Publics |-> None]
    /\ owner = [q \in Publics |-> None]
    /\ fut = [q \in Publics |-> "unset"]
    /\ attached = {}
    /\ claim = [t \in Tunnels |-> None]

-----------------------------------------------------------------------------
(* asyncio.Lock: `async with self._lock` queues behind every handler that   *)
(* is already queued, even when the lock was just released (asyncio wakes   *)
(* the first waiter and lets nobody overtake it). A section with no await   *)
(* inside runs in one step at the head of the queue and leaves it.          *)

HasLock(h) == lockq # <<>> /\ Head(lockq) = h

Queue(h)   == lockq' = Append(lockq, h)
Requeue(h) == lockq' = Append(Tail(lockq), h)

Release == lockq' = Tail(lockq)

-----------------------------------------------------------------------------
(* Steps several handlers share.                                           *)

Goto(h, l) == pc' = [pc EXCEPT ![h] = l]

Registered == {n \in Names : services[n] # None}

ListenerOf(n) == [port |-> services[n].port, client |-> services[n].client,
                  name |-> n]

OwnedBy(s) == {n \in Registered : services[n].client = s}

PendingOf(s) == {q \in pending : owner[q] = s}

\* A listener of this process has the port.
Taken(p) == \E l \in listening : l.port = p

\* Fault: a listener is closed and its entry stays in the map.
KeepAll(S) == UNCHANGED services

\* The names in S are popped from _services.
Unregister(S) ==
    services' = [n \in Names |-> IF n \in S THEN None ELSE services[n]]

\* Fault: an entry is removed and its listener stays open.
LeaveOpen(S) == UNCHANGED listening

\* Server.close() on the listeners in S; one that is closed stays closed.
Close(S) == listening' = listening \ S

\* Server.wait_closed() after close() returns: before Python 3.12 at once,
\* since then when every connection the listener accepted is detached.
Detached(S) == Py312 => \A q \in attached : from[q] \notin S

\* Fault: pending tunnels stay in the map.
Remember(S) == UNCHANGED pending

\* The publics in S are popped from _pending.
Forget(S) == pending' = pending \ S

\* Fault: nobody tells the handlers that wait for the futures in S.
LeaveWaiting(S) == UNCHANGED fut

\* Futures in S that are not done fail with ConnectionError.
FailFutures(S) ==
    fut' = [q \in Publics |-> IF q \in S /\ fut[q] = "pending" THEN "failed" ELSE fut[q]]

\* Fault: a writer that should be closed stays open.
StayConnected(s) == UNCHANGED hungup

\* close_writer(client.writer).
HangUp(s) == hungup' = hungup \cup {s}

\* A control message is written, unless the writer is closed.
Tell(s, m) == reply' = IF s \in hungup THEN reply ELSE [reply EXCEPT ![s] = m]

=============================================================================
