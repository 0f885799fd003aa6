--------------------------- MODULE ServerControl ---------------------------
(***************************************************************************)
(* A control session of the server: _handle_control, the registration of   *)
(* regular and pool services, priority preemption, rollback and cleanup.   *)
(***************************************************************************)
EXTENDS ServerState

-----------------------------------------------------------------------------
(* Connection and handshake.                                               *)

\* A first message that is not a tunnel: the session is created (and its
\* created_at read) before it queues for the lock.
Connect(s) ==
    /\ pc[s] = "none"
    /\ ses' = [ses EXCEPT ![s].elders = {o \in Sessions : pc[o] # "none"}]
    /\ Goto(s, "join")
    /\ Queue(s)
    /\ UNCHANGED <<maps, wire, data>>

Join(s) ==
    /\ pc[s] = "join"
    /\ HasLock(s)
    /\ clients' = clients \cup {s}
    /\ Goto(s, "greeted")
    /\ Release
    /\ UNCHANGED <<services, pending, listening, ses, wire, data>>

\* register, forced or not: the first one of the session.
Register(s) ==
    /\ pc[s] = "greeted"
    /\ \E req \in Requests, f \in BOOLEAN :
          /\ req # <<>>
          /\ ses' = [ses EXCEPT ![s].todo = req, ![s].force = f]
    /\ Goto(s, "next")
    /\ UNCHANGED <<lockq, maps, wire, data>>

\* The session ends. An error sent for an unexpected message is not fatal and
\* tells the client no more than the end of the connection does.
End(s) ==
    /\ Goto(s, "leave")
    /\ Queue(s)
    /\ UNCHANGED <<maps, ses, wire, data>>

\* End of file, an unreadable message, another type or an empty service list.
RefuseHandshake(s) == pc[s] = "greeted" /\ End(s)

-----------------------------------------------------------------------------
(* _register_client: one raw service after the other.                      *)

Raws(s) == ses[s].todo

IsPool(raw) == PoolPorts # {} /\ raw.port = NoPort

IsKnown(raw) == raw.name \in DOMAIN Configured

\* Fault: a dynamic service without a remote port is accepted.
PortUnchecked(raw) == IF IsPool(raw) \/ raw.token THEN "none" ELSE "fatal"

\* The error _register_pool_service or _service_from_registration raises
\* before it touches shared state: AuthenticationError is fatal to the
\* client, the other ProtocolErrors are not.
Rejection(raw) ==
    CASE ~IsPool(raw) /\ ~IsKnown(raw) /\ ~AllowDynamic -> "error"
      [] (IsPool(raw) \/ IsKnown(raw) \/ AllowDynamic) /\ ~raw.token -> "fatal"
      [] ~IsPool(raw) /\ ~IsKnown(raw) /\ AllowDynamic /\ raw.token
            /\ raw.port = NoPort -> "error"
      [] OTHER -> "none"

\* A configured service is bound where the server says, never the client.
PortFor(raw) == IF IsKnown(raw) THEN Configured[raw.name] ELSE raw.port

\* An exception leaves _register_client.
Raise(s, f) ==
    /\ ses' = [ses EXCEPT ![s].fault = f]
    /\ Goto(s, "rollback")

NextRejected(s) ==
    /\ pc[s] = "next"
    /\ Raws(s) # <<>>
    /\ Rejection(Head(Raws(s))) # "none"
    /\ Raise(s, Rejection(Head(Raws(s))))
    /\ UNCHANGED <<lockq, maps, wire, data>>

NextPool(s) ==
    /\ pc[s] = "next"
    /\ Raws(s) # <<>>
    /\ IsPool(Head(Raws(s)))
    /\ Rejection(Head(Raws(s))) = "none"
    /\ ses' = [ses EXCEPT ![s].tried = {}, ![s].victim = None]
    /\ Goto(s, "bind")
    /\ Queue(s)
    /\ UNCHANGED <<maps, wire, data>>

NextRegular(s) ==
    /\ pc[s] = "next"
    /\ Raws(s) # <<>>
    /\ ~IsPool(Head(Raws(s)))
    /\ Rejection(Head(Raws(s))) = "none"
    /\ ses' = [ses EXCEPT ![s].binding = [port |-> PortFor(Head(Raws(s))), client |-> s,
                                          name |-> Head(Raws(s)).name]]
    /\ Goto(s, "listen")
    /\ UNCHANGED <<lockq, maps, wire, data>>

\* Every raw service is registered: the client is told and served.
NextDone(s) ==
    /\ pc[s] = "next"
    /\ Raws(s) = <<>>
    /\ Tell(s, "registered")
    /\ Goto(s, "serve")
    /\ UNCHANGED <<lockq, maps, ses, hungup, data>>

\* The listener becomes a service, in place of any entry of the same name.
Store(s, pool) ==
    LET l == ses[s].binding IN
    /\ services' = [services EXCEPT ![l.name] =
          [port |-> l.port, client |-> s, pool |-> pool, prio |-> Head(Raws(s)).prio]]
    /\ ses' = [ses EXCEPT ![s].made = Append(@, l), ![s].todo = Tail(@),
                          ![s].binding = None, ![s].doomed = {}]

-----------------------------------------------------------------------------
(* _register_regular_service.                                              *)

\* start_server: the listener accepts connections before the name is checked.
RegularListen(s) ==
    /\ pc[s] = "listen"
    /\ ~Taken(ses[s].binding.port)
    /\ listening' = listening \cup {ses[s].binding}
    /\ Goto(s, "insert")
    /\ Queue(s)
    /\ UNCHANGED <<services, clients, pending, ses, wire, data>>

RegularRefused(s) ==
    /\ pc[s] = "listen"
    /\ Taken(ses[s].binding.port) \/ ses[s].binding.port \in BusyPorts
    /\ Raise(s, "error")
    /\ UNCHANGED <<lockq, maps, wire, data>>

\* Fault: the name is not checked before the entry is stored.
NeverTaken(n) == FALSE

NameTaken(n) == n \in Registered

RegularInsert(s) ==
    /\ pc[s] = "insert"
    /\ HasLock(s)
    /\ ~NameTaken(ses[s].binding.name)
    /\ Store(s, FALSE)
    /\ Goto(s, "next")
    /\ Release
    /\ UNCHANGED <<clients, pending, listening, wire, data>>

\* The name is taken: the listener is closed, and wait_closed() is awaited
\* with the lock held.
RegularDuplicate(s) ==
    /\ pc[s] = "insert"
    /\ HasLock(s)
    /\ NameTaken(ses[s].binding.name)
    /\ Close({ses[s].binding})
    /\ ses' = [ses EXCEPT ![s].shut = {ses[s].binding}]
    /\ Goto(s, "duplicate")
    /\ UNCHANGED <<lockq, services, clients, pending, wire, data>>

RegularReject(s) ==
    /\ pc[s] = "duplicate"
    /\ HasLock(s)
    /\ Detached(ses[s].shut)
    /\ Raise(s, "error")
    /\ Release
    /\ UNCHANGED <<maps, wire, data>>

-----------------------------------------------------------------------------
(* _register_pool_service and _bind_pool_service_locked. The session holds  *)
(* the lock from "bind" to the insertion, the failure or, after an eviction,*)
(* the end of the second pass over the pool.                               *)

UsedPorts == {services[n].port : n \in {m \in Registered : services[m].pool}}

\* The ports this pass over the pool has yet to try, and the one it tries.
Candidates(s) == PoolPorts \ (UsedPorts \cup ses[s].tried)

\* Fault: the pool is not tried in ascending order.
AnyFree(s, p) == p \in Candidates(s)

Lowest(s, p) == p \in Candidates(s) /\ \A r \in Candidates(s) : p <= r

\* Fault: the service keeps the name its client sent.
NameSent(s) == Head(Raws(s)).name

PoolName(s) == s

PoolListen(s) ==
    /\ pc[s] = "bind"
    /\ HasLock(s)
    /\ \E p \in PoolPorts :
          LET l == [port |-> p, client |-> s, name |-> PoolName(s)] IN
          /\ Lowest(s, p)
          /\ ~Taken(p)
          /\ ses' = [ses EXCEPT ![s].binding = l]
          /\ listening' = listening \cup {l}
    /\ Goto(s, "bound")
    /\ UNCHANGED <<lockq, services, clients, pending, wire, data>>

PoolRefused(s) ==
    /\ pc[s] = "bind"
    /\ HasLock(s)
    /\ \E p \in PoolPorts :
          /\ Lowest(s, p)
          /\ Taken(p) \/ p \in BusyPorts
          /\ ses' = [ses EXCEPT ![s].tried = @ \cup {p}]
    /\ UNCHANGED <<lockq, maps, pc, wire, data>>

\* start_server returned. The futures of an evicted client's publics fail as
\* soon as the lock is free, and the victim is told next.
PoolInsert(s) ==
    /\ pc[s] = "bound"
    /\ HasLock(s)
    /\ Store(s, TRUE)
    /\ FailFutures(ses[s].doomed)
    /\ Goto(s, IF ses[s].victim = None THEN "next" ELSE "notify")
    /\ Release
    /\ UNCHANGED <<clients, pending, listening, wire, from, owner, attached, claim>>

Exhausted(s) == pc[s] = "bind" /\ HasLock(s) /\ Candidates(s) = {}

\* The pool services of other sessions; those a request of this priority may
\* evict; among these the worst priority, and then the oldest session.
Rivals(s) == {n \in Registered : services[n].pool /\ services[n].client # s}

\* Fault: higher-ranking services are not protected.
AnyRival(s, prio) == Rivals(s)

Eligible(s, prio) == {n \in Rivals(s) : services[n].prio >= prio}

Worst(S) == {n \in S : \A m \in S : services[m].prio <= services[n].prio}

\* Fault: the session that connected last is chosen.
Youngest(S) ==
    {n \in S : \A m \in S : services[n].client \notin ses[services[m].client].elders}

Oldest(S) ==
    {n \in S : \A m \in S : services[m].client \notin ses[services[n].client].elders}

PoolUnavailable(s) ==
    /\ Exhausted(s)
    /\ ses[s].victim = None
    /\ \/ /\ Rivals(s) = {}
          /\ Raise(s, "fatal")
       \/ /\ Rivals(s) # {}
          /\ ~ses[s].force
          /\ Raise(s, "force")
       \/ /\ Rivals(s) # {}
          /\ ses[s].force
          /\ Eligible(s, Head(Raws(s)).prio) = {}
          /\ Raise(s, "fatal")
    /\ Release
    /\ UNCHANGED <<maps, wire, data>>

\* Every service and pending tunnel of the victim is dropped; the lock stays
\* held while its listeners close.
Evict(s) ==
    /\ Exhausted(s)
    /\ ses[s].victim = None
    /\ ses[s].force
    /\ \E n \in Oldest(Worst(Eligible(s, Head(Raws(s)).prio))) :
          LET v == services[n].client
              listeners == {ListenerOf(m) : m \in OwnedBy(v)}
          IN /\ Unregister(OwnedBy(v))
             /\ Close(listeners)
             /\ Forget(PendingOf(v))
             /\ ses' = [ses EXCEPT ![s].victim = v, ![s].doomed = PendingOf(v),
                                   ![s].shut = listeners, ![s].tried = {}]
    /\ Goto(s, "evict")
    /\ UNCHANGED <<lockq, clients, wire, data>>

\* Fault: the users of the victim's services are waited for on every Python.
EvictedUnused(s) ==
    /\ pc[s] = "evict"
    /\ \A q \in attached : from[q] \notin ses[s].shut
    /\ Goto(s, "bind")
    /\ UNCHANGED <<lockq, maps, ses, wire, data>>

Evicted(s) ==
    /\ pc[s] = "evict"
    /\ Detached(ses[s].shut)
    /\ Goto(s, "bind")
    /\ UNCHANGED <<lockq, maps, ses, wire, data>>

\* The second pass found no port either: the victim is gone all the same.
RebindFailed(s) ==
    /\ Exhausted(s)
    /\ ses[s].victim # None
    /\ ses' = [ses EXCEPT ![s].fault = "fatal", ![s].doomed = {}]
    /\ FailFutures(ses[s].doomed)
    /\ Goto(s, "notify")
    /\ Release
    /\ UNCHANGED <<maps, wire, from, owner, attached, claim>>

\* Fault: the victim's writer is closed before it is told.
Silence(s) == UNCHANGED reply

\* The notice to the evicted client, written before its writer is closed.
TellVictim(s) == Tell(ses[s].victim, "preempted")

\* Outside the lock the victim is told and its control writer is closed.
NotifyVictim(s) ==
    /\ pc[s] = "notify"
    /\ TellVictim(s)
    /\ HangUp(ses[s].victim)
    /\ Goto(s, IF ses[s].fault = "none" THEN "next" ELSE "rollback")
    /\ UNCHANGED <<lockq, maps, ses, data>>

-----------------------------------------------------------------------------
(* Rollback of a failed registration, and the force question.              *)

\* Fault: the services made before the failure are not dropped.
Regardless(s) == TRUE

RolledBack(s) == ses[s].made = <<>>

RollbackNext(s) ==
    /\ pc[s] = "rollback"
    /\ ~RolledBack(s)
    /\ Goto(s, "drop")
    /\ Queue(s)
    /\ UNCHANGED <<maps, ses, wire, data>>

\* _drop_registered_service removes the entry by name alone.
Drop(s) ==
    LET l == Head(ses[s].made) IN
    /\ pc[s] = "drop"
    /\ HasLock(s)
    /\ Unregister({l.name})
    /\ Close({l})
    /\ ses' = [ses EXCEPT ![s].shut = {l}, ![s].made = Tail(@)]
    /\ Goto(s, "dropping")
    /\ Release
    /\ UNCHANGED <<clients, pending, wire, data>>

Dropped(s) ==
    /\ pc[s] = "dropping"
    /\ Detached(ses[s].shut)
    /\ Goto(s, "rollback")
    /\ UNCHANGED <<lockq, maps, ses, wire, data>>

AskForce(s) ==
    /\ pc[s] = "rollback"
    /\ RolledBack(s)
    /\ ses[s].fault = "force"
    /\ Tell(s, "force_required")
    /\ ses' = [ses EXCEPT ![s].fault = "none"]
    /\ Goto(s, "ask")
    /\ UNCHANGED <<lockq, maps, hungup, data>>

ReportError(s) ==
    /\ pc[s] = "rollback"
    /\ RolledBack(s)
    /\ ses[s].fault # "force"
    /\ Tell(s, ses[s].fault)
    /\ Goto(s, "leave")
    /\ Queue(s)
    /\ UNCHANGED <<maps, ses, hungup, data>>

\* The client registers again with force; the list may differ.
Retry(s) ==
    /\ pc[s] = "ask"
    /\ \E req \in Requests :
          /\ req # <<>>
          /\ ses' = [ses EXCEPT ![s].todo = req, ![s].force = TRUE]
    /\ Goto(s, "next")
    /\ UNCHANGED <<lockq, maps, wire, data>>

\* close, end of file, or any other message.
Decline(s) == pc[s] = "ask" /\ End(s)

-----------------------------------------------------------------------------
(* The end of a session.                                                   *)

\* close, end of file, or an unreadable message.
Depart(s) == pc[s] = "serve" /\ End(s)

\* _remove_client: everything the session owns goes in one locked section;
\* then, without an await, futures fail and listeners close.
RemoveClient(s) ==
    LET listeners == {ListenerOf(n) : n \in OwnedBy(s)} IN
    /\ pc[s] = "leave"
    /\ HasLock(s)
    /\ clients' = clients \ {s}
    /\ Unregister(OwnedBy(s))
    /\ Forget(PendingOf(s))
    /\ FailFutures(PendingOf(s))
    /\ Close(listeners)
    /\ ses' = [ses EXCEPT ![s].shut = listeners]
    /\ Goto(s, "closing")
    /\ Release
    /\ UNCHANGED <<wire, from, owner, attached, claim>>

\* The handler returns, and its locals go with it.
FinishLeave(s) ==
    /\ pc[s] = "closing"
    /\ Detached(ses[s].shut)
    /\ HangUp(s)
    /\ ses' = [ses EXCEPT ![s] = [NoLocals EXCEPT !.elders = ses[s].elders]]
    /\ Goto(s, "gone")
    /\ UNCHANGED <<lockq, maps, reply, data>>

-----------------------------------------------------------------------------
\* What the server does by itself, and what it waits for its client to do.
SessionStep(s) ==
    \/ Join(s) \/ NextRejected(s) \/ NextPool(s) \/ NextRegular(s) \/ NextDone(s)
    \/ RegularListen(s) \/ RegularRefused(s) \/ RegularInsert(s)
    \/ RegularDuplicate(s) \/ RegularReject(s)
    \/ PoolListen(s) \/ PoolRefused(s) \/ PoolInsert(s) \/ PoolUnavailable(s)
    \/ Evict(s) \/ Evicted(s) \/ RebindFailed(s) \/ NotifyVictim(s)
    \/ RollbackNext(s) \/ Drop(s) \/ Dropped(s) \/ AskForce(s) \/ ReportError(s)
    \/ RemoveClient(s) \/ FinishLeave(s)

ClientStep(s) ==
    \/ Connect(s) \/ Register(s) \/ RefuseHandshake(s) \/ Retry(s) \/ Decline(s)
    \/ Depart(s)

=============================================================================
