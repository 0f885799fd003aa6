------------------------------- MODULE Server -------------------------------
(***************************************************************************)
(* The running py-frp server: control sessions, public connections and     *)
(* tunnel connections interleaved on one event loop and one lock, with the *)
(* properties they keep together.                                          *)
(***************************************************************************)
EXTENDS ServerControl, ServerTunnel

\* Every connection is over.
Idle ==
    /\ \A s \in Sessions : pc[s] = "gone"
    /\ \A q \in Publics : pc[q] \in {"none", "done"}
    /\ \A t \in Tunnels : pc[t] \in {"none", "paired", "closed"}
    /\ UNCHANGED vars

Next ==
    \/ \E s \in Sessions : SessionStep(s) \/ ClientStep(s)
    \/ \E q \in Publics : PublicStep(q) \/ UserStep(q)
    \/ \E t \in Tunnels : TunnelStep(t) \/ TunnelConnect(t)
    \/ Idle

Spec == Init /\ [][Next]_vars

\* A notice to a victim and an open message are written without a timeout: a
\* client that does not read may hold up the handler that writes.
AwaitsVictim(s) == pc[s] = "notify" /\ ses[s].victim \in Stalled \ hungup

AwaitsOwner(q) == pc[q] = "send" /\ owner[q] \in Stalled \ hungup

\* The server's close of a control connection comes to an end, after which its
\* handler reads the end of the stream: before Python 3.11 only if the client
\* reads.
CloseEnds(s) == Py311 \/ s \notin Stalled

\* The event loop runs every handler that can run, timers included. What a peer
\* does of its own accord is not fair: it may stay silent for ever.
Fairness ==
    /\ \A s \in Sessions :
          /\ WF_vars(SessionStep(s) /\ ~AwaitsVictim(s))
          /\ WF_vars(CloseEnds(s) /\ s \in hungup /\ (Decline(s) \/ Depart(s)))
    /\ \A q \in Publics : WF_vars(PublicStep(q) /\ ~AwaitsOwner(q))
    /\ \A t \in Tunnels : WF_vars(TunnelStep(t))

FairSpec == Spec /\ Fairness

\* Public users and clients that end every relay sooner or later.
FiniteRelaySpec == FairSpec /\ \A q \in Publics : WF_vars(RelayEnd(q))

-----------------------------------------------------------------------------
TypeOK ==
    /\ lockq \in Seq(Handlers)
    /\ services \in [Names -> Service \cup {None}]
    /\ clients \subseteq Sessions
    /\ pending \subseteq Publics
    /\ listening \subseteq Listener
    /\ pc \in [Handlers -> SessionPC \cup PublicPC \cup TunnelPC]
    /\ ses \in [Sessions -> Locals]
    /\ reply \in [Sessions -> Replies]
    /\ hungup \subseteq Sessions
    /\ from \in [Publics -> Listener \cup {None}]
    /\ owner \in [Publics -> Sessions \cup {None}]
    /\ fut \in [Publics -> Tunnels \cup {"unset", "pending", "failed", "cancelled"}]
    /\ attached \subseteq Publics
    /\ claim \in [Tunnels -> Claim \cup {None}]

-----------------------------------------------------------------------------
(* The control plane.                                                      *)

\* Every entry of _services has its own listener open: neither an eviction,
\* a rollback nor a cleanup closes the listener of a service it keeps.
ServiceListening == \A n \in Registered : ListenerOf(n) \in listening

\* Every open listener belongs to a registered service or to a registration
\* in progress; a session that is over leaves no listener behind.
NoOrphanListener ==
    \A l \in listening :
       \/ l.name \in Registered /\ ListenerOf(l.name) = l
       \/ ses[l.client].binding = l

\* The handler of a control session never ends with a public listener of the
\* session still open.
ListenersClosed == \A l \in listening : pc[l.client] # "gone"

\* A registration that failed, and is about to ask for force or to end the
\* session, has left nothing behind of the services made before the failure.
AllOrNothing ==
    \A s \in Sessions :
       pc[s] = "ask" \/ (pc[s] = "leave" /\ ses[s].fault # "none")
          => OwnedBy(s) = {} /\ \A l \in listening : l.client # s

\* A client that was told "registered" and whose control connection is open
\* still has all its services, unless a session that evicted it is about to
\* tell it so.
Evicting(r, s) == ses[r].victim = s /\ pc[r] \in {"evict", "bind", "bound", "notify"}

ServedUnlessEvicted ==
    \A s \in Sessions :
       pc[s] = "serve" /\ s \notin hungup =>
          \/ \A i \in DOMAIN ses[s].made :
                LET l == ses[s].made[i] IN
                l.name \in Registered /\ ListenerOf(l.name) = l
          \/ \E r \in Sessions : Evicting(r, s)

\* A client whose control writer the server closed before the session ended
\* was evicted, and "preempted" is the last thing it was told: a registration
\* it had under way does not report success after that.
EvictedIsTold ==
    \A s \in hungup : pc[s] # "gone" => reply[s] = "preempted"

\* A session that evicted another one gets a port for it, unless it is evicted
\* in turn or the system refused a port that another process may hold.
EvictionPays ==
    \A s \in Sessions :
       pc[s] = "notify" =>
          \/ s \in Registered /\ services[s].client = s
          \/ ses[s].tried \cap BusyPorts # {}
          \/ s \in hungup \/ \E r \in Sessions : Evicting(r, s)

\* A service disappears under its owner only by the priority rule: a forced
\* registration of another session finds no pool port free, the service's
\* owner holds a pool port at a priority number that is the largest of all
\* its rivals and not below the requester's, and no rival of that priority
\* connected earlier.
MayEvict(r, v) ==
    /\ pc[r] = "bind" /\ ses[r].force /\ r # v
    /\ \A p \in PoolPorts : p \in UsedPorts \cup ses[r].tried
    /\ \E n \in OwnedBy(v) :
          /\ services[n].pool
          /\ services[n].prio >= Head(ses[r].todo).prio
          /\ \A m \in Rivals(r) :
                \/ services[m].prio < services[n].prio
                \/ services[m].prio = services[n].prio
                   /\ services[m].client \notin ses[v].elders

LeavesItself(s) ==
    \/ pc[s] = "leave" /\ pc'[s] = "closing"
    \/ pc[s] = "drop" /\ pc'[s] = "dropping"

EvictionRule ==
    [][\A n \in Registered :
          services'[n] = None =>
             LET v == services[n].client IN
             LeavesItself(v) \/ \E r \in Sessions : MayEvict(r, v)]_vars

\* Which session holds a pool port, read off the service map.
PoolHolders(p) == {n \in Registered : services[n].pool /\ services[n].port = p}

Holder ==
    [p \in PoolPorts |->
       IF PoolHolders(p) = {} THEN None
       ELSE LET n == CHOOSE m \in PoolHolders(p) : TRUE
            IN [who |-> services[n].client, prio |-> services[n].prio]]

Leaving == {s \in Sessions : pc[s] \in {"rollback", "drop", "dropping", "ask", "leave",
                                        "closing", "gone"}}

Pool == INSTANCE PoolAllocation WITH holder <- Holder, leaving <- Leaving

\* A port that a session holds is not free.
ASSUME GrantAssumption == None \notin Pool!Grant

\* The server implements the pool's promise when every client registers one
\* pool service at a time.
PoolPromise == Pool!Spec

-----------------------------------------------------------------------------
(* The data plane.                                                         *)

\* A pending tunnel always has a public handler that will remove it.
PendingHasHandler ==
    \A q \in pending : pc[q] \in {"send", "wait", "relay", "finally"}

\* The public handlers that have stored their pending tunnel for client s and
\* have no answer yet.
Asking(s) == {q \in Publics : owner[q] = s /\ pc[q] \in {"send", "wait"} /\ fut[q] = "pending"}

\* In this step the session of client s is removed, or another one evicts it.
Loses(s) ==
    \/ pc[s] = "leave" /\ pc'[s] = "closing"
    \/ \E r \in Sessions : pc[r] = "bind" /\ pc'[r] = "evict" /\ ses'[r].victim = s

Doomed == UNION {ses[s].doomed : s \in Sessions}

\* Whoever asked a client that is lost is told so: its future fails in the step
\* that removes the client, or the session that evicted the client keeps it in
\* mind until it has failed it. A handler that has read the service and stores
\* its pending tunnel after that is not told: it waits for open_timeout.
LossIsTold ==
    [][/\ \A s \in Sessions :
             Loses(s) => \A q \in Asking(s) : fut'[q] = "failed" \/ q \in Doomed'
       /\ \A q \in Doomed : q \in Doomed' \/ fut'[q] # "pending"]_vars

\* No two tunnels the server accepted claim the same public connection, even
\* if the first one was lost to a timeout.
OneTunnelPerClaim ==
    \A t, u \in Tunnels :
       pc[t] = "paired" /\ pc[u] = "paired" /\ claim[t].id = claim[u].id => t = u

\* A tunnel the server accepted is held by the public handler it claimed,
\* which will close it.
NoStrandedTunnel ==
    \A t \in Tunnels :
       pc[t] = "paired" =>
          fut[claim[t].id] = t /\ pc[claim[t].id] \in {"wait", "relay"}

\* A public connection is served by the client whose listener accepted it.
ServedByAcceptor ==
    \A q \in Publics : owner[q] # None => owner[q] = from[q].client

-----------------------------------------------------------------------------
(* Progress.                                                               *)

\* A pool registration that has queued for the lock is answered: the client
\* is served, asked for force, or its session ends. Only a victim that does
\* not read its notice can hold up the answer, and only to the client that
\* evicted it.
RegistrationAnswered ==
    \A s \in Sessions :
       pc[s] = "bind" ~> pc[s] \in {"serve", "ask", "gone"} \/ AwaitsVictim(s)

\* A public connection is relayed or closed, unless it belongs to a client
\* that does not read its open message.
PublicSettles ==
    \A q \in Publics :
       pc[q] = "accepted" ~> pc[q] \in {"relay", "done"} \/ AwaitsOwner(q)

\* A public connection that timed out, failed or was relayed to its end
\* removes its pending tunnel and closes its writers.
PublicEnds == \A q \in Publics : pc[q] = "finally" ~> pc[q] = "done"

=============================================================================
