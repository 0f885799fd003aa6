---------------------------- MODULE ServerTunnel ----------------------------
(***************************************************************************)
(* The data plane of the server: _handle_public, which turns a public      *)
(* connection into a pending tunnel and relays it once paired, and         *)
(* _handle_tunnel, which pairs a client's data connection with it.         *)
(***************************************************************************)
EXTENDS ServerState

-----------------------------------------------------------------------------
(* A public connection.                                                    *)

\* A listener accepts; the handler's task runs later, when the listener may be
\* closed and its service gone.
PublicConnect(q) ==
    /\ pc[q] = "none"
    /\ \E l \in listening : from' = [from EXCEPT ![q] = l]
    /\ attached' = attached \cup {q}
    /\ Goto(q, "accepted")
    /\ UNCHANGED <<lockq, maps, ses, wire, owner, fut, claim>>

\* The lock is busy: the handler queues for it.
PublicQueues(q) ==
    /\ pc[q] = "accepted"
    /\ lockq # <<>>
    /\ Goto(q, "lookup")
    /\ Queue(q)
    /\ UNCHANGED <<maps, ses, wire, data>>

\* The lock is free: both locked sections run without an await between them.
PublicAccept(q) ==
    /\ pc[q] = "accepted"
    /\ lockq = <<>>
    /\ services[from[q].name] # None
    /\ owner' = [owner EXCEPT ![q] = services[from[q].name].client]
    /\ fut' = [fut EXCEPT ![q] = "pending"]
    /\ pending' = pending \cup {q}
    /\ Goto(q, "send")
    /\ UNCHANGED <<lockq, services, clients, listening, ses, wire, from, attached, claim>>

\* The lock is free and there is no such service any more: hang up.
PublicTurnAway(q) ==
    /\ pc[q] = "accepted"
    /\ lockq = <<>>
    /\ services[from[q].name] = None
    /\ attached' = attached \ {q}
    /\ from' = [from EXCEPT ![q] = None]
    /\ Goto(q, "done")
    /\ UNCHANGED <<lockq, maps, ses, wire, owner, fut, claim>>

\* The first locked section reads the service; the handler then queues for
\* the lock once more, behind whoever is waiting.
PublicLookup(q) ==
    /\ pc[q] = "lookup"
    /\ HasLock(q)
    /\ services[from[q].name] # None
    /\ owner' = [owner EXCEPT ![q] = services[from[q].name].client]
    /\ fut' = [fut EXCEPT ![q] = "pending"]
    /\ Goto(q, "insert")
    /\ Requeue(q)
    /\ UNCHANGED <<maps, ses, wire, from, attached, claim>>

PublicUnknown(q) ==
    /\ pc[q] = "lookup"
    /\ HasLock(q)
    /\ services[from[q].name] = None
    /\ attached' = attached \ {q}
    /\ from' = [from EXCEPT ![q] = None]
    /\ Goto(q, "done")
    /\ Release
    /\ UNCHANGED <<maps, ses, wire, owner, fut, claim>>

\* The second locked section stores the pending tunnel.
PublicInsert(q) ==
    /\ pc[q] = "insert"
    /\ HasLock(q)
    /\ pending' = pending \cup {q}
    /\ Goto(q, "send")
    /\ Release
    /\ UNCHANGED <<services, clients, listening, ses, wire, data>>

\* The open message is written to the owner's control connection. A write to
\* a writer closed a moment ago may go unnoticed.
SendOpen(q) ==
    /\ pc[q] = "send"
    /\ Goto(q, "wait")
    /\ UNCHANGED <<lockq, maps, ses, wire, data>>

\* Writing fails: the writer is closed, or the client's connection is lost.
SendFails(q) ==
    /\ pc[q] = "send"
    /\ Goto(q, "finally")
    /\ Queue(q)
    /\ UNCHANGED <<maps, ses, wire, data>>

Paired(q) == fut[q] \in Tunnels

StartRelay(q) ==
    /\ pc[q] = "wait"
    /\ Paired(q)
    /\ Goto(q, "relay")
    /\ UNCHANGED <<lockq, maps, ses, wire, data>>

OpenFailed(q) ==
    /\ pc[q] = "wait"
    /\ fut[q] = "failed"
    /\ Goto(q, "finally")
    /\ Queue(q)
    /\ UNCHANGED <<maps, ses, wire, data>>

\* Fault: the future is awaited without a timeout.
NoTimeout(q) == FALSE

\* open_timeout passes: wait_for cancels the future.
OpenTimeout(q) ==
    /\ pc[q] = "wait"
    /\ fut[q] = "pending"
    /\ fut' = [fut EXCEPT ![q] = "cancelled"]
    /\ Goto(q, "finally")
    /\ Queue(q)
    /\ UNCHANGED <<maps, ses, wire, from, owner, attached, claim>>

\* open_timeout passes between set_result and the handler's resumption:
\* since Python 3.12 wait_for raises TimeoutError and drops the result.
OpenTimeoutLate(q) ==
    /\ Py312
    /\ pc[q] = "wait"
    /\ Paired(q)
    /\ Goto(q, "finally")
    /\ Queue(q)
    /\ UNCHANGED <<maps, ses, wire, data>>

\* pipe_tunnel_streams returns: both of its writers are closed.
RelayEnd(q) ==
    /\ pc[q] = "relay"
    /\ attached' = attached \ {q}
    /\ pc' = [pc EXCEPT ![q] = "finally", ![fut[q]] = "closed"]
    /\ Queue(q)
    /\ UNCHANGED <<maps, ses, wire, from, owner, fut, claim>>

\* The finally block closes the writers only after its locked section; with
\* the handler's return its locals are gone.
PublicFinally(q) ==
    /\ pc[q] = "finally"
    /\ HasLock(q)
    /\ Forget({q})
    /\ fut' = [fut EXCEPT ![q] = IF @ = "pending" THEN "cancelled" ELSE @]
    /\ attached' = attached \ {q}
    /\ from' = [from EXCEPT ![q] = None]
    /\ owner' = [owner EXCEPT ![q] = None]
    /\ Goto(q, "done")
    /\ Release
    /\ UNCHANGED <<services, clients, listening, ses, wire, claim>>

\* The public user's connection breaks; no await of the handler notices
\* before the relay.
PublicReset(q) ==
    /\ q \in attached
    /\ attached' = attached \ {q}
    /\ UNCHANGED <<lockq, maps, pc, ses, wire, from, owner, fut, claim>>

-----------------------------------------------------------------------------
(* A tunnel connection.                                                    *)

\* A tunnel message arrives for an id the server has sent out.
TunnelConnect(t) ==
    /\ pc[t] = "none"
    /\ \E q \in Publics, ok \in BOOLEAN :
          /\ pc[q] \in {"wait", "relay", "finally", "done"}
          /\ claim' = [claim EXCEPT ![t] = [id |-> q, ok |-> ok]]
    /\ Goto(t, "lookup")
    /\ Queue(t)
    /\ UNCHANGED <<maps, ses, wire, from, owner, fut, attached>>

\* Fault: a second tunnel may claim the same pending tunnel.
AcceptableTwice(t) == claim[t].id \in pending /\ claim[t].ok

Acceptable(t) ==
    /\ claim[t].id \in pending
    /\ claim[t].ok
    /\ fut[claim[t].id] = "pending"

\* The lookup holds the lock; the checks and set_result follow at once.
TunnelPair(t) ==
    /\ pc[t] = "lookup"
    /\ HasLock(t)
    /\ Acceptable(t)
    /\ fut' = [fut EXCEPT ![claim[t].id] = t]
    /\ Goto(t, "paired")
    /\ Release
    /\ UNCHANGED <<maps, ses, wire, from, owner, attached, claim>>

TunnelReject(t) ==
    /\ pc[t] = "lookup"
    /\ HasLock(t)
    /\ ~Acceptable(t)
    /\ Goto(t, "closed")
    /\ Release
    /\ UNCHANGED <<maps, ses, wire, data>>

-----------------------------------------------------------------------------
PublicStep(q) ==
    \/ PublicQueues(q) \/ PublicAccept(q) \/ PublicTurnAway(q)
    \/ PublicLookup(q) \/ PublicUnknown(q) \/ PublicInsert(q)
    \/ SendOpen(q) \/ SendFails(q)
    \/ StartRelay(q) \/ OpenFailed(q) \/ OpenTimeout(q) \/ OpenTimeoutLate(q)
    \/ PublicFinally(q)

UserStep(q) == PublicConnect(q) \/ RelayEnd(q) \/ PublicReset(q)

TunnelStep(t) == TunnelPair(t) \/ TunnelReject(t)

=============================================================================
