---------------------------- MODULE TunnelProofs ----------------------------
(***************************************************************************)
(* Proofs about the data plane of Server for every value of its constants: *)
(* pending tunnels have handlers, handlers that asked a client are told of  *)
(* its loss, no two tunnels share a public connection, and a tunnel that   *)
(* was accepted is held by its handler.                                    *)
(***************************************************************************)
EXTENDS ServerProofs

-----------------------------------------------------------------------------
(* The inductive invariant.                                                *)

\* A relay has a tunnel.
RelayHasTunnel == \A q \in Publics : pc[q] = "relay" => fut[q] \in Tunnels

\* The locals hold a victim's public connections only while its session's
\* eviction goes on with the lock held.
DoomPhase(s) ==
    ses[s].doomed # {} => pc[s] \in {"evict", "bind", "bound"} /\ ses[s].victim # None

\* A handler that writes its open message or waits for its answer is pending
\* or about to be told.
Cared ==
    \A q \in Publics :
       pc[q] \in {"send", "wait"} /\ fut[q] = "pending" =>
          q \in pending \/ \E s \in Sessions : q \in ses[s].doomed

\* What a tunnel claims was sent out before, and is taken once it is paired.
Claimed(t) ==
    /\ claim[t] # None => pc[claim[t].id] \in {"wait", "relay", "finally", "done"}
    /\ pc[t] \in {"lookup", "paired"} => claim[t] # None
    /\ pc[t] = "paired" => fut[claim[t].id] # "pending"

DataInv ==
    /\ PendingHasHandler
    /\ RelayHasTunnel
    /\ \A s \in Sessions : DoomPhase(s)
    /\ Cared
    /\ \A t \in Tunnels : Claimed(t)
    /\ OneTunnelPerClaim

-----------------------------------------------------------------------------
(* Control sessions.                                                       *)

\* What a step of a session may do to the data plane.
DataFrame(s) ==
    /\ pending' \subseteq pending
    /\ \A q \in Publics : fut'[q] # fut[q] => fut[q] = "pending" /\ fut'[q] = "failed"
    /\ \A q \in pending \cup ses[s].doomed :
          q \in pending' \cup ses'[s].doomed \/ fut'[q] # "pending"
    /\ \A q \in ses[s].doomed : q \in ses'[s].doomed \/ fut'[q] # "pending"
    /\ DoomPhase(s)'

\* The steps of a session that has no victim to tell of leave the futures and
\* the pending tunnels alone.
LEMMA QuietSession ==
    ASSUME TypeOK, NEW s \in Sessions, DoomPhase(s),
           \/ Join(s) \/ NextRejected(s) \/ NextPool(s) \/ NextRegular(s)
           \/ NextDone(s) \/ RegularListen(s) \/ RegularRefused(s) \/ RegularInsert(s)
           \/ RegularDuplicate(s) \/ RegularReject(s) \/ NotifyVictim(s) \/ RollbackNext(s)
           \/ Drop(s) \/ Dropped(s) \/ AskForce(s) \/ ReportError(s)
           \/ FinishLeave(s) \/ Connect(s) \/ Register(s) \/ RefuseHandshake(s)
           \/ Retry(s) \/ Decline(s) \/ Depart(s)
    PROVE  UNCHANGED <<pending, fut>> /\ ses[s].doomed = {} /\ ses'[s].doomed = {}
<1> USE DEF DoomPhase, TypeOK, Locals, maps, data
<1>1. CASE Join(s)
  BY <1>1 DEF Join
<1>2. CASE NextRejected(s)
  BY <1>2 DEF NextRejected, Raise
<1>3. CASE NextPool(s)
  BY <1>3 DEF NextPool
<1>4. CASE NextRegular(s)
  BY <1>4 DEF NextRegular
<1>5. CASE NextDone(s)
  BY <1>5 DEF NextDone
<1>6. CASE RegularListen(s)
  BY <1>6 DEF RegularListen
<1>7. CASE RegularRefused(s)
  BY <1>7 DEF RegularRefused, Raise
<1>8. CASE RegularInsert(s)
  BY <1>8 DEF RegularInsert, Store
<1>9. CASE RegularDuplicate(s)
  BY <1>9 DEF RegularDuplicate
<1>10. CASE RegularReject(s)
  BY <1>10 DEF RegularReject, Raise
<1>11. CASE NotifyVictim(s)
  BY <1>11 DEF NotifyVictim
<1>12. CASE RollbackNext(s)
  BY <1>12 DEF RollbackNext
<1>13. CASE Drop(s)
  BY <1>13 DEF Drop
<1>14. CASE Dropped(s)
  BY <1>14 DEF Dropped
<1>15. CASE AskForce(s)
  BY <1>15 DEF AskForce
<1>16. CASE ReportError(s)
  BY <1>16 DEF ReportError
<1>17. CASE FinishLeave(s)
  BY <1>17 DEF FinishLeave, NoLocals
<1>18. CASE Connect(s)
  BY <1>18 DEF Connect
<1>19. CASE Register(s) \/ Retry(s)
  <2>1. PICK req \in Requests, f \in BOOLEAN :
           ses' = [ses EXCEPT ![s] = [ses[s] EXCEPT !.todo = req, !.force = f]]
    BY <1>19, RegisterWrites
  <2>2. ses[s] \in Locals /\ ses'[s].doomed = ses[s].doomed
    BY <2>1
  <2>3. UNCHANGED <<pending, fut>> /\ pc[s] \in {"greeted", "ask"}
    BY <1>19 DEF Register, Retry
  <2> QED
    BY <2>2, <2>3
<1>20. CASE RefuseHandshake(s)
  BY <1>20 DEF RefuseHandshake, End
<1>21. CASE Decline(s)
  BY <1>21 DEF Decline, End
<1>22. CASE Depart(s)
  BY <1>22 DEF Depart, End
<1> QED
  BY <1>1, <1>2, <1>3, <1>4, <1>5, <1>6, <1>7, <1>8, <1>9, <1>10, <1>11, <1>12,
     <1>13, <1>14, <1>15, <1>16, <1>17, <1>18, <1>19, <1>20, <1>21, <1>22

\* An eviction drops the pending tunnels it will tell of.
LEMMA EvictForgets ==
    ASSUME TypeOK, NEW s \in Sessions, Evict(s)
    PROVE  \E v \in Sessions :
              /\ Forget(PendingOf(v))
              /\ ses' = [ses EXCEPT ![s] = [ses[s] EXCEPT !.victim = v, !.doomed = PendingOf(v),
                            !.shut = {ListenerOf(m) : m \in OwnedBy(v)}, !.tried = {}]]
<1>1. PICK n \in Oldest(Worst(Eligible(s, Head(Raws(s)).prio))) :
         LET v == services[n].client
             listeners == {ListenerOf(m) : m \in OwnedBy(v)}
         IN /\ Forget(PendingOf(v))
            /\ ses' = [ses EXCEPT ![s] = [ses[s] EXCEPT !.victim = v, !.doomed = PendingOf(v),
                                             !.shut = listeners, !.tried = {}]]
  BY ZenonT(60) DEF Evict, TypeOK
<1>2. services[n].client \in Sessions
  BY DEF Oldest, Worst, Eligible, Rivals, Registered, TypeOK, Service
<1> QED
  BY <1>1, <1>2

LEMMA SessionDataFrame ==
    ASSUME TypeOK, NEW s \in Sessions, DoomPhase(s), SessionStep(s) \/ ClientStep(s)
    PROVE  DataFrame(s)
<1>0. /\ ses \in [Sessions -> Locals] /\ s \in Handlers
      /\ pc \in [Handlers -> SessionPC \cup PublicPC \cup TunnelPC]
      /\ fut \in [Publics -> Tunnels \cup {"unset", "pending", "failed", "cancelled"}]
      /\ pending \subseteq Publics /\ ses[s].doomed \subseteq Publics
  BY DEF TypeOK, Handlers, Locals
<1>f. \A S : FailFutures(S) =>
         /\ \A q \in Publics : fut'[q] # fut[q] => fut[q] = "pending" /\ fut'[q] = "failed"
         /\ \A q \in S : q \in Publics => fut'[q] # "pending"
  BY DEF FailFutures
<1>7. ASSUME UNCHANGED <<pending, fut>>, ses[s].doomed = {}, ses'[s].doomed = {}
      PROVE  DataFrame(s)
  BY <1>7 DEF DataFrame, DoomPhase
<1>1. CASE PoolListen(s)
  <2>1. pending' = pending /\ fut' = fut /\ ses'[s].doomed = ses[s].doomed
        /\ ses'[s].victim = ses[s].victim /\ pc[s] = "bind" /\ pc'[s] = "bound"
    BY <1>0, <1>1 DEF PoolListen, Goto, data, Locals
  <2> QED
    BY <2>1 DEF DataFrame, DoomPhase
<1>2. CASE PoolRefused(s)
  <2>1. pending' = pending /\ fut' = fut /\ ses'[s].doomed = ses[s].doomed
        /\ ses'[s].victim = ses[s].victim /\ pc'[s] = pc[s]
    BY <1>0, <1>2 DEF PoolRefused, maps, data, Locals
  <2> QED
    BY <2>1 DEF DataFrame, DoomPhase
<1>8. CASE Evicted(s)
  <2>1. pending' = pending /\ fut' = fut /\ ses' = ses /\ pc[s] = "evict" /\ pc'[s] = "bind"
    BY <1>0, <1>8 DEF Evicted, Goto, maps, data
  <2> QED
    BY <2>1 DEF DataFrame, DoomPhase
<1>9. CASE PoolUnavailable(s)
  <2>1. ses[s].doomed = {}
    BY <1>9 DEF PoolUnavailable, DoomPhase
  <2>2. \E f : Raise(s, f)
    BY <1>9 DEF PoolUnavailable
  <2>3. pending' = pending /\ fut' = fut /\ ses'[s].doomed = {}
    BY <1>0, <1>9, <2>1, <2>2 DEF PoolUnavailable, Raise, maps, data, Locals
  <2> QED
    BY <1>7, <2>1, <2>3
<1>3. CASE PoolInsert(s)
  BY <1>0, <1>f, <1>3 DEF PoolInsert, Store, DataFrame, DoomPhase, Goto, Locals
<1>4. CASE RebindFailed(s)
  BY <1>0, <1>f, <1>4 DEF RebindFailed, DataFrame, DoomPhase, Goto, Locals, maps
<1>5. CASE Evict(s)
  <2>1. ses[s].doomed = {}
    BY <1>5 DEF Evict, DoomPhase
  <2>2. PICK v \in Sessions :
           /\ Forget(PendingOf(v))
           /\ ses' = [ses EXCEPT ![s] = [ses[s] EXCEPT !.victim = v, !.doomed = PendingOf(v),
                         !.shut = {ListenerOf(m) : m \in OwnedBy(v)}, !.tried = {}]]
    BY <1>5, EvictForgets
  <2>4. ses'[s].victim = v /\ ses'[s].doomed = PendingOf(v)
    BY <1>0, <2>2 DEF Locals
  <2>5. pc'[s] = "evict" /\ fut' = fut
    BY <1>0, <1>5 DEF Evict, Goto, data
  <2>3. v # None
    BY KindsAssumption DEF Handlers
  <2> QED
    BY <2>1, <2>2, <2>3, <2>4, <2>5 DEF Forget, DataFrame, DoomPhase
<1>6. CASE RemoveClient(s)
  <2>1. ses[s].doomed = {} /\ ses'[s].doomed = {}
    BY <1>0, <1>6 DEF RemoveClient, DoomPhase, Locals
  <2> QED
    BY <1>0, <1>f, <1>6, <2>1 DEF RemoveClient, Forget, PendingOf, DataFrame, DoomPhase
<1> QED
  BY <1>1, <1>2, <1>3, <1>4, <1>5, <1>6, <1>7, <1>8, <1>9,
     QuietSession DEF SessionStep, ClientStep

LEMMA SessionData ==
    ASSUME TypeInv, DataInv, NEW s \in Sessions, SessionStep(s) \/ ClientStep(s)
    PROVE  DataInv'
<1>0. /\ DataFrame(s) /\ claim' = claim
      /\ \A h \in Handlers \ {s} : pc'[h] = pc[h]
      /\ \A o \in Sessions \ {s} : ses'[o] = ses[o]
  BY SessionDataFrame, SessionFrame DEF TypeInv, DataInv
<1>1. /\ \A q \in Publics : pc'[q] = pc[q]
      /\ \A t \in Tunnels : pc'[t] = pc[t]
      /\ fut \in [Publics -> Tunnels \cup {"unset", "pending", "failed", "cancelled"}]
      /\ claim \in [Tunnels -> Claim \cup {None}] /\ pending \subseteq Publics
  BY <1>0, KindsAssumption DEF Handlers, TypeInv, TypeOK
<1>2. PendingHasHandler'
  BY <1>0, <1>1 DEF DataFrame, DataInv, PendingHasHandler
<1>3. RelayHasTunnel'
  BY <1>0, <1>1, FutureAssumption DEF DataFrame, DataInv, RelayHasTunnel
<1>4. \A o \in Sessions : DoomPhase(o)'
  BY <1>0 DEF DataFrame, DataInv, DoomPhase, Handlers
<1>5. Cared'
  <2> SUFFICES ASSUME NEW q \in Publics, pc'[q] \in {"send", "wait"}, fut'[q] = "pending"
               PROVE  q \in pending' \/ \E o \in Sessions : q \in ses'[o].doomed
    BY DEF Cared
  <2>1. fut[q] = "pending"
    BY <1>0 DEF DataFrame
  <2>2. q \in pending \/ \E o \in Sessions : q \in ses[o].doomed
    BY <1>1, <2>1 DEF DataInv, Cared
  <2>3. CASE q \in pending \cup ses[s].doomed
    BY <1>0, <2>3 DEF DataFrame
  <2>4. CASE \E o \in Sessions \ {s} : q \in ses[o].doomed
    BY <1>0, <2>4
  <2> QED
    BY <2>2, <2>3, <2>4
<1>6. \A t \in Tunnels : Claimed(t)'
  BY <1>0, <1>1, KindsAssumption DEF DataFrame, DataInv, Claimed, Claim
<1>7. OneTunnelPerClaim'
  BY <1>0, <1>1 DEF DataInv, OneTunnelPerClaim
<1> QED
  BY <1>2, <1>3, <1>4, <1>5, <1>6, <1>7 DEF DataInv

-----------------------------------------------------------------------------
(* Public connections.                                                     *)

Sent == {"wait", "relay", "finally", "done"}

\* What a step of a public handler or its user may do to the data plane.
PublicFrame(q) ==
    /\ UNCHANGED <<ses, claim>>
    /\ \A s \in Sessions : pc'[s] = pc[s]
    /\ \A r \in Publics \ {q} :
          pc'[r] = pc[r] /\ fut'[r] = fut[r] /\ (r \in pending' <=> r \in pending)
    /\ \A t \in Tunnels : pc'[t] = pc[t] \/ pc'[t] = "closed"
    /\ q \in pending' => pc'[q] \in {"send", "wait", "relay", "finally"}
    /\ pc'[q] = "relay" => fut'[q] \in Tunnels
    /\ pc'[q] \in {"send", "wait"} /\ fut'[q] = "pending" =>
          q \in pending' \/ \E s \in Sessions : q \in ses[s].doomed
    /\ pc[q] \in Sent => pc'[q] \in Sent /\ (fut'[q] = "pending" => fut[q] = "pending")

LEMMA PublicDataFrame ==
    ASSUME TypeOK, DataInv, NEW q \in Publics, PublicStep(q) \/ UserStep(q)
    PROVE  PublicFrame(q)
<1>0. /\ pc \in [Handlers -> SessionPC \cup PublicPC \cup TunnelPC] /\ q \in Handlers
      /\ fut \in [Publics -> Tunnels \cup {"unset", "pending", "failed", "cancelled"}]
      /\ pending \subseteq Publics
      /\ \A s \in Sessions : s \in Handlers /\ s # q
      /\ \A t \in Tunnels : t \in Handlers /\ t # q
      /\ \A r \in Publics : r \in Handlers
  BY KindsAssumption DEF TypeOK, Handlers
<1>1. /\ q \in pending => pc[q] \in {"send", "wait", "relay", "finally"}
      /\ pc[q] = "relay" => fut[q] \in Tunnels
      /\ pc[q] \in {"send", "wait"} /\ fut[q] = "pending" =>
            q \in pending \/ \E s \in Sessions : q \in ses[s].doomed
  BY DEF DataInv, PendingHasHandler, RelayHasTunnel, Cared
<1> USE <1>0, <1>1, KindsAssumption, FutureAssumption DEF PublicFrame, Sent, Goto, maps, data
<1>2. CASE PublicQueues(q)
  BY <1>2 DEF PublicQueues
<1>3. CASE PublicAccept(q)
  BY <1>3 DEF PublicAccept
<1>4. CASE PublicTurnAway(q)
  BY <1>4 DEF PublicTurnAway
<1>5. CASE PublicLookup(q)
  BY <1>5 DEF PublicLookup
<1>6. CASE PublicUnknown(q)
  BY <1>6 DEF PublicUnknown
<1>7. CASE PublicInsert(q)
  BY <1>7 DEF PublicInsert
<1>8. CASE SendOpen(q)
  BY <1>8 DEF SendOpen
<1>9. CASE SendFails(q)
  BY <1>9 DEF SendFails
<1>10. CASE StartRelay(q)
  BY <1>10 DEF StartRelay, Paired
<1>11. CASE OpenFailed(q)
  BY <1>11 DEF OpenFailed
<1>12. CASE OpenTimeout(q)
  BY <1>12 DEF OpenTimeout
<1>13. CASE OpenTimeoutLate(q)
  BY <1>13 DEF OpenTimeoutLate, Paired
<1>14. CASE PublicFinally(q)
  BY <1>14 DEF PublicFinally, Forget
<1>15. CASE PublicConnect(q)
  BY <1>15 DEF PublicConnect
<1>16. CASE RelayEnd(q)
  BY <1>16 DEF RelayEnd, Handlers
<1>17. CASE PublicReset(q)
  BY <1>17 DEF PublicReset
<1> QED
  BY <1>2, <1>3, <1>4, <1>5, <1>6, <1>7, <1>8, <1>9, <1>10,
     <1>11, <1>12, <1>13, <1>14, <1>15, <1>16, <1>17 DEF PublicStep, UserStep

LEMMA PublicData ==
    ASSUME TypeOK, DataInv, NEW q \in Publics, PublicStep(q) \/ UserStep(q)
    PROVE  DataInv'
<1>0. PublicFrame(q) /\ claim \in [Tunnels -> Claim \cup {None}] /\ pending' \subseteq Publics
  <2>1. pending \subseteq Publics /\ claim \in [Tunnels -> Claim \cup {None}]
    BY DEF TypeOK
  <2>2. pending' \subseteq pending \cup {q}
    BY <2>1 DEF PublicStep, UserStep, PublicQueues, PublicAccept, PublicTurnAway, PublicLookup,
       PublicUnknown, PublicInsert, SendOpen, SendFails, StartRelay, OpenFailed, OpenTimeout,
       OpenTimeoutLate, PublicFinally, PublicConnect, RelayEnd, PublicReset, Forget, maps
  <2> QED
    BY <2>1, <2>2, PublicDataFrame
<1>1. PendingHasHandler'
  BY <1>0 DEF PublicFrame, DataInv, PendingHasHandler
<1>2. RelayHasTunnel'
  BY <1>0 DEF PublicFrame, DataInv, RelayHasTunnel
<1>3. \A s \in Sessions : DoomPhase(s)'
  BY <1>0 DEF PublicFrame, DataInv, DoomPhase
<1>4. Cared'
  BY <1>0 DEF PublicFrame, DataInv, Cared
<1>5. \A t \in Tunnels : Claimed(t)'
  <2> SUFFICES ASSUME NEW t \in Tunnels PROVE Claimed(t)'
    OBVIOUS
  <2>1. Claimed(t) /\ claim'[t] = claim[t] /\ (claim[t] # None => claim[t].id \in Publics)
    BY <1>0 DEF DataInv, PublicFrame, Claim
  <2>2. CASE claim[t] = None
    BY <1>0, <2>1, <2>2 DEF Claimed, PublicFrame
  <2>3. CASE claim[t] # None /\ claim[t].id = q
    BY <1>0, <2>1, <2>3 DEF Claimed, PublicFrame, Sent
  <2>4. CASE claim[t] # None /\ claim[t].id # q
    BY <1>0, <2>1, <2>4 DEF Claimed, PublicFrame
  <2> QED
    BY <2>2, <2>3, <2>4
<1>6. OneTunnelPerClaim'
  BY <1>0 DEF PublicFrame, DataInv, OneTunnelPerClaim
<1> QED
  BY <1>1, <1>2, <1>3, <1>4, <1>5, <1>6 DEF DataInv

-----------------------------------------------------------------------------
(* Tunnel connections.                                                     *)

LEMMA ConnectData ==
    ASSUME TypeOK, DataInv, NEW t \in Tunnels, TunnelConnect(t)
    PROVE  DataInv'
<1>0. /\ UNCHANGED <<pending, ses, fut>>
      /\ \A h \in Handlers \ {t} : pc'[h] = pc[h]
      /\ t \in Handlers /\ \A q \in Publics : q # t /\ q \in Handlers
      /\ \A s \in Sessions : s # t /\ s \in Handlers
      /\ \A u \in Tunnels \ {t} : claim'[u] = claim[u] /\ pc'[u] = pc[u]
      /\ claim \in [Tunnels -> Claim \cup {None}] /\ pending \subseteq Publics
      /\ pc'[t] = "lookup"
  BY KindsAssumption DEF TunnelConnect, Goto, maps, TypeOK, Handlers
<1>1. PICK q \in Publics, ok \in BOOLEAN :
         /\ pc[q] \in {"wait", "relay", "finally", "done"}
         /\ claim' = [claim EXCEPT ![t] = [id |-> q, ok |-> ok]]
  BY DEF TunnelConnect
<1>2. claim'[t] = [id |-> q, ok |-> ok] /\ claim'[t] \in Claim
  BY <1>0, <1>1 DEF Claim
<1>3. PendingHasHandler' /\ RelayHasTunnel' /\ Cared'
  BY <1>0 DEF DataInv, PendingHasHandler, RelayHasTunnel, Cared
<1>4. \A s \in Sessions : DoomPhase(s)'
  BY <1>0 DEF DataInv, DoomPhase
<1>5. \A u \in Tunnels \ {t} : Claimed(u)'
  BY <1>0 DEF DataInv, Claimed, Claim
<1>6. Claimed(t)'
  BY <1>0, <1>1, <1>2, KindsAssumption DEF Claimed
<1>7. OneTunnelPerClaim'
  BY <1>0 DEF DataInv, OneTunnelPerClaim
<1> QED
  BY <1>3, <1>4, <1>5, <1>6, <1>7 DEF DataInv

LEMMA TunnelData ==
    ASSUME TypeOK, DataInv, NEW t \in Tunnels, TunnelStep(t)
    PROVE  DataInv'
<1>0. /\ UNCHANGED <<pending, ses, claim>>
      /\ \A h \in Handlers \ {t} : pc'[h] = pc[h]
      /\ pc[t] = "lookup" /\ t \in Handlers /\ \A q \in Publics : q # t /\ q \in Handlers
      /\ \A s \in Sessions : s # t /\ s \in Handlers
      /\ \A u \in Tunnels \ {t} : pc'[u] = pc[u]
      /\ claim \in [Tunnels -> Claim \cup {None}] /\ pending \subseteq Publics
      /\ fut \in [Publics -> Tunnels \cup {"unset", "pending", "failed", "cancelled"}]
      /\ pc \in [Handlers -> SessionPC \cup PublicPC \cup TunnelPC]
  BY KindsAssumption DEF TunnelStep, TunnelPair, TunnelReject, Goto, maps, data, TypeOK, Handlers
<1>1. claim[t] # None /\ claim[t].id \in Publics
  BY <1>0 DEF DataInv, Claimed, Claim
<1>2. \/ fut' = fut /\ pc'[t] = "closed"
      \/ /\ fut[claim[t].id] = "pending" /\ fut' = [fut EXCEPT ![claim[t].id] = t]
         /\ pc'[t] = "paired"
  BY <1>0 DEF TunnelStep, TunnelPair, TunnelReject, Acceptable, Goto, data
<1>3. /\ \A q \in Publics : fut'[q] = "pending" => fut[q] = "pending"
      /\ \A q \in Publics : fut[q] \in Tunnels => fut'[q] \in Tunnels
      /\ pc'[t] = "paired" => fut'[claim[t].id] # "pending"
  BY <1>0, <1>1, <1>2, FutureAssumption
<1>4. PendingHasHandler' /\ RelayHasTunnel' /\ Cared'
  BY <1>0, <1>3 DEF DataInv, PendingHasHandler, RelayHasTunnel, Cared
<1>5. \A s \in Sessions : DoomPhase(s)'
  BY <1>0 DEF DataInv, DoomPhase
<1>6. \A u \in Tunnels : Claimed(u)'
  <2> SUFFICES ASSUME NEW u \in Tunnels PROVE Claimed(u)'
    OBVIOUS
  <2>1. Claimed(u) /\ (claim[u] # None => claim[u].id \in Publics)
    BY <1>0 DEF DataInv, Claim
  <2>2. CASE u = t
    BY <1>0, <1>1, <1>3, <2>1, <2>2 DEF Claimed
  <2>3. CASE u # t
    BY <1>0, <1>3, <2>1, <2>3 DEF Claimed
  <2> QED
    BY <2>2, <2>3
<1>7. OneTunnelPerClaim'
  <2>1. \A u \in Tunnels \ {t} : pc'[u] = "paired" /\ pc'[t] = "paired" =>
            claim[u].id # claim[t].id
    BY <1>0, <1>2 DEF DataInv, Claimed
  <2> QED
    BY <1>0, <2>1 DEF DataInv, OneTunnelPerClaim
<1> QED
  BY <1>4, <1>5, <1>6, <1>7 DEF DataInv

-----------------------------------------------------------------------------
(* The theorems.                                                           *)

LEMMA DataInit == Init => DataInv
<1> SUFFICES ASSUME Init PROVE DataInv
  OBVIOUS
<1>1. /\ \A h \in Handlers : pc[h] = "none"
      /\ \A s \in Sessions : s \in Handlers /\ ses[s].doomed = {}
      /\ \A q \in Publics : q \in Handlers
      /\ \A t \in Tunnels : t \in Handlers /\ claim[t] = None
      /\ pending = {}
  BY DEF Init, NoLocals, Handlers
<1> QED
  BY <1>1 DEF DataInv, PendingHasHandler, RelayHasTunnel, DoomPhase, Cared, Claimed,
              OneTunnelPerClaim

LEMMA DataStep == TypeInv /\ DataInv /\ [Next]_vars => DataInv'
<1> SUFFICES ASSUME TypeInv, DataInv, [Next]_vars PROVE DataInv'
  OBVIOUS
<1>0. TypeOK
  BY DEF TypeInv
<1>1. CASE \E s \in Sessions : SessionStep(s) \/ ClientStep(s)
  BY <1>1, SessionData
<1>2. CASE \E q \in Publics : PublicStep(q) \/ UserStep(q)
  BY <1>0, <1>2, PublicData
<1>3. CASE \E t \in Tunnels : TunnelStep(t) \/ TunnelConnect(t)
  BY <1>0, <1>3, TunnelData, ConnectData
<1>4. CASE UNCHANGED vars
  BY <1>4 DEF DataInv, PendingHasHandler, RelayHasTunnel, DoomPhase, Cared, Claimed,
              OneTunnelPerClaim, vars, maps, data
<1> QED
  BY <1>1, <1>2, <1>3, <1>4 DEF Next, Idle

LEMMA DataHolds == Spec => [](TypeInv /\ DataInv)
<1>1. Init => TypeInv /\ DataInv
  BY InitTypes, DataInit
<1>2. TypeInv /\ DataInv /\ [Next]_vars => (TypeInv /\ DataInv)'
  BY TypeStep, DataStep
<1> QED
  BY <1>1, <1>2, PTL DEF Spec

\* Every key of _pending belongs to a public handler that is still between
\* its insertion and its finally block, which will remove it: no pending
\* tunnel leaks, whichever session, eviction or timeout comes between.
THEOREM HandlersRemain == Spec => []PendingHasHandler
<1>1. TypeInv /\ DataInv => PendingHasHandler
  BY DEF DataInv
<1> QED
  BY <1>1, DataHolds, PTL

\* Only these steps of a session lose a client: its own removal and an eviction.
LEMMA LosingSteps ==
    ASSUME TypeOK, NEW s \in Sessions, SessionStep(s) \/ ClientStep(s)
    PROVE  /\ pc[s] = "leave" => RemoveClient(s)
           /\ pc[s] = "bind" /\ pc'[s] = "evict" => Evict(s)
<1>0. pc \in [Handlers -> SessionPC \cup PublicPC \cup TunnelPC] /\ s \in Handlers
  BY DEF TypeOK, Handlers
<1>1. pc[s] = "leave" => RemoveClient(s)
  BY DEF SessionStep, ClientStep, Join, NextRejected, NextPool, NextRegular, NextDone,
     RegularListen, RegularRefused, RegularInsert, RegularDuplicate, RegularReject, PoolListen,
     PoolRefused, PoolInsert, PoolUnavailable, Evict, Evicted, RebindFailed, Exhausted,
     NotifyVictim, RollbackNext, Drop, Dropped, AskForce, ReportError, FinishLeave, Connect,
     Register, RefuseHandshake, Retry, Decline, Depart
<1>2. ASSUME pc[s] = "bind", ~Evict(s) PROVE pc'[s] # "evict"
  <2>1. \/ PoolListen(s) \/ PoolRefused(s) \/ PoolUnavailable(s) \/ RebindFailed(s)
    BY <1>2 DEF SessionStep, ClientStep, Join, NextRejected, NextPool, NextRegular, NextDone,
       RegularListen, RegularRefused, RegularInsert, RegularDuplicate, RegularReject,
       PoolInsert, Evicted, NotifyVictim, RollbackNext, Drop, Dropped, AskForce, ReportError,
       RemoveClient, FinishLeave, Connect, Register, RefuseHandshake, Retry, Decline, Depart
  <2> QED
    BY <1>0, <1>2, <2>1 DEF PoolListen, PoolRefused, PoolUnavailable, RebindFailed, Raise, Goto
<1> QED
  BY <1>1, <1>2

\* The step of a session that loses client v leaves nobody who asked it unaware.
LEMMA SessionTells ==
    ASSUME TypeInv, DataInv, NEW s \in Sessions, SessionStep(s) \/ ClientStep(s)
    PROVE  /\ \A v \in Sessions :
                 Loses(v) => \A q \in Asking(v) : fut'[q] = "failed" \/ q \in Doomed'
           /\ \A q \in Doomed : q \in Doomed' \/ fut'[q] # "pending"
<1>0. /\ TypeOK /\ DataFrame(s) /\ DoomPhase(s)
      /\ \A h \in Handlers \ {s} : pc'[h] = pc[h]
      /\ \A o \in Sessions \ {s} : ses'[o] = ses[o]
      /\ \A o \in Sessions : o \in Handlers
      /\ ses \in [Sessions -> Locals]
  BY SessionDataFrame, SessionFrame DEF TypeInv, TypeOK, DataInv, Handlers
<1>1. \A q \in Doomed : q \in Doomed' \/ fut'[q] # "pending"
  BY <1>0 DEF Doomed, DataFrame
<1>2. ASSUME NEW v \in Sessions, Loses(v), NEW q \in Asking(v)
      PROVE  fut'[q] = "failed" \/ q \in Doomed'
  <2>1. /\ q \in Publics /\ owner[q] = v /\ fut[q] = "pending"
        /\ q \in pending \/ \E o \in Sessions : q \in ses[o].doomed
    BY <1>2 DEF Asking, DataInv, Cared
  <2>2. CASE pc[v] = "leave" /\ pc'[v] = "closing"
    <3>1. v = s /\ RemoveClient(s)
      BY <1>0, <2>2, LosingSteps
    <3>2. ses[s].doomed = {}
      BY <1>0, <2>2, <3>1 DEF DoomPhase
    <3>3. CASE q \in pending
      BY <2>1, <3>1, <3>3 DEF RemoveClient, PendingOf, FailFutures
    <3>4. CASE \E o \in Sessions \ {s} : q \in ses[o].doomed
      BY <1>0, <3>4 DEF Doomed
    <3> QED
      BY <2>1, <3>2, <3>3, <3>4
  <2>3. CASE \E r \in Sessions : pc[r] = "bind" /\ pc'[r] = "evict" /\ ses'[r].victim = v
    <3>1. pc[s] = "bind" /\ pc'[s] = "evict" /\ ses'[s].victim = v
      BY <1>0, <2>3
    <3>2. Evict(s)
      BY <1>0, <3>1, LosingSteps
    <3>3. ses[s].doomed = {}
      BY <1>0, <3>2 DEF Evict, DoomPhase
    <3>4. PICK w \in Sessions :
             ses' = [ses EXCEPT ![s] = [ses[s] EXCEPT !.victim = w, !.doomed = PendingOf(w),
                           !.shut = {ListenerOf(m) : m \in OwnedBy(w)}, !.tried = {}]]
      BY <1>0, <3>2, EvictForgets
    <3>5. w = v /\ ses'[s].doomed = PendingOf(v)
      BY <1>0, <3>1, <3>4 DEF Locals
    <3>6. CASE q \in pending
      BY <2>1, <3>5, <3>6 DEF PendingOf, Doomed
    <3>7. CASE \E o \in Sessions \ {s} : q \in ses[o].doomed
      BY <1>0, <3>7 DEF Doomed
    <3> QED
      BY <2>1, <3>3, <3>6, <3>7
  <2> QED
    BY <1>2, <2>2, <2>3 DEF Loses
<1> QED
  BY <1>1, <1>2

\* Nobody but a session loses a client or forgets whom it has to tell.
LEMMA OthersKeep ==
    ASSUME \A s \in Sessions : pc'[s] = pc[s], ses' = ses
    PROVE  /\ \A s \in Sessions : ~Loses(s)
           /\ Doomed' = Doomed
  BY DEF Loses, Doomed

\* A public handler that has stored its pending tunnel is told when its client
\* is lost, by the removal of the client's session or by the session that evicted
\* it, however these interleave and even if the bind after the eviction fails.
THEOREM LossesAreTold == Spec => LossIsTold
<1>1. TypeInv /\ DataInv /\ [Next]_vars =>
         [/\ \A s \in Sessions :
                Loses(s) => \A q \in Asking(s) : fut'[q] = "failed" \/ q \in Doomed'
          /\ \A q \in Doomed : q \in Doomed' \/ fut'[q] # "pending"]_vars
  <2> SUFFICES ASSUME TypeInv, DataInv, [Next]_vars
               PROVE  \/ UNCHANGED vars
                      \/ /\ \A s \in Sessions :
                               Loses(s) => \A q \in Asking(s) : fut'[q] = "failed" \/ q \in Doomed'
                         /\ \A q \in Doomed : q \in Doomed' \/ fut'[q] # "pending"
    OBVIOUS
  <2>0. TypeOK
    BY DEF TypeInv
  <2>1. CASE \E s \in Sessions : SessionStep(s) \/ ClientStep(s)
    BY <2>1, SessionTells
  <2>2. ASSUME NEW q \in Publics, PublicStep(q) \/ UserStep(q)
        PROVE  ses' = ses /\ \A s \in Sessions : pc'[s] = pc[s]
    BY <2>0, <2>2, PublicDataFrame DEF PublicFrame
  <2>3. ASSUME NEW t \in Tunnels, TunnelStep(t) \/ TunnelConnect(t)
        PROVE  ses' = ses /\ \A s \in Sessions : pc'[s] = pc[s]
    BY <2>3, <2>0, KindsAssumption DEF TunnelStep, TunnelConnect, TunnelPair, TunnelReject, Goto,
       maps, data, TypeOK, Handlers
  <2> QED
    BY <2>1, <2>2, <2>3, OthersKeep DEF Next, Idle
<1> QED
  BY <1>1, DataHolds, PTL DEF Spec, LossIsTold

\* set_result happens once for each pending tunnel: two data connections that
\* claim the same id, in whatever order and however late, are never both taken.
THEOREM PairedOnce == Spec => []OneTunnelPerClaim
<1>1. TypeInv /\ DataInv => OneTunnelPerClaim
  BY DEF DataInv
<1> QED
  BY <1>1, DataHolds, PTL

-----------------------------------------------------------------------------
(* The queue of the lock.                                                  *)

\* Whatever a handler does with the lock, the one that has it keeps it unless
\* it is the handler itself.
LEMMA LockMoves ==
    ASSUME lockq \in Seq(Handlers), NEW h \in Handlers,
           UNCHANGED lockq \/ Queue(h) \/ (HasLock(h) /\ (Release \/ Requeue(h)))
    PROVE  /\ \A o \in Handlers \ {h} : HasLock(o) => HasLock(o)'
           /\ (UNCHANGED lockq \/ Queue(h)) /\ HasLock(h) => HasLock(h)'
<1>1. CASE UNCHANGED lockq
  BY <1>1 DEF HasLock
<1>2. CASE Queue(h)
  BY <1>2 DEF HasLock, Queue
<1>3. CASE HasLock(h) /\ (Release \/ Requeue(h))
  <2>1. \A o \in Handlers \ {h} : ~HasLock(o)
    BY <1>3 DEF HasLock
  <2>2. Queue(h) => Head(lockq') = h
    BY <1>3 DEF HasLock, Queue
  <2>3. UNCHANGED lockq => HasLock(h)'
    BY <1>3 DEF HasLock
  <2>4. Queue(h) => lockq' # <<>>
    BY DEF Queue
  <2> QED
    BY <2>1, <2>2, <2>3, <2>4 DEF HasLock
<1> QED
  BY <1>1, <1>2, <1>3

LEMMA SessionLock ==
    ASSUME TypeOK, NEW s \in Sessions, SessionStep(s) \/ ClientStep(s)
    PROVE  UNCHANGED lockq \/ Queue(s) \/ (HasLock(s) /\ (Release \/ Requeue(s)))
<1>1. CASE Join(s) \/ NextRejected(s) \/ NextPool(s) \/ NextRegular(s) \/ NextDone(s)
  BY <1>1 DEF Join, NextRejected, NextPool, NextRegular, NextDone
<1>2. CASE RegularListen(s) \/ RegularRefused(s) \/ RegularInsert(s)
             \/ RegularDuplicate(s) \/ RegularReject(s)
  BY <1>2 DEF RegularListen, RegularRefused, RegularInsert, RegularDuplicate, RegularReject
<1>3. CASE PoolListen(s) \/ PoolRefused(s) \/ PoolInsert(s) \/ PoolUnavailable(s)
  BY <1>3 DEF PoolListen, PoolRefused, PoolInsert, PoolUnavailable, Exhausted
<1>4. CASE Evict(s) \/ Evicted(s) \/ RebindFailed(s) \/ NotifyVictim(s)
  BY <1>4 DEF Evict, Evicted, RebindFailed, NotifyVictim, Exhausted
<1>5. CASE RollbackNext(s) \/ Drop(s) \/ Dropped(s) \/ AskForce(s) \/ ReportError(s)
  BY <1>5 DEF RollbackNext, Drop, Dropped, AskForce, ReportError
<1>6. CASE RemoveClient(s) \/ FinishLeave(s)
  BY <1>6 DEF RemoveClient, FinishLeave
<1>7. CASE ClientStep(s)
  BY <1>7 DEF ClientStep, Connect, Register, RefuseHandshake, Retry, Decline, Depart, End
<1> QED
  BY <1>1, <1>2, <1>3, <1>4, <1>5, <1>6, <1>7 DEF SessionStep

InQueue == {lockq[i] : i \in DOMAIN lockq}

Ahead ==
    {gh \in Handlers \X Handlers :
        \A i \in DOMAIN lockq :
           lockq[i] = gh[2] => \E j \in DOMAIN lockq : j < i /\ lockq[j] = gh[1]}

\* The queue, read at a place.
LEMMA QueueFacts ==
    ASSUME lockq \in Seq(Handlers)
    PROVE  /\ Len(lockq) \in Nat /\ DOMAIN lockq = 1 .. Len(lockq)
           /\ \A i \in 1 .. Len(lockq) : lockq[i] \in Handlers
  OBVIOUS

LEMMA AppendFacts ==
    ASSUME NEW w \in Seq(Handlers), NEW h \in Handlers
    PROVE  /\ DOMAIN Append(w, h) = 1 .. (Len(w) + 1) /\ Append(w, h)[Len(w) + 1] = h
           /\ \A i \in 1 .. Len(w) : Append(w, h)[i] = w[i]
  OBVIOUS

LEMMA TailFacts ==
    ASSUME NEW w \in Seq(Handlers), w # << >>
    PROVE  /\ Len(w) \in Nat \ {0} /\ w[1] = Head(w) /\ DOMAIN w = 1 .. Len(w)
           /\ Tail(w) \in Seq(Handlers) /\ Len(Tail(w)) = Len(w) - 1
           /\ DOMAIN Tail(w) = 1 .. (Len(w) - 1)
           /\ \A i \in 1 .. (Len(w) - 1) : Tail(w)[i] = w[i + 1]
  OBVIOUS

\* What a handler's use of the lock does to the order of the queue.
LEMMA QueueMoves ==
    ASSUME lockq \in Seq(Handlers), NEW h \in Handlers,
           UNCHANGED lockq \/ Queue(h) \/ (HasLock(h) /\ (Release \/ Requeue(h)))
    PROVE  /\ \A g \in Handlers \ {h} : (g \in InQueue') <=> (g \in InQueue)
           /\ \A g, k \in Handlers \ {h} : <<g, k>> \in Ahead => <<g, k>> \in Ahead'
           /\ Queue(h) => h \in InQueue'
           /\ \A g \in Handlers \ {h} :
                 Queue(h) /\ g \in InQueue /\ h \notin InQueue => <<g, h>> \in Ahead'
<1>1. CASE UNCHANGED lockq /\ ~Queue(h)
  BY <1>1 DEF InQueue, Ahead
<1>2. CASE Queue(h)
  <2> DEFINE n == Len(lockq)
  <2>1. /\ n \in Nat /\ DOMAIN lockq = 1 .. n /\ DOMAIN lockq' = 1 .. (n + 1)
        /\ lockq'[n + 1] = h /\ \A i \in 1 .. n : lockq'[i] = lockq[i]
    BY <1>2, QueueFacts, AppendFacts DEF Queue
  <2> HIDE DEF n
  <2>2. ASSUME NEW g \in Handlers \ {h} PROVE (g \in InQueue') <=> (g \in InQueue)
    BY <2>1, <2>2 DEF InQueue
  <2>3. ASSUME NEW g \in Handlers \ {h}, NEW k \in Handlers \ {h}, <<g, k>> \in Ahead
        PROVE  <<g, k>> \in Ahead'
    <3> SUFFICES ASSUME NEW i \in DOMAIN lockq', lockq'[i] = k
                 PROVE  \E j \in DOMAIN lockq' : j < i /\ lockq'[j] = g
      BY DEF Ahead
    <3>1. i \in 1 .. n /\ lockq[i] = k
      BY <2>1, <2>3
    <3>2. PICK j \in 1 .. n : j < i /\ lockq[j] = g
      BY <2>1, <2>3, <3>1 DEF Ahead
    <3> QED
      BY <2>1, <3>2
  <2>4. h \in InQueue'
    <3>1. n + 1 \in DOMAIN lockq'
      BY <2>1
    <3> QED
      BY <2>1, <3>1 DEF InQueue
  <2>5. ASSUME NEW g \in Handlers \ {h}, g \in InQueue, h \notin InQueue
        PROVE  <<g, h>> \in Ahead'
    <3>1. PICK j \in 1 .. n : lockq[j] = g
      BY <2>1, <2>5 DEF InQueue
    <3>2. \A i \in DOMAIN lockq' : lockq'[i] = h => i = n + 1
      BY <2>1, <2>5 DEF InQueue
    <3>3. j \in DOMAIN lockq' /\ j < n + 1 /\ lockq'[j] = g
      BY <2>1, <3>1
    <3> QED
      BY <3>2, <3>3 DEF Ahead
  <2> QED
    BY <2>2, <2>3, <2>4, <2>5
<1>3. CASE HasLock(h) /\ (Release \/ Requeue(h)) /\ ~Queue(h)
  <2> DEFINE n == Len(lockq)
             w == Tail(lockq)
  <2>1. /\ n \in Nat \ {0} /\ DOMAIN lockq = 1 .. n /\ lockq[1] = h
        /\ w \in Seq(Handlers) /\ Len(w) = n - 1 /\ DOMAIN w = 1 .. (n - 1)
        /\ \A i \in 1 .. (n - 1) : w[i] = lockq[i + 1]
    BY <1>3, TailFacts DEF HasLock
  <2>2. \/ lockq' = w
        \/ lockq' = Append(w, h)
    BY <1>3 DEF Release, Requeue
  <2> HIDE DEF n, w
  <2>3. /\ DOMAIN lockq' = 1 .. (n - 1) \/ (DOMAIN lockq' = 1 .. n /\ lockq'[n] = h)
        /\ \A i \in 1 .. (n - 1) : lockq'[i] = lockq[i + 1]
    <3>1. CASE lockq' = w
      BY <2>1, <3>1
    <3>2. CASE lockq' = Append(w, h)
      BY <2>1, <3>2, AppendFacts
    <3> QED
      BY <2>2, <3>1, <3>2
  <2>4. ASSUME NEW g \in Handlers \ {h} PROVE (g \in InQueue') <=> (g \in InQueue)
    <3>1. ASSUME g \in InQueue PROVE g \in InQueue'
      <4>1. PICK i \in 1 .. n : lockq[i] = g
        BY <2>1, <3>1 DEF InQueue
      <4>2. i - 1 \in 1 .. (n - 1) /\ (i - 1) + 1 = i /\ i - 1 \in DOMAIN lockq'
        BY <2>1, <2>3, <2>4, <4>1
      <4>3. lockq'[i - 1] = g
        BY <2>3, <4>1, <4>2
      <4> QED
        BY <4>2, <4>3 DEF InQueue
    <3>2. ASSUME g \in InQueue' PROVE g \in InQueue
      <4>1. PICK i \in DOMAIN lockq' : lockq'[i] = g
        BY <3>2 DEF InQueue
      <4>2. i \in 1 .. (n - 1)
        BY <2>1, <2>3, <2>4, <4>1
      <4>3. i + 1 \in DOMAIN lockq /\ lockq[i + 1] = g
        BY <2>1, <2>3, <4>1, <4>2
      <4> QED
        BY <4>3 DEF InQueue
    <3> QED
      BY <3>1, <3>2
  <2>5. ASSUME NEW g \in Handlers \ {h}, NEW k \in Handlers \ {h}, <<g, k>> \in Ahead
        PROVE  <<g, k>> \in Ahead'
    <3> SUFFICES ASSUME NEW i \in DOMAIN lockq', lockq'[i] = k
                 PROVE  \E j \in DOMAIN lockq' : j < i /\ lockq'[j] = g
      BY DEF Ahead
    <3>1. i \in 1 .. (n - 1)
      BY <2>1, <2>3, <2>5
    <3>2. i + 1 \in DOMAIN lockq /\ lockq[i + 1] = k
      BY <2>1, <2>3, <3>1
    <3>3. PICK j \in DOMAIN lockq : j < i + 1 /\ lockq[j] = g
      BY <2>5, <3>2 DEF Ahead
    <3>4. j # 1
      BY <2>1, <2>5, <3>3
    <3>5. j - 1 \in 1 .. (n - 1) /\ (j - 1) + 1 = j /\ j - 1 < i /\ j - 1 \in DOMAIN lockq'
      <4>1. j \in 1 .. n /\ i \in 1 .. (n - 1) /\ n \in Nat /\ j < i + 1 /\ j # 1
        BY <2>1, <3>1, <3>3, <3>4
      <4>2. j - 1 \in 1 .. (n - 1) /\ (j - 1) + 1 = j /\ j - 1 < i
        BY ONLY <4>1
      <4>3. j - 1 \in 1 .. n
        BY ONLY <4>1
      <4> QED
        BY <2>3, <4>2, <4>3
    <3>6. lockq'[j - 1] = g
      BY <2>3, <3>3, <3>5
    <3> QED
      BY <3>5, <3>6
  <2> QED
    BY <1>3, <2>4, <2>5
<1> QED
  BY <1>1, <1>2, <1>3

\* Nobody is ahead of the handler that has the lock.
LEMMA NoneAhead ==
    ASSUME lockq \in Seq(Handlers), NEW g, NEW h, HasLock(h), <<g, h>> \in Ahead
    PROVE  FALSE
<1>1. 1 \in DOMAIN lockq /\ lockq[1] = h /\ \A j \in DOMAIN lockq : ~(j < 1)
  BY QueueFacts, TailFacts DEF HasLock
<1> QED
  BY <1>1 DEF Ahead

-----------------------------------------------------------------------------
(* Tunnels that were accepted.                                             *)

\* A handler whose open message was never written removes its pending tunnel
\* before any tunnel can look it up: the tunnels that claim it queue later.
QueueOrder ==
    /\ \A q \in Publics : pc[q] = "finally" => q \in InQueue
    /\ \A t \in Tunnels : pc[t] = "none" => t \notin InQueue
    /\ \A t \in Tunnels :
          pc[t] = "lookup" /\ pc[claim[t].id] = "finally" /\ fut[claim[t].id] = "pending" =>
             <<claim[t].id, t>> \in Ahead

HeldInv == QueueOrder /\ NoStrandedTunnel

LEMMA SessionHeld ==
    ASSUME TypeOK, DataInv, HeldInv, NEW s \in Sessions, SessionStep(s) \/ ClientStep(s)
    PROVE  HeldInv'
<1>0. /\ lockq \in Seq(Handlers) /\ s \in Handlers
      /\ \A q \in Publics : q \in Handlers \ {s}
      /\ \A t \in Tunnels : t \in Handlers \ {s} /\ (claim[t] # None => claim[t].id \in Publics)
  BY KindsAssumption DEF TypeOK, Handlers, Claim
<1>1. /\ claim' = claim /\ \A h \in Handlers \ {s} : pc'[h] = pc[h]
      /\ \A q \in Publics : fut'[q] # fut[q] => fut[q] = "pending" /\ fut'[q] = "failed"
  BY SessionFrame, SessionDataFrame DEF DataFrame, DataInv
<1>2. UNCHANGED lockq \/ Queue(s) \/ (HasLock(s) /\ (Release \/ Requeue(s)))
  BY SessionLock
<1>3. /\ \A g \in Handlers \ {s} : (g \in InQueue') <=> (g \in InQueue)
      /\ \A g, k \in Handlers \ {s} : <<g, k>> \in Ahead => <<g, k>> \in Ahead'
  BY <1>0, <1>2, QueueMoves
<1>4. ASSUME NEW t \in Tunnels, pc'[t] = "lookup", pc'[claim'[t].id] = "finally",
             fut'[claim'[t].id] = "pending"
      PROVE  <<claim'[t].id, t>> \in Ahead'
  <2>1. pc[t] = "lookup" /\ claim[t] # None /\ claim[t].id \in Publics
    BY <1>0, <1>1, <1>4 DEF DataInv, Claimed
  <2>2. pc[claim[t].id] = "finally" /\ fut[claim[t].id] = "pending"
    BY <1>0, <1>1, <1>4, <2>1
  <2>3. <<claim[t].id, t>> \in Ahead
    BY <2>1, <2>2 DEF HeldInv, QueueOrder
  <2>4. \A g \in Handlers \ {s} : <<g, t>> \in Ahead => <<g, t>> \in Ahead'
    BY <1>0, <1>3
  <2> DEFINE q == claim[t].id
  <2>5. q \in Handlers \ {s} /\ <<q, t>> \in Ahead /\ claim'[t].id = q
    BY <1>0, <1>1, <2>1, <2>3
  <2> HIDE DEF q
  <2>6. <<q, t>> \in Ahead'
    BY <2>4, <2>5
  <2> QED
    BY <2>5, <2>6
<1>5. QueueOrder'
  <2>1. \A q \in Publics : pc'[q] = "finally" => q \in InQueue'
    BY <1>0, <1>1, <1>3 DEF HeldInv, QueueOrder
  <2>2. \A t \in Tunnels : pc'[t] = "none" => t \notin InQueue'
    BY <1>0, <1>1, <1>3 DEF HeldInv, QueueOrder
  <2> QED
    BY <1>4, <2>1, <2>2 DEF QueueOrder
<1>6. NoStrandedTunnel'
  <2> SUFFICES ASSUME NEW t \in Tunnels, pc'[t] = "paired"
               PROVE  fut'[claim'[t].id] = t /\ pc'[claim'[t].id] \in {"wait", "relay"}
    BY DEF NoStrandedTunnel
  <2>1. pc[t] = "paired" /\ claim[t] # None /\ claim[t].id \in Publics
    BY <1>0, <1>1 DEF DataInv, Claimed
  <2>2. fut[claim[t].id] = t /\ pc[claim[t].id] \in {"wait", "relay"}
    BY <2>1 DEF HeldInv, NoStrandedTunnel
  <2> QED
    BY <1>0, <1>1, <2>1, <2>2, FutureAssumption
<1> QED
  BY <1>5, <1>6 DEF HeldInv

\* What a step of a public handler or its user does to its own tunnel, when
\* wait_for loses no result.
LEMMA OwnTunnel ==
    ASSUME TypeOK, DataInv, ~Py312, NEW q \in Publics, PublicStep(q) \/ UserStep(q)
    PROVE  /\ UNCHANGED lockq \/ Queue(q) \/ (HasLock(q) /\ (Release \/ Requeue(q)))
           /\ pc'[q] = "finally" => Queue(q) \/ (UNCHANGED lockq /\ pc[q] = "finally")
           /\ pc'[q] = "finally" /\ fut'[q] = "pending" =>
                 \/ pc[q] = "send"
                 \/ pc[q] = "finally" /\ fut[q] = "pending" /\ UNCHANGED lockq
           /\ pc[q] \in {"wait", "relay"} /\ fut[q] \in Tunnels =>
                 /\ fut'[q] = fut[q]
                 /\ pc'[q] \in {"wait", "relay"} \/ pc'[fut[q]] = "closed"
<1>0. /\ pc \in [Handlers -> SessionPC \cup PublicPC \cup TunnelPC] /\ q \in Handlers
      /\ fut \in [Publics -> Tunnels \cup {"unset", "pending", "failed", "cancelled"}]
      /\ \A t \in Tunnels : t \in Handlers /\ t # q
  BY KindsAssumption DEF TypeOK, Handlers
<1>1. pc[q] = "relay" => fut[q] \in Tunnels
  BY DEF DataInv, RelayHasTunnel
<1> USE <1>0, <1>1, FutureAssumption DEF Goto, maps, data
<1>2. CASE PublicQueues(q)
  BY <1>2 DEF PublicQueues
<1>3. CASE PublicAccept(q)
  BY <1>3 DEF PublicAccept
<1>4. CASE PublicTurnAway(q)
  BY <1>4 DEF PublicTurnAway
<1>5. CASE PublicLookup(q)
  BY <1>5 DEF PublicLookup
<1>6. CASE PublicUnknown(q)
  BY <1>6 DEF PublicUnknown
<1>7. CASE PublicInsert(q)
  BY <1>7 DEF PublicInsert
<1>8. CASE SendOpen(q)
  BY <1>8 DEF SendOpen
<1>9. CASE SendFails(q)
  BY <1>9 DEF SendFails
<1>10. CASE StartRelay(q)
  BY <1>10 DEF StartRelay, Paired
<1>11. CASE OpenFailed(q)
  BY <1>11 DEF OpenFailed
<1>12. CASE OpenTimeout(q)
  BY <1>12 DEF OpenTimeout
<1>13. CASE OpenTimeoutLate(q)
  BY <1>13 DEF OpenTimeoutLate
<1>14. CASE PublicFinally(q)
  BY <1>14 DEF PublicFinally
<1>15. CASE PublicConnect(q)
  BY <1>15 DEF PublicConnect
<1>16. CASE RelayEnd(q)
  BY <1>16 DEF RelayEnd
<1>17. CASE PublicReset(q)
  BY <1>17 DEF PublicReset
<1> QED
  BY <1>2, <1>3, <1>4, <1>5, <1>6, <1>7, <1>8, <1>9, <1>10,
     <1>11, <1>12, <1>13, <1>14, <1>15, <1>16, <1>17 DEF PublicStep, UserStep

LEMMA PublicHeld ==
    ASSUME TypeOK, DataInv, HeldInv, ~Py312, NEW q \in Publics, PublicStep(q) \/ UserStep(q)
    PROVE  HeldInv'
<1>0. /\ lockq \in Seq(Handlers) /\ q \in Handlers
      /\ \A r \in Publics : r \in Handlers
      /\ \A t \in Tunnels : t \in Handlers \ {q} /\ (claim[t] # None => claim[t].id \in Publics)
  BY KindsAssumption DEF TypeOK, Handlers, Claim
<1>1. /\ claim' = claim
      /\ \A r \in Publics \ {q} : pc'[r] = pc[r] /\ fut'[r] = fut[r]
      /\ \A t \in Tunnels : pc'[t] = pc[t] \/ pc'[t] = "closed"
  BY PublicDataFrame DEF PublicFrame
<1>2. /\ UNCHANGED lockq \/ Queue(q) \/ (HasLock(q) /\ (Release \/ Requeue(q)))
      /\ pc'[q] = "finally" => Queue(q) \/ (UNCHANGED lockq /\ pc[q] = "finally")
      /\ pc'[q] = "finally" /\ fut'[q] = "pending" =>
            \/ pc[q] = "send"
            \/ pc[q] = "finally" /\ fut[q] = "pending" /\ UNCHANGED lockq
      /\ pc[q] \in {"wait", "relay"} /\ fut[q] \in Tunnels =>
            /\ fut'[q] = fut[q]
            /\ pc'[q] \in {"wait", "relay"} \/ pc'[fut[q]] = "closed"
  BY OwnTunnel
<1>3. /\ \A g \in Handlers \ {q} : (g \in InQueue') <=> (g \in InQueue)
      /\ \A g, k \in Handlers \ {q} : <<g, k>> \in Ahead => <<g, k>> \in Ahead'
      /\ Queue(q) => q \in InQueue'
  BY <1>0, <1>2, QueueMoves
<1>4. ASSUME NEW t \in Tunnels, pc'[t] = "lookup", pc'[claim'[t].id] = "finally",
             fut'[claim'[t].id] = "pending"
      PROVE  <<claim'[t].id, t>> \in Ahead'
  <2> DEFINE r == claim[t].id
  <2>1. /\ pc[t] = "lookup" /\ r \in Publics /\ claim'[t].id = r
        /\ pc[r] \in {"wait", "relay", "finally", "done"}
    BY <1>0, <1>1, <1>4 DEF DataInv, Claimed
  <2>2. pc'[r] = "finally" /\ fut'[r] = "pending"
    BY <1>4, <2>1
  <2>3. pc[r] = "finally" /\ fut[r] = "pending" => <<r, t>> \in Ahead
    BY <2>1 DEF HeldInv, QueueOrder
  <2>4. t \in Handlers \ {q} /\ r \in Handlers
    BY <1>0, <2>1
  <2> HIDE DEF r
  <2>5. CASE r = q
    <3>1. pc[r] = "finally" /\ fut[r] = "pending" /\ UNCHANGED lockq
      BY <1>2, <2>1, <2>2, <2>5
    <3>2. <<r, t>> \in Ahead'
      BY <2>3, <3>1 DEF Ahead
    <3> QED
      BY <2>1, <3>2
  <2>6. CASE r # q
    <3>1. <<r, t>> \in Ahead
      BY <1>1, <2>1, <2>2, <2>3, <2>6
    <3>2. <<r, t>> \in Ahead'
      BY <1>3, <2>4, <2>6, <3>1
    <3> QED
      BY <2>1, <3>2
  <2> QED
    BY <2>5, <2>6
<1>5. QueueOrder'
  <2>1. ASSUME NEW r \in Publics, pc'[r] = "finally" PROVE r \in InQueue'
    <3>1. CASE r = q
      <4>1. pc[q] = "finally" => q \in InQueue
        BY DEF HeldInv, QueueOrder
      <4>2. UNCHANGED lockq => ((q \in InQueue') <=> (q \in InQueue))
        BY DEF InQueue
      <4> QED
        BY <1>2, <1>3, <2>1, <3>1, <4>1, <4>2
    <3>2. CASE r # q
      BY <1>0, <1>1, <1>3, <2>1, <3>2 DEF HeldInv, QueueOrder
    <3> QED
      BY <3>1, <3>2
  <2>2. \A t \in Tunnels : pc'[t] = "none" => t \notin InQueue'
    BY <1>0, <1>1, <1>3 DEF HeldInv, QueueOrder
  <2> QED
    BY <1>4, <2>1, <2>2 DEF QueueOrder
<1>6. NoStrandedTunnel'
  <2> SUFFICES ASSUME NEW t \in Tunnels, pc'[t] = "paired"
               PROVE  fut'[claim'[t].id] = t /\ pc'[claim'[t].id] \in {"wait", "relay"}
    BY DEF NoStrandedTunnel
  <2>1. pc[t] = "paired" /\ claim'[t].id = claim[t].id /\ claim[t].id \in Publics
    BY <1>0, <1>1 DEF DataInv, Claimed
  <2>2. fut[claim[t].id] = t /\ pc[claim[t].id] \in {"wait", "relay"}
    BY <2>1 DEF HeldInv, NoStrandedTunnel
  <2> QED
    BY <1>1, <1>2, <2>1, <2>2
<1> QED
  BY <1>5, <1>6 DEF HeldInv

LEMMA TunnelHeld ==
    ASSUME TypeOK, DataInv, HeldInv, NEW t \in Tunnels, TunnelStep(t) \/ TunnelConnect(t)
    PROVE  HeldInv'
<1>0. /\ lockq \in Seq(Handlers) /\ t \in Handlers
      /\ \A q \in Publics : q \in Handlers \ {t}
      /\ \A u \in Tunnels : u \in Handlers
      /\ \A u \in Tunnels : claim[u] # None => claim[u].id \in Publics
      /\ pc \in [Handlers -> SessionPC \cup PublicPC \cup TunnelPC]
      /\ fut \in [Publics -> Tunnels \cup {"unset", "pending", "failed", "cancelled"}]
      /\ claim \in [Tunnels -> Claim \cup {None}]
  BY KindsAssumption DEF TypeOK, Handlers, Claim
<1>1. UNCHANGED lockq \/ Queue(t) \/ (HasLock(t) /\ (Release \/ Requeue(t)))
  BY DEF TunnelStep, TunnelConnect, TunnelPair, TunnelReject
<1>2. /\ \A g \in Handlers \ {t} : (g \in InQueue') <=> (g \in InQueue)
      /\ \A g, k \in Handlers \ {t} : <<g, k>> \in Ahead => <<g, k>> \in Ahead'
      /\ \A g \in Handlers \ {t} : Queue(t) /\ g \in InQueue /\ t \notin InQueue => <<g, t>> \in Ahead'
  BY <1>0, <1>1, QueueMoves
<1>3. /\ \A h \in Handlers \ {t} : pc'[h] = pc[h]
      /\ \A u \in Tunnels \ {t} : claim'[u] = claim[u]
      /\ pc'[t] # "none"
  BY <1>0 DEF TunnelStep, TunnelConnect, TunnelPair, TunnelReject, Goto, data
<1>4. \/ fut' = fut /\ pc'[t] # "paired"
      \/ /\ fut[claim[t].id] = "pending" /\ fut' = [fut EXCEPT ![claim[t].id] = t]
         /\ pc[claim[t].id] = "wait" /\ pc'[t] = "paired" /\ claim' = claim
         /\ claim[t].id \in Publics
  <2>1. CASE TunnelPair(t)
    <3> DEFINE q == claim[t].id
    <3>1. q \in Publics /\ pc[q] \in {"wait", "relay", "finally", "done"}
      BY <1>0, <2>1 DEF TunnelPair, DataInv, Claimed
    <3>2. fut[q] = "pending" /\ q \in pending /\ pc[t] = "lookup" /\ HasLock(t)
      BY <2>1 DEF TunnelPair, Acceptable
    <3>3. pc[q] \in {"wait", "finally"}
      BY <3>1, <3>2, FutureAssumption DEF DataInv, PendingHasHandler, RelayHasTunnel
    <3>4. pc[q] # "finally"
      <4>1. pc[q] = "finally" => <<q, t>> \in Ahead
        BY <3>1, <3>2 DEF HeldInv, QueueOrder
      <4> HIDE DEF q
      <4> QED
        BY <1>0, <3>2, <4>1, NoneAhead
    <3> QED
      BY <1>0, <2>1, <3>1, <3>2, <3>3, <3>4 DEF TunnelPair, Goto
  <2>2. CASE TunnelReject(t) \/ TunnelConnect(t)
    BY <1>0, <2>2 DEF TunnelReject, TunnelConnect, Goto, data
  <2> QED
    BY <2>1, <2>2 DEF TunnelStep
<1>5. \A q \in Publics : fut'[q] = "pending" => fut[q] = "pending"
  BY <1>0, <1>4, FutureAssumption
<1>6. ASSUME NEW u \in Tunnels, pc'[u] = "lookup", pc'[claim'[u].id] = "finally",
             fut'[claim'[u].id] = "pending"
      PROVE  <<claim'[u].id, u>> \in Ahead'
  <2>1. CASE u = t
    <3>1. TunnelConnect(t)
      BY <1>0, <1>6, <2>1 DEF TunnelStep, TunnelPair, TunnelReject, Goto
    <3>2. PICK q \in Publics, ok \in BOOLEAN :
             /\ pc[q] \in {"wait", "relay", "finally", "done"}
             /\ claim' = [claim EXCEPT ![t] = [id |-> q, ok |-> ok]]
      BY <3>1 DEF TunnelConnect
    <3>3. claim'[t].id = q
      BY <1>0, <3>2
    <3>4. q \in InQueue /\ t \notin InQueue /\ Queue(t)
      BY <1>0, <1>3, <1>6, <2>1, <3>1, <3>3 DEF HeldInv, QueueOrder, TunnelConnect
    <3>5. <<q, t>> \in Ahead'
      BY <1>0, <1>2, <3>4
    <3> QED
      BY <2>1, <3>3, <3>5
  <2>2. CASE u # t
    <3> DEFINE q == claim[u].id
    <3>1. u \in Handlers \ {t} /\ pc[u] = "lookup" /\ claim'[u].id = q /\ q \in Publics
      BY <1>0, <1>3, <1>6, <2>2 DEF DataInv, Claimed
    <3>2. pc[q] = "finally" /\ fut[q] = "pending"
      BY <1>0, <1>3, <1>5, <1>6, <3>1
    <3>3. <<q, u>> \in Ahead
      BY <3>1, <3>2 DEF HeldInv, QueueOrder
    <3>4. q \in Handlers \ {t}
      BY <1>0, <3>1
    <3> HIDE DEF q
    <3>5. <<q, u>> \in Ahead'
      BY <1>2, <3>1, <3>3, <3>4
    <3> QED
      BY <3>1, <3>5
  <2> QED
    BY <2>1, <2>2
<1>7. QueueOrder'
  <2>1. \A q \in Publics : pc'[q] = "finally" => q \in InQueue'
    BY <1>0, <1>2, <1>3 DEF HeldInv, QueueOrder
  <2>2. \A u \in Tunnels : pc'[u] = "none" => u \notin InQueue'
    BY <1>0, <1>2, <1>3 DEF HeldInv, QueueOrder
  <2> QED
    BY <1>6, <2>1, <2>2 DEF QueueOrder
<1>8. NoStrandedTunnel'
  <2> SUFFICES ASSUME NEW u \in Tunnels, pc'[u] = "paired"
               PROVE  fut'[claim'[u].id] = u /\ pc'[claim'[u].id] \in {"wait", "relay"}
    BY DEF NoStrandedTunnel
  <2>1. CASE u = t
    BY <1>0, <1>3, <1>4, <2>1
  <2>2. CASE u # t
    <3>1. pc[u] = "paired" /\ claim'[u].id = claim[u].id /\ claim[u].id \in Publics
      BY <1>0, <1>3, <2>2 DEF DataInv, Claimed
    <3>2. fut[claim[u].id] = u /\ pc[claim[u].id] \in {"wait", "relay"}
      BY <3>1 DEF HeldInv, NoStrandedTunnel
    <3>3. fut'[claim[u].id] = u
      BY <1>0, <1>4, <3>1, <3>2, FutureAssumption
    <3> QED
      BY <1>0, <1>3, <3>1, <3>2, <3>3
  <2> QED
    BY <2>1, <2>2
<1> QED
  BY <1>7, <1>8 DEF HeldInv

\* A tunnel the server has accepted is held by the handler it claimed, which
\* closes it in the end, if wait_for does not lose a result (before Python
\* 3.12): no tunnel is accepted for a handler that has given up
\* (_handle_tunnel, _handle_public).
THEOREM AcceptedTunnelsAreHeld ==
    ASSUME ~Py312
    PROVE  Spec => []NoStrandedTunnel
<1>1. Init => HeldInv
  BY DEF Init, Handlers, HeldInv, QueueOrder, NoStrandedTunnel, InQueue
<1>2. TypeInv /\ DataInv /\ HeldInv /\ [Next]_vars => HeldInv'
  <2> SUFFICES ASSUME TypeInv, DataInv, HeldInv, [Next]_vars PROVE HeldInv'
    OBVIOUS
  <2>0. TypeOK
    BY DEF TypeInv
  <2>1. CASE UNCHANGED vars
    BY <2>1 DEF vars, maps, data, HeldInv, QueueOrder, NoStrandedTunnel, InQueue, Ahead
  <2> QED
    BY <2>0, <2>1, SessionHeld, PublicHeld, TunnelHeld DEF Next, Idle
<1>3. HeldInv => NoStrandedTunnel
  BY DEF HeldInv
<1> QED
  BY <1>1, <1>2, <1>3, DataHolds, PTL DEF Spec

=============================================================================
