--------------------------- MODULE ControlProofs ---------------------------
(***************************************************************************)
(* Proofs about the control plane of Server for every value of its         *)
(* constants: the lock, the ledger of services and listeners, the priority *)
(* rule, the implementation of PoolAllocation, and whose public            *)
(* connections a client is handed.                                         *)
(***************************************************************************)
EXTENDS TunnelProofs

-----------------------------------------------------------------------------
(* What the theorems assume of a server's configuration and its clients.   *)

\* The command line makes a server with a pool and nothing else
\* (_configless_server_config), and no configuration file has a pool.
OneMode == PoolPorts # {} => DOMAIN Configured = {} /\ ~AllowDynamic

\* No registration asks for two pool services.
OnePoolEach ==
    \A req \in Requests : \A i, j \in DOMAIN req :
       IsPool(req[i]) /\ IsPool(req[j]) => i = j

-----------------------------------------------------------------------------
(* The lock.                                                               *)

\* A session that awaits something inside a locked section.
Keeps(s) ==
    \/ pc[s] \in {"bound", "evict", "duplicate"}
    \/ pc[s] = "bind" /\ (ses[s].victim # None \/ ses[s].tried # {})

LockKept == \A s \in Sessions : Keeps(s) => HasLock(s)

-----------------------------------------------------------------------------
(* What a session's own locals say.                                        *)

\* In a pool server a service has its session's name; there are no regular
\* registrations there, and no pool registrations elsewhere.
Named(s) ==
    /\ PoolPorts # {} =>
          /\ pc[s] \notin {"listen", "insert", "duplicate"}
          /\ \A i \in DOMAIN ses[s].made : ses[s].made[i].name = s
          /\ pc[s] = "bound" => ses[s].binding.name = s /\ ses[s].binding.port \in PoolPorts
    /\ PoolPorts = {} => pc[s] \notin {"bind", "bound", "evict", "notify"}

\* Where nothing has been registered, and where no error has been raised.
Fresh(s) ==
    /\ pc[s] \in {"none", "join", "greeted", "ask", "gone"} => ses[s].made = <<>>
    /\ pc[s] = "leave" /\ ses[s].fault # "none" => ses[s].made = <<>>
    /\ pc[s] \notin {"notify", "rollback", "drop", "dropping", "leave", "closing"} =>
          ses[s].fault = "none"

\* One pool service, made or still to do.
Single(s) ==
    /\ \A i, j \in DOMAIN ses[s].todo :
          IsPool(ses[s].todo[i]) /\ IsPool(ses[s].todo[j]) => i = j
    /\ PoolPorts # {} /\ ses[s].made # <<>> =>
          /\ Len(ses[s].made) = 1
          /\ \A i \in DOMAIN ses[s].todo : ~IsPool(ses[s].todo[i])
    /\ pc[s] \in {"bind", "bound", "evict"} => IsPool(Head(ses[s].todo))

-----------------------------------------------------------------------------
(* The ledger.                                                             *)

PoolEntries ==
    PoolPorts # {} =>
       \A n \in Registered :
          n \in Sessions /\ services[n].client = n /\ services[n].pool
            /\ services[n].port \in PoolPorts

PortsApart == \A l, m \in listening : l.port = m.port => l = m

\* What a session made is in the map.
Kept(s) ==
    \A i \in DOMAIN ses[s].made :
       LET l == ses[s].made[i] IN l.name \in Registered /\ ListenerOf(l.name) = l

\* Without a pool only the session itself takes out what it made.
RegularKept ==
    PoolPorts = {} =>
       \A s \in Sessions :
          /\ pc[s] # "closing" => Kept(s)
          /\ \A i, j \in DOMAIN ses[s].made : ses[s].made[i].name = ses[s].made[j].name => i = j

\* What is in the map was made by a session that has not left.
MadeByOwner ==
    \A n \in Registered :
       LET c == services[n].client IN
       /\ pc[c] # "closing"
       /\ \E i \in DOMAIN ses[c].made : ses[c].made[i] = ListenerOf(n)

\* An open listener is in the map or about to be put there or closed.
Accounted ==
    \A l \in listening :
       \/ l.name \in Registered /\ ListenerOf(l.name) = l
       \/ pc[l.client] \in {"bound", "insert"} /\ ses[l.client].binding = l

\* In a pool server, what a session made is in the map unless it was evicted.
EvictedOrKept(s) ==
    PoolPorts # {} /\ pc[s] # "closing" =>
       Kept(s) \/ s \in hungup \/ \E r \in Sessions : Evicting(r, s)

-----------------------------------------------------------------------------
(* The pool.                                                               *)

\* In a pool server only another process refuses a port.
TriedBusy(s) == ses[s].tried \subseteq BusyPorts

LowerTaken(s) ==
    pc[s] = "bound" =>
       \A p \in PoolPorts : p < ses[s].binding.port => p \in UsedPorts \cup ses[s].tried

\* An eviction frees a port, and nobody takes it while the lock is kept.
PortFreed(s) ==
    pc[s] \in {"evict", "bind"} /\ ses[s].victim # None => \E p \in PoolPorts : p \notin UsedPorts

LedgerInv ==
    /\ TypeInv /\ DataInv /\ ListenInv /\ LockKept
    /\ \A s \in Sessions : Named(s) /\ Fresh(s)
    /\ PoolEntries /\ PortsApart /\ RegularKept

PoolInv ==
    /\ LedgerInv
    /\ \A s \in Sessions : Single(s) /\ EvictedOrKept(s) /\ TriedBusy(s) /\ LowerTaken(s)
                             /\ PortFreed(s)
    /\ MadeByOwner /\ Accounted /\ EvictionPays

-----------------------------------------------------------------------------
(* A session's own locals.                                                 *)

\* The types a step of a session starts from.
LEMMA SessionTyped ==
    ASSUME TypeOK, NEW s \in Sessions
    PROVE  /\ ses[s] \in Locals /\ ses \in [Sessions -> Locals] /\ s \in Handlers
           /\ pc \in [Handlers -> SessionPC \cup PublicPC \cup TunnelPC]
           /\ ses[s].todo \in Seq(Raw) /\ ses[s].made \in Seq(Listener)
  BY DEF TypeOK, Handlers, Locals

\* A regular registration goes on only in a server without a pool.
LEMMA RegularOnly ==
    ASSUME OneMode, NEW s \in Sessions, NextRegular(s)
    PROVE  PoolPorts = {}
  BY DEF OneMode, NextRegular, Rejection, IsPool, IsKnown

LEMMA OwnNamed ==
    ASSUME TypeOK, OneMode, NEW s \in Sessions, SessionPhase(s), Named(s),
           SessionStep(s) \/ ClientStep(s)
    PROVE  Named(s)'
<1> USE DEF Goto, Named
<1>0. /\ ses[s] \in Locals /\ ses \in [Sessions -> Locals] /\ s \in Handlers
      /\ pc \in [Handlers -> SessionPC \cup PublicPC \cup TunnelPC]
      /\ ses[s].todo \in Seq(Raw) /\ ses[s].made \in Seq(Listener)
  BY SessionTyped
<1>1. CASE Join(s) \/ NextDone(s) \/ RegularListen(s) \/ Evicted(s) \/ NotifyVictim(s)
             \/ RollbackNext(s) \/ Dropped(s) \/ ReportError(s)
  BY <1>0, <1>1 DEF Join, NextDone, RegularListen, Evicted, NotifyVictim, RollbackNext,
                    Dropped, ReportError
<1>2. CASE NextRejected(s) \/ RegularRefused(s) \/ RegularReject(s) \/ PoolUnavailable(s)
  <2>1. \E f : Raise(s, f)
    BY <1>2 DEF NextRejected, RegularRefused, RegularReject, PoolUnavailable
  <2>2. ses'[s].made = ses[s].made /\ pc'[s] = "rollback"
    BY <1>0, <2>1 DEF Raise, Locals
  <2> QED
    BY <2>2
<1>3. CASE NextPool(s)
  BY <1>0, <1>3 DEF NextPool, IsPool, Locals
<1>4. CASE NextRegular(s)
  BY <1>0, <1>4, RegularOnly DEF NextRegular, Locals
<1>5. CASE RegularInsert(s) \/ PoolInsert(s)
  <2>1. Store(s, TRUE) \/ Store(s, FALSE)
    BY <1>5 DEF RegularInsert, PoolInsert
  <2>2. ses'[s].made = Append(ses[s].made, ses[s].binding)
    BY <1>0, <2>1 DEF Store, Locals
  <2>3. ses[s].binding \in Listener
    BY <1>5 DEF RegularInsert, PoolInsert, SessionPhase
  <2>4. PoolPorts # {} => \A i \in DOMAIN ses'[s].made : ses'[s].made[i].name = s
    <3> SUFFICES ASSUME PoolPorts # {} PROVE \A i \in DOMAIN ses'[s].made : ses'[s].made[i].name = s
      OBVIOUS
    <3>1. ses[s].binding.name = s /\ \A i \in DOMAIN ses[s].made : ses[s].made[i].name = s
      BY <1>5 DEF RegularInsert, PoolInsert
    <3> QED
      BY <1>0, <2>2, <2>3, <3>1
  <2>5. pc'[s] \in {"next", "notify"} /\ (pc'[s] = "notify" => pc[s] = "bound")
    BY <1>0, <1>5 DEF RegularInsert, PoolInsert
  <2> QED
    BY <2>4, <2>5
<1>6. CASE RegularDuplicate(s)
  BY <1>0, <1>6 DEF RegularDuplicate, Locals
<1>7. CASE PoolListen(s)
  <2>1. PICK p \in PoolPorts :
           ses' = [ses EXCEPT ![s].binding = [port |-> p, client |-> s, name |-> s]]
    BY <1>7 DEF PoolListen, PoolName
  <2> QED
    BY <1>0, <1>7, <2>1 DEF PoolListen, Locals
<1>8. CASE PoolRefused(s)
  BY <1>0, <1>8 DEF PoolRefused, Locals
<1>9. CASE Evict(s)
  <2>1. PICK v \in Sessions :
           ses' = [ses EXCEPT ![s] = [ses[s] EXCEPT !.victim = v, !.doomed = PendingOf(v),
                      !.shut = {ListenerOf(m) : m \in OwnedBy(v)}, !.tried = {}]]
    BY <1>9, EvictWrites
  <2>2. ses'[s].made = ses[s].made
    BY <1>0, <2>1 DEF Locals
  <2>3. pc[s] = "bind" /\ pc'[s] = "evict"
    BY <1>0, <1>9 DEF Evict, Exhausted
  <2> QED
    BY <2>2, <2>3
<1>10. CASE RebindFailed(s)
  BY <1>0, <1>10 DEF RebindFailed, Exhausted, Locals
<1>11. CASE Drop(s)
  <2>1. ses'[s].made = Tail(ses[s].made) /\ pc'[s] = "dropping"
    BY <1>0, <1>11 DEF Drop, Locals
  <2>2. ses[s].made # <<>>
    BY <1>11 DEF Drop, SessionPhase
  <2>3. PoolPorts # {} => \A i \in DOMAIN ses'[s].made : ses'[s].made[i].name = s
    BY <1>0, <2>1, <2>2
  <2> QED
    BY <2>1, <2>3
<1>12. CASE AskForce(s)
  BY <1>0, <1>12 DEF AskForce, Locals
<1>13. CASE RemoveClient(s)
  BY <1>0, <1>13 DEF RemoveClient, Locals
<1>14. CASE FinishLeave(s)
  BY <1>0, <1>14 DEF FinishLeave, NoLocals, Locals
<1>15. CASE Connect(s)
  BY <1>0, <1>15 DEF Connect, Locals
<1>16. CASE Register(s) \/ Retry(s)
  <2>1. PICK req \in Requests, f \in BOOLEAN :
           ses' = [ses EXCEPT ![s] = [ses[s] EXCEPT !.todo = req, !.force = f]]
    BY <1>16, RegisterWrites
  <2>2. ses'[s].made = ses[s].made /\ pc'[s] = "next"
    BY <1>0, <1>16, <2>1 DEF Register, Retry, Locals
  <2> QED
    BY <2>2
<1>17. CASE RefuseHandshake(s) \/ Decline(s) \/ Depart(s)
  BY <1>0, <1>17 DEF RefuseHandshake, Decline, Depart, End
<1> QED
  BY <1>1, <1>2, <1>3, <1>4, <1>5, <1>6, <1>7, <1>8, <1>9, <1>10, <1>11, <1>12, <1>13,
     <1>14, <1>15, <1>16, <1>17 DEF SessionStep, ClientStep

LEMMA OwnFresh ==
    ASSUME TypeOK, NEW s \in Sessions, SessionPhase(s), Fresh(s),
           SessionStep(s) \/ ClientStep(s)
    PROVE  Fresh(s)'
<1> USE DEF Goto, Fresh
<1>0. /\ ses[s] \in Locals /\ ses \in [Sessions -> Locals] /\ s \in Handlers
      /\ pc \in [Handlers -> SessionPC \cup PublicPC \cup TunnelPC]
      /\ ses[s].todo \in Seq(Raw) /\ ses[s].made \in Seq(Listener)
  BY SessionTyped
<1>1. CASE Join(s) \/ NextDone(s) \/ RegularListen(s) \/ Evicted(s) \/ NotifyVictim(s)
             \/ RollbackNext(s) \/ Dropped(s) \/ ReportError(s)
  BY <1>0, <1>1 DEF Join, NextDone, RegularListen, Evicted, NotifyVictim, RollbackNext,
                    Dropped, ReportError, RolledBack
<1>2. CASE NextRejected(s) \/ RegularRefused(s) \/ RegularReject(s) \/ PoolUnavailable(s)
  BY <1>0, <1>2 DEF NextRejected, RegularRefused, RegularReject, PoolUnavailable, Raise, Locals
<1>3. CASE NextPool(s)
  BY <1>0, <1>3 DEF NextPool, Locals
<1>4. CASE NextRegular(s)
  BY <1>0, <1>4 DEF NextRegular, Locals
<1>5. CASE RegularInsert(s) \/ PoolInsert(s)
  <2>1. Store(s, TRUE) \/ Store(s, FALSE)
    BY <1>5 DEF RegularInsert, PoolInsert
  <2>2. ses'[s].fault = ses[s].fault
    BY <1>0, <2>1 DEF Store, Locals
  <2>3. pc'[s] \in {"next", "notify"} /\ ses[s].fault = "none"
    BY <1>0, <1>5 DEF RegularInsert, PoolInsert
  <2> QED
    BY <2>2, <2>3
<1>6. CASE RegularDuplicate(s)
  BY <1>0, <1>6 DEF RegularDuplicate, Locals
<1>7. CASE PoolListen(s)
  <2>1. PICK p \in PoolPorts :
           ses' = [ses EXCEPT ![s].binding = [port |-> p, client |-> s, name |-> s]]
    BY <1>7 DEF PoolListen, PoolName
  <2> QED
    BY <1>0, <1>7, <2>1 DEF PoolListen, Locals
<1>8. CASE PoolRefused(s)
  BY <1>0, <1>8 DEF PoolRefused, Locals
<1>9. CASE Evict(s)
  <2>1. PICK v \in Sessions :
           ses' = [ses EXCEPT ![s] = [ses[s] EXCEPT !.victim = v, !.doomed = PendingOf(v),
                      !.shut = {ListenerOf(m) : m \in OwnedBy(v)}, !.tried = {}]]
    BY <1>9, EvictWrites
  <2>2. ses'[s].fault = ses[s].fault
    BY <1>0, <2>1 DEF Locals
  <2>3. pc[s] = "bind" /\ pc'[s] = "evict"
    BY <1>0, <1>9 DEF Evict, Exhausted
  <2> QED
    BY <2>2, <2>3
<1>10. CASE RebindFailed(s)
  BY <1>0, <1>10 DEF RebindFailed, Exhausted, Locals
<1>11. CASE Drop(s)
  BY <1>0, <1>11 DEF Drop, Locals
<1>12. CASE AskForce(s)
  BY <1>0, <1>12 DEF AskForce, RolledBack, Locals
<1>13. CASE RemoveClient(s)
  BY <1>0, <1>13 DEF RemoveClient, Locals
<1>14. CASE FinishLeave(s)
  BY <1>0, <1>14 DEF FinishLeave, NoLocals, Locals
<1>15. CASE Connect(s)
  BY <1>0, <1>15 DEF Connect, Locals
<1>16. CASE Register(s) \/ Retry(s)
  <2>1. PICK req \in Requests, f \in BOOLEAN :
           ses' = [ses EXCEPT ![s] = [ses[s] EXCEPT !.todo = req, !.force = f]]
    BY <1>16, RegisterWrites
  <2>2. ses'[s].made = ses[s].made /\ ses'[s].fault = ses[s].fault /\ pc'[s] = "next"
    BY <1>0, <1>16, <2>1 DEF Register, Retry, Locals
  <2> QED
    BY <1>16, <2>2 DEF Register, Retry
<1>17. CASE RefuseHandshake(s) \/ Decline(s) \/ Depart(s)
  BY <1>0, <1>17 DEF RefuseHandshake, Decline, Depart, End
<1> QED
  BY <1>1, <1>2, <1>3, <1>4, <1>5, <1>6, <1>7, <1>8, <1>9, <1>10, <1>11, <1>12, <1>13,
     <1>14, <1>15, <1>16, <1>17 DEF SessionStep, ClientStep

-----------------------------------------------------------------------------
(* Mutual exclusion.                                                       *)

\* A session that begins to keep the lock has it, and it releases the lock only
\* when it stops keeping it.
LEMMA OwnLock ==
    ASSUME TypeOK, NEW s \in Sessions, Keeps(s) => HasLock(s),
           SessionStep(s) \/ ClientStep(s)
    PROVE  Keeps(s)' => HasLock(s)'
<1>0. /\ ses[s] \in Locals /\ ses \in [Sessions -> Locals] /\ s \in Handlers
      /\ pc \in [Handlers -> SessionPC \cup PublicPC \cup TunnelPC]
      /\ ses[s].todo \in Seq(Raw) /\ ses[s].made \in Seq(Listener)
  BY SessionTyped
<1> USE DEF Goto, Keeps
<1>1. ASSUME HasLock(s), lockq' = lockq PROVE HasLock(s)'
  BY <1>1 DEF HasLock
<1>2. CASE PoolListen(s)
  BY <1>1, <1>2 DEF PoolListen
<1>3. CASE PoolRefused(s)
  BY <1>1, <1>3 DEF PoolRefused
<1>4. CASE Evict(s)
  BY <1>1, <1>4 DEF Evict, Exhausted
<1>5. CASE Evicted(s)
  BY <1>1, <1>5 DEF Evicted
<1>6. CASE RegularDuplicate(s)
  BY <1>1, <1>6 DEF RegularDuplicate
<1>7. CASE NextPool(s)
  BY <1>0, <1>7 DEF NextPool, Locals
<1>8. CASE Join(s) \/ NextRejected(s) \/ NextRegular(s) \/ NextDone(s)
             \/ RegularListen(s) \/ RegularRefused(s) \/ RegularInsert(s) \/ RegularReject(s)
             \/ PoolInsert(s) \/ PoolUnavailable(s) \/ RebindFailed(s) \/ NotifyVictim(s)
  <2>1. pc'[s] \notin {"bound", "evict", "duplicate", "bind"}
    BY <1>0, <1>8 DEF Join, NextRejected, NextRegular, NextDone, RegularListen, RegularRefused,
       RegularInsert, RegularReject, PoolInsert, PoolUnavailable, RebindFailed, NotifyVictim, Raise
  <2> QED
    BY <2>1
<1>9. CASE RollbackNext(s) \/ Drop(s) \/ Dropped(s) \/ AskForce(s) \/ ReportError(s)
             \/ RemoveClient(s) \/ FinishLeave(s) \/ ClientStep(s)
  <2>1. pc'[s] \notin {"bound", "evict", "duplicate", "bind"}
    BY <1>0, <1>9 DEF RollbackNext, Drop, Dropped, AskForce, ReportError, RemoveClient, FinishLeave,
       ClientStep, Connect, Register, RefuseHandshake, Retry, Decline, Depart, End
  <2> QED
    BY <2>1
<1> QED
  BY <1>2, <1>3, <1>4, <1>5, <1>6, <1>7, <1>8, <1>9 DEF SessionStep

LEMMA SessionLockKept ==
    ASSUME TypeOK, LockKept, NEW s \in Sessions, SessionStep(s) \/ ClientStep(s)
    PROVE  LockKept'
<1>1. \A o \in Sessions \ {s} : HasLock(o) => HasLock(o)'
  BY SessionLock, LockMoves DEF TypeOK, Handlers
<1>2. \A o \in Sessions \ {s} : Keeps(o)' => Keeps(o)
  BY SessionFrame DEF Keeps, Handlers
<1>3. Keeps(s)' => HasLock(s)'
  BY OwnLock DEF LockKept
<1> QED
  BY <1>1, <1>2, <1>3 DEF LockKept

-----------------------------------------------------------------------------
(* Public and tunnel connections leave the control plane alone.            *)

ControlFrame ==
    /\ UNCHANGED <<services, listening, ses, hungup, reply, clients>>
    /\ \A s \in Sessions : pc'[s] = pc[s] /\ (HasLock(s) => HasLock(s)')

LEMMA ConnectionFrame ==
    ASSUME TypeInv, DataInv,
           \/ \E q \in Publics : PublicStep(q) \/ UserStep(q)
           \/ \E t \in Tunnels : TunnelStep(t) \/ TunnelConnect(t)
    PROVE  ControlFrame
<1>0. /\ TypeOK /\ lockq \in Seq(Handlers)
      /\ \A s \in Sessions : s \in Handlers /\ s \notin Publics /\ s \notin Tunnels
  BY KindsAssumption DEF TypeInv, TypeOK, Handlers
<1>1. CASE \E q \in Publics : PublicStep(q) \/ UserStep(q)
  <2>1. PICK q \in Publics : PublicStep(q) \/ UserStep(q)
    BY <1>1
  <2>2. \A s \in Sessions : pc'[s] = pc[s]
    BY <1>0, <2>1, PublicDataFrame DEF PublicFrame
  <2>3. UNCHANGED <<services, listening, ses, hungup, reply, clients>>
    BY <2>1 DEF PublicStep, UserStep, PublicConnect, PublicQueues, PublicAccept, PublicTurnAway,
       PublicLookup, PublicUnknown, PublicInsert, SendOpen, SendFails, StartRelay, OpenFailed,
       OpenTimeout, OpenTimeoutLate, RelayEnd, PublicFinally, PublicReset, maps, wire
  <2>4. UNCHANGED lockq \/ Queue(q) \/ (HasLock(q) /\ (Release \/ Requeue(q)))
    BY <2>1 DEF PublicStep, UserStep, PublicConnect, PublicQueues, PublicAccept, PublicTurnAway,
       PublicLookup, PublicUnknown, PublicInsert, SendOpen, SendFails, StartRelay, OpenFailed,
       OpenTimeout, OpenTimeoutLate, RelayEnd, PublicFinally, PublicReset
  <2>5. q \in Handlers /\ q \notin Sessions
    BY <1>0 DEF Handlers
  <2>6. \A s \in Sessions : HasLock(s) => HasLock(s)'
    BY <1>0, <2>4, <2>5, LockMoves
  <2> QED
    BY <2>2, <2>3, <2>6 DEF ControlFrame
<1>2. CASE \E t \in Tunnels : TunnelStep(t) \/ TunnelConnect(t)
  <2>1. PICK t \in Tunnels : TunnelStep(t) \/ TunnelConnect(t)
    BY <1>2
  <2>2. /\ UNCHANGED <<services, listening, ses, hungup, reply, clients>>
        /\ \A h \in Handlers \ {t} : pc'[h] = pc[h]
    BY <1>0, <2>1 DEF TunnelStep, TunnelConnect, TunnelPair, TunnelReject, maps, wire, Goto, TypeOK
  <2>3. UNCHANGED lockq \/ Queue(t) \/ (HasLock(t) /\ (Release \/ Requeue(t)))
    BY <2>1 DEF TunnelStep, TunnelConnect, TunnelPair, TunnelReject
  <2>4. t \in Handlers /\ t \notin Sessions
    BY <1>0 DEF Handlers
  <2>5. \A s \in Sessions : HasLock(s) => HasLock(s)'
    BY <1>0, <2>3, <2>4, LockMoves
  <2> QED
    BY <1>0, <2>2, <2>4, <2>5 DEF ControlFrame
<1> QED
  BY <1>1, <1>2

-----------------------------------------------------------------------------
(* What the steps of a session do to the ledger, by kind.                  *)

\* Nothing moves in or out of the maps, and no session comes to or leaves a
\* point where it holds a listener of its own.
Still ==
    /\ UNCHANGED <<services, listening>>
    /\ \A o \in Sessions :
          /\ ses'[o].made = ses[o].made
          /\ pc'[o] = "closing" <=> pc[o] = "closing"
          /\ pc[o] \in {"bound", "insert"} \/ pc'[o] \in {"bound", "insert"} =>
                pc'[o] = pc[o] /\ ses'[o].binding = ses[o].binding

Others(s) == \A o \in Sessions \ {s} : pc'[o] = pc[o] /\ ses'[o] = ses[o]

Opens(s, l) ==
    /\ services' = services
    /\ listening' = listening \cup {l}
    /\ ~Taken(l.port)
    /\ l \in Listener /\ l.client = s
    /\ ses'[s].binding = l
    /\ ses'[s].made = ses[s].made
    /\ pc[s] \in {"bind", "listen"} /\ pc'[s] \in {"bound", "insert"}
    /\ Others(s)

\* l goes into the map under its name.
Stores(s, l, pool) ==
    /\ l = ses[s].binding
    /\ services'[l.name].port = l.port /\ services'[l.name].client = s
    /\ services'[l.name].pool = pool /\ services'[l.name] # None
    /\ \A n \in Names \ {l.name} : services'[n] = services[n]
    /\ listening' = listening
    /\ ses'[s].made = Append(ses[s].made, l)
    /\ pc'[s] \in {"next", "notify"}
    /\ Others(s)

LEMMA SessionOthers ==
    ASSUME TypeOK, NEW s \in Sessions, SessionStep(s) \/ ClientStep(s)
    PROVE  Others(s)
  BY SessionFrame DEF Others, Handlers

LEMMA StillSteps ==
    ASSUME TypeOK, NEW s \in Sessions,
           \/ Join(s) \/ NextRejected(s) \/ NextPool(s) \/ NextRegular(s) \/ NextDone(s)
           \/ RegularRefused(s) \/ RegularReject(s) \/ PoolRefused(s) \/ PoolUnavailable(s)
           \/ Evicted(s) \/ RebindFailed(s) \/ NotifyVictim(s) \/ RollbackNext(s) \/ Dropped(s)
           \/ AskForce(s) \/ ReportError(s) \/ ClientStep(s)
    PROVE  Still
<1> USE DEF Goto, maps
<1>0. /\ ses[s] \in Locals /\ ses \in [Sessions -> Locals] /\ s \in Handlers
      /\ pc \in [Handlers -> SessionPC \cup PublicPC \cup TunnelPC]
      /\ ses[s].todo \in Seq(Raw) /\ ses[s].made \in Seq(Listener)
  BY SessionTyped
<1>1. Others(s)
  BY SessionOthers DEF SessionStep
<1>2. UNCHANGED <<services, listening>>
  BY DEF Join, NextRejected, NextPool, NextRegular, NextDone, RegularRefused, RegularReject,
     PoolRefused, PoolUnavailable, Evicted, RebindFailed, NotifyVictim, RollbackNext, Dropped,
     AskForce, ReportError, ClientStep, Connect, Register, RefuseHandshake, Retry, Decline,
     Depart, End
<1>3. pc[s] \notin {"bound", "insert", "closing"} /\ pc'[s] \notin {"bound", "insert", "closing"}
  BY <1>0 DEF Join, NextRejected, NextPool, NextRegular, NextDone, RegularRefused, RegularReject,
     PoolRefused, PoolUnavailable, Evicted, RebindFailed, NotifyVictim, RollbackNext, Dropped,
     AskForce, ReportError, ClientStep, Connect, Register, RefuseHandshake, Retry, Decline,
     Depart, End, Raise, Exhausted
<1>4. ses'[s].made = ses[s].made
  <2>1. CASE Join(s) \/ NextDone(s) \/ Evicted(s) \/ NotifyVictim(s) \/ RollbackNext(s)
               \/ Dropped(s) \/ ReportError(s)
    BY <2>1 DEF Join, NextDone, Evicted, NotifyVictim, RollbackNext, Dropped, ReportError
  <2>2. CASE NextRejected(s) \/ RegularRefused(s) \/ RegularReject(s) \/ PoolUnavailable(s)
    <3>1. \E f : Raise(s, f)
      BY <2>2 DEF NextRejected, RegularRefused, RegularReject, PoolUnavailable
    <3> QED
      BY <1>0, <3>1 DEF Raise, Locals
  <2>3. CASE NextPool(s) \/ NextRegular(s) \/ PoolRefused(s) \/ RebindFailed(s) \/ AskForce(s)
    BY <1>0, <2>3 DEF NextPool, NextRegular, PoolRefused, RebindFailed, AskForce, Locals
  <2>4. CASE Connect(s) \/ RefuseHandshake(s) \/ Decline(s) \/ Depart(s)
    BY <1>0, <2>4 DEF Connect, RefuseHandshake, Decline, Depart, End, Locals
  <2>5. CASE Register(s) \/ Retry(s)
    <3>1. PICK req \in Requests, f \in BOOLEAN :
             ses' = [ses EXCEPT ![s] = [ses[s] EXCEPT !.todo = req, !.force = f]]
      BY <2>5, RegisterWrites
    <3> QED
      BY <1>0, <3>1 DEF Locals
  <2> QED
    BY <2>1, <2>2, <2>3, <2>4, <2>5 DEF ClientStep
<1> QED
  BY <1>1, <1>2, <1>3, <1>4 DEF Still, Others

LEMMA OpenSteps ==
    ASSUME TypeOK, NEW s \in Sessions, SessionPhase(s), RegularListen(s) \/ PoolListen(s)
    PROVE  \E l : Opens(s, l)
<1> USE DEF Goto
<1>0. /\ ses[s] \in Locals /\ ses \in [Sessions -> Locals] /\ s \in Handlers
      /\ pc \in [Handlers -> SessionPC \cup PublicPC \cup TunnelPC]
  BY SessionTyped
<1>1. Others(s)
  BY SessionOthers DEF SessionStep
<1>2. CASE RegularListen(s)
  <2>1. Opens(s, ses[s].binding)
    BY <1>0, <1>1, <1>2 DEF RegularListen, SessionPhase, Opens
  <2> QED
    BY <2>1
<1>3. CASE PoolListen(s)
  <2>1. PICK p \in PoolPorts :
           LET l == [port |-> p, client |-> s, name |-> s] IN
           /\ ~Taken(p)
           /\ ses' = [ses EXCEPT ![s].binding = l]
           /\ listening' = listening \cup {l}
    BY <1>3 DEF PoolListen, PoolName
  <2> DEFINE l == [port |-> p, client |-> s, name |-> s]
  <2>2. l \in Listener /\ l.port = p /\ l.client = s
    BY ConfigAssumption DEF Listener, Names
  <2>3. ses'[s].binding = l /\ ses'[s].made = ses[s].made
    BY <1>0, <2>1 DEF Locals
  <2>4. services' = services /\ pc[s] = "bind" /\ pc'[s] = "bound"
    BY <1>0, <1>3 DEF PoolListen
  <2>5. Opens(s, l)
    BY <1>1, <2>1, <2>2, <2>3, <2>4 DEF Opens
  <2> QED
    BY <2>5
<1> QED
  BY <1>2, <1>3

LEMMA StoreSteps ==
    ASSUME TypeOK, NEW s \in Sessions, SessionPhase(s), RegularInsert(s) \/ PoolInsert(s)
    PROVE  /\ PoolInsert(s) => Stores(s, ses[s].binding, TRUE)
           /\ RegularInsert(s) => Stores(s, ses[s].binding, FALSE)
<1> USE DEF Goto
<1>0. /\ ses[s] \in Locals /\ ses \in [Sessions -> Locals] /\ s \in Handlers
      /\ pc \in [Handlers -> SessionPC \cup PublicPC \cup TunnelPC]
      /\ services \in [Names -> Service \cup {None}]
  BY SessionTyped DEF TypeOK
<1>1. Others(s)
  BY SessionOthers DEF SessionStep
<1>2. PICK l : l = ses[s].binding
  OBVIOUS
<1>3. l \in Listener /\ l.client = s /\ l.name \in Names
  BY <1>2 DEF SessionPhase, RegularInsert, PoolInsert, Listener
<1>4. ASSUME NEW p \in BOOLEAN, Store(s, p)
      PROVE  /\ services'[l.name].port = l.port /\ services'[l.name].client = s
             /\ services'[l.name].pool = p /\ services'[l.name] # None
             /\ \A n \in Names \ {l.name} : services'[n] = services[n]
             /\ ses'[s].made = Append(ses[s].made, l)
  <2>1. services'[l.name] = [port |-> l.port, client |-> s, pool |-> p, prio |-> Head(Raws(s)).prio]
        /\ \A n \in Names \ {l.name} : services'[n] = services[n]
    BY <1>0, <1>2, <1>3, <1>4 DEF Store
  <2>2. services' \in [Names -> Service \cup {None}]
    BY <1>2, <1>3, <1>4, StoreTypes DEF SessionPhase, RegularInsert, PoolInsert
  <2>3. None \notin Service /\ services'[l.name] \in Service \cup {None}
    BY <1>3, <2>2, KindsAssumption
  <2>4. ses'[s].made = Append(ses[s].made, l)
    BY <1>0, <1>2, <1>4 DEF Store, Locals
  <2>5. services'[l.name] # None
    <3>1. [port |-> l.port, client |-> s, pool |-> p, prio |-> Head(Raws(s)).prio] \in Service
      <4>1. Head(Raws(s)) \in Raw
        BY SessionTyped, HeadTailType DEF Raws, SessionPhase, RegularInsert, PoolInsert
      <4> QED
        BY <1>3, <4>1 DEF Service, Listener, Raw
    <3> QED
      BY <2>1, <2>3, <3>1
  <2> QED
    BY <2>1, <2>4, <2>5
<1>5. listening' = listening /\ pc'[s] \in {"next", "notify"}
  BY <1>0 DEF RegularInsert, PoolInsert
<1> QED
  BY <1>1, <1>2, <1>4, <1>5 DEF Stores, RegularInsert, PoolInsert


\* A registration that finds its name taken closes the listener it opened.
LEMMA DuplicateSteps ==
    ASSUME TypeOK, NEW s \in Sessions, RegularDuplicate(s)
    PROVE  /\ services' = services /\ listening' = listening \ {ses[s].binding}
           /\ ses'[s].made = ses[s].made
           /\ pc[s] = "insert" /\ pc'[s] = "duplicate" /\ Others(s)
<1>0. /\ ses[s] \in Locals /\ ses \in [Sessions -> Locals] /\ s \in Handlers
      /\ pc \in [Handlers -> SessionPC \cup PublicPC \cup TunnelPC]
  BY SessionTyped
<1>1. Others(s)
  BY SessionOthers DEF SessionStep
<1>2. ses'[s].made = ses[s].made
  BY <1>0 DEF RegularDuplicate, Locals
<1> QED
  BY <1>0, <1>1, <1>2 DEF RegularDuplicate, Close, Goto

\* An eviction takes everything another session owns out of the map.
Takes(s, v) ==
    /\ v \in Sessions /\ OwnedBy(v) # {}
    /\ Unregister(OwnedBy(v))
    /\ Close({ListenerOf(m) : m \in OwnedBy(v)})
    /\ ses'[s].made = ses[s].made /\ ses'[s].todo = ses[s].todo
    /\ ses'[s].victim = v /\ ses'[s].tried = {}
    /\ pc[s] = "bind" /\ pc'[s] = "evict" /\ Others(s)

LEMMA EvictSteps ==
    ASSUME TypeOK, NEW s \in Sessions, Evict(s)
    PROVE  \E n \in Oldest(Worst(Eligible(s, Head(Raws(s)).prio))) : Takes(s, services[n].client)
<1>0. /\ ses[s] \in Locals /\ ses \in [Sessions -> Locals] /\ s \in Handlers
      /\ pc \in [Handlers -> SessionPC \cup PublicPC \cup TunnelPC]
      /\ services \in [Names -> Service \cup {None}]
  BY SessionTyped DEF TypeOK
<1>1. Others(s)
  BY SessionOthers DEF SessionStep
<1>2. PICK n \in Oldest(Worst(Eligible(s, Head(Raws(s)).prio))) :
         LET v == services[n].client
             listeners == {ListenerOf(m) : m \in OwnedBy(v)}
         IN  /\ Unregister(OwnedBy(v))
             /\ Close(listeners)
             /\ ses' = [ses EXCEPT ![s] = [ses[s] EXCEPT !.victim = v, !.doomed = PendingOf(v),
                                   !.shut = listeners, !.tried = {}]]
  BY ZenonT(60), <1>0 DEF Evict
<1>3. n \in Registered /\ n \in OwnedBy(services[n].client)
  BY <1>2 DEF Oldest, Worst, Eligible, Rivals, OwnedBy
<1>4. services[n] \in Service /\ services[n].client \in Sessions
  BY <1>0, <1>3 DEF Registered, Service
<1>5. /\ ses'[s].made = ses[s].made /\ ses'[s].todo = ses[s].todo
      /\ ses'[s].victim = services[n].client /\ ses'[s].tried = {}
  BY <1>0, <1>2 DEF Locals
<1>6. pc[s] = "bind" /\ pc'[s] = "evict"
  BY <1>0 DEF Evict, Exhausted, Goto
<1>7. Takes(s, services[n].client)
  BY <1>1, <1>2, <1>3, <1>4, <1>5, <1>6 DEF Takes
<1> QED
  BY <1>2, <1>7

\* A rollback takes out the first service the session made.
Undoes(s, l) ==
    /\ l = Head(ses[s].made) /\ ses[s].made # <<>>
    /\ Unregister({l.name}) /\ Close({l})
    /\ ses'[s].made = Tail(ses[s].made)
    /\ pc[s] = "drop" /\ pc'[s] = "dropping" /\ Others(s)

LEMMA DropSteps ==
    ASSUME TypeOK, NEW s \in Sessions, SessionPhase(s), Drop(s)
    PROVE  Undoes(s, Head(ses[s].made))
<1>0. /\ ses[s] \in Locals /\ ses \in [Sessions -> Locals] /\ s \in Handlers
      /\ pc \in [Handlers -> SessionPC \cup PublicPC \cup TunnelPC]
  BY SessionTyped
<1>1. Others(s)
  BY SessionOthers DEF SessionStep
<1>2. ses'[s].made = Tail(ses[s].made)
  BY <1>0 DEF Drop, Locals
<1> QED
  BY <1>0, <1>1, <1>2 DEF Drop, Goto, SessionPhase, Undoes

\* The end of a session takes out everything it still owns.
Clears(s) ==
    /\ Unregister(OwnedBy(s))
    /\ Close({ListenerOf(m) : m \in OwnedBy(s)})
    /\ ses'[s].made = ses[s].made
    /\ pc[s] = "leave" /\ pc'[s] = "closing" /\ Others(s)

LEMMA RemoveSteps ==
    ASSUME TypeOK, NEW s \in Sessions, RemoveClient(s)
    PROVE  Clears(s)
<1>0. /\ ses[s] \in Locals /\ ses \in [Sessions -> Locals] /\ s \in Handlers
      /\ pc \in [Handlers -> SessionPC \cup PublicPC \cup TunnelPC]
  BY SessionTyped
<1>1. Others(s)
  BY SessionOthers DEF SessionStep
<1>2. ses'[s].made = ses[s].made
  BY <1>0 DEF RemoveClient, Locals
<1> QED
  BY <1>0, <1>1, <1>2 DEF RemoveClient, Goto, Clears

LEMMA FinishSteps ==
    ASSUME TypeOK, NEW s \in Sessions, FinishLeave(s)
    PROVE  /\ UNCHANGED <<services, listening>> /\ ses'[s].made = <<>>
           /\ pc[s] = "closing" /\ pc'[s] = "gone" /\ Others(s)
<1>0. /\ ses[s] \in Locals /\ ses \in [Sessions -> Locals] /\ s \in Handlers
      /\ pc \in [Handlers -> SessionPC \cup PublicPC \cup TunnelPC]
  BY SessionTyped
<1>1. Others(s)
  BY SessionOthers DEF SessionStep
<1>2. ses'[s].made = <<>>
  BY <1>0 DEF FinishLeave, NoLocals, Locals
<1> QED
  BY <1>0, <1>1, <1>2 DEF FinishLeave, Goto, maps

-----------------------------------------------------------------------------
(* The ledger is inductive.                                                *)

Books == PoolEntries /\ PortsApart /\ RegularKept

\* A service whose entry a step leaves alone is still listed as before.
LEMMA EntryKept ==
    ASSUME NEW n \in Names, services'[n] = services[n]
    PROVE  (n \in Registered' <=> n \in Registered) /\ ListenerOf(n)' = ListenerOf(n)
  BY DEF Registered, ListenerOf

LEMMA StillBooks ==
    ASSUME Still, Books PROVE Books'
<1>1. PoolEntries' /\ PortsApart'
  BY DEF Still, Books, PoolEntries, PortsApart, Registered
<1>2. RegularKept'
  BY DEF Still, Books, RegularKept, Kept, Registered, ListenerOf
<1> QED
  BY <1>1, <1>2 DEF Books

LEMMA OpenBooks ==
    ASSUME NEW s \in Sessions, NEW l, Opens(s, l), Books PROVE Books'
<1>1. PoolEntries'
  BY DEF Opens, Books, PoolEntries, Registered
<1>2. PortsApart'
  BY DEF Opens, Books, PortsApart, Taken
<1>3. \A o \in Sessions : ses'[o].made = ses[o].made /\ (pc'[o] # "closing" => pc[o] # "closing")
  BY DEF Opens, Others
<1>4. RegularKept'
  BY <1>3 DEF Opens, Books, RegularKept, Kept, Registered, ListenerOf
<1> QED
  BY <1>1, <1>2, <1>4 DEF Books

\* Closing some listeners leaves no port to two of them.
LEMMA FewerPorts ==
    ASSUME PortsApart, listening' \subseteq listening PROVE PortsApart'
  BY DEF PortsApart

LEMMA UnregisterEntries ==
    ASSUME NEW N, Unregister(N)
    PROVE  /\ Registered' = Registered \ N
           /\ \A n \in Names \ N : services'[n] = services[n]
  BY DEF Unregister, Registered

LEMMA UnregisterPool ==
    ASSUME NEW N, Unregister(N), PoolEntries PROVE PoolEntries'
<1> SUFFICES ASSUME PoolPorts # {}, NEW n \in Registered'
             PROVE  /\ n \in Sessions /\ services'[n].client = n /\ services'[n].pool
                    /\ services'[n].port \in PoolPorts
  BY DEF PoolEntries
<1>1. n \in Registered /\ services'[n] = services[n]
  BY UnregisterEntries DEF Registered
<1> QED
  BY <1>1 DEF PoolEntries

LEMMA StoreBooks ==
    ASSUME TypeInv, NEW s \in Sessions, NEW p \in BOOLEAN, Stores(s, ses[s].binding, p),
           Named(s), p => pc[s] = "bound", ~p => pc[s] = "insert",
           ~p => ~NameTaken(ses[s].binding.name), Books
    PROVE  Books'
<1>0. PICK l : l = ses[s].binding
  OBVIOUS
<1>1. l \in Listener /\ l.client = s /\ l.name \in Names /\ ses[s].made \in Seq(Listener)
  BY <1>0, SessionTyped DEF TypeInv, Phases, SessionPhase, Listener
<1>2. PortsApart'
  BY <1>0, FewerPorts DEF Stores, Books
<1>3. PoolEntries'
  <2> SUFFICES ASSUME PoolPorts # {}, NEW n \in Registered'
               PROVE  /\ n \in Sessions /\ services'[n].client = n /\ services'[n].pool
                      /\ services'[n].port \in PoolPorts
    BY DEF PoolEntries
  <2>1. p /\ l.name = s /\ l.port \in PoolPorts
    BY <1>0 DEF Named
  <2>2. CASE n = l.name
    BY <1>0, <2>1, <2>2 DEF Stores
  <2>3. CASE n # l.name
    BY <1>0, <2>3 DEF Stores, Registered, Books, PoolEntries
  <2> QED
    BY <2>2, <2>3
<1>4. RegularKept'
  <2> SUFFICES ASSUME PoolPorts = {} PROVE RegularKept'
    BY DEF RegularKept
  <2>1. pc[s] = "insert" /\ l.name \notin Registered
    BY <1>0 DEF Named, NameTaken
  <2>2. \A n \in Names \ {l.name} : services'[n] = services[n]
    BY <1>0 DEF Stores
  <2>3. l.name \in Registered' /\ ListenerOf(l.name)' = l
    <3>1. ListenerOf(l.name)' = [port |-> l.port, client |-> s, name |-> l.name]
      BY <1>0 DEF ListenerOf, Stores
    <3>2. l = [port |-> l.port, client |-> s, name |-> l.name]
      BY <1>1 DEF Listener
    <3> QED
      BY <1>0, <1>1, <3>1, <3>2 DEF Stores, Registered
  <2>4. \A n \in Registered : n \in Registered' /\ ListenerOf(n)' = ListenerOf(n)
    BY <2>1, <2>2, EntryKept DEF Registered
  <2>5. ASSUME NEW o \in Sessions, o # s
        PROVE  /\ pc'[o] # "closing" => Kept(o)'
               /\ \A i, j \in DOMAIN ses'[o].made : ses'[o].made[i].name = ses'[o].made[j].name => i = j
    <3>1. ses'[o] = ses[o] /\ pc'[o] = pc[o]
      BY <2>5 DEF Stores, Others
    <3> QED
      BY <2>4, <3>1 DEF Books, RegularKept, Kept
  <2>6. \A i \in DOMAIN ses[s].made : LET k == ses[s].made[i] IN
           k.name \in Registered /\ ListenerOf(k.name) = k
    BY <2>1 DEF Books, RegularKept, Kept
  <2>7. \A i, j \in DOMAIN ses[s].made : ses[s].made[i].name = ses[s].made[j].name => i = j
    BY DEF Books, RegularKept
  <2>8. ses'[s].made = Append(ses[s].made, l)
    BY <1>0 DEF Stores
  <2>9. /\ DOMAIN ses'[s].made = DOMAIN ses[s].made \cup {Len(ses[s].made) + 1}
        /\ \A i \in DOMAIN ses[s].made : ses'[s].made[i] = ses[s].made[i]
        /\ ses'[s].made[Len(ses[s].made) + 1] = l
    BY <1>1, <2>8
  <2>10. Kept(s)'
    BY <2>3, <2>4, <2>6, <2>9 DEF Kept
  <2>11. \A i, j \in DOMAIN ses'[s].made : ses'[s].made[i].name = ses'[s].made[j].name => i = j
    BY <2>1, <2>6, <2>7, <2>9
  <2> QED
    BY <2>5, <2>10, <2>11 DEF RegularKept
<1> QED
  BY <1>2, <1>3, <1>4 DEF Books

\* Nothing that stays in the map was made by a session whose entries go.
LEMMA UnregisterKept ==
    ASSUME NEW N, Unregister(N), NEW o \in Sessions, Kept(o), ses'[o].made = ses[o].made,
           \A i \in DOMAIN ses[o].made : ses[o].made[i].name \notin N
    PROVE  Kept(o)'
<1> SUFFICES ASSUME NEW i \in DOMAIN ses[o].made
             PROVE  /\ ses[o].made[i].name \in Registered'
                    /\ ListenerOf(ses[o].made[i].name)' = ses[o].made[i]
  BY DEF Kept
<1>1. ses[o].made[i].name \in Registered \ N /\ ListenerOf(ses[o].made[i].name) = ses[o].made[i]
  BY DEF Kept
<1> QED
  BY <1>1, UnregisterEntries, EntryKept DEF Registered

\* An entry that a session made and that is in the map has its name.
LEMMA KeptClient ==
    ASSUME TypeInv, NEW o \in Sessions, Kept(o), NEW i \in DOMAIN ses[o].made
    PROVE  services[ses[o].made[i].name].client = o
<1>1. ses[o].made[i].client = o
  BY DEF TypeInv, Phases, SessionPhase
<1>2. ListenerOf(ses[o].made[i].name).client = services[ses[o].made[i].name].client
  BY DEF ListenerOf
<1> QED
  BY <1>1, <1>2 DEF Kept

LEMMA ClosedPorts == ASSUME NEW L, Close(L), PortsApart PROVE PortsApart'
  BY FewerPorts DEF Close

LEMMA DropBooks ==
    ASSUME TypeInv, NEW s \in Sessions, Undoes(s, Head(ses[s].made)), Books PROVE Books'
<1> DEFINE k == Head(ses[s].made)
<1>0. ses[s].made \in Seq(Listener) /\ ses[s].made # <<>> /\ k = ses[s].made[1]
  BY SessionTyped DEF TypeInv, Undoes
<1>1. PoolEntries' /\ PortsApart'
  BY UnregisterPool, ClosedPorts DEF Undoes, Books
<1>2. RegularKept'
  <2> SUFFICES ASSUME PoolPorts = {} PROVE RegularKept'
    BY DEF RegularKept
  <2>1. /\ \A o \in Sessions : pc[o] # "closing" => Kept(o)
        /\ \A o \in Sessions : \A i, j \in DOMAIN ses[o].made :
              ses[o].made[i].name = ses[o].made[j].name => i = j
    BY DEF Books, RegularKept
  <2>2. Kept(s) /\ services[k.name].client = s
    BY <1>0, <2>1, KeptClient DEF Undoes
  <2>3. ASSUME NEW o \in Sessions, o # s
        PROVE  /\ pc'[o] # "closing" => Kept(o)'
               /\ \A i, j \in DOMAIN ses'[o].made : ses'[o].made[i].name = ses'[o].made[j].name => i = j
    <3>1. pc'[o] = pc[o] /\ ses'[o] = ses[o]
      BY <2>3 DEF Undoes, Others
    <3>2. ASSUME pc[o] # "closing" PROVE Kept(o)'
      <4>1. \A i \in DOMAIN ses[o].made : ses[o].made[i].name # k.name
        BY <2>1, <2>2, <2>3, <3>2, KeptClient
      <4> QED
        BY <2>1, <3>1, <3>2, <4>1, UnregisterKept DEF Undoes
    <3> QED
      BY <2>1, <3>1, <3>2
  <2>4. /\ ses'[s].made \in Seq(Listener)
        /\ \A i \in DOMAIN ses'[s].made :
              i + 1 \in DOMAIN ses[s].made /\ i # 0 /\ i \in Int /\ ses'[s].made[i] = ses[s].made[i + 1]
    BY <1>0 DEF Undoes
  <2>5. Kept(s)'
    <3> SUFFICES ASSUME NEW i \in DOMAIN ses'[s].made, NEW m, m = ses'[s].made[i]
                 PROVE  m.name \in Registered' /\ ListenerOf(m.name)' = m
      BY DEF Kept
    <3>1. i + 1 \in DOMAIN ses[s].made /\ i + 1 # 1 /\ m = ses[s].made[i + 1]
      BY <2>4
    <3>2. 1 \in DOMAIN ses[s].made
      BY <1>0
    <3>3. m.name # k.name
      BY <1>0, <2>1, <3>1, <3>2
    <3>4. m.name \in Registered /\ ListenerOf(m.name) = m
      BY <2>2, <3>1 DEF Kept
    <3>5. Registered' = Registered \ {k.name} /\ \A n \in Names \ {k.name} : services'[n] = services[n]
      BY UnregisterEntries DEF Undoes
    <3> QED
      BY <3>3, <3>4, <3>5, EntryKept DEF Registered
  <2>6. \A i, j \in DOMAIN ses'[s].made : ses'[s].made[i].name = ses'[s].made[j].name => i = j
    <3> TAKE i, j \in DOMAIN ses'[s].made
    <3> HAVE ses'[s].made[i].name = ses'[s].made[j].name
    <3>1. i + 1 = j + 1 /\ i \in Int /\ j \in Int
      BY <2>1, <2>4
    <3> QED
      BY <3>1
  <2> QED
    BY <2>3, <2>5, <2>6 DEF RegularKept
<1> QED
  BY <1>1, <1>2 DEF Books

LEMMA ClearBooks ==
    ASSUME TypeInv, NEW s \in Sessions, Clears(s), Books PROVE Books'
<1>1. PoolEntries' /\ PortsApart'
  BY UnregisterPool, ClosedPorts DEF Clears, Books
<1>2. RegularKept'
  <2> SUFFICES ASSUME PoolPorts = {}, NEW o \in Sessions
               PROVE  /\ pc'[o] # "closing" => Kept(o)'
                      /\ \A i, j \in DOMAIN ses'[o].made : ses'[o].made[i].name = ses'[o].made[j].name => i = j
    BY DEF RegularKept
  <2>1. ses'[o].made = ses[o].made
    BY DEF Clears, Others
  <2>2. ASSUME pc'[o] # "closing" PROVE Kept(o)'
    <3>1. o # s /\ pc[o] # "closing"
      BY <2>2 DEF Clears, Others
    <3>2. Kept(o)
      BY <3>1 DEF Books, RegularKept
    <3>3. \A i \in DOMAIN ses[o].made : ses[o].made[i].name \notin OwnedBy(s)
      BY <3>1, <3>2, KeptClient DEF OwnedBy
    <3> QED
      BY <2>1, <3>2, <3>3, UnregisterKept DEF Clears
  <2> QED
    BY <2>1, <2>2 DEF Books, RegularKept
<1> QED
  BY <1>1, <1>2 DEF Books

LEMMA EvictBooks ==
    ASSUME NEW s \in Sessions, NEW v, Takes(s, v), Named(s), Books PROVE Books'
<1>1. PoolEntries' /\ PortsApart'
  BY UnregisterPool, ClosedPorts DEF Takes, Books
<1>2. PoolPorts # {}
  BY DEF Takes, Named
<1> QED
  BY <1>1, <1>2 DEF Books, RegularKept

LEMMA SessionBooks ==
    ASSUME TypeInv, NEW s \in Sessions, Named(s), Books, SessionStep(s) \/ ClientStep(s)
    PROVE  Books'
<1>0. TypeOK /\ SessionPhase(s)
  BY DEF TypeInv, Phases
<1>1. CASE Still
  BY <1>1, StillBooks
<1>2. CASE RegularListen(s) \/ PoolListen(s)
  BY <1>0, <1>2, OpenSteps, OpenBooks
<1>3. CASE RegularInsert(s)
  BY <1>0, <1>3, StoreSteps, StoreBooks DEF RegularInsert
<1>4. CASE PoolInsert(s)
  BY <1>0, <1>4, StoreSteps, StoreBooks DEF PoolInsert
<1>5. CASE RegularDuplicate(s)
  <2>1. /\ services' = services /\ listening' \subseteq listening
        /\ \A o \in Sessions : ses'[o].made = ses[o].made /\ (pc'[o] # "closing" => pc[o] # "closing")
    BY <1>0, <1>5, DuplicateSteps DEF Others
  <2>2. PortsApart'
    BY <2>1, FewerPorts DEF Books
  <2>3. PoolEntries'
    BY <2>1 DEF Books, PoolEntries, Registered
  <2>4. RegularKept'
    BY <2>1 DEF Books, RegularKept, Kept, Registered, ListenerOf
  <2> QED
    BY <2>2, <2>3, <2>4 DEF Books
<1>6. CASE Evict(s)
  BY <1>0, <1>6, EvictSteps, EvictBooks
<1>7. CASE Drop(s)
  BY <1>0, <1>7, DropSteps, DropBooks
<1>8. CASE RemoveClient(s)
  BY <1>0, <1>8, RemoveSteps, ClearBooks
<1>9. CASE FinishLeave(s)
  <2>1. /\ UNCHANGED <<services, listening>>
        /\ ses'[s].made = <<>>
        /\ \A o \in Sessions \ {s} : ses'[o].made = ses[o].made /\ pc'[o] = pc[o]
    BY <1>0, <1>9, FinishSteps DEF Others
  <2>2. PortsApart' /\ PoolEntries'
    BY <2>1 DEF Books, PortsApart, PoolEntries, Registered
  <2>3. RegularKept'
    BY <2>1 DEF Books, RegularKept, Kept, Registered, ListenerOf
  <2> QED
    BY <2>2, <2>3 DEF Books
<1> QED
  BY <1>0, <1>1, <1>2, <1>3, <1>4, <1>5, <1>6, <1>7, <1>8, <1>9, StillSteps DEF SessionStep

\* Nothing the control plane's invariants speak of moves.
LEMMA FrameLedger ==
    ASSUME LockKept, \A s \in Sessions : Named(s) /\ Fresh(s), Books, ControlFrame
    PROVE  LockKept' /\ (\A s \in Sessions : Named(s) /\ Fresh(s))' /\ Books'
<1>1. LockKept'
  BY DEF LockKept, Keeps, ControlFrame
<1>2. \A s \in Sessions : Named(s)' /\ Fresh(s)'
  BY DEF Named, Fresh, ControlFrame
<1>3. PoolEntries' /\ PortsApart'
  BY DEF Books, ControlFrame, PoolEntries, PortsApart, Registered
<1>4. RegularKept'
  BY DEF Books, ControlFrame, RegularKept, Kept, Registered, ListenerOf
<1> QED
  BY <1>1, <1>2, <1>3, <1>4 DEF Books

LEMMA UnchangedFrame == UNCHANGED vars => ControlFrame
  BY DEF vars, maps, wire, ControlFrame, HasLock

\* Every step is one of a session, or leaves the control plane alone.
LEMMA StepKinds ==
    ASSUME TypeInv, DataInv, [Next]_vars
    PROVE  (\E s \in Sessions : SessionStep(s) \/ ClientStep(s)) \/ ControlFrame
  BY ConnectionFrame, UnchangedFrame DEF Next, Idle

LEMMA LedgerInit == Init => LedgerInv
<1> SUFFICES ASSUME Init PROVE LedgerInv
  OBVIOUS
<1>0. /\ \A s \in Sessions : pc[s] = "none" /\ ses[s] = NoLocals
      /\ Registered = {} /\ listening = {}
  BY DEF Init, Handlers, Registered
<1>1. TypeInv /\ DataInv
  BY InitTypes, DataInit
<1>2. ListenInv /\ LockKept
  BY <1>0 DEF ListenInv, ServiceListening, BindingHeld, LockKept, Keeps, NoLocals
<1>3. \A s \in Sessions : Named(s) /\ Fresh(s)
  BY <1>0 DEF Named, Fresh, NoLocals
<1>4. PoolEntries /\ PortsApart /\ RegularKept
  BY <1>0 DEF PoolEntries, PortsApart, RegularKept, Kept, NoLocals
<1> QED
  BY <1>1, <1>2, <1>3, <1>4 DEF LedgerInv

LEMMA LedgerStep ==
    ASSUME OneMode, LedgerInv, [Next]_vars PROVE LedgerInv'
<1>0. TypeInv /\ DataInv /\ ListenInv /\ LockKept /\ Books /\ \A s \in Sessions : Named(s) /\ Fresh(s)
  BY DEF LedgerInv, Books
<1>1. TypeInv' /\ DataInv' /\ ListenInv'
  BY <1>0, TypeStep, DataStep, ListenStep DEF IInv
<1>2. LockKept' /\ (\A s \in Sessions : Named(s) /\ Fresh(s))' /\ Books'
  <2>1. CASE ControlFrame
    BY <1>0, <2>1, FrameLedger
  <2>2. ASSUME NEW s \in Sessions, SessionStep(s) \/ ClientStep(s)
        PROVE  LockKept' /\ (\A o \in Sessions : Named(o) /\ Fresh(o))' /\ Books'
    <3>0. TypeOK /\ SessionPhase(s) /\ Others(s)
      BY <1>0, <2>2, SessionOthers DEF TypeInv, Phases
    <3>1. LockKept' /\ Books'
      BY <1>0, <2>2, <3>0, SessionLockKept, SessionBooks
    <3>2. Named(s)' /\ Fresh(s)'
      BY <1>0, <2>2, <3>0, OwnNamed, OwnFresh
    <3>3. \A o \in Sessions \ {s} : Named(o)' /\ Fresh(o)'
      BY <1>0, <3>0 DEF Others, Named, Fresh
    <3> QED
      BY <3>1, <3>2, <3>3
  <2> QED
    BY <1>0, <2>1, <2>2, StepKinds
<1> QED
  BY <1>1, <1>2 DEF LedgerInv, Books

LEMMA LedgerHolds == ASSUME OneMode PROVE Spec => []LedgerInv
<1>1. Init => LedgerInv
  BY LedgerInit
<1>2. LedgerInv /\ [Next]_vars => LedgerInv'
  BY LedgerStep
<1> QED
  BY <1>1, <1>2, PTL DEF Spec

\* In a locked section that awaits, a session has the lock to itself: while it
\* binds a port, closes its victim's listeners or gives up a duplicate, no
\* other session is in such a section.
THEOREM LockedSections == Spec => [](\A r, s \in Sessions : Keeps(r) /\ Keeps(s) => r = s)
<1> DEFINE LInv == TypeInv /\ DataInv /\ LockKept
<1>1. Init => LInv
  BY InitTypes, DataInit DEF Init, LockKept, Keeps, Handlers, NoLocals
<1>2. LInv /\ [Next]_vars => LInv'
  <2> SUFFICES ASSUME LInv, [Next]_vars PROVE LInv'
    OBVIOUS
  <2>1. TypeInv' /\ DataInv'
    BY TypeStep, DataStep
  <2>2. ASSUME ControlFrame PROVE LockKept'
    BY <2>2 DEF LockKept, Keeps, ControlFrame
  <2>3. ASSUME NEW s \in Sessions, SessionStep(s) \/ ClientStep(s) PROVE LockKept'
    BY <2>3, SessionLockKept DEF TypeInv
  <2>4. LockKept'
    BY <2>2, <2>3, StepKinds
  <2> QED
    BY <2>1, <2>4
<1>3. LInv => \A r, s \in Sessions : Keeps(r) /\ Keeps(s) => r = s
  BY DEF LockKept, HasLock
<1> QED
  BY <1>1, <1>2, <1>3, PTL DEF Spec

-----------------------------------------------------------------------------
(* Who takes a service out of the map.                                     *)

\* The service an eviction picks gives the reason for it.
LEMMA EvictionJust ==
    ASSUME TypeOK, NEW s \in Sessions, SessionPhase(s), Evict(s),
           NEW n \in Oldest(Worst(Eligible(s, Head(Raws(s)).prio)))
    PROVE  MayEvict(s, services[n].client)
<1> DEFINE k == Head(Raws(s)).prio
           E == Eligible(s, k)
<1>1. /\ n \in Rivals(s) /\ services[n].prio >= k
      /\ \A m \in E : services[m].prio <= services[n].prio
      /\ \A m \in Worst(E) : services[m].client \notin ses[services[n].client].elders
  BY DEF Oldest, Worst, Eligible
<1>2. n \in OwnedBy(services[n].client) /\ services[n].pool /\ s # services[n].client
  BY <1>1 DEF Rivals, OwnedBy
<1>3. pc[s] = "bind" /\ ses[s].force /\ \A p \in PoolPorts : p \in UsedPorts \cup ses[s].tried
  BY DEF Evict, Exhausted, Candidates
<1>4. ASSUME NEW m \in Rivals(s)
      PROVE  \/ services[m].prio < services[n].prio
             \/ services[m].prio = services[n].prio
                  /\ services[m].client \notin ses[services[n].client].elders
  <2>1. m \in Registered /\ n \in Registered
    BY <1>1, <1>4 DEF Rivals
  <2>2. services[m].prio \in Int /\ services[n].prio \in Int
    BY <2>1, ConfigAssumption DEF Registered, TypeOK, Service
  <2>3. k \in Int
    <3>1. Head(Raws(s)) \in Raw
      BY SessionTyped, HeadTailType DEF Raws, SessionPhase, Evict, Exhausted
    <3> QED
      BY <3>1, ConfigAssumption DEF Raw
  <2>4. CASE services[m].prio < services[n].prio
    BY <2>4
  <2>5. CASE ~(services[m].prio < services[n].prio)
    <3>1. services[m].prio >= k
      BY <1>1, <2>2, <2>3, <2>5
    <3>2. m \in E
      BY <1>4, <3>1 DEF Eligible
    <3>3. services[m].prio = services[n].prio
      BY <1>1, <2>2, <2>5, <3>2
    <3>4. m \in Worst(E)
      BY <1>1, <3>2, <3>3 DEF Worst
    <3> QED
      BY <1>1, <3>3, <3>4
  <2> QED
    BY <2>4, <2>5
<1>5. \E o \in OwnedBy(services[n].client) :
         /\ services[o].pool
         /\ services[o].prio >= k
         /\ \A m \in Rivals(s) :
               \/ services[m].prio < services[o].prio
               \/ services[m].prio = services[o].prio
                    /\ services[m].client \notin ses[services[n].client].elders
  BY <1>1, <1>2, <1>4
<1> QED
  BY <1>2, <1>3, <1>5 DEF MayEvict, Raws


LEMMA RemovalStep ==
    ASSUME LedgerInv, NEW s \in Sessions, SessionStep(s) \/ ClientStep(s),
           NEW n \in Registered, services'[n] = None
    PROVE  LET v == services[n].client IN
           LeavesItself(v) \/ \E r \in Sessions : MayEvict(r, v)
<1>0. /\ TypeInv /\ TypeOK /\ SessionPhase(s) /\ Named(s) /\ PoolEntries /\ RegularKept
      /\ n \in Names /\ services[n] # None
  BY DEF LedgerInv, TypeInv, Phases, Registered
<1>1. CASE services' = services
  BY <1>0, <1>1
<1>2. CASE RegularInsert(s) \/ PoolInsert(s)
  BY <1>0, <1>2, StoreSteps DEF Stores
<1>3. CASE Drop(s)
  <2> DEFINE k == Head(ses[s].made)
  <2>1. Undoes(s, k) /\ ses[s].made \in Seq(Listener)
    BY <1>0, <1>3, DropSteps, SessionTyped
  <2>2. 1 \in DOMAIN ses[s].made /\ k = ses[s].made[1]
    BY <2>1 DEF Undoes
  <2>3. n = k.name
    BY <1>0, <2>1 DEF Undoes, Unregister
  <2>4. services[n].client = s
    <3>1. CASE PoolPorts # {}
      BY <1>0, <2>2, <2>3, <3>1 DEF Named, PoolEntries
    <3>2. CASE PoolPorts = {}
      <4>1. Kept(s)
        BY <1>0, <2>1, <3>2 DEF RegularKept, Undoes
      <4> QED
        BY <1>0, <2>2, <2>3, <4>1, KeptClient
    <3> QED
      BY <3>1, <3>2
  <2>5. LeavesItself(s)
    BY <2>1 DEF Undoes, LeavesItself
  <2> QED
    BY <2>4, <2>5
<1>4. CASE RemoveClient(s)
  <2>1. Clears(s)
    BY <1>0, <1>4, RemoveSteps
  <2>2. n \in OwnedBy(s)
    BY <1>0, <2>1 DEF Clears, Unregister
  <2> QED
    BY <2>1, <2>2 DEF Clears, LeavesItself, OwnedBy
<1>5. CASE Evict(s)
  <2>1. PICK m \in Oldest(Worst(Eligible(s, Head(Raws(s)).prio))) : Takes(s, services[m].client)
    BY <1>0, <1>5, EvictSteps
  <2>2. n \in OwnedBy(services[m].client)
    BY <1>0, <2>1 DEF Takes, Unregister
  <2>3. MayEvict(s, services[m].client)
    BY <1>0, <1>5, EvictionJust
  <2> QED
    BY <2>2, <2>3 DEF OwnedBy
<1>6. CASE Still
  BY <1>1, <1>6 DEF Still
<1>7. CASE RegularListen(s) \/ PoolListen(s)
  BY <1>0, <1>1, <1>7, OpenSteps DEF Opens
<1>8. CASE RegularDuplicate(s) \/ FinishLeave(s)
  BY <1>0, <1>1, <1>8, DuplicateSteps, FinishSteps
<1> QED
  BY <1>0, <1>2, <1>3, <1>4, <1>5, <1>6, <1>7, <1>8, StillSteps DEF SessionStep

\* A service leaves the map only because its owner's registration failed or
\* its session ended, or by the priority rule: a forced request found no port,
\* and the owner ranks lowest, not above the requester, and is the oldest of
\* its rank.
THEOREM EvictionsAreRuled == ASSUME OneMode PROVE Spec => EvictionRule
<1>1. LedgerInv /\ [Next]_vars =>
         [\A n \in Registered :
             services'[n] = None =>
                LET v == services[n].client IN
                LeavesItself(v) \/ \E r \in Sessions : MayEvict(r, v)]_vars
  <2> SUFFICES ASSUME LedgerInv, [Next]_vars, NEW n \in Registered, services'[n] = None
               PROVE  LET v == services[n].client IN
                      LeavesItself(v) \/ \E r \in Sessions : MayEvict(r, v)
    OBVIOUS
  <2>1. TypeInv /\ DataInv
    BY DEF LedgerInv
  <2>2. ~ControlFrame
    BY DEF ControlFrame, Registered
  <2> QED
    BY <2>1, <2>2, StepKinds, RemovalStep
<1> QED
  BY <1>1, LedgerHolds, PTL DEF Spec, EvictionRule

-----------------------------------------------------------------------------
(* What is in the map was made by its owner, and what listens is in the map. *)

MakerOf(n) ==
    LET c == services[n].client IN
    /\ pc[c] # "closing"
    /\ \E i \in DOMAIN ses[c].made : ses[c].made[i] = ListenerOf(n)

LEMMA SameMaker ==
    ASSUME NEW n, MakerOf(n), services'[n] = services[n],
           LET c == services[n].client IN ses'[c].made = ses[c].made /\ pc'[c] # "closing"
    PROVE  MakerOf(n)'
  BY DEF MakerOf, ListenerOf

LEMMA SessionMakers ==
    ASSUME TypeInv, MadeByOwner, NEW s \in Sessions, SessionStep(s) \/ ClientStep(s)
    PROVE  MadeByOwner'
<1> SUFFICES ASSUME NEW n \in Registered' PROVE MakerOf(n)'
  BY DEF MadeByOwner, MakerOf
<1>0. /\ TypeOK /\ SessionPhase(s) /\ n \in Names /\ services'[n] # None
      /\ \A m \in Registered : MakerOf(m) /\ services[m].client \in Sessions
      /\ services[n] # None => n \in Registered
  BY DEF TypeInv, TypeOK, Phases, Registered, MadeByOwner, MakerOf, Service
<1>1. CASE Still
  <2>1. n \in Registered /\ services'[n] = services[n]
    BY <1>0, <1>1 DEF Still
  <2> QED
    BY <1>0, <1>1, <2>1, SameMaker DEF Still, MakerOf
<1>2. CASE RegularListen(s) \/ PoolListen(s)
  <2>1. PICK l : Opens(s, l)
    BY <1>0, <1>2, OpenSteps
  <2>2. n \in Registered /\ services'[n] = services[n]
    BY <1>0, <2>1 DEF Opens
  <2> QED
    BY <1>0, <2>1, <2>2, SameMaker DEF Opens, Others, MakerOf
<1>3. CASE RegularInsert(s) \/ PoolInsert(s)
  <2>1. PICK p \in BOOLEAN : Stores(s, ses[s].binding, p)
    BY <1>0, <1>3, StoreSteps
  <2>2. PICK l : l = ses[s].binding
    OBVIOUS
  <2>3. l \in Listener /\ l.client = s /\ ses[s].made \in Seq(Listener)
    BY <1>0, <1>3, <2>2, SessionTyped DEF SessionPhase, RegularInsert, PoolInsert
  <2>4. /\ \A i \in DOMAIN ses[s].made : i \in DOMAIN ses'[s].made /\ ses'[s].made[i] = ses[s].made[i]
        /\ Len(ses[s].made) + 1 \in DOMAIN ses'[s].made
        /\ ses'[s].made[Len(ses[s].made) + 1] = l
    BY <2>1, <2>2, <2>3 DEF Stores
  <2>5. CASE n = l.name
    <3>1. l = [port |-> l.port, client |-> s, name |-> n]
      BY <2>3, <2>5 DEF Listener
    <3>2. services'[n].client = s /\ ListenerOf(n)' = l
      BY <2>1, <2>2, <2>5, <3>1 DEF Stores, ListenerOf
    <3>3. pc'[s] # "closing"
      BY <2>1 DEF Stores
    <3> QED
      BY <2>4, <3>2, <3>3 DEF MakerOf
  <2>6. CASE n # l.name
    <3>1. n \in Registered /\ services'[n] = services[n]
      BY <1>0, <2>1, <2>2, <2>6 DEF Stores
    <3>2. CASE services[n].client = s
      <4>1. PICK i \in DOMAIN ses[s].made : ses[s].made[i] = ListenerOf(n)
        BY <1>0, <3>1, <3>2 DEF MakerOf
      <4>2. ListenerOf(n)' = ListenerOf(n) /\ pc'[s] # "closing"
        BY <2>1, <3>1 DEF ListenerOf, Stores
      <4> QED
        BY <2>4, <3>1, <3>2, <4>1, <4>2 DEF MakerOf
    <3>3. CASE services[n].client # s
      BY <1>0, <2>1, <3>1, <3>3, SameMaker DEF Stores, Others, MakerOf
    <3> QED
      BY <3>2, <3>3
  <2> QED
    BY <2>5, <2>6
<1>4. CASE RegularDuplicate(s)
  <2>1. n \in Registered /\ services'[n] = services[n]
    BY <1>0, <1>4, DuplicateSteps
  <2> QED
    BY <1>0, <1>4, <2>1, DuplicateSteps, SameMaker DEF Others, MakerOf
<1>5. CASE Evict(s)
  <2>1. PICK v : Takes(s, v)
    BY <1>0, <1>5, EvictSteps
  <2>2. n \in Registered /\ services'[n] = services[n]
    BY <1>0, <2>1 DEF Takes, Unregister
  <2> QED
    BY <1>0, <2>1, <2>2, SameMaker DEF Takes, Others, MakerOf
<1>6. CASE Drop(s)
  <2> DEFINE k == Head(ses[s].made)
  <2>1. Undoes(s, k) /\ ses[s].made \in Seq(Listener) /\ ses[s].made # <<>>
    BY <1>0, <1>6, DropSteps, SessionTyped DEF Undoes
  <2>2. n \in Registered /\ services'[n] = services[n] /\ n # k.name
    BY <1>0, <2>1 DEF Undoes, Unregister
  <2>3. CASE services[n].client = s
    <3>1. PICK i \in DOMAIN ses[s].made : ses[s].made[i] = ListenerOf(n)
      BY <1>0, <2>2, <2>3 DEF MakerOf
    <3>2. i # 1 /\ k = ses[s].made[1]
      <4>1. ListenerOf(n).name = n
        BY DEF ListenerOf
      <4>2. k = ses[s].made[1]
        BY <2>1
      <4> QED
        BY <2>2, <3>1, <4>1, <4>2
    <3>3. i - 1 \in DOMAIN Tail(ses[s].made) /\ Tail(ses[s].made)[i - 1] = ses[s].made[i]
      BY SMTT(30), <2>1, <3>2
    <3>4. ses'[s].made = Tail(ses[s].made) /\ pc'[s] # "closing" /\ ListenerOf(n)' = ListenerOf(n)
      BY <2>1, <2>2 DEF Undoes, ListenerOf
    <3>5. \E j \in DOMAIN ses'[s].made : ses'[s].made[j] = ListenerOf(n)'
      BY <3>1, <3>3, <3>4
    <3> QED
      BY <2>2, <2>3, <3>4, <3>5 DEF MakerOf
  <2>4. CASE services[n].client # s
    BY <1>0, <2>1, <2>2, <2>4, SameMaker DEF Undoes, Others, MakerOf
  <2> QED
    BY <2>3, <2>4
<1>7. CASE RemoveClient(s)
  <2>1. Clears(s)
    BY <1>0, <1>7, RemoveSteps
  <2>2. n \in Registered /\ services'[n] = services[n] /\ services[n].client # s
    BY <1>0, <2>1 DEF Clears, Unregister, OwnedBy
  <2> QED
    BY <1>0, <2>1, <2>2, SameMaker DEF Clears, Others, MakerOf
<1>8. CASE FinishLeave(s)
  <2>1. n \in Registered /\ services'[n] = services[n]
    BY <1>0, <1>8, FinishSteps
  <2>2. services[n].client # s
    BY <1>0, <1>8, <2>1 DEF FinishLeave, MakerOf
  <2> QED
    BY <1>0, <1>8, <2>1, <2>2, FinishSteps, SameMaker DEF Others, MakerOf
<1> QED
  BY <1>0, <1>1, <1>2, <1>3, <1>4, <1>5, <1>6, <1>7, <1>8, StillSteps DEF SessionStep

LEMMA FrameMakers == ASSUME ControlFrame, TypeOK, MadeByOwner PROVE MadeByOwner'
  BY DEF ControlFrame, MadeByOwner, Registered, ListenerOf, TypeOK, Service

\* The sequence facts that a registration of one service needs.
LEMMA TailOfOne == ASSUME NEW S, NEW q \in Seq(S), Len(q) = 1 PROVE Tail(q) = <<>>
<1>1. \A r \in Seq(S) : Len(r) = 0 => r = <<>>
  OBVIOUS
<1>2. Tail(q) \in Seq(S) /\ Len(Tail(q)) = 0
  OBVIOUS
<1> QED
  BY <1>1, <1>2

LEMMA TailOnce ==
    ASSUME NEW q \in Seq(Raw), q # <<>>, IsPool(Head(q)),
           \A i, j \in DOMAIN q : IsPool(q[i]) /\ IsPool(q[j]) => i = j
    PROVE  \A i \in DOMAIN Tail(q) : ~IsPool(Tail(q)[i])
<1>1. 1 \in DOMAIN q /\ Head(q) = q[1]
  OBVIOUS
<1>2. \A i \in DOMAIN Tail(q) : i + 1 \in DOMAIN q /\ i + 1 # 1 /\ Tail(q)[i] = q[i + 1]
  OBVIOUS
<1> QED
  BY <1>1, <1>2

LEMMA TailUnique ==
    ASSUME NEW q \in Seq(Raw), q # <<>>,
           \A i, j \in DOMAIN q : IsPool(q[i]) /\ IsPool(q[j]) => i = j
    PROVE  \A i, j \in DOMAIN Tail(q) : IsPool(Tail(q)[i]) /\ IsPool(Tail(q)[j]) => i = j
<1> SUFFICES ASSUME NEW i \in DOMAIN Tail(q), NEW j \in DOMAIN Tail(q),
                    IsPool(Tail(q)[i]), IsPool(Tail(q)[j])
             PROVE  i = j
  OBVIOUS
<1>1. /\ i + 1 \in DOMAIN q /\ Tail(q)[i] = q[i + 1] /\ i \in Int
      /\ j + 1 \in DOMAIN q /\ Tail(q)[j] = q[j + 1] /\ j \in Int
  OBVIOUS
<1>2. i + 1 = j + 1
  BY <1>1
<1> QED
  BY <1>1, <1>2

LEMMA OwnSingle ==
    ASSUME TypeOK, OnePoolEach, NEW s \in Sessions, SessionPhase(s), Named(s), Fresh(s), Single(s),
           SessionStep(s) \/ ClientStep(s)
    PROVE  Single(s)'
<1> USE DEF Goto
<1>0. /\ ses[s] \in Locals /\ ses \in [Sessions -> Locals] /\ s \in Handlers
      /\ pc \in [Handlers -> SessionPC \cup PublicPC \cup TunnelPC]
      /\ ses[s].todo \in Seq(Raw) /\ ses[s].made \in Seq(Listener)
  BY SessionTyped
<1>1. ASSUME ses'[s].made = ses[s].made, ses'[s].todo = ses[s].todo,
             pc'[s] \in {"bind", "bound", "evict"} => pc[s] \in {"bind", "bound", "evict"}
      PROVE  Single(s)'
  BY <1>1 DEF Single, IsPool
<1>2. CASE Join(s) \/ NextDone(s) \/ RegularListen(s) \/ Evicted(s) \/ NotifyVictim(s)
             \/ RollbackNext(s) \/ Dropped(s) \/ ReportError(s)
  BY <1>0, <1>1, <1>2 DEF Join, NextDone, RegularListen, Evicted, NotifyVictim, RollbackNext,
                          Dropped, ReportError
<1>3. CASE NextRejected(s) \/ RegularRefused(s) \/ RegularReject(s) \/ PoolUnavailable(s)
  <2>1. \E f : Raise(s, f)
    BY <1>3 DEF NextRejected, RegularRefused, RegularReject, PoolUnavailable
  <2>2. ses'[s].made = ses[s].made /\ ses'[s].todo = ses[s].todo /\ pc'[s] = "rollback"
    BY <1>0, <2>1 DEF Raise, Locals
  <2> QED
    BY <1>1, <2>2
<1>4. CASE NextPool(s)
  <2>1. ses'[s].made = ses[s].made /\ ses'[s].todo = ses[s].todo /\ IsPool(Head(ses[s].todo))
    BY <1>0, <1>4 DEF NextPool, Locals, Raws
  <2> QED
    BY <2>1 DEF Single, IsPool
<1>5. CASE NextRegular(s)
  BY <1>0, <1>1, <1>5 DEF NextRegular, Locals
<1>6. CASE RegularInsert(s) \/ PoolInsert(s)
  <2>1. Store(s, TRUE) \/ Store(s, FALSE)
    BY <1>6 DEF RegularInsert, PoolInsert
  <2>2. ses'[s].made = Append(ses[s].made, ses[s].binding) /\ ses'[s].todo = Tail(ses[s].todo)
    BY <1>0, <2>1 DEF Store, Locals
  <2>3. ses[s].todo # <<>> /\ pc'[s] \in {"next", "notify"}
    BY <1>0, <1>6 DEF RegularInsert, PoolInsert, SessionPhase
  <2>4. \A i, j \in DOMAIN ses'[s].todo :
           IsPool(ses'[s].todo[i]) /\ IsPool(ses'[s].todo[j]) => i = j
    BY <1>0, <2>2, <2>3, TailUnique DEF Single
  <2>5. ASSUME PoolPorts # {}
        PROVE  Len(ses'[s].made) = 1 /\ \A i \in DOMAIN ses'[s].todo : ~IsPool(ses'[s].todo[i])
    <3>1. IsPool(Head(ses[s].todo))
      BY <1>6, <2>5 DEF RegularInsert, PoolInsert, Named, Single
    <3>2. ses[s].made = <<>>
      <4>1. 1 \in DOMAIN ses[s].todo /\ Head(ses[s].todo) = ses[s].todo[1]
        BY <1>0, <2>3
      <4> QED
        BY <2>5, <3>1, <4>1 DEF Single
    <3>3. Len(ses'[s].made) = 1
      BY <1>0, <2>2, <3>2
    <3>4. \A i \in DOMAIN ses'[s].todo : ~IsPool(ses'[s].todo[i])
      BY <1>0, <2>2, <2>3, <3>1, TailOnce DEF Single
    <3> QED
      BY <3>3, <3>4
  <2> QED
    BY <2>3, <2>4, <2>5 DEF Single, IsPool
<1>7. CASE RegularDuplicate(s)
  <2>1. ses'[s].made = ses[s].made /\ ses'[s].todo = ses[s].todo /\ pc'[s] = "duplicate"
    BY <1>0, <1>7 DEF RegularDuplicate, Locals
  <2> QED
    BY <1>1, <2>1
<1>8. CASE PoolListen(s)
  <2>1. PICK p \in PoolPorts :
           ses' = [ses EXCEPT ![s].binding = [port |-> p, client |-> s, name |-> s]]
    BY <1>8 DEF PoolListen, PoolName
  <2>2. ses'[s].made = ses[s].made /\ ses'[s].todo = ses[s].todo /\ pc[s] = "bind"
    BY <1>0, <1>8, <2>1 DEF PoolListen, Locals
  <2> QED
    BY <1>1, <2>2
<1>9. CASE PoolRefused(s) \/ RebindFailed(s) \/ AskForce(s)
  <2>1. ses'[s].made = ses[s].made /\ ses'[s].todo = ses[s].todo
    BY <1>0, <1>9 DEF PoolRefused, RebindFailed, AskForce, Locals
  <2>2. pc'[s] \in {"bind", "bound", "evict"} => pc[s] \in {"bind", "bound", "evict"}
    BY <1>0, <1>9 DEF PoolRefused, RebindFailed, AskForce
  <2> QED
    BY <1>1, <2>1, <2>2
<1>10. CASE Evict(s)
  <2>1. PICK v : Takes(s, v)
    BY <1>10, EvictSteps
  <2> QED
    BY <1>1, <2>1 DEF Takes
<1>11. CASE Drop(s)
  <2>1. /\ ses'[s].made = Tail(ses[s].made) /\ ses[s].made # <<>> /\ pc'[s] = "dropping"
    BY <1>11, DropSteps DEF Undoes
  <2>2. ses'[s].todo = ses[s].todo
    BY <1>0, <1>11 DEF Drop, Locals
  <2>3. PoolPorts # {} => ses'[s].made = <<>>
    <3>1. PoolPorts # {} => Len(ses[s].made) = 1
      BY <2>1 DEF Single
    <3> QED
      BY <1>0, <2>1, <3>1, TailOfOne
  <2> QED
    BY <2>1, <2>2, <2>3 DEF Single, IsPool
<1>12. CASE RemoveClient(s)
  <2>1. ses'[s].made = ses[s].made /\ ses'[s].todo = ses[s].todo /\ pc'[s] = "closing"
    BY <1>0, <1>12 DEF RemoveClient, Locals
  <2> QED
    BY <1>1, <2>1
<1>13. CASE FinishLeave(s)
  <2>1. ses'[s].made = <<>> /\ ses'[s].todo = <<>> /\ pc'[s] = "gone"
    BY <1>0, <1>13 DEF FinishLeave, NoLocals, Locals
  <2> QED
    BY <2>1 DEF Single
<1>14. CASE Register(s) \/ Retry(s)
  <2>1. PICK req \in Requests, f \in BOOLEAN :
           ses' = [ses EXCEPT ![s] = [ses[s] EXCEPT !.todo = req, !.force = f]]
    BY <1>14, RegisterWrites
  <2>2. ses'[s].made = ses[s].made /\ ses'[s].todo = req /\ pc'[s] = "next"
    BY <1>0, <1>14, <2>1 DEF Register, Retry, Locals
  <2>3. ses[s].made = <<>>
    BY <1>14 DEF Register, Retry, Fresh
  <2> QED
    BY <2>2, <2>3 DEF Single, OnePoolEach, IsPool
<1>15. CASE Connect(s) \/ RefuseHandshake(s) \/ Decline(s) \/ Depart(s)
  <2>1. ses'[s].made = ses[s].made /\ ses'[s].todo = ses[s].todo /\ pc'[s] \in {"join", "leave"}
    BY <1>0, <1>15 DEF Connect, RefuseHandshake, Decline, Depart, End, Locals
  <2> QED
    BY <1>1, <2>1
<1> QED
  BY <1>2, <1>3, <1>4, <1>5, <1>6, <1>7, <1>8, <1>9, <1>10, <1>11, <1>12, <1>13,
     <1>14, <1>15 DEF SessionStep, ClientStep

\* l is in the map, or its session is about to put it there or to close it.
Placed(l) ==
    \/ l.name \in Registered /\ ListenerOf(l.name) = l
    \/ pc[l.client] \in {"bound", "insert"} /\ ses[l.client].binding = l

\* The name a service is stored under is free, and the service that a rollback
\* takes out of the map is the one the session made.
LEMMA StoreFree ==
    ASSUME LedgerInv, MadeByOwner, NEW s \in Sessions, Single(s),
           RegularInsert(s) \/ PoolInsert(s)
    PROVE  ses[s].binding.name \notin Registered
<1>0. TypeOK /\ SessionPhase(s) /\ Named(s) /\ PoolEntries
  BY DEF LedgerInv, TypeInv, Phases
<1>1. CASE RegularInsert(s)
  BY <1>1 DEF RegularInsert, NameTaken
<1>2. CASE PoolInsert(s)
  <2>1. PoolPorts # {} /\ ses[s].binding.name = s
    BY <1>0, <1>2 DEF PoolInsert, Named
  <2>2. s \notin Registered
    <3> SUFFICES ASSUME s \in Registered PROVE FALSE
      OBVIOUS
    <3>1. services[s].client = s
      BY <1>0, <2>1 DEF PoolEntries
    <3>2. PICK i \in DOMAIN ses[s].made : TRUE
      BY <3>1 DEF MadeByOwner
    <3>3. \A j \in DOMAIN ses[s].todo : ~IsPool(ses[s].todo[j])
      BY <2>1, <3>2 DEF Single
    <3>4. ses[s].todo # <<>> /\ IsPool(Head(ses[s].todo))
      BY <1>0, <1>2 DEF PoolInsert, SessionPhase, Single
    <3>5. 1 \in DOMAIN ses[s].todo /\ Head(ses[s].todo) = ses[s].todo[1]
      BY <1>0, <3>4, SessionTyped
    <3> QED
      BY <3>3, <3>4, <3>5
  <2> QED
    BY <2>1, <2>2
<1> QED
  BY <1>1, <1>2

LEMMA DropOwn ==
    ASSUME LedgerInv, MadeByOwner, NEW s \in Sessions, Single(s),
           pc[s] = "drop", Head(ses[s].made).name \in Registered
    PROVE  ListenerOf(Head(ses[s].made).name) = Head(ses[s].made)
<1> DEFINE k == Head(ses[s].made)
<1>0. TypeInv /\ TypeOK /\ SessionPhase(s) /\ Named(s) /\ PoolEntries /\ RegularKept
  BY DEF LedgerInv, TypeInv, Phases
<1>1. ses[s].made \in Seq(Listener) /\ ses[s].made # <<>> /\ 1 \in DOMAIN ses[s].made
      /\ k = ses[s].made[1]
  <2>1. ses[s].made \in Seq(Listener) /\ ses[s].made # <<>>
    BY <1>0, SessionTyped DEF SessionPhase
  <2> QED
    BY <2>1
<1>2. CASE PoolPorts = {}
  BY <1>0, <1>1, <1>2 DEF RegularKept, Kept
<1>3. CASE PoolPorts # {}
  <2>1. k.name = s /\ services[s].client = s
    BY <1>0, <1>1, <1>3 DEF Named, PoolEntries
  <2>2. PICK i \in DOMAIN ses[s].made : ses[s].made[i] = ListenerOf(s)
    BY <2>1 DEF MadeByOwner
  <2>3. Len(ses[s].made) = 1
    BY <1>1, <1>3 DEF Single
  <2>4. i = 1
    BY <1>1, <2>2, <2>3
  <2> QED
    BY <1>1, <2>1, <2>2, <2>4
<1> QED
  BY <1>2, <1>3

\* Closing what is taken out of the map leaves the rest accounted for.
LEMMA ClosingPlaced ==
    ASSUME NEW N, Unregister(N), NEW L, Close(L), NEW s \in Sessions, Others(s),
           pc[s] \notin {"bound", "insert"},
           \A n \in N \cap Registered : ListenerOf(n) \in L,
           NEW l \in listening', l \in Listener, Placed(l)
    PROVE  Placed(l)'
<1>0. l \notin L /\ l.name \in Names /\ l.client \in Sessions
  BY DEF Close, Listener
<1>1. CASE l.name \in Registered /\ ListenerOf(l.name) = l
  BY <1>0, <1>1, UnregisterEntries, EntryKept DEF Registered, Placed
<1>2. CASE pc[l.client] \in {"bound", "insert"} /\ ses[l.client].binding = l
  BY <1>0, <1>2 DEF Others, Placed
<1> QED
  BY <1>1, <1>2 DEF Placed

LEMMA SessionPlaces ==
    ASSUME LedgerInv, MadeByOwner, Accounted, NEW s \in Sessions, Single(s),
           SessionStep(s) \/ ClientStep(s)
    PROVE  Accounted'
<1> SUFFICES ASSUME NEW l \in listening' PROVE Placed(l)'
  BY DEF Accounted, Placed
<1>0. TypeInv /\ TypeOK /\ SessionPhase(s) /\ Named(s) /\ Others(s)
  BY SessionOthers DEF LedgerInv, TypeInv, Phases
<1>1. \A m \in listening : m \in Listener /\ Placed(m) /\ m.name \in Names /\ m.client \in Sessions
  BY <1>0 DEF TypeOK, Listener, Accounted, Placed
<1>2. CASE Still
  BY <1>1, <1>2 DEF Still, Placed, Registered, ListenerOf
<1>3. CASE RegularListen(s) \/ PoolListen(s)
  <2>1. PICK m : Opens(s, m)
    BY <1>0, <1>3, OpenSteps
  <2>2. CASE l = m
    BY <2>1, <2>2 DEF Opens, Placed
  <2>3. CASE l # m
    <3>1. l \in listening
      BY <2>1, <2>3 DEF Opens
    <3>2. CASE l.name \in Registered /\ ListenerOf(l.name) = l
      BY <2>1, <3>2 DEF Opens, Placed, Registered, ListenerOf
    <3>3. CASE pc[l.client] \in {"bound", "insert"} /\ ses[l.client].binding = l
      BY <1>1, <2>1, <3>1, <3>3 DEF Opens, Others, Placed
    <3> QED
      BY <1>1, <3>1, <3>2, <3>3 DEF Placed
  <2> QED
    BY <2>2, <2>3
<1>4. CASE RegularInsert(s) \/ PoolInsert(s)
  <2>1. PICK p \in BOOLEAN : Stores(s, ses[s].binding, p)
    BY <1>0, <1>4, StoreSteps
  <2>2. PICK m : m = ses[s].binding
    OBVIOUS
  <2>3. m \in Listener /\ m.client = s /\ m.name \in Names
    BY <1>0, <1>4, <2>2 DEF SessionPhase, RegularInsert, PoolInsert, Listener
  <2>4. m.name \notin Registered
    BY <1>4, <2>2, StoreFree
  <2>5. m.name \in Registered' /\ ListenerOf(m.name)' = m
    <3>1. m = [port |-> m.port, client |-> s, name |-> m.name]
      BY <2>3 DEF Listener
    <3>2. ListenerOf(m.name)' = [port |-> m.port, client |-> s, name |-> m.name]
      BY <2>1, <2>2 DEF ListenerOf, Stores
    <3> QED
      BY <2>1, <2>2, <2>3, <3>1, <3>2 DEF Registered, Stores
  <2>6. l \in listening
    BY <2>1 DEF Stores
  <2>7. CASE l.name \in Registered /\ ListenerOf(l.name) = l
    <3>1. services'[l.name] = services[l.name]
      BY <1>1, <2>1, <2>2, <2>4, <2>6, <2>7 DEF Stores
    <3> QED
      BY <1>1, <2>6, <2>7, <3>1, EntryKept DEF Placed
  <2>8. CASE pc[l.client] \in {"bound", "insert"} /\ ses[l.client].binding = l
    <3>1. CASE l.client = s
      BY <2>2, <2>5, <2>8, <3>1 DEF Placed
    <3>2. CASE l.client # s
      BY <1>1, <2>1, <2>6, <2>8, <3>2 DEF Stores, Others, Placed
    <3> QED
      BY <3>1, <3>2
  <2> QED
    BY <1>1, <2>6, <2>7, <2>8 DEF Placed
<1>5. CASE RegularDuplicate(s)
  <2>1. /\ services' = services /\ listening' = listening \ {ses[s].binding}
        /\ pc[s] = "insert" /\ pc'[s] = "duplicate"
    BY <1>0, <1>5, DuplicateSteps
  <2>2. l \in listening /\ l # ses[s].binding
    BY <2>1
  <2>3. CASE l.name \in Registered /\ ListenerOf(l.name) = l
    BY <2>1, <2>3 DEF Placed, Registered, ListenerOf
  <2>4. CASE pc[l.client] \in {"bound", "insert"} /\ ses[l.client].binding = l
    BY <1>0, <1>1, <2>2, <2>4 DEF Others, Placed
  <2> QED
    BY <1>1, <2>2, <2>3, <2>4 DEF Placed
<1>6. CASE Evict(s)
  <2>1. PICK v : Takes(s, v)
    BY <1>0, <1>6, EvictSteps
  <2>2. l \in listening /\ \A n \in OwnedBy(v) : ListenerOf(n) \in {ListenerOf(m) : m \in OwnedBy(v)}
    BY <2>1 DEF Takes, Close
  <2> QED
    BY <1>1, <2>1, <2>2, ClosingPlaced DEF Takes
<1>7. CASE Drop(s)
  <2>1. Undoes(s, Head(ses[s].made))
    BY <1>0, <1>7, DropSteps
  <2>2. l \in listening
    BY <2>1 DEF Undoes, Close
  <2>3. \A n \in {Head(ses[s].made).name} \cap Registered : ListenerOf(n) \in {Head(ses[s].made)}
    BY <2>1, DropOwn DEF Undoes
  <2> QED
    BY <1>1, <2>1, <2>2, <2>3, ClosingPlaced DEF Undoes
<1>8. CASE RemoveClient(s)
  <2>1. Clears(s)
    BY <1>0, <1>8, RemoveSteps
  <2>2. l \in listening /\ \A n \in OwnedBy(s) : ListenerOf(n) \in {ListenerOf(m) : m \in OwnedBy(s)}
    BY <2>1 DEF Clears, Close
  <2> QED
    BY <1>1, <2>1, <2>2, ClosingPlaced DEF Clears
<1>9. CASE FinishLeave(s)
  <2>1. /\ UNCHANGED <<services, listening>> /\ pc[s] = "closing"
    BY <1>0, <1>9, FinishSteps
  <2>2. CASE l.name \in Registered /\ ListenerOf(l.name) = l
    BY <2>1, <2>2 DEF Placed, Registered, ListenerOf
  <2>3. CASE pc[l.client] \in {"bound", "insert"} /\ ses[l.client].binding = l
    BY <1>0, <1>1, <2>1, <2>3 DEF Others, Placed
  <2> QED
    BY <1>1, <2>1, <2>2, <2>3 DEF Placed
<1> QED
  BY <1>0, <1>2, <1>3, <1>4, <1>5, <1>6, <1>7, <1>8, <1>9, StillSteps DEF SessionStep

LEMMA FramePlaces == ASSUME ControlFrame, TypeOK, Accounted PROVE Accounted'
<1>1. \A l \in listening : l.client \in Sessions
  BY DEF TypeOK, Listener
<1> QED
  BY <1>1 DEF ControlFrame, Accounted, Registered, ListenerOf

-----------------------------------------------------------------------------
(* Binding a pool port under the lock.                                     *)

LEMMA WriterHasLock ==
    ASSUME TypeOK, NEW s \in Sessions, SessionStep(s) \/ ClientStep(s)
    PROVE  services' = services \/ HasLock(s)
<1>1. CASE Still
  BY <1>1 DEF Still
<1>2. CASE RegularListen(s) \/ PoolListen(s) \/ RegularDuplicate(s) \/ FinishLeave(s)
  BY <1>2 DEF RegularListen, PoolListen, RegularDuplicate, FinishLeave, maps
<1>3. CASE RegularInsert(s) \/ PoolInsert(s) \/ Evict(s) \/ Drop(s) \/ RemoveClient(s)
  BY <1>3 DEF RegularInsert, PoolInsert, Evict, Exhausted, Drop, RemoveClient
<1> QED
  BY <1>1, <1>2, <1>3, StillSteps DEF SessionStep

\* Where a pool registration goes, and with what it has tried and evicted.
LEMMA PoolMoves ==
    ASSUME TypeOK, NEW s \in Sessions, SessionStep(s) \/ ClientStep(s)
    PROVE  /\ pc'[s] = "bound" => PoolListen(s)
           /\ pc'[s] \in {"evict", "bind"} =>
                 NextPool(s) \/ PoolRefused(s) \/ Evict(s) \/ Evicted(s)
           /\ pc'[s] = "notify" => (PoolInsert(s) /\ ses[s].victim # None) \/ RebindFailed(s)
<1> USE DEF Goto
<1>0. s \in Handlers /\ pc \in [Handlers -> SessionPC \cup PublicPC \cup TunnelPC]
  BY SessionTyped
<1>1. CASE NextPool(s) \/ PoolRefused(s) \/ Evict(s) \/ Evicted(s) \/ PoolListen(s)
             \/ PoolInsert(s) \/ RebindFailed(s)
  BY <1>0, <1>1 DEF NextPool, PoolRefused, Evict, Evicted, PoolListen, PoolInsert, RebindFailed
<1>2. CASE Join(s) \/ NextRejected(s) \/ NextRegular(s) \/ NextDone(s) \/ RegularListen(s)
             \/ RegularRefused(s) \/ RegularInsert(s) \/ RegularDuplicate(s) \/ RegularReject(s)
             \/ PoolUnavailable(s) \/ NotifyVictim(s)
  <2>1. pc'[s] \notin {"bound", "evict", "bind", "notify"}
    BY <1>0, <1>2 DEF Join, NextRejected, NextRegular, NextDone, RegularListen, RegularRefused,
       RegularInsert, RegularDuplicate, RegularReject, PoolUnavailable, NotifyVictim, Raise
  <2> QED
    BY <2>1
<1>3. CASE RollbackNext(s) \/ Drop(s) \/ Dropped(s) \/ AskForce(s) \/ ReportError(s)
             \/ RemoveClient(s) \/ FinishLeave(s) \/ ClientStep(s)
  <2>1. pc'[s] \notin {"bound", "evict", "bind", "notify"}
    BY <1>0, <1>3 DEF RollbackNext, Drop, Dropped, AskForce, ReportError, RemoveClient, FinishLeave,
       ClientStep, Connect, Register, RefuseHandshake, Retry, Decline, Depart, End
  <2> QED
    BY <2>1
<1> QED
  BY <1>1, <1>2, <1>3 DEF SessionStep

\* What was tried and who was evicted change only at the start of a pass over
\* the pool, at a port that is refused, and at an eviction.
LEMMA TrialsKept ==
    ASSUME TypeOK, NEW s \in Sessions, SessionStep(s) \/ ClientStep(s),
           ~NextPool(s), ~PoolRefused(s), ~Evict(s), ~FinishLeave(s)
    PROVE  ses'[s].tried = ses[s].tried /\ ses'[s].victim = ses[s].victim
<1>0. /\ ses[s] \in Locals /\ ses \in [Sessions -> Locals]
  BY SessionTyped
<1>1. CASE Join(s) \/ NextDone(s) \/ RegularListen(s) \/ Evicted(s) \/ NotifyVictim(s)
             \/ RollbackNext(s) \/ Dropped(s) \/ ReportError(s)
  BY <1>1 DEF Join, NextDone, RegularListen, Evicted, NotifyVictim, RollbackNext, Dropped,
              ReportError
<1>2. CASE NextRejected(s) \/ RegularRefused(s) \/ RegularReject(s) \/ PoolUnavailable(s)
  <2>1. \E f : Raise(s, f)
    BY <1>2 DEF NextRejected, RegularRefused, RegularReject, PoolUnavailable
  <2> QED
    BY <1>0, <2>1 DEF Raise, Locals
<1>3. CASE RegularInsert(s) \/ PoolInsert(s)
  <2>1. Store(s, TRUE) \/ Store(s, FALSE)
    BY <1>3 DEF RegularInsert, PoolInsert
  <2> QED
    BY <1>0, <2>1 DEF Store, Locals
<1>4. CASE NextRegular(s) \/ RegularDuplicate(s) \/ RebindFailed(s) \/ Drop(s) \/ AskForce(s)
             \/ RemoveClient(s)
  BY <1>0, <1>4 DEF NextRegular, RegularDuplicate, RebindFailed, Drop, AskForce, RemoveClient, Locals
<1>5. CASE PoolListen(s)
  <2>1. PICK p \in PoolPorts :
           ses' = [ses EXCEPT ![s].binding = [port |-> p, client |-> s, name |-> s]]
    BY <1>5 DEF PoolListen, PoolName
  <2> QED
    BY <1>0, <2>1 DEF Locals
<1>6. CASE Connect(s) \/ RefuseHandshake(s) \/ Decline(s) \/ Depart(s)
  BY <1>0, <1>6 DEF Connect, RefuseHandshake, Decline, Depart, End, Locals
<1>7. CASE Register(s) \/ Retry(s)
  <2>1. PICK req \in Requests, f \in BOOLEAN :
           ses' = [ses EXCEPT ![s] = [ses[s] EXCEPT !.todo = req, !.force = f]]
    BY <1>7, RegisterWrites
  <2> QED
    BY <1>0, <2>1 DEF Locals
<1> QED
  BY <1>1, <1>2, <1>3, <1>4, <1>5, <1>6, <1>7 DEF SessionStep, ClientStep

\* A listener of this process on a pool port belongs to a pool service, unless
\* a session that has the lock has just opened it.
LEMMA TakenIsUsed ==
    ASSUME LedgerInv, Accounted, NEW p \in PoolPorts, Taken(p)
    PROVE  p \in UsedPorts \/ \E r \in Sessions : pc[r] = "bound" /\ HasLock(r)
<1>0. /\ LockKept /\ PoolEntries /\ \A s \in Sessions : Named(s)
      /\ \A l \in listening : l.client \in Sessions
  BY DEF LedgerInv, TypeInv, TypeOK, Listener
<1>1. PICK l \in listening : l.port = p
  BY DEF Taken
<1>2. CASE l.name \in Registered /\ ListenerOf(l.name) = l
  <2>1. services[l.name].port = p /\ services[l.name].pool
    BY <1>0, <1>1, <1>2 DEF ListenerOf, PoolEntries
  <2> QED
    BY <1>2, <2>1 DEF UsedPorts
<1>3. CASE pc[l.client] \in {"bound", "insert"} /\ ses[l.client].binding = l
  BY <1>0, <1>1, <1>3 DEF Named, LockKept, Keeps
<1> QED
  BY <1>1, <1>2, <1>3 DEF Accounted

LEMMA OwnTried ==
    ASSUME LedgerInv, Accounted, NEW s \in Sessions, TriedBusy(s), SessionStep(s) \/ ClientStep(s)
    PROVE  TriedBusy(s)'
<1>0. /\ ses[s] \in Locals /\ ses \in [Sessions -> Locals] /\ TypeOK
  BY SessionTyped DEF LedgerInv, TypeInv
<1>1. CASE NextPool(s)
  BY <1>0, <1>1 DEF NextPool, TriedBusy, Locals
<1>2. CASE PoolRefused(s)
  <2>1. PICK p \in PoolPorts :
           /\ p \in Candidates(s)
           /\ Taken(p) \/ p \in BusyPorts
           /\ ses' = [ses EXCEPT ![s].tried = @ \cup {p}]
    BY <1>2 DEF PoolRefused, Lowest
  <2>2. p \in BusyPorts
    <3>1. p \notin UsedPorts
      BY <2>1 DEF Candidates
    <3>2. \A r \in Sessions : pc[r] = "bound" => ~HasLock(r)
      BY <1>2 DEF PoolRefused, HasLock
    <3> QED
      BY <2>1, <3>1, <3>2, TakenIsUsed
  <2>3. ses'[s].tried = ses[s].tried \cup {p}
    BY <1>0, <2>1 DEF Locals
  <2> QED
    BY <2>2, <2>3 DEF TriedBusy
<1>3. CASE Evict(s)
  BY <1>0, <1>3, EvictSteps DEF Takes, TriedBusy
<1>4. CASE FinishLeave(s)
  BY <1>0, <1>4 DEF FinishLeave, NoLocals, TriedBusy, Locals
<1> QED
  BY <1>0, <1>1, <1>2, <1>3, <1>4, TrialsKept DEF TriedBusy

LEMMA OwnLower ==
    ASSUME TypeOK, NEW s \in Sessions, SessionStep(s) \/ ClientStep(s)
    PROVE  LowerTaken(s)'
<1> SUFFICES ASSUME pc'[s] = "bound", NEW r \in PoolPorts, r < ses'[s].binding.port
             PROVE  r \in UsedPorts' \/ r \in ses'[s].tried
  BY DEF LowerTaken
<1>0. /\ ses[s] \in Locals /\ ses \in [Sessions -> Locals]
  BY SessionTyped
<1>1. PoolListen(s)
  BY PoolMoves
<1>2. PICK p \in PoolPorts :
         /\ Lowest(s, p)
         /\ ses' = [ses EXCEPT ![s].binding = [port |-> p, client |-> s, name |-> s]]
  BY <1>1 DEF PoolListen, PoolName
<1>3. ses'[s].binding.port = p /\ ses'[s].tried = ses[s].tried
  BY <1>0, <1>2 DEF Locals
<1>4. r \notin Candidates(s)
  <2>1. p \in Int /\ r \in Int
    BY ConfigAssumption
  <2>2. r \in Candidates(s) => p <= r
    BY <1>2 DEF Lowest
  <2> QED
    BY <1>3, <2>1, <2>2
<1>5. UsedPorts' = UsedPorts
  BY <1>1 DEF PoolListen, UsedPorts, Registered
<1> QED
  BY <1>3, <1>4, <1>5 DEF Candidates

\* The port of the service an eviction picks is free afterwards.
LEMMA EvictFrees ==
    ASSUME LedgerInv, NEW s \in Sessions, Evict(s)
    PROVE  \E p \in PoolPorts : p \notin UsedPorts'
<1>0. /\ TypeOK /\ Named(s) /\ PoolEntries /\ PortsApart /\ ServiceListening
  BY DEF LedgerInv, TypeInv, ListenInv
<1>1. PICK n \in Oldest(Worst(Eligible(s, Head(Raws(s)).prio))) : Takes(s, services[n].client)
  BY <1>0, EvictSteps
<1>2. n \in OwnedBy(services[n].client) /\ services[n].pool /\ n \in Registered
  BY <1>1 DEF Oldest, Worst, Eligible, Rivals, OwnedBy
<1>3. services[n].port \in PoolPorts
  BY <1>0, <1>1, <1>2 DEF Takes, Named, PoolEntries
<1>4. services[n].port \notin UsedPorts'
  <2> SUFFICES ASSUME NEW m \in Registered', services'[m].port = services[n].port PROVE FALSE
    BY DEF UsedPorts
  <2>1. m \in Registered /\ m # n /\ services'[m] = services[m]
    BY <1>1, <1>2, UnregisterEntries DEF Takes, Registered
  <2>2. ListenerOf(m) = ListenerOf(n)
    <3>1. ListenerOf(m) \in listening /\ ListenerOf(n) \in listening
      BY <1>0, <1>2, <2>1 DEF ServiceListening
    <3>2. ListenerOf(m).port = ListenerOf(n).port
      BY <2>1 DEF ListenerOf
    <3> QED
      BY <1>0, <3>1, <3>2 DEF PortsApart
  <2>3. ListenerOf(m).name = m /\ ListenerOf(n).name = n
    BY DEF ListenerOf
  <2> QED
    BY <2>1, <2>2, <2>3
<1> QED
  BY <1>3, <1>4

LEMMA OwnFreed ==
    ASSUME LedgerInv, NEW s \in Sessions, PortFreed(s), SessionStep(s) \/ ClientStep(s)
    PROVE  PortFreed(s)'
<1> SUFFICES ASSUME pc'[s] \in {"evict", "bind"}, ses'[s].victim # None
             PROVE  (\E p \in PoolPorts : p \notin UsedPorts)'
  BY DEF PortFreed
<1>0. /\ ses[s] \in Locals /\ ses \in [Sessions -> Locals] /\ TypeOK
  BY SessionTyped DEF LedgerInv, TypeInv
<1>1. CASE NextPool(s)
  BY <1>0, <1>1 DEF NextPool, Locals
<1>2. CASE Evict(s)
  BY <1>2, EvictFrees
<1>3. CASE PoolRefused(s) \/ Evicted(s)
  <2>1. services' = services /\ pc[s] \in {"evict", "bind"}
    BY <1>3 DEF PoolRefused, Evicted, maps
  <2>2. ses'[s].victim = ses[s].victim
    BY <1>0, <1>3 DEF PoolRefused, Evicted, Locals
  <2>3. UsedPorts' = UsedPorts
    BY <2>1 DEF UsedPorts, Registered
  <2> QED
    BY <2>1, <2>2, <2>3 DEF PortFreed
<1> QED
  BY <1>0, <1>1, <1>2, <1>3, PoolMoves

\* The pool passes of other sessions are not disturbed by a step that changes
\* the map: they hold the lock.
LEMMA SessionPasses ==
    ASSUME LedgerInv, Accounted, \A o \in Sessions : TriedBusy(o) /\ LowerTaken(o) /\ PortFreed(o),
           NEW s \in Sessions, SessionStep(s) \/ ClientStep(s)
    PROVE  \A o \in Sessions : TriedBusy(o)' /\ LowerTaken(o)' /\ PortFreed(o)'
<1>0. TypeOK /\ LockKept /\ Others(s)
  BY SessionOthers DEF LedgerInv, TypeInv
<1>1. TriedBusy(s)' /\ LowerTaken(s)' /\ PortFreed(s)'
  BY <1>0, OwnTried, OwnLower, OwnFreed
<1>2. ASSUME NEW o \in Sessions, o # s PROVE TriedBusy(o)' /\ LowerTaken(o)' /\ PortFreed(o)'
  <2>1. pc'[o] = pc[o] /\ ses'[o] = ses[o]
    BY <1>0, <1>2 DEF Others
  <2>2. CASE services' = services
    <3>1. UsedPorts' = UsedPorts
      BY <2>2 DEF UsedPorts, Registered
    <3> QED
      BY <2>1, <3>1 DEF TriedBusy, LowerTaken, PortFreed
  <2>3. CASE services' # services
    <3>1. ~Keeps(o)
      BY <1>0, <1>2, <2>3, WriterHasLock DEF LockKept, HasLock
    <3> QED
      BY <2>1, <3>1 DEF Keeps, TriedBusy, LowerTaken, PortFreed
  <2> QED
    BY <2>2, <2>3
<1> QED
  BY <1>1, <1>2

LEMMA FramePasses ==
    ASSUME ControlFrame, NEW o \in Sessions, TriedBusy(o), LowerTaken(o), PortFreed(o)
    PROVE  TriedBusy(o)' /\ LowerTaken(o)' /\ PortFreed(o)'
<1>1. UsedPorts' = UsedPorts
  BY DEF ControlFrame, UsedPorts, Registered
<1> QED
  BY <1>1 DEF ControlFrame, TriedBusy, LowerTaken, PortFreed

-----------------------------------------------------------------------------
(* What becomes of an evicted session.                                     *)

\* A notice under way is delivered: the victim's writer is closed then.
LEMMA NoticeMoves ==
    ASSUME TypeOK, NEW s \in Sessions, SessionStep(s) \/ ClientStep(s), NEW v \in Sessions
    PROVE  /\ Evicting(s, v) => Evicting(s, v)' \/ v \in hungup'
           /\ hungup \subseteq hungup'
<1> USE DEF Goto
<1>0. /\ ses[s] \in Locals /\ ses \in [Sessions -> Locals] /\ s \in Handlers
      /\ pc \in [Handlers -> SessionPC \cup PublicPC \cup TunnelPC]
      /\ v # None
  BY SessionTyped, KindsAssumption DEF Handlers
<1>1. hungup \subseteq hungup'
  <2>1. CASE NotifyVictim(s) \/ FinishLeave(s)
    BY <2>1 DEF NotifyVictim, FinishLeave, HangUp
  <2>2. CASE Join(s) \/ NextRejected(s) \/ NextPool(s) \/ NextRegular(s) \/ NextDone(s)
               \/ RegularListen(s) \/ RegularRefused(s) \/ RegularInsert(s)
               \/ RegularDuplicate(s) \/ RegularReject(s) \/ PoolListen(s) \/ PoolRefused(s)
               \/ PoolInsert(s) \/ PoolUnavailable(s) \/ Evict(s) \/ Evicted(s)
    BY <2>2 DEF Join, NextRejected, NextPool, NextRegular, NextDone, RegularListen,
       RegularRefused, RegularInsert, RegularDuplicate, RegularReject, PoolListen, PoolRefused,
       PoolInsert, PoolUnavailable, Evict, Evicted, wire
  <2>3. CASE RebindFailed(s) \/ RollbackNext(s) \/ Drop(s) \/ Dropped(s) \/ AskForce(s)
               \/ ReportError(s) \/ RemoveClient(s) \/ ClientStep(s)
    BY <2>3 DEF RebindFailed, RollbackNext, Drop, Dropped, AskForce, ReportError, RemoveClient,
       ClientStep, Connect, Register, RefuseHandshake, Retry, Decline, Depart, End, wire
  <2> QED
    BY <2>1, <2>2, <2>3 DEF SessionStep
<1>2. ASSUME Evicting(s, v) PROVE Evicting(s, v)' \/ v \in hungup'
  <2>0. ses[s].victim = v /\ pc[s] \in {"evict", "bind", "bound", "notify"} /\ v # None
    BY <1>0, <1>2 DEF Evicting
  <2>1. CASE NotifyVictim(s)
    BY <2>0, <2>1 DEF NotifyVictim, HangUp
  <2>2. CASE PoolRefused(s)
    BY <1>0, <2>0, <2>2 DEF PoolRefused, Evicting, Locals
  <2>3. CASE PoolListen(s) \/ PoolInsert(s) \/ Evicted(s) \/ RebindFailed(s)
    <3>1. ses'[s].victim = v
      <4>1. ~NextPool(s) /\ ~PoolRefused(s) /\ ~Evict(s) /\ ~FinishLeave(s)
        BY <1>0, <2>0, <2>3 DEF NextPool, PoolRefused, Evict, FinishLeave, PoolListen, PoolInsert,
           Evicted, RebindFailed, Exhausted
      <4> QED
        BY <2>0, <4>1, TrialsKept
    <3>2. pc'[s] \in {"evict", "bind", "bound", "notify"}
      BY <1>0, <2>0, <2>3 DEF PoolListen, PoolInsert, Evicted, RebindFailed
    <3> QED
      BY <3>1, <3>2 DEF Evicting
  <2>4. CASE PoolUnavailable(s) \/ Evict(s)
    BY <2>0, <2>4 DEF PoolUnavailable, Evict
  <2>5. CASE Join(s) \/ NextRejected(s) \/ NextPool(s) \/ NextRegular(s) \/ NextDone(s)
               \/ RegularListen(s) \/ RegularRefused(s) \/ RegularInsert(s)
               \/ RegularDuplicate(s) \/ RegularReject(s)
    BY <2>0, <2>5 DEF Join, NextRejected, NextPool, NextRegular, NextDone, RegularListen,
       RegularRefused, RegularInsert, RegularDuplicate, RegularReject
  <2>6. CASE RollbackNext(s) \/ Drop(s) \/ Dropped(s) \/ AskForce(s) \/ ReportError(s)
               \/ RemoveClient(s) \/ FinishLeave(s) \/ ClientStep(s)
    BY <2>0, <2>6 DEF RollbackNext, Drop, Dropped, AskForce, ReportError, RemoveClient, FinishLeave,
       ClientStep, Connect, Register, RefuseHandshake, Retry, Decline, Depart, End
  <2> QED
    BY <2>1, <2>2, <2>3, <2>4, <2>5, <2>6 DEF SessionStep
<1> QED
  BY <1>1, <1>2

\* In a pool server the entry of another session goes only by an eviction,
\* whose notice is then under way.
LEMMA PoolEntryMoves ==
    ASSUME LedgerInv, PoolPorts # {}, NEW s \in Sessions, SessionStep(s) \/ ClientStep(s)
    PROVE  /\ \A n \in Sessions \ {s} : services'[n] = services[n] \/ Evicting(s, n)'
           /\ ~PoolInsert(s) /\ ~Drop(s) /\ ~RemoveClient(s) => services'[s] = services[s]
<1>0. /\ TypeOK /\ SessionPhase(s) /\ Named(s) /\ PoolEntries /\ Sessions \subseteq Names
  BY DEF LedgerInv, TypeInv, Phases, Names
<1>1. CASE services' = services
  BY <1>1
<1>2. CASE PoolInsert(s)
  <2>1. Stores(s, ses[s].binding, TRUE) /\ ses[s].binding.name = s
    BY <1>0, <1>2, StoreSteps DEF PoolInsert, Named
  <2> QED
    BY <1>0, <1>2, <2>1 DEF Stores
<1>3. CASE Evict(s)
  <2>1. PICK v : Takes(s, v) /\ v # s
    BY <1>0, <1>3, EvictSteps DEF Oldest, Worst, Eligible, Rivals
  <2>2. \A n \in Sessions : n \in OwnedBy(v) => n = v
    BY <1>0 DEF OwnedBy, PoolEntries
  <2>3. \A n \in Sessions : n # v => services'[n] = services[n]
    BY <1>0, <2>1, <2>2 DEF Takes, Unregister
  <2>4. Evicting(s, v)'
    BY <2>1 DEF Takes, Evicting
  <2> QED
    BY <2>1, <2>3, <2>4
<1>4. CASE Drop(s)
  <2> DEFINE k == Head(ses[s].made)
  <2>1. Undoes(s, k) /\ ses[s].made \in Seq(Listener) /\ ses[s].made # <<>>
    BY <1>0, <1>4, DropSteps, SessionTyped DEF Undoes
  <2>2. k.name = s
    <3>1. 1 \in DOMAIN ses[s].made /\ k = ses[s].made[1]
      BY <2>1
    <3> QED
      BY <1>0, <3>1 DEF Named
  <2> QED
    BY <1>0, <1>4, <2>1, <2>2 DEF Undoes, Unregister
<1>5. CASE RemoveClient(s)
  <2>1. Clears(s)
    BY <1>0, <1>5, RemoveSteps
  <2>2. \A n \in Sessions : n \in OwnedBy(s) => n = s
    BY <1>0 DEF OwnedBy, PoolEntries
  <2> QED
    BY <1>0, <1>5, <2>1, <2>2 DEF Clears, Unregister
<1>6. CASE Still \/ RegularDuplicate(s) \/ FinishLeave(s)
  BY <1>0, <1>1, <1>6, DuplicateSteps, FinishSteps DEF Still
<1>7. CASE RegularListen(s) \/ PoolListen(s)
  BY <1>0, <1>1, <1>7, OpenSteps DEF Opens
<1>8. ~RegularInsert(s)
  BY <1>0 DEF RegularInsert, Named
<1> QED
  BY <1>0, <1>2, <1>3, <1>4, <1>5, <1>6, <1>7, <1>8, StillSteps DEF SessionStep

\* A session whose entry stays keeps what it made.
LEMMA EntryKeeps ==
    ASSUME PoolPorts # {}, NEW o \in Sessions, Named(o), Kept(o),
           services'[o] = services[o], ses'[o].made = ses[o].made
    PROVE  Kept(o)'
  BY DEF Named, Kept, Registered, ListenerOf

LEMMA OwnKept ==
    ASSUME LedgerInv, PoolPorts # {}, NEW s \in Sessions, Single(s), Single(s)', TypeOK',
           Kept(s) \/ s \in hungup \/ \E r \in Sessions : Evicting(r, s),
           SessionStep(s) \/ ClientStep(s), pc'[s] # "closing"
    PROVE  Kept(s)' \/ s \in hungup' \/ (\E r \in Sessions : Evicting(r, s))'
<1>0. /\ TypeOK /\ SessionPhase(s) /\ Named(s) /\ Others(s)
      /\ ses[s].made \in Seq(Listener) /\ ses'[s].made \in Seq(Listener)
  <2>1. TypeOK /\ SessionPhase(s) /\ Named(s) /\ Others(s)
    BY SessionOthers DEF LedgerInv, TypeInv, Phases
  <2>2. ses'[s].made \in Seq(Listener)
    BY DEF TypeOK, Locals
  <2> QED
    BY <2>1, <2>2, SessionTyped
<1>1. CASE ~Kept(s)
  <2>1. CASE s \in hungup
    BY <1>0, <2>1, NoticeMoves
  <2>2. ASSUME NEW r \in Sessions, Evicting(r, s)
        PROVE  s \in hungup' \/ (\E q \in Sessions : Evicting(q, s))'
    <3>1. CASE r = s
      BY <1>0, <2>2, <3>1, NoticeMoves
    <3>2. CASE r # s
      <4>1. Evicting(r, s)'
        BY <1>0, <2>2, <3>2 DEF Evicting, Others
      <4> QED
        BY <4>1
    <3> QED
      BY <3>1, <3>2
  <2> QED
    BY <1>1, <2>1, <2>2
<1>2. CASE Kept(s)
  <2>1. ASSUME services'[s] = services[s], ses'[s].made = ses[s].made PROVE Kept(s)'
    BY <1>0, <1>2, <2>1, EntryKeeps
  <2>2. CASE PoolInsert(s)
    <3>1. PICK l : l = ses[s].binding
      OBVIOUS
    <3>2. Stores(s, l, TRUE) /\ l \in Listener /\ l.client = s
      BY <1>0, <2>2, <3>1, StoreSteps DEF SessionPhase, PoolInsert
    <3>3. l.name \in Registered' /\ ListenerOf(l.name)' = l
      <4>1. l = [port |-> l.port, client |-> s, name |-> l.name] /\ l.name \in Names
        BY <3>2 DEF Listener
      <4> QED
        BY <3>2, <4>1 DEF Stores, Registered, ListenerOf
    <3>4. ses'[s].made = Append(ses[s].made, l)
      BY <3>2 DEF Stores
    <3>5. Len(ses'[s].made) = 1
      BY <1>0, <3>2, <3>4 DEF Single
    <3>6. ses'[s].made[1] = l
      BY <1>0, <3>2, <3>4, <3>5
    <3>7. Kept(s)'
      <4>1. \A i \in DOMAIN ses'[s].made : i = 1
        BY <1>0, <3>5
      <4> QED
        BY <3>3, <3>6, <4>1 DEF Kept
    <3> QED
      BY <3>7
  <2>3. CASE Drop(s)
    <3>1. ses'[s].made = Tail(ses[s].made) /\ ses[s].made # <<>>
      BY <1>0, <2>3, DropSteps DEF Undoes
    <3>2. Len(ses[s].made) = 1
      BY <3>1 DEF Single
    <3>3. ses'[s].made = <<>>
      BY <1>0, <3>1, <3>2, TailOfOne
    <3>4. DOMAIN ses'[s].made = {}
      BY <3>3
    <3> QED
      BY <3>4 DEF Kept
  <2>4. CASE FinishLeave(s)
    <3>1. DOMAIN ses'[s].made = {}
      BY <1>0, <2>4, FinishSteps
    <3> QED
      BY <3>1 DEF Kept
  <2>5. CASE RemoveClient(s) \/ RegularInsert(s)
    BY <1>0, <2>5, RemoveSteps DEF Clears, RegularInsert, Named
  <2>6. CASE Still
    BY <1>0, <2>1, <2>6 DEF Still
  <2>7. CASE RegularListen(s) \/ PoolListen(s)
    BY <1>0, <2>1, <2>7, OpenSteps DEF Opens
  <2>8. CASE RegularDuplicate(s)
    BY <1>0, <2>1, <2>8, DuplicateSteps
  <2>9. CASE Evict(s)
    <3>1. ses'[s].made = ses[s].made /\ pc[s] = "bind"
      BY <1>0, <2>9, EvictSteps DEF Takes
    <3>2. services'[s] = services[s]
      BY <3>1, PoolEntryMoves DEF PoolInsert, Drop, RemoveClient
    <3> QED
      BY <2>1, <3>1, <3>2
  <2> QED
    BY <1>0, <2>2, <2>3, <2>4, <2>5, <2>6, <2>7, <2>8, <2>9, StillSteps DEF SessionStep
<1> QED
  BY <1>1, <1>2

LEMMA SessionPays ==
    ASSUME LedgerInv, EvictionPays, \A o \in Sessions : TriedBusy(o) /\ PortFreed(o),
           NEW s \in Sessions, Named(s)', SessionStep(s) \/ ClientStep(s)
    PROVE  EvictionPays'
<1> SUFFICES ASSUME NEW o \in Sessions, pc'[o] = "notify"
             PROVE  \/ o \in Registered' /\ services'[o].client = o
                    \/ ses'[o].tried \cap BusyPorts # {}
                    \/ o \in hungup' \/ (\E r \in Sessions : Evicting(r, o))'
  BY DEF EvictionPays
<1>0. /\ TypeOK /\ SessionPhase(s) /\ Named(s) /\ Others(s)
      /\ \A q \in Sessions : Named(q) /\ q \in Names
  BY SessionOthers DEF LedgerInv, TypeInv, Phases, Names
<1>1. PoolPorts # {}
  BY <1>0 DEF Named, Others
<1>2. CASE o = s
  <2>1. CASE PoolInsert(s)
    <3>1. Stores(s, ses[s].binding, TRUE) /\ ses[s].binding.name = s
      BY <1>0, <1>1, <2>1, StoreSteps DEF PoolInsert, Named
    <3>2. services'[s] # None /\ services'[s].client = s
      BY <3>1 DEF Stores
    <3> QED
      BY <1>0, <1>2, <3>2 DEF Registered
  <2>2. CASE RebindFailed(s)
    <3>1. Candidates(s) = {} /\ pc[s] = "bind" /\ ses[s].victim # None
      BY <2>2 DEF RebindFailed, Exhausted
    <3>2. PICK p \in PoolPorts : p \notin UsedPorts
      BY <3>1 DEF PortFreed
    <3>3. p \in ses[s].tried /\ p \in BusyPorts
      BY <3>1, <3>2 DEF Candidates, TriedBusy
    <3>4. ses'[s].tried = ses[s].tried
      BY <1>0, <2>2, SessionTyped DEF RebindFailed, Locals
    <3> QED
      BY <1>2, <3>3, <3>4
  <2> QED
    BY <1>0, <1>2, <2>1, <2>2, PoolMoves
<1>3. CASE o # s
  <2>1. pc[o] = "notify" /\ ses'[o] = ses[o]
    BY <1>0, <1>3 DEF Others
  <2>2. CASE o \in Registered /\ services[o].client = o
    <3>1. CASE services'[o] = services[o]
      BY <2>2, <3>1 DEF Registered
    <3>2. CASE Evicting(s, o)'
      BY <3>2
    <3> QED
      BY <1>1, <1>3, <3>1, <3>2, PoolEntryMoves
  <2>3. CASE ses[o].tried \cap BusyPorts # {}
    BY <2>1, <2>3
  <2>4. CASE o \in hungup
    BY <1>0, <2>4, NoticeMoves
  <2>5. ASSUME NEW r \in Sessions, Evicting(r, o)
        PROVE  o \in hungup' \/ (\E q \in Sessions : Evicting(q, o))'
    <3>1. CASE r = s
      BY <1>0, <2>5, <3>1, NoticeMoves
    <3>2. CASE r # s
      <4>1. Evicting(r, o)'
        BY <1>0, <2>5, <3>2 DEF Evicting, Others
      <4> QED
        BY <4>1
    <3> QED
      BY <3>1, <3>2
  <2> QED
    BY <2>1, <2>2, <2>3, <2>4, <2>5 DEF EvictionPays
<1> QED
  BY <1>2, <1>3

LEMMA SessionEvicted ==
    ASSUME LedgerInv, NEW s \in Sessions, TypeOK', Single(s), Single(s)',
           \A o \in Sessions : EvictedOrKept(o), SessionStep(s) \/ ClientStep(s)
    PROVE  (\A o \in Sessions : EvictedOrKept(o))'
<1> SUFFICES ASSUME NEW o \in Sessions, PoolPorts # {}, pc'[o] # "closing"
             PROVE  Kept(o)' \/ o \in hungup' \/ (\E r \in Sessions : Evicting(r, o))'
  BY DEF EvictedOrKept
<1>0. /\ TypeOK /\ Others(s) /\ \A q \in Sessions : Named(q)
  BY SessionOthers DEF LedgerInv, TypeInv
<1>1. CASE o = s
  <2>1. CASE pc[s] = "closing"
    <3>1. FinishLeave(s)
      BY <1>0, <2>1 DEF SessionStep, ClientStep, Join, NextRejected, NextPool, NextRegular, NextDone,
         RegularListen, RegularRefused, RegularInsert, RegularDuplicate, RegularReject, PoolListen,
         PoolRefused, PoolInsert, PoolUnavailable, Exhausted, Evict, Evicted, RebindFailed,
         NotifyVictim, RollbackNext, Drop, Dropped, AskForce, ReportError, RemoveClient,
         Connect, Register, RefuseHandshake, Retry, Decline, Depart
    <3>2. DOMAIN ses'[s].made = {}
      BY <1>0, <3>1, FinishSteps
    <3> QED
      BY <1>1, <3>2 DEF Kept
  <2>2. CASE pc[s] # "closing"
    <3>1. Kept(s) \/ s \in hungup \/ \E r \in Sessions : Evicting(r, s)
      BY <2>2 DEF EvictedOrKept
    <3> QED
      BY <1>1, <3>1, OwnKept
  <2> QED
    BY <2>1, <2>2
<1>2. CASE o # s
  <2>1. ses'[o] = ses[o] /\ pc'[o] = pc[o]
    BY <1>0, <1>2 DEF Others
  <2>2. CASE Kept(o)
    <3>1. CASE services'[o] = services[o]
      BY <1>0, <2>1, <2>2, <3>1, EntryKeeps
    <3>2. CASE Evicting(s, o)'
      BY <3>2
    <3> QED
      BY <1>2, <3>1, <3>2, PoolEntryMoves
  <2>3. CASE o \in hungup
    BY <1>0, <2>3, NoticeMoves
  <2>4. ASSUME NEW r \in Sessions, Evicting(r, o)
        PROVE  o \in hungup' \/ (\E q \in Sessions : Evicting(q, o))'
    <3>1. CASE r = s
      BY <1>0, <2>4, <3>1, NoticeMoves
    <3>2. CASE r # s
      <4>1. Evicting(r, o)'
        BY <1>0, <2>4, <3>2 DEF Evicting, Others
      <4> QED
        BY <4>1
    <3> QED
      BY <3>1, <3>2
  <2> QED
    BY <2>1, <2>2, <2>3, <2>4 DEF EvictedOrKept
<1> QED
  BY <1>1, <1>2

LEMMA PoolInit == Init => PoolInv
<1> SUFFICES ASSUME Init PROVE PoolInv
  OBVIOUS
<1>0. /\ \A s \in Sessions : pc[s] = "none" /\ ses[s] = NoLocals
      /\ Registered = {} /\ listening = {}
  BY DEF Init, Handlers, Registered
<1>1. LedgerInv
  BY LedgerInit
<1>2. \A s \in Sessions : Single(s) /\ EvictedOrKept(s) /\ TriedBusy(s) /\ LowerTaken(s) /\ PortFreed(s)
  BY <1>0 DEF Single, EvictedOrKept, Kept, TriedBusy, LowerTaken, PortFreed, NoLocals
<1>3. MadeByOwner /\ Accounted /\ EvictionPays
  BY <1>0 DEF MadeByOwner, Accounted, EvictionPays
<1> QED
  BY <1>1, <1>2, <1>3 DEF PoolInv

LEMMA PoolStep == ASSUME OneMode, OnePoolEach, PoolInv, [Next]_vars PROVE PoolInv'
<1>0. /\ LedgerInv /\ MadeByOwner /\ Accounted /\ EvictionPays /\ TypeInv /\ TypeOK /\ DataInv
      /\ \A s \in Sessions : /\ SessionPhase(s) /\ Named(s) /\ Fresh(s)
                             /\ Single(s) /\ EvictedOrKept(s)
                             /\ TriedBusy(s) /\ LowerTaken(s) /\ PortFreed(s)
  BY DEF PoolInv, LedgerInv, TypeInv, Phases
<1>1. LedgerInv' /\ TypeOK' /\ \A s \in Sessions : Named(s)'
  <2>1. LedgerInv'
    BY <1>0, LedgerStep
  <2> QED
    BY <2>1 DEF LedgerInv, TypeInv
<1>2. CASE ControlFrame
  <2>1. MadeByOwner' /\ Accounted'
    BY <1>0, <1>2, FrameMakers, FramePlaces
  <2>2. \A s \in Sessions : TriedBusy(s)' /\ LowerTaken(s)' /\ PortFreed(s)'
    BY <1>0, <1>2, FramePasses
  <2>3. \A s \in Sessions : Single(s)'
    BY <1>0, <1>2 DEF ControlFrame, Single, IsPool
  <2>4. \A s \in Sessions : EvictedOrKept(s)'
    <3> TAKE s \in Sessions
    <3>1. EvictedOrKept(s)
      BY <1>0
    <3> QED
      BY <1>2, <3>1 DEF ControlFrame, EvictedOrKept, Evicting, Kept, Registered, ListenerOf
  <2>5. EvictionPays'
    BY <1>0, <1>2 DEF ControlFrame, EvictionPays, Evicting, Registered
  <2> QED
    BY <1>1, <2>1, <2>2, <2>3, <2>4, <2>5 DEF PoolInv
<1>3. ASSUME NEW s \in Sessions, SessionStep(s) \/ ClientStep(s) PROVE PoolInv'
  <2>1. MadeByOwner' /\ Accounted'
    BY <1>0, <1>3, SessionMakers, SessionPlaces
  <2>2. \A o \in Sessions : TriedBusy(o)' /\ LowerTaken(o)' /\ PortFreed(o)'
    BY <1>0, <1>3, SessionPasses
  <2>3. Single(s)'
    BY <1>0, <1>3, OwnSingle
  <2>4. \A o \in Sessions \ {s} : Single(o)'
    BY <1>0, <1>3, SessionOthers DEF Others, Single, IsPool
  <2>5. (\A o \in Sessions : EvictedOrKept(o))'
    BY <1>0, <1>1, <1>3, <2>3, SessionEvicted
  <2>6. EvictionPays'
    BY <1>0, <1>1, <1>3, SessionPays
  <2> QED
    BY <1>1, <2>1, <2>2, <2>3, <2>4, <2>5, <2>6 DEF PoolInv
<1> QED
  BY <1>0, <1>2, <1>3, StepKinds

LEMMA PoolHolds == ASSUME OneMode, OnePoolEach PROVE Spec => []PoolInv
<1>1. Init => PoolInv
  BY PoolInit
<1>2. PoolInv /\ [Next]_vars => PoolInv'
  BY PoolStep
<1> QED
  BY <1>1, <1>2, PTL DEF Spec

-----------------------------------------------------------------------------
(* What holds in every state.                                              *)

\* Every open public listener is a service's or belongs to a registration in
\* progress: whatever fails and in whatever order sessions take the lock, no
\* session ends and leaves a listener behind.
THEOREM NoListenerForgotten ==
    ASSUME OneMode, OnePoolEach PROVE Spec => []NoOrphanListener
<1>1. PoolInv => NoOrphanListener
  BY DEF PoolInv, Accounted, NoOrphanListener
<1> QED
  BY <1>1, PoolHolds, PTL

\* The handler of a session never ends with a listener of the session open.
THEOREM SessionsCloseListeners ==
    ASSUME OneMode, OnePoolEach PROVE Spec => []ListenersClosed
<1>1. PoolInv => ListenersClosed
  <2> SUFFICES ASSUME PoolInv, NEW l \in listening, pc[l.client] = "gone" PROVE FALSE
    BY DEF ListenersClosed
  <2>0. l.client \in Sessions /\ l.name \in Names
    BY DEF PoolInv, LedgerInv, TypeInv, TypeOK, Listener
  <2>1. l.name \in Registered /\ ListenerOf(l.name) = l
    BY DEF PoolInv, Accounted
  <2>2. services[l.name].client = l.client
    BY <2>1 DEF ListenerOf
  <2>3. PICK i \in DOMAIN ses[l.client].made : TRUE
    BY <2>1, <2>2 DEF PoolInv, MadeByOwner
  <2>4. ses[l.client].made = <<>>
    BY <2>0 DEF PoolInv, LedgerInv, Fresh
  <2> QED
    BY <2>3, <2>4
<1> QED
  BY <1>1, PoolHolds, PTL

\* A registration that failed and is about to ask for force, or to end the
\* session with an error, has undone every service it had made.
THEOREM FailuresLeaveNothing ==
    ASSUME OneMode, OnePoolEach PROVE Spec => []AllOrNothing
<1>1. PoolInv => AllOrNothing
  <2> SUFFICES ASSUME PoolInv, NEW s \in Sessions,
                      pc[s] = "ask" \/ (pc[s] = "leave" /\ ses[s].fault # "none")
               PROVE  OwnedBy(s) = {} /\ \A l \in listening : l.client # s
    BY DEF AllOrNothing
  <2>1. ses[s].made = <<>>
    BY DEF PoolInv, LedgerInv, Fresh
  <2>2. OwnedBy(s) = {}
    <3> SUFFICES ASSUME NEW n \in OwnedBy(s) PROVE FALSE
      OBVIOUS
    <3>1. PICK i \in DOMAIN ses[s].made : TRUE
      BY DEF OwnedBy, PoolInv, MadeByOwner
    <3> QED
      BY <2>1, <3>1
  <2>3. \A l \in listening : l.client # s
    BY <2>2 DEF PoolInv, Accounted, OwnedBy, ListenerOf
  <2> QED
    BY <2>2, <2>3
<1> QED
  BY <1>1, PoolHolds, PTL

\* A client that was told "registered", and whose connection the server has
\* not closed, has all its services, unless the notice of its eviction is under
\* way.
THEOREM ClientsAreServed ==
    ASSUME OneMode, OnePoolEach PROVE Spec => []ServedUnlessEvicted
<1>1. PoolInv => ServedUnlessEvicted
  <2> SUFFICES ASSUME PoolInv, NEW s \in Sessions, pc[s] = "serve", s \notin hungup
               PROVE  Kept(s) \/ \E r \in Sessions : Evicting(r, s)
    BY DEF ServedUnlessEvicted, Kept
  <2> QED
    BY DEF PoolInv, LedgerInv, RegularKept, EvictedOrKept
<1> QED
  BY <1>1, PoolHolds, PTL

\* A session that evicted another one has a port for it when it tells the
\* victim, unless it was evicted in turn or another process took the port.
THEOREM EvictionsPay ==
    ASSUME OneMode, OnePoolEach PROVE Spec => []EvictionPays
<1>1. PoolInv => EvictionPays
  BY DEF PoolInv
<1> QED
  BY <1>1, PoolHolds, PTL

-----------------------------------------------------------------------------
(* The last word to an evicted client.                                     *)

\* A message to a client whose writer is closed goes nowhere.
LEMMA SilencedStep ==
    ASSUME TypeInv, TypeInv', EvictedIsTold, NEW s \in Sessions, SessionStep(s) \/ ClientStep(s)
    PROVE  EvictedIsTold'
<1> SUFFICES ASSUME NEW v \in Sessions, v \in hungup', pc'[v] # "gone" PROVE reply'[v] = "preempted"
  BY DEF EvictedIsTold, TypeInv, TypeOK
<1>0. /\ TypeOK /\ SessionPhase(s) /\ Others(s)
      /\ ses[s] \in Locals /\ s \in Handlers
      /\ pc \in [Handlers -> SessionPC \cup PublicPC \cup TunnelPC]
      /\ reply \in [Sessions -> Replies]
  BY SessionTyped, SessionOthers DEF TypeInv, Phases, TypeOK
<1>1. pc[v] # "gone"
  <2>1. pc[s] # "gone"
    BY <1>0 DEF SessionStep, ClientStep, Join, NextRejected, NextPool, NextRegular, NextDone,
       RegularListen, RegularRefused, RegularInsert, RegularDuplicate, RegularReject, PoolListen,
       PoolRefused, PoolInsert, PoolUnavailable, Exhausted, Evict, Evicted, RebindFailed,
       NotifyVictim, RollbackNext, Drop, Dropped, AskForce, ReportError, RemoveClient, FinishLeave,
       Connect, Register, RefuseHandshake, Retry, Decline, Depart
  <2> QED
    BY <1>0, <2>1 DEF Others
<1>2. v \in hungup => reply[v] = "preempted"
  BY <1>1 DEF EvictedIsTold
<1>3. CASE UNCHANGED wire
  BY <1>2, <1>3 DEF wire
<1>4. CASE NotifyVictim(s)
  <2>1. /\ hungup' = hungup \cup {ses[s].victim}
        /\ reply' = IF ses[s].victim \in hungup THEN reply
                    ELSE [reply EXCEPT ![ses[s].victim] = "preempted"]
    BY <1>4 DEF NotifyVictim, HangUp, TellVictim, Tell
  <2> QED
    BY <1>0, <1>2, <2>1
<1>5. CASE FinishLeave(s)
  <2>1. hungup' = hungup \cup {s} /\ reply' = reply /\ pc'[s] = "gone"
    BY <1>0, <1>5 DEF FinishLeave, HangUp, Goto
  <2> QED
    BY <1>2, <2>1
<1>6. ASSUME NEW m, Tell(s, m), hungup' = hungup PROVE reply'[v] = "preempted"
  BY <1>0, <1>2, <1>6 DEF Tell
<1>7. CASE NextDone(s) \/ AskForce(s) \/ ReportError(s)
  BY <1>6, <1>7 DEF NextDone, AskForce, ReportError
<1>8. CASE Join(s) \/ NextRejected(s) \/ NextPool(s) \/ NextRegular(s)
             \/ RegularListen(s) \/ RegularRefused(s) \/ RegularInsert(s)
             \/ RegularDuplicate(s) \/ RegularReject(s) \/ PoolListen(s) \/ PoolRefused(s)
             \/ PoolInsert(s) \/ PoolUnavailable(s) \/ Evict(s) \/ Evicted(s)
  BY <1>3, <1>8 DEF Join, NextRejected, NextPool, NextRegular, RegularListen,
     RegularRefused, RegularInsert, RegularDuplicate, RegularReject, PoolListen, PoolRefused,
     PoolInsert, PoolUnavailable, Evict, Evicted
<1>9. CASE RebindFailed(s) \/ RollbackNext(s) \/ Drop(s) \/ Dropped(s) \/ RemoveClient(s)
             \/ ClientStep(s)
  BY <1>3, <1>9 DEF RebindFailed, RollbackNext, Drop, Dropped, RemoveClient,
     ClientStep, Connect, Register, RefuseHandshake, Retry, Decline, Depart, End
<1> QED
  BY <1>4, <1>5, <1>7, <1>8, <1>9 DEF SessionStep

\* "preempted" is the last thing an evicted client hears: a registration it
\* has under way does not tell it "registered" or ask it for force afterwards.
THEOREM EvictedHearLast == Spec => []EvictedIsTold
<1> DEFINE EInv == TypeInv /\ DataInv /\ EvictedIsTold
<1>1. Init => EInv
  BY InitTypes, DataInit DEF Init, EvictedIsTold
<1>2. EInv /\ [Next]_vars => EInv'
  <2> SUFFICES ASSUME EInv, [Next]_vars PROVE EInv'
    OBVIOUS
  <2>1. TypeInv' /\ DataInv'
    BY TypeStep, DataStep
  <2>2. ASSUME ControlFrame PROVE EvictedIsTold'
    BY <2>2 DEF ControlFrame, EvictedIsTold, TypeInv, TypeOK
  <2>3. ASSUME NEW s \in Sessions, SessionStep(s) \/ ClientStep(s) PROVE EvictedIsTold'
    BY <2>1, <2>3, SilencedStep
  <2> QED
    BY <2>1, <2>2, <2>3, StepKinds
<1>3. EInv => EvictedIsTold
  OBVIOUS
<1> QED
  BY <1>1, <1>2, <1>3, PTL DEF Spec

-----------------------------------------------------------------------------
(* The server implements PoolAllocation.                                   *)

\* What Holder says of a port, and what a session holds.
HolderSays ==
    \A p \in PoolPorts :
       /\ \A n \in Registered :
             services[n].port = p => Holder[p] = [who |-> n, prio |-> services[n].prio]
       /\ p \notin UsedPorts => Holder[p] = None

HeldSays ==
    /\ Pool!Held = UsedPorts
    /\ \A s \in Sessions :
          /\ s \in Registered => Pool!Holds(s) = {services[s].port}
          /\ s \notin Registered => Pool!Holds(s) = {}

LEMMA HolderRead == LedgerInv /\ PoolPorts # {} => HolderSays
<1> SUFFICES ASSUME LedgerInv, PoolPorts # {}, NEW p \in PoolPorts
             PROVE  /\ \A n \in Registered : services[n].port = p =>
                          Holder[p] = [who |-> n, prio |-> services[n].prio]
                    /\ p \notin UsedPorts => Holder[p] = None
  BY DEF HolderSays
<1>1. Holder[p] = IF PoolHolders(p) = {} THEN None
                  ELSE LET n == CHOOSE m \in PoolHolders(p) : TRUE
                       IN [who |-> services[n].client, prio |-> services[n].prio]
  BY DEF Holder
<1>2. ASSUME NEW n \in Registered, services[n].port = p
      PROVE  Holder[p] = [who |-> n, prio |-> services[n].prio]
  <2>1. \A m \in Registered : services[m].port = p => m = n
    <3> TAKE m \in Registered
    <3> HAVE services[m].port = p
    <3>1. ListenerOf(m) \in listening /\ ListenerOf(n) \in listening
      BY DEF LedgerInv, ListenInv, ServiceListening
    <3>2. ListenerOf(m).port = ListenerOf(n).port
      BY <1>2 DEF ListenerOf
    <3>3. ListenerOf(m) = ListenerOf(n)
      BY <3>1, <3>2 DEF LedgerInv, PortsApart
    <3> QED
      BY <3>3 DEF ListenerOf
  <2>2. PoolHolders(p) = {n}
    BY <1>2, <2>1 DEF PoolHolders, LedgerInv, PoolEntries
  <2>3. services[n].client = n
    BY DEF LedgerInv, PoolEntries
  <2> QED
    BY <1>1, <2>2, <2>3
<1>3. ASSUME p \notin UsedPorts PROVE Holder[p] = None
  <2>1. PoolHolders(p) = {}
    BY <1>3 DEF PoolHolders, UsedPorts
  <2> QED
    BY <1>1, <2>1
<1> QED
  BY <1>2, <1>3

LEMMA HeldRead == LedgerInv /\ PoolPorts # {} => HeldSays
<1> SUFFICES ASSUME LedgerInv, PoolPorts # {} PROVE HeldSays
  OBVIOUS
<1>1. HolderSays
  BY HolderRead
<1>2. \A n \in Registered :
         /\ n \in Sessions /\ services[n].port \in PoolPorts /\ services[n].pool
         /\ services[n].prio \in Priorities
  BY DEF LedgerInv, PoolEntries, TypeInv, TypeOK, Registered, Service
<1>3. \A n \in Registered : Holder[services[n].port] # None
  <2> TAKE n \in Registered
  <2>1. Holder[services[n].port] = [who |-> n, prio |-> services[n].prio]
    BY <1>1, <1>2 DEF HolderSays
  <2>2. [who |-> n, prio |-> services[n].prio] \in Pool!Grant
    BY <1>2 DEF Pool!Grant
  <2> QED
    BY <2>1, <2>2, GrantAssumption
<1>4. Pool!Held = UsedPorts
  <2>1. UsedPorts \subseteq PoolPorts /\ \A p \in UsedPorts : Holder[p] # None
    BY <1>2, <1>3 DEF UsedPorts
  <2>2. \A p \in PoolPorts : p \notin UsedPorts => Holder[p] = None
    BY <1>1 DEF HolderSays
  <2> QED
    BY <2>1, <2>2 DEF Pool!Held
<1>5. \A p \in UsedPorts : \E n \in Registered : services[n].port = p /\ Holder[p].who = n
  <2> TAKE p \in UsedPorts
  <2>1. PICK n \in Registered : services[n].port = p
    BY DEF UsedPorts
  <2>2. Holder[p] = [who |-> n, prio |-> services[n].prio]
    BY <1>1, <1>2, <2>1 DEF HolderSays
  <2> QED
    BY <2>1, <2>2
<1>6. ASSUME NEW s \in Sessions
      PROVE  /\ s \in Registered => Pool!Holds(s) = {services[s].port}
             /\ s \notin Registered => Pool!Holds(s) = {}
  <2>1. Pool!Holds(s) = {p \in UsedPorts : Holder[p].who = s}
    BY <1>4 DEF Pool!Holds
  <2>2. s \notin Registered => Pool!Holds(s) = {}
    BY <1>5, <2>1
  <2>3. ASSUME s \in Registered PROVE Pool!Holds(s) = {services[s].port}
    <3>1. services[s].port \in UsedPorts
      BY <1>2, <2>3 DEF UsedPorts
    <3>2. Holder[services[s].port] = [who |-> s, prio |-> services[s].prio]
      BY <1>1, <1>2, <2>3 DEF HolderSays
    <3>3. \A p \in Pool!Holds(s) : p = services[s].port
      BY <1>5, <2>1
    <3> QED
      BY <2>1, <3>1, <3>2, <3>3
  <2> QED
    BY <2>2, <2>3
<1> QED
  BY <1>4, <1>6 DEF HeldSays

\* A session that is to bind a pool port has none yet.
LEMMA NotYetServed ==
    ASSUME PoolInv, PoolPorts # {}, NEW s \in Sessions, pc[s] \in {"bind", "bound", "evict"}
    PROVE  s \notin Registered
<1> SUFFICES ASSUME s \in Registered PROVE FALSE
  OBVIOUS
<1>0. TypeOK /\ SessionPhase(s) /\ PoolEntries /\ MadeByOwner /\ Single(s)
  BY DEF PoolInv, LedgerInv, TypeInv, Phases
<1>1. PICK i \in DOMAIN ses[s].made : TRUE
  BY <1>0 DEF PoolEntries, MadeByOwner
<1>2. \A j \in DOMAIN ses[s].todo : ~IsPool(ses[s].todo[j])
  BY <1>0, <1>1 DEF Single
<1>3. ses[s].todo # <<>> /\ IsPool(Head(ses[s].todo))
  BY <1>0 DEF SessionPhase, Single
<1>4. 1 \in DOMAIN ses[s].todo /\ Head(ses[s].todo) = ses[s].todo[1]
  BY <1>0, <1>3, SessionTyped
<1> QED
  BY <1>2, <1>3, <1>4

LEMMA PrimedRead ==
    ASSUME LedgerInv', PoolPorts # {} PROVE HolderSays' /\ HeldSays'
<1>1. (LedgerInv /\ PoolPorts # {} => HolderSays)'
  BY HolderRead, PTL
<1>2. (LedgerInv /\ PoolPorts # {} => HeldSays)'
  BY HeldRead, PTL
<1> QED
  BY <1>1, <1>2

\* Holder is a function on the pool's ports, known by its values.
LEMMA HolderShape ==
    /\ Holder = [p \in PoolPorts |-> Holder[p]]
    /\ Holder' = [p \in PoolPorts |-> Holder'[p]]
<1>1. Holder = [p \in PoolPorts |-> Holder[p]]
  BY DEF Holder
<1>2. (Holder = [p \in PoolPorts |-> Holder[p]])'
  BY <1>1, PTL
<1> QED
  BY <1>1, <1>2

LEMMA HolderTaken ==
    ASSUME NEW p \in PoolPorts, NEW g,
           \A q \in PoolPorts : Holder'[q] = IF q = p THEN g ELSE Holder[q]
    PROVE  Holder' = [Holder EXCEPT ![p] = g]
  BY HolderShape

LEMMA HolderSame ==
    ASSUME \A q \in PoolPorts : Holder'[q] = Holder[q] PROVE Holder' = Holder
  BY HolderShape

\* PoolInsert is a Take.
LEMMA InsertTakes ==
    ASSUME PoolInv, PoolInv', NEW s \in Sessions, PoolInsert(s)
    PROVE  \E p \in PoolPorts, k \in Priorities : Pool!Take(s, p, k)
<1>0. /\ LedgerInv /\ LedgerInv' /\ TypeOK /\ TypeOK' /\ SessionPhase(s) /\ Named(s)
      /\ TriedBusy(s) /\ LowerTaken(s) /\ pc[s] = "bound"
  BY DEF PoolInv, LedgerInv, TypeInv, Phases, PoolInsert
<1>1. PoolPorts # {} /\ ses[s].binding.name = s /\ ses[s].binding.port \in PoolPorts
  BY <1>0 DEF Named
<1>2. PICK l : l = ses[s].binding
  OBVIOUS
<1>3. Stores(s, l, TRUE) /\ l.name = s /\ l.port \in PoolPorts /\ s \in Names
  BY <1>0, <1>1, <1>2, StoreSteps DEF PoolInsert, Names
<1> DEFINE p == l.port
           k == services'[s].prio
<1>4. HolderSays /\ HeldSays /\ HolderSays'
  BY <1>0, <1>1, HolderRead, HeldRead, PrimedRead
<1>5. s \notin Registered
  BY <1>0, <1>1, NotYetServed
<1>6. p \notin UsedPorts
  <2> SUFFICES ASSUME NEW n \in Registered, services[n].port = p PROVE FALSE
    BY DEF UsedPorts
  <2>1. ListenerOf(n) \in listening /\ l \in listening /\ ListenerOf(n) # l
    BY <1>0, <1>2 DEF LedgerInv, ListenInv, ServiceListening, BindingHeld
  <2>2. ListenerOf(n).port = l.port
    BY DEF ListenerOf
  <2> QED
    BY <1>0, <2>1, <2>2 DEF LedgerInv, PortsApart
<1>7. /\ Registered' = Registered \cup {s} /\ services'[s].port = p
      /\ \A n \in Registered : services'[n] = services[n]
  BY <1>3, <1>5 DEF Stores, Registered
<1>8. k \in Priorities
  BY <1>0, <1>3 DEF TypeOK, Service, Stores
<1>9. \A q \in PoolPorts : Holder'[q] = IF q = p THEN [who |-> s, prio |-> k] ELSE Holder[q]
  <2> TAKE q \in PoolPorts
  <2>1. CASE q = p
    BY <1>4, <1>7, <2>1 DEF HolderSays
  <2>2. CASE q # p /\ q \in UsedPorts
    <3>1. PICK n \in Registered : services[n].port = q
      BY <2>2 DEF UsedPorts
    <3>2. Holder[q] = [who |-> n, prio |-> services[n].prio]
      BY <1>4, <3>1 DEF HolderSays
    <3>3. n \in Registered' /\ services'[n].port = q /\ services'[n] = services[n]
      BY <1>7, <3>1
    <3>4. Holder'[q] = [who |-> n, prio |-> services'[n].prio]
      BY <1>4, <3>3 DEF HolderSays
    <3> QED
      BY <2>2, <3>2, <3>3, <3>4
  <2>3. CASE q # p /\ q \notin UsedPorts
    <3>1. q \notin UsedPorts'
      BY <1>7, <2>3, <1>0, <1>1 DEF UsedPorts, LedgerInv, PoolEntries
    <3> QED
      BY <1>4, <2>3, <3>1 DEF HolderSays
  <2> QED
    BY <2>1, <2>2, <2>3
<1>10. Holder' = [Holder EXCEPT ![p] = [who |-> s, prio |-> k]]
  BY <1>3, <1>9, HolderTaken
<1>11. Leaving' = Leaving /\ s \notin Leaving
  BY <1>0, <1>3 DEF Leaving, Stores, Others
<1>12. \A r \in PoolPorts : r < p => r \in UsedPorts \cup BusyPorts
  BY <1>0, <1>2 DEF LowerTaken, TriedBusy
<1>13. Pool!Take(s, p, k)
  BY <1>4, <1>5, <1>6, <1>10, <1>11, <1>12 DEF Pool!Take, HeldSays
<1> QED
  BY <1>3, <1>8, <1>13

\* Taking one session's entry out of the map frees what it holds.
LEMMA RemovalDrops ==
    ASSUME LedgerInv, LedgerInv', PoolPorts # {}, NEW v \in Sessions, v \in Registered,
           Registered' = Registered \ {v}, \A n \in Registered' : services'[n] = services[n]
    PROVE  Pool!Drop(v) /\ Pool!Holds(v) # {}
<1>0. HolderSays /\ HeldSays /\ HolderSays' /\ PortsApart /\ ServiceListening
      /\ \A n \in Registered : services[n].pool
  BY HolderRead, HeldRead, PrimedRead DEF LedgerInv, ListenInv, PoolEntries
<1>1. Pool!Holds(v) = {services[v].port}
  BY <1>0 DEF HeldSays
<1>2. \A q \in PoolPorts : Holder'[q] = IF q \in Pool!Holds(v) THEN None ELSE Holder[q]
  <2> TAKE q \in PoolPorts
  <2>1. CASE q = services[v].port
    <3>1. \A n \in Registered \ {v} : services[n].port # q
      <4> TAKE n \in Registered \ {v}
      <4>1. ListenerOf(n) \in listening /\ ListenerOf(v) \in listening
        BY <1>0 DEF ServiceListening
      <4>2. ListenerOf(n) # ListenerOf(v)
        BY DEF ListenerOf
      <4>3. ListenerOf(n).port # ListenerOf(v).port
        BY <1>0, <4>1, <4>2 DEF PortsApart
      <4> QED
        BY <2>1, <4>3 DEF ListenerOf
    <3>2. q \notin UsedPorts'
      BY <3>1 DEF UsedPorts
    <3> QED
      BY <1>0, <1>1, <2>1, <3>2 DEF HolderSays
  <2>2. CASE q # services[v].port /\ q \in UsedPorts
    <3>1. PICK n \in Registered : services[n].port = q
      BY <2>2 DEF UsedPorts
    <3>2. Holder[q] = [who |-> n, prio |-> services[n].prio]
      BY <1>0, <3>1 DEF HolderSays
    <3>3. n \in Registered' /\ services'[n] = services[n]
      BY <2>2, <3>1
    <3>4. Holder'[q] = [who |-> n, prio |-> services'[n].prio]
      BY <1>0, <3>1, <3>3 DEF HolderSays
    <3> QED
      BY <1>1, <2>2, <3>2, <3>3, <3>4
  <2>3. CASE q # services[v].port /\ q \notin UsedPorts
    <3>1. q \notin UsedPorts'
      BY <2>3, <1>0 DEF UsedPorts
    <3> QED
      BY <1>0, <1>1, <2>3, <3>1 DEF HolderSays
  <2> QED
    BY <2>1, <2>2, <2>3
<1>3. Holder' = [q \in PoolPorts |-> IF q \in Pool!Holds(v) THEN None ELSE Holder[q]]
  BY <1>2, HolderShape
<1> QED
  BY <1>1, <1>3 DEF Pool!Drop

LEMMA SameServices ==
    ASSUME services' = services \/ PoolPorts = {} PROVE Holder' = Holder
<1>1. CASE services' = services
  BY <1>1 DEF Holder, PoolHolders, Registered
<1>2. CASE PoolPorts = {}
  BY <1>2, HolderSame
<1> QED
  BY <1>1, <1>2

\* Evict is a Preempt.
LEMMA EvictPreempts ==
    ASSUME PoolInv, PoolInv', NEW s \in Sessions, Evict(s)
    PROVE  \E v \in Sessions, k \in Priorities : Pool!Preempt(s, v, k)
<1>0. /\ LedgerInv /\ LedgerInv' /\ TypeOK /\ SessionPhase(s) /\ Named(s) /\ TriedBusy(s)
      /\ PoolEntries /\ Candidates(s) = {}
  BY DEF PoolInv, LedgerInv, TypeInv, Phases, Evict, Exhausted
<1>1. PICK v \in Oldest(Worst(Eligible(s, Head(Raws(s)).prio))) : Takes(s, services[v].client)
  BY <1>0, EvictSteps
<1> DEFINE k == Head(ses[s].todo).prio
<1>2. PoolPorts # {} /\ v \in Sessions /\ v \in Registered /\ services[v].client = v /\ s # v
  BY <1>0, <1>1 DEF Takes, Named, Oldest, Worst, Eligible, Rivals, PoolEntries
<1>3. OwnedBy(v) = {v} /\ Takes(s, v)
  BY <1>0, <1>1, <1>2 DEF OwnedBy, PoolEntries
<1>4. k \in Priorities
  <2>1. Head(ses[s].todo) \in Raw
    BY <1>0, <1>3, SessionTyped, HeadTailType DEF SessionPhase, Takes
  <2> QED
    BY <2>1 DEF Raw
<1>5. /\ Registered' = Registered \ {v}
      /\ \A n \in Registered' : services'[n] = services[n]
  BY <1>3, UnregisterEntries DEF Takes, Registered
<1>6. Pool!Drop(v) /\ HolderSays /\ HeldSays
  BY <1>0, <1>2, <1>5, RemovalDrops, HolderRead, HeldRead
<1>7. s \notin Registered
  BY <1>2, <1>3, NotYetServed DEF Takes
<1>8. \A n \in Registered : n \in Rivals(s) /\ services[n].prio \in Int
  BY <1>0, <1>2, <1>7, ConfigAssumption DEF Rivals, PoolEntries, TypeOK, Registered, Service
<1>9. services[v].prio >= k /\ \A n \in Registered : services[n].prio <= services[v].prio
  <2>1. MayEvict(s, v)
    BY <1>0, <1>1, <1>2, EvictionJust
  <2> QED
    BY <1>2, <1>3, <1>8, <2>1 DEF MayEvict
<1>10. PoolPorts \subseteq Pool!Held \cup BusyPorts
  BY <1>0, <1>6 DEF Candidates, TriedBusy, HeldSays
<1>11. /\ services[v].port \in Pool!Holds(v)
       /\ Holder[services[v].port] = [who |-> v, prio |-> services[v].prio]
  BY <1>0, <1>2, <1>6 DEF HeldSays, HolderSays, PoolEntries
<1>12. \A o \in Pool!Held : Holder[o].prio <= services[v].prio
  <2> TAKE o \in Pool!Held
  <2>1. PICK n \in Registered : services[n].port = o
    BY <1>6 DEF HeldSays, UsedPorts
  <2>2. Holder[o] = [who |-> n, prio |-> services[n].prio]
    BY <1>0, <1>2, <1>6, <2>1 DEF HolderSays, PoolEntries
  <2> QED
    BY <1>9, <2>2
<1>13. Leaving' = Leaving /\ s \notin Leaving
  BY <1>3 DEF Takes, Others, Leaving
<1>14. \E p \in Pool!Holds(v) :
          Holder[p].prio >= k /\ \A o \in Pool!Held : Holder[o].prio <= Holder[p].prio
  <2>1. Holder[services[v].port].prio = services[v].prio
    BY <1>11
  <2> QED
    BY <1>9, <1>11, <1>12, <2>1
<1>15. Pool!Preempt(s, v, k)
  BY <1>2, <1>6, <1>7, <1>10, <1>13, <1>14 DEF Pool!Preempt, HeldSays
<1> QED
  BY <1>2, <1>4, <1>15

\* A rollback or the end of a session gives back what the session holds.
LEMMA LeavesGiveBack ==
    ASSUME PoolInv, PoolInv', PoolPorts # {}, NEW s \in Sessions, Drop(s) \/ RemoveClient(s)
    PROVE  (Pool!GiveBack(s) \/ UNCHANGED Holder) /\ UNCHANGED Leaving
<1>0. /\ LedgerInv /\ LedgerInv' /\ TypeOK /\ SessionPhase(s) /\ Named(s) /\ PoolEntries /\ Single(s)
      /\ s \in Names
  BY DEF PoolInv, LedgerInv, TypeInv, Phases, Names
<1>1. \E N : Unregister(N) /\ N \cap Registered = {s} \cap Registered
  <2>1. CASE Drop(s)
    <3>1. Undoes(s, Head(ses[s].made)) /\ ses[s].made \in Seq(Listener) /\ ses[s].made # <<>>
      BY <1>0, <2>1, DropSteps, SessionTyped DEF Undoes
    <3>2. 1 \in DOMAIN ses[s].made /\ Head(ses[s].made) = ses[s].made[1]
      BY <3>1
    <3>3. Head(ses[s].made).name = s
      BY <1>0, <3>2 DEF Named
    <3> QED
      BY <3>1, <3>3 DEF Undoes
  <2>2. CASE RemoveClient(s)
    <3>1. Clears(s)
      BY <1>0, <2>2, RemoveSteps
    <3>2. OwnedBy(s) = {s} \cap Registered
      BY <1>0 DEF OwnedBy, PoolEntries
    <3> QED
      BY <3>1, <3>2 DEF Clears
  <2> QED
    BY <2>1, <2>2
<1>2. s \in Leaving /\ Leaving' = Leaving
  <2>1. CASE Drop(s)
    BY <1>0, <2>1, DropSteps DEF Undoes, Others, Leaving
  <2>2. CASE RemoveClient(s)
    BY <1>0, <2>2, RemoveSteps DEF Clears, Others, Leaving
  <2> QED
    BY <2>1, <2>2
<1>3. CASE s \in Registered
  <2>1. Registered' = Registered \ {s} /\ \A n \in Registered' : services'[n] = services[n]
    BY <1>1, UnregisterEntries DEF Registered
  <2>2. Pool!Drop(s) /\ Pool!Holds(s) # {}
    BY <1>0, <1>3, <2>1, RemovalDrops
  <2> QED
    BY <1>2, <2>2 DEF Pool!GiveBack
<1>4. CASE s \notin Registered
  <2>1. services' = services
    <3>1. services \in [Names -> Service \cup {None}]
      BY <1>0 DEF TypeOK
    <3>2. PICK N : Unregister(N) /\ N \cap Registered = {}
      BY <1>1, <1>4
    <3>3. \A n \in Names : (IF n \in N THEN None ELSE services[n]) = services[n]
      BY <3>2 DEF Registered
    <3> QED
      BY <3>1, <3>2, <3>3 DEF Unregister
  <2> QED
    BY <1>2, <2>1, SameServices
<1> QED
  BY <1>3, <1>4

LEMMA LeavingExit ==
    ASSUME TypeOK, NEW s \in Sessions, SessionStep(s) \/ ClientStep(s),
           s \in Leaving, s \notin Leaving'
    PROVE  Retry(s)
<1> USE DEF Goto, Leaving
<1>0. s \in Handlers /\ pc \in [Handlers -> SessionPC \cup PublicPC \cup TunnelPC]
  BY SessionTyped
<1>1. CASE Join(s) \/ NextRejected(s) \/ NextPool(s) \/ NextRegular(s) \/ NextDone(s)
             \/ RegularListen(s) \/ RegularRefused(s) \/ RegularInsert(s)
             \/ RegularDuplicate(s) \/ RegularReject(s) \/ PoolListen(s) \/ PoolRefused(s)
             \/ PoolInsert(s)
  BY <1>1 DEF Join, NextRejected, NextPool, NextRegular, NextDone, RegularListen,
     RegularRefused, RegularInsert, RegularDuplicate, RegularReject, PoolListen, PoolRefused,
     PoolInsert
<1>2. CASE PoolUnavailable(s) \/ Evict(s) \/ Evicted(s) \/ RebindFailed(s) \/ NotifyVictim(s)
             \/ Connect(s) \/ Register(s) \/ RefuseHandshake(s) \/ Depart(s)
  BY <1>2 DEF PoolUnavailable, Evict, Evicted, RebindFailed, Exhausted, NotifyVictim, Connect,
     Register, RefuseHandshake, Depart
<1>3. CASE RollbackNext(s) \/ Drop(s) \/ Dropped(s) \/ AskForce(s) \/ ReportError(s)
             \/ RemoveClient(s) \/ FinishLeave(s) \/ Decline(s)
  BY <1>0, <1>3 DEF RollbackNext, Drop, Dropped, AskForce, ReportError, RemoveClient, FinishLeave,
     Decline, End
<1> QED
  BY <1>1, <1>2, <1>3 DEF SessionStep, ClientStep

\* A step that leaves the map alone is a Leave, a Return or a stutter.
LEMMA QuietMoves ==
    ASSUME PoolInv, NEW s \in Sessions, SessionStep(s) \/ ClientStep(s),
           services' = services \/ PoolPorts = {}
    PROVE  Pool!Leave(s) \/ Pool!Return(s) \/ UNCHANGED <<Holder, Leaving>>
<1>0. TypeOK /\ LedgerInv /\ Others(s) /\ Holder' = Holder
  BY SameServices, SessionOthers DEF PoolInv, LedgerInv, TypeInv
<1>1. \A o \in Sessions \ {s} : o \in Leaving' <=> o \in Leaving
  BY <1>0 DEF Others, Leaving
<1>2. Leaving \subseteq Sessions /\ Leaving' \subseteq Sessions
  BY DEF Leaving
<1>3. CASE s \notin Leaving /\ s \in Leaving'
  <2>1. Leaving' = Leaving \cup {s}
    BY <1>1, <1>2, <1>3
  <2> QED
    BY <1>0, <1>3, <2>1 DEF Pool!Leave
<1>4. CASE s \in Leaving /\ s \notin Leaving'
  <2>1. Leaving' = Leaving \ {s}
    BY <1>1, <1>2, <1>4
  <2>2. Pool!Holds(s) = {}
    <3>1. CASE PoolPorts = {}
      BY <3>1 DEF Pool!Holds, Pool!Held
    <3>2. CASE PoolPorts # {}
      <4>1. ses[s].made = <<>>
        BY <1>0, <1>4, LeavingExit DEF Retry, LedgerInv, Fresh
      <4>2. s \notin Registered
        <5> SUFFICES ASSUME s \in Registered PROVE FALSE
          OBVIOUS
        <5>1. PICK i \in DOMAIN ses[s].made : TRUE
          BY <3>2 DEF PoolInv, MadeByOwner, LedgerInv, PoolEntries
        <5> QED
          BY <4>1, <5>1
      <4> QED
        BY <1>0, <3>2, <4>2, HeldRead DEF HeldSays
    <3> QED
      BY <3>1, <3>2
  <2> QED
    BY <1>0, <1>4, <2>1, <2>2 DEF Pool!Return
<1>5. CASE s \in Leaving <=> s \in Leaving'
  <2>1. Leaving' = Leaving
    BY <1>1, <1>2, <1>5
  <2> QED
    BY <1>0, <2>1
<1> QED
  BY <1>3, <1>4, <1>5

LEMMA PoolSimulated ==
    ASSUME PoolInv, PoolInv', [Next]_vars
    PROVE  [Pool!Next]_(Pool!vars)
<1> SUFFICES Pool!Next \/ UNCHANGED <<Holder, Leaving>>
  BY DEF Pool!vars
<1>0. TypeInv /\ DataInv /\ TypeOK
  BY DEF PoolInv, LedgerInv, TypeInv
<1>1. CASE ControlFrame
  <2>1. Holder' = Holder
    BY <1>1, SameServices DEF ControlFrame
  <2>2. Leaving' = Leaving
    BY <1>1 DEF ControlFrame, Leaving
  <2> QED
    BY <2>1, <2>2
<1>2. ASSUME NEW s \in Sessions, SessionStep(s) \/ ClientStep(s)
      PROVE  Pool!Next \/ UNCHANGED <<Holder, Leaving>>
  <2>0. SessionPhase(s) /\ Named(s)
    BY DEF PoolInv, LedgerInv, TypeInv, Phases
  <2>1. CASE services' = services \/ PoolPorts = {}
    BY <1>2, <2>1, QuietMoves DEF Pool!Next
  <2>2. CASE PoolPorts # {} /\ PoolInsert(s)
    BY <2>2, InsertTakes DEF Pool!Next
  <2>3. CASE PoolPorts # {} /\ Evict(s)
    BY <2>3, EvictPreempts DEF Pool!Next
  <2>4. CASE PoolPorts # {} /\ (Drop(s) \/ RemoveClient(s))
    BY <2>4, LeavesGiveBack DEF Pool!Next
  <2>5. CASE PoolPorts # {} /\ ~PoolInsert(s) /\ ~Evict(s) /\ ~Drop(s) /\ ~RemoveClient(s)
    <3>1. ~RegularInsert(s)
      BY <2>0, <2>5 DEF RegularInsert, Named
    <3>2. Still => services' = services
      BY DEF Still
    <3>3. RegularListen(s) \/ PoolListen(s) \/ RegularDuplicate(s) \/ FinishLeave(s) =>
             services' = services
      BY DEF RegularListen, PoolListen, RegularDuplicate, FinishLeave, maps
    <3>4. services' = services
      BY <1>0, <1>2, <2>5, <3>1, <3>2, <3>3, StillSteps DEF SessionStep
    <3> QED
      BY <2>1, <3>4
  <2> QED
    BY <2>1, <2>2, <2>3, <2>4, <2>5
<1> QED
  BY <1>0, <1>1, <1>2, StepKinds

LEMMA PoolStarts == Init => Pool!Init
<1> SUFFICES ASSUME Init PROVE Holder = [p \in PoolPorts |-> None] /\ Leaving = {}
  BY DEF Pool!Init
<1>1. \A s \in Sessions : pc[s] = "none"
  BY DEF Init, Handlers
<1>2. \A p \in PoolPorts : PoolHolders(p) = {}
  BY DEF Init, PoolHolders, Registered
<1> QED
  BY <1>1, <1>2 DEF Holder, Leaving

\* Whatever sessions, connections and other processes do, the pool behaves as
\* PoolAllocation says: the lowest free port is given out, a session keeps its
\* port until it leaves, and only a full pool lets a request take the port of
\* a session that ranks no higher and lowest of all.
THEOREM PoolImplemented ==
    ASSUME OneMode, OnePoolEach PROVE Spec => PoolPromise
<1>1. Init => PoolInv /\ Pool!Init
  BY PoolInit, PoolStarts
<1>2. PoolInv /\ [Next]_vars => PoolInv'
  BY PoolStep
<1>3. PoolInv /\ PoolInv' /\ [Next]_vars => [Pool!Next]_(Pool!vars)
  BY PoolSimulated
<1> QED
  BY <1>1, <1>2, <1>3, PTL DEF Spec, PoolPromise, Pool!Spec

-----------------------------------------------------------------------------
(* Who serves a public connection.                                         *)

\* In a pool server a listener has the name of its session, and a public
\* handler reads the service of the listener that accepted its connection.
OwnNames == \A l \in listening : l.name = l.client

Accepted ==
    /\ OwnNames
    /\ \A q \in Publics :
          /\ pc[q] \in {"accepted", "lookup"} => from[q] # None
          /\ pc[q] \in {"none", "accepted", "lookup"} => owner[q] = None
          /\ from[q] # None => from[q].name = from[q].client
          /\ owner[q] # None => from[q] # None /\ owner[q] = from[q].client

\* Sessions neither accept public connections nor look up their services.
LEMMA SessionsDoNotAccept ==
    ASSUME NEW s \in Sessions, SessionStep(s) \/ ClientStep(s)
    PROVE  from' = from /\ owner' = owner
  BY DEF SessionStep, ClientStep, Join, NextRejected, NextPool, NextRegular, NextDone,
     RegularRefused, RegularListen, RegularInsert, RegularDuplicate, RegularReject, PoolRefused,
     PoolListen, PoolInsert, PoolUnavailable, Evict, Evicted, RebindFailed, NotifyVictim,
     RollbackNext, Drop, Dropped, RemoveClient, FinishLeave, AskForce, ReportError, Connect,
     Register, RefuseHandshake, Retry, Decline, Depart, End, Raise, Store, Forget, data

\* A session of a pool server listens under its own name.
LEMMA SessionOwnNames ==
    ASSUME TypeInv, NEW s \in Sessions, Named(s), PoolPorts # {}, SessionStep(s) \/ ClientStep(s),
           OwnNames
    PROVE  OwnNames'
<1>0. TypeOK /\ SessionPhase(s)
  BY DEF TypeInv, Phases
<1>1. CASE Still
  BY <1>1 DEF Still, OwnNames
<1>2. CASE RegularListen(s)
  BY <1>2 DEF RegularListen, Named
<1>3. CASE PoolListen(s)
  BY <1>3 DEF PoolListen, PoolName, OwnNames
<1>4. CASE RegularInsert(s) \/ PoolInsert(s)
  BY <1>0, <1>4, StoreSteps DEF Stores, OwnNames
<1>5. CASE RegularDuplicate(s)
  BY <1>0, <1>5, DuplicateSteps DEF OwnNames
<1>6. CASE Evict(s)
  BY <1>0, <1>6, EvictSteps DEF Takes, Close, OwnNames
<1>7. CASE Drop(s)
  BY <1>0, <1>7, DropSteps DEF Undoes, Close, OwnNames
<1>8. CASE RemoveClient(s)
  BY <1>0, <1>8, RemoveSteps DEF Clears, Close, OwnNames
<1>9. CASE FinishLeave(s)
  BY <1>0, <1>9, FinishSteps DEF OwnNames
<1>10. \/ Still
       \/ RegularListen(s) \/ PoolListen(s) \/ RegularInsert(s) \/ PoolInsert(s)
       \/ RegularDuplicate(s) \/ Evict(s) \/ Drop(s) \/ RemoveClient(s) \/ FinishLeave(s)
  BY <1>0, StillSteps DEF SessionStep
<1> QED
  BY <1>1, <1>2, <1>3, <1>4, <1>5, <1>6, <1>7, <1>8, <1>9, <1>10

\* A connection is accepted for the client it is then handed to.
LEMMA PublicAccepted ==
    ASSUME LedgerInv, PoolPorts # {}, Accepted,
           NEW q \in Publics, PublicStep(q) \/ UserStep(q)
    PROVE  Accepted'
<1>0. /\ from \in [Publics -> Listener \cup {None}] /\ owner \in [Publics -> Sessions \cup {None}]
      /\ pc \in [Handlers -> SessionPC \cup PublicPC \cup TunnelPC]
      /\ \A r \in Publics : r \in Handlers
      /\ None \notin Listener /\ listening \subseteq Listener
      /\ TypeOK /\ TypeInv /\ DataInv /\ PoolEntries
  BY KindsAssumption DEF LedgerInv, TypeInv, TypeOK, Handlers
<1>1. listening' = listening /\ \A r \in Publics \ {q} :
         pc'[r] = pc[r] /\ from'[r] = from[r] /\ owner'[r] = owner[r]
  <2>1. \A r \in Publics \ {q} : pc'[r] = pc[r]
    BY <1>0, PublicDataFrame DEF PublicFrame
  <2>2. listening' = listening /\ \A r \in Publics \ {q} : from'[r] = from[r] /\ owner'[r] = owner[r]
    BY <1>0 DEF PublicStep, UserStep, PublicConnect, PublicQueues, PublicAccept, PublicTurnAway,
       PublicLookup, PublicUnknown, PublicInsert, SendOpen, SendFails, StartRelay, OpenFailed,
       OpenTimeout, OpenTimeoutLate, RelayEnd, PublicFinally, PublicReset, maps, data
  <2> QED
    BY <2>1, <2>2
<1>2. \A l \in listening : l.name = l.client
  BY DEF Accepted, OwnNames
<1>3. /\ pc[q] \in {"accepted", "lookup"} => from[q] # None
      /\ pc[q] \in {"none", "accepted", "lookup"} => owner[q] = None
      /\ from[q] # None => from[q].name = from[q].client
      /\ owner[q] # None => from[q] # None /\ owner[q] = from[q].client
  BY DEF Accepted
<1>4. /\ pc'[q] \in {"accepted", "lookup"} => from'[q] # None
      /\ pc'[q] \in {"none", "accepted", "lookup"} => owner'[q] = None
      /\ from'[q] # None => from'[q].name = from'[q].client
      /\ owner'[q] # None => from'[q] # None /\ owner'[q] = from'[q].client
  <2>1. CASE PublicConnect(q)
    BY <1>0, <1>2, <1>3, <2>1 DEF PublicConnect, Goto
  <2>2. CASE PublicAccept(q) \/ PublicLookup(q)
    <3>1. from[q] \in Listener /\ from[q].name \in Names /\ services[from[q].name] # None
      BY <1>0, <1>3, <2>2 DEF PublicAccept, PublicLookup, Listener
    <3>2. services[from[q].name].client = from[q].client
      BY <1>3, <3>1, <1>0 DEF PoolEntries, Registered
    <3>3. from' = from /\ owner'[q] = from[q].client /\ pc'[q] \in {"send", "insert"}
      BY <1>0, <2>2, <3>2 DEF PublicAccept, PublicLookup, Goto
    <3> QED
      BY <1>0, <1>3, <3>1, <3>3
  <2>3. CASE PublicTurnAway(q) \/ PublicUnknown(q)
    BY <1>0, <1>3, <2>3 DEF PublicTurnAway, PublicUnknown, Goto
  <2>4. CASE PublicQueues(q)
    BY <1>0, <1>3, <2>4 DEF PublicQueues, Goto, data
  <2>5. CASE PublicFinally(q)
    BY <1>0, <2>5 DEF PublicFinally, Goto
  <2>6. CASE PublicInsert(q) \/ SendOpen(q) \/ SendFails(q) \/ StartRelay(q) \/ OpenFailed(q)
               \/ OpenTimeout(q) \/ OpenTimeoutLate(q) \/ RelayEnd(q)
    <3>1. from' = from /\ owner' = owner /\ pc'[q] \notin {"none", "accepted", "lookup"}
      BY <1>0, <2>6 DEF PublicInsert, SendOpen, SendFails, StartRelay, OpenFailed, OpenTimeout,
         OpenTimeoutLate, RelayEnd, Goto, data
    <3> QED
      BY <1>3, <3>1
  <2>7. CASE PublicReset(q)
    BY <1>0, <1>3, <2>7 DEF PublicReset, Goto, data
  <2> QED
    BY <2>1, <2>2, <2>3, <2>4, <2>5, <2>6, <2>7 DEF PublicStep, UserStep
<1> QED
  BY <1>1, <1>2, <1>3, <1>4 DEF Accepted, OwnNames

\* In a pool server a public connection is never handed to a client other than
\* the one whose listener accepted it: the name that is looked up belongs to
\* that session alone, whoever holds the port by then (_handle_public).
THEOREM ConnectionsStayWithTheirListener ==
    ASSUME OneMode, PoolPorts # {}
    PROVE  Spec => []ServedByAcceptor
<1>1. Init => Accepted
  BY DEF Init, Accepted, OwnNames, Handlers
<1>2. LedgerInv /\ Accepted /\ [Next]_vars => Accepted'
  <2> SUFFICES ASSUME LedgerInv, Accepted, [Next]_vars PROVE Accepted'
    OBVIOUS
  <2>0. /\ TypeInv /\ TypeOK /\ DataInv /\ PoolEntries /\ listening \subseteq Listener
        /\ pc \in [Handlers -> SessionPC \cup PublicPC \cup TunnelPC]
        /\ \A q \in Publics : q \in Handlers /\ q \notin Sessions /\ q \notin Tunnels
    BY KindsAssumption DEF LedgerInv, TypeInv, TypeOK, Handlers
  <2>1. ASSUME NEW s \in Sessions, SessionStep(s) \/ ClientStep(s) PROVE Accepted'
    <3>1. \A q \in Publics : pc'[q] = pc[q] /\ from'[q] = from[q] /\ owner'[q] = owner[q]
      BY <2>0, <2>1, SessionFrame, SessionsDoNotAccept
    <3>2. OwnNames'
      BY <2>0, <2>1, SessionOwnNames DEF LedgerInv, Accepted
    <3> QED
      BY <3>1, <3>2 DEF Accepted
  <2>2. ASSUME NEW t \in Tunnels, TunnelStep(t) \/ TunnelConnect(t) PROVE Accepted'
    <3>1. /\ UNCHANGED <<listening, from, owner>>
          /\ \A q \in Publics : pc'[q] = pc[q]
      BY <2>0, <2>2 DEF TunnelStep, TunnelConnect, TunnelPair, TunnelReject, maps, data, Goto
    <3> QED
      BY <3>1 DEF Accepted, OwnNames
  <2>3. CASE UNCHANGED vars
    BY <2>3 DEF vars, maps, data, Accepted, OwnNames
  <2> QED
    BY <2>0, <2>1, <2>2, <2>3, PublicAccepted DEF Next, Idle
<1>3. Accepted => ServedByAcceptor
  BY DEF Accepted, ServedByAcceptor
<1> QED
  BY <1>1, <1>2, <1>3, LedgerHolds, PTL DEF Spec

=============================================================================
