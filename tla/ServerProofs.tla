---------------------------- MODULE ServerProofs ----------------------------
(***************************************************************************)
(* Proofs about Server for every value of its constants: its variables     *)
(* keep their types, and every registered service keeps its listener.      *)
(***************************************************************************)
EXTENDS Server, TLAPS

-----------------------------------------------------------------------------
(* The inductive invariant.                                                *)

\* What a control session's locals hold at each of its awaits.
SessionPhase(s) ==
    /\ pc[s] \in {"bind", "bound", "evict", "listen", "insert"} => ses[s].todo # <<>>
    /\ pc[s] \in {"bound", "listen", "insert"} =>
          ses[s].binding \in Listener /\ ses[s].binding.client = s
    /\ \A i \in DOMAIN ses[s].made : ses[s].made[i].client = s
    /\ pc[s] = "drop" => ses[s].made # <<>>
    /\ pc[s] = "notify" => ses[s].victim # None

\* A handler that queued for its lookup knows what to look up.
Phases ==
    /\ \A s \in Sessions : SessionPhase(s)
    /\ \A q \in Publics : pc[q] \in {"accepted", "lookup"} => from[q] # None
    /\ \A t \in Tunnels : pc[t] = "lookup" => claim[t] # None

\* A listener that is opened and not yet in the service map is open, and is
\* the listener of no service in the map.
BindingHeld ==
    \A s \in Sessions :
       pc[s] \in {"bound", "insert"} =>
          /\ ses[s].binding \in listening
          /\ \A n \in Registered : ListenerOf(n) # ses[s].binding

TypeInv == TypeOK /\ Phases

ListenInv == ServiceListening /\ BindingHeld

IInv == TypeInv /\ ListenInv

-----------------------------------------------------------------------------
(* Sequences and session locals.                                           *)

LEMMA AppendType == ASSUME NEW S, NEW q \in Seq(S), NEW x \in S PROVE Append(q, x) \in Seq(S)
  OBVIOUS

LEMMA HeadTailType ==
    ASSUME NEW S, NEW q \in Seq(S), q # <<>> PROVE Head(q) \in S /\ Tail(q) \in Seq(S)
  OBVIOUS

\* Queueing for the lock and leaving it keep the queue a sequence of handlers.
LEMMA LockTypes ==
    ASSUME lockq \in Seq(Handlers), NEW h \in Handlers
    PROVE  /\ Queue(h) => lockq' \in Seq(Handlers)
           /\ HasLock(h) /\ Release => lockq' \in Seq(Handlers)
           /\ HasLock(h) /\ Requeue(h) => lockq' \in Seq(Handlers)
  BY AppendType, HeadTailType DEF Queue, Release, Requeue, HasLock

\* Replacing the locals of one session keeps the types of all.
LEMMA SesType ==
    ASSUME ses \in [Sessions -> Locals], NEW s \in Sessions, NEW r \in Locals,
           ses' = [ses EXCEPT ![s] = r]
    PROVE  /\ ses' \in [Sessions -> Locals]
           /\ ses'[s] = r
           /\ \A o \in Sessions \ {s} : ses'[o] = ses[o]
  OBVIOUS

-----------------------------------------------------------------------------
(* Type correctness.                                                       *)

LEMMA NoLocalsType == NoLocals \in Locals
  BY DEF NoLocals, Locals, Faults

LEMMA InitTypes == Init => TypeInv
<1> SUFFICES ASSUME Init PROVE TypeInv
  OBVIOUS
<1>2. TypeOK
  BY NoLocalsType, ConfigAssumption DEF Init, TypeOK, Replies, SessionPC, PublicPC, TunnelPC
<1>3. Phases
  BY KindsAssumption DEF Init, Phases, SessionPhase, NoLocals, Handlers
<1> QED
  BY <1>2, <1>3 DEF TypeInv

\* The steps of a control session that leave the locals alone.
LEMMA PlainSessionTypes ==
    ASSUME TypeOK, NEW s \in Sessions, SessionPhase(s),
           \/ Join(s) \/ RefuseHandshake(s) \/ Decline(s) \/ Depart(s)
           \/ NextDone(s) \/ RegularListen(s) \/ Evicted(s) \/ NotifyVictim(s)
           \/ RollbackNext(s) \/ Dropped(s) \/ ReportError(s)
    PROVE  TypeOK'
<1> USE LockTypes DEF TypeOK, maps, wire, data, Goto, Handlers, SessionPC
<1>1. CASE Join(s)
  BY <1>1 DEF Join
<1>2. CASE RefuseHandshake(s)
  BY <1>2 DEF RefuseHandshake, End
<1>3. CASE Decline(s)
  BY <1>3 DEF Decline, End
<1>4. CASE Depart(s)
  BY <1>4 DEF Depart, End
<1>5. CASE NextDone(s)
  BY <1>5 DEF NextDone, Tell, Replies
<1>6. CASE RegularListen(s)
  BY <1>6 DEF RegularListen, SessionPhase
<1>7. CASE Evicted(s)
  BY <1>7 DEF Evicted
<1>8. CASE NotifyVictim(s)
  BY <1>8 DEF NotifyVictim, TellVictim, Tell, HangUp, Replies, Locals, SessionPhase
<1>9. CASE RollbackNext(s)
  BY <1>9 DEF RollbackNext
<1>10. CASE Dropped(s)
  BY <1>10 DEF Dropped
<1>11. CASE ReportError(s)
  BY <1>11 DEF ReportError, Tell, Replies, Locals, Faults
<1> QED
  BY <1>1, <1>2, <1>3, <1>4, <1>5, <1>6, <1>7, <1>8, <1>9, <1>10, <1>11

\* The steps that change the locals of a session, each by the record it
\* writes, which is of the right type.
LEMMA LocalsUpdates ==
    ASSUME NEW r \in Locals
    PROVE  /\ \A v \in SUBSET Sessions : [r EXCEPT !.elders = v] \in Locals
           /\ \A v \in Seq(Raw), f \in BOOLEAN : [r EXCEPT !.todo = v, !.force = f] \in Locals
           /\ \A v \in Listener : [r EXCEPT !.binding = v] \in Locals
           /\ \A v \in Faults : [r EXCEPT !.fault = v] \in Locals
           /\ \A v \in Faults : [r EXCEPT !.fault = v, !.doomed = {}] \in Locals
           /\ \A v \in SUBSET Listener : [r EXCEPT !.shut = v] \in Locals
           /\ \A v \in SUBSET PoolPorts : [r EXCEPT !.tried = v] \in Locals
           /\ [r EXCEPT !.tried = {}, !.victim = None] \in Locals
           /\ \A v \in Sessions, d \in SUBSET Publics, l \in SUBSET Listener :
              [r EXCEPT !.victim = v, !.doomed = d, !.shut = l, !.tried = {}] \in Locals
           /\ \A m \in Seq(Listener), v \in Seq(Raw) :
              [r EXCEPT !.made = m, !.todo = v, !.binding = None, !.doomed = {}] \in Locals
           /\ \A m \in Seq(Listener), l \in Listener : [r EXCEPT !.shut = {l}, !.made = m] \in Locals
<1>1. \A v \in SUBSET Sessions : [r EXCEPT !.elders = v] \in Locals
  BY DEF Locals
<1>2. \A v \in Seq(Raw), f \in BOOLEAN : [r EXCEPT !.todo = v, !.force = f] \in Locals
  BY DEF Locals
<1>3. \A v \in Listener : [r EXCEPT !.binding = v] \in Locals
  BY DEF Locals
<1>4. \A v \in Faults : [r EXCEPT !.fault = v] \in Locals
  BY DEF Locals, Faults
<1>5. \A v \in Faults : [r EXCEPT !.fault = v, !.doomed = {}] \in Locals
  BY DEF Locals, Faults
<1>6. \A v \in SUBSET Listener : [r EXCEPT !.shut = v] \in Locals
  BY DEF Locals
<1>7. \A v \in SUBSET PoolPorts : [r EXCEPT !.tried = v] \in Locals
  BY DEF Locals
<1>8. [r EXCEPT !.tried = {}, !.victim = None] \in Locals
  BY DEF Locals
<1>9. \A v \in Sessions, d \in SUBSET Publics, l \in SUBSET Listener :
        [r EXCEPT !.victim = v, !.doomed = d, !.shut = l, !.tried = {}] \in Locals
  BY DEF Locals
<1>10. \A m \in Seq(Listener), v \in Seq(Raw) :
        [r EXCEPT !.made = m, !.todo = v, !.binding = None, !.doomed = {}] \in Locals
  BY DEF Locals
<1>11. \A m \in Seq(Listener), l \in Listener : [r EXCEPT !.shut = {l}, !.made = m] \in Locals
  BY DEF Locals
<1> QED
  BY <1>1, <1>2, <1>3, <1>4, <1>5, <1>6, <1>7, <1>8, <1>9, <1>10, <1>11

LEMMA StoreTypes ==
    ASSUME TypeOK, NEW s \in Sessions, NEW p \in BOOLEAN, Store(s, p),
           ses[s].binding \in Listener, ses[s].todo # <<>>
    PROVE  services' \in [Names -> Service \cup {None}] /\ ses' \in [Sessions -> Locals]
<1> DEFINE l == ses[s].binding
<1>1. ses[s].made \in Seq(Listener) /\ ses[s].todo \in Seq(Raw)
  BY DEF TypeOK, Locals
<1>2. Append(ses[s].made, l) \in Seq(Listener)
  BY <1>1, AppendType
<1>3. Tail(ses[s].todo) \in Seq(Raw) /\ Head(ses[s].todo) \in Raw
  BY <1>1, HeadTailType
<1>4. services' \in [Names -> Service \cup {None}]
  <2>1. [port |-> l.port, client |-> s, pool |-> p, prio |-> Head(ses[s].todo).prio] \in Service
    BY <1>3 DEF Service, Listener, Raw
  <2> QED
    BY <2>1 DEF TypeOK, Store, Raws, Listener
<1>5. ses' \in [Sessions -> Locals]
  <2> DEFINE r == [ses[s] EXCEPT !.made = Append(@, l), !.todo = Tail(@),
                                 !.binding = None, !.doomed = {}]
  <2>1. ses' = [ses EXCEPT ![s] = r]
    BY DEF Store, TypeOK
  <2>2. r \in Locals
    BY <1>2, <1>3, LocalsUpdates DEF TypeOK
  <2> QED
    BY <2>1, <2>2, SesType DEF TypeOK
<1> QED
  BY <1>4, <1>5

\* A step that leaves everything but pc, lockq and the locals alone.
LEMMA LocalStep ==
    ASSUME TypeOK, NEW s \in Sessions, NEW r \in Locals,
           ses' = [ses EXCEPT ![s] = r], NEW l \in SessionPC, Goto(s, l),
           lockq' \in Seq(Handlers), UNCHANGED <<maps, wire, data>>
    PROVE  TypeOK'
  BY SesType DEF TypeOK, maps, wire, data, Goto, Handlers

LEMMA RegularTypes ==
    ASSUME TypeOK, NEW s \in Sessions, NextRegular(s)
    PROVE  TypeOK' /\ ses'[s].binding \in Listener
<1> DEFINE raw == Head(ses[s].todo)
           l == [port |-> PortFor(raw), client |-> s, name |-> raw.name]
<1>1. raw \in Raw
  BY HeadTailType DEF NextRegular, Raws, TypeOK, Locals
<1>2. PortFor(raw) \in Ports
  BY <1>1, ConfigAssumption
     DEF NextRegular, Raws, PortFor, Rejection, IsKnown, IsPool, Raw, NoPort
<1>3. l \in Listener
  BY <1>1, <1>2 DEF Listener, Raw, Names
<1>4. ses' = [ses EXCEPT ![s] = [ses[s] EXCEPT !.binding = l]]
  BY DEF NextRegular, Raws, TypeOK
<1>5. [ses[s] EXCEPT !.binding = l] \in Locals
  BY <1>3, LocalsUpdates DEF TypeOK
<1>6. ses'[s].binding = l
  BY <1>4 DEF TypeOK, Locals
<1>7. TypeOK'
  BY <1>4, <1>5, LocalStep DEF NextRegular, TypeOK, SessionPC
<1> QED
  BY <1>3, <1>6, <1>7

\* A session that raises an error keeps its types.
LEMMA RaiseTypes ==
    ASSUME TypeOK, NEW s \in Sessions, NEW f \in Faults, Raise(s, f),
           lockq' \in Seq(Handlers), UNCHANGED <<maps, wire, data>>
    PROVE  TypeOK'
<1>1. ses' = [ses EXCEPT ![s] = [ses[s] EXCEPT !.fault = f]]
  BY DEF Raise, TypeOK
<1>2. [ses[s] EXCEPT !.fault = f] \in Locals
  BY LocalsUpdates DEF TypeOK
<1> QED
  BY <1>1, <1>2, LocalStep DEF Raise, SessionPC

LEMMA RaisingTypes ==
    ASSUME TypeOK, NEW s \in Sessions,
           NextRejected(s) \/ RegularRefused(s) \/ RegularReject(s) \/ PoolUnavailable(s)
    PROVE  TypeOK'
<1>1. CASE NextRejected(s)
  <2>1. Rejection(Head(Raws(s))) \in Faults
    BY DEF Rejection, Faults
  <2> QED
    BY <1>1, <2>1, RaiseTypes DEF NextRejected, TypeOK
<1>2. CASE RegularRefused(s)
  BY <1>2, RaiseTypes DEF RegularRefused, TypeOK, Faults
<1>3. CASE RegularReject(s)
  BY <1>3, RaiseTypes, LockTypes DEF RegularReject, TypeOK, Faults, Handlers
<1>4. CASE PoolUnavailable(s)
  BY <1>4, RaiseTypes, LockTypes DEF PoolUnavailable, Exhausted, TypeOK, Faults, Handlers
<1> QED
  BY <1>1, <1>2, <1>3, <1>4

\* What a registration message and an eviction write into the locals.
LEMMA RegisterWrites ==
    ASSUME TypeOK, NEW s \in Sessions, Register(s) \/ Retry(s)
    PROVE  \E req \in Requests, f \in BOOLEAN :
              ses' = [ses EXCEPT ![s] = [ses[s] EXCEPT !.todo = req, !.force = f]]
  BY ZenonT(60) DEF Register, Retry, TypeOK

LEMMA EvictWrites ==
    ASSUME TypeOK, NEW s \in Sessions, Evict(s)
    PROVE  \E v \in Sessions :
              LET listeners == {ListenerOf(m) : m \in OwnedBy(v)} IN
              /\ Unregister(OwnedBy(v))
              /\ Close(listeners)
              /\ ses' = [ses EXCEPT ![s] = [ses[s] EXCEPT !.victim = v, !.doomed = PendingOf(v),
                                               !.shut = listeners, !.tried = {}]]
<1>1. PICK n \in Oldest(Worst(Eligible(s, Head(Raws(s)).prio))) :
         LET v == services[n].client
             listeners == {ListenerOf(m) : m \in OwnedBy(v)}
         IN /\ Unregister(OwnedBy(v))
            /\ Close(listeners)
            /\ ses' = [ses EXCEPT ![s] = [ses[s] EXCEPT !.victim = v, !.doomed = PendingOf(v),
                                             !.shut = listeners, !.tried = {}]]
  BY ZenonT(60) DEF Evict, TypeOK
<1>2. services[n].client \in Sessions
  BY DEF Oldest, Worst, Eligible, Rivals, Registered, TypeOK, Service
<1> QED
  BY <1>1, <1>2

\* The other steps that touch nothing but pc, lockq, the locals and a reply.
LEMMA OtherLocalTypes ==
    ASSUME TypeOK, NEW s \in Sessions,
           Connect(s) \/ Register(s) \/ Retry(s) \/ NextPool(s) \/ PoolRefused(s)
             \/ AskForce(s) \/ FinishLeave(s)
    PROVE  TypeOK'
<1>0. ses[s] \in Locals
  BY DEF TypeOK
<1>r. \A req \in Requests : req \in Seq(Raw)
  BY ConfigAssumption
<1>1. CASE Connect(s)
  <2> DEFINE r == [ses[s] EXCEPT !.elders = {o \in Sessions : pc[o] # "none"}]
  <2>1. ses' = [ses EXCEPT ![s] = r]
    BY <1>1 DEF Connect, TypeOK
  <2>2. r \in Locals
    BY <1>0, LocalsUpdates
  <2> QED
    BY <1>1, <2>1, <2>2, LocalStep, LockTypes DEF Connect, TypeOK, SessionPC, Handlers
<1>2. CASE Register(s) \/ Retry(s)
  <2>1. PICK req \in Requests, f \in BOOLEAN :
           ses' = [ses EXCEPT ![s] = [ses[s] EXCEPT !.todo = req, !.force = f]]
    BY <1>2, RegisterWrites
  <2>2. [ses[s] EXCEPT !.todo = req, !.force = f] \in Locals
    BY <1>0, <1>r, LocalsUpdates
  <2> QED
    BY <1>2, <2>1, <2>2, LocalStep DEF Register, Retry, TypeOK, SessionPC
<1>3. CASE NextPool(s)
  <2> DEFINE r == [ses[s] EXCEPT !.tried = {}, !.victim = None]
  <2>1. ses' = [ses EXCEPT ![s] = r]
    BY <1>3 DEF NextPool, TypeOK
  <2>2. r \in Locals
    BY <1>0, LocalsUpdates
  <2> QED
    BY <1>3, <2>1, <2>2, LocalStep, LockTypes DEF NextPool, TypeOK, SessionPC, Handlers
<1>4. CASE PoolRefused(s)
  <2>1. PICK p \in PoolPorts :
           ses' = [ses EXCEPT ![s] = [ses[s] EXCEPT !.tried = ses[s].tried \cup {p}]]
    BY <1>4 DEF PoolRefused, TypeOK
  <2>2. ses[s].tried \cup {p} \in SUBSET PoolPorts
    BY <1>0 DEF Locals
  <2>3. [ses[s] EXCEPT !.tried = ses[s].tried \cup {p}] \in Locals
    BY <1>0, <2>2, LocalsUpdates
  <2> QED
    BY <1>4, <2>1, <2>3, SesType DEF PoolRefused, TypeOK, maps, wire, data
<1>5. CASE AskForce(s)
  <2> DEFINE r == [ses[s] EXCEPT !.fault = "none"]
  <2>1. ses' = [ses EXCEPT ![s] = r]
    BY <1>5 DEF AskForce, TypeOK
  <2>2. r \in Locals
    BY <1>0, LocalsUpdates DEF Faults
  <2>3. reply' \in [Sessions -> Replies]
    BY <1>5 DEF AskForce, Tell, Replies, TypeOK
  <2> QED
    BY <1>5, <2>1, <2>2, <2>3, SesType
       DEF AskForce, TypeOK, SessionPC, Handlers, maps, data, Goto
<1>6. CASE FinishLeave(s)
  <2> DEFINE r == [NoLocals EXCEPT !.elders = ses[s].elders]
  <2>1. ses' = [ses EXCEPT ![s] = r]
    BY <1>6 DEF FinishLeave
  <2>2. ses[s].elders \in SUBSET Sessions
    BY <1>0 DEF Locals
  <2>3. r \in Locals
    BY <2>2, NoLocalsType, LocalsUpdates
  <2> QED
    BY <1>6, <2>1, <2>3, SesType
       DEF FinishLeave, TypeOK, SessionPC, Handlers, maps, data, Goto, HangUp
<1> QED
  BY <1>1, <1>2, <1>3, <1>4, <1>5, <1>6

\* The locals that a step which also changes the maps writes.
LEMMA MapStepLocals ==
    ASSUME TypeOK, NEW s \in Sessions, SessionPhase(s),
           RegularDuplicate(s) \/ PoolListen(s) \/ Evict(s) \/ RebindFailed(s)
             \/ Drop(s) \/ RemoveClient(s)
    PROVE  ses' \in [Sessions -> Locals]
<1>0. ses[s] \in Locals
  BY DEF TypeOK
<1>f. \A v \in Sessions : {ListenerOf(n) : n \in OwnedBy(v)} \in SUBSET Listener
  BY KindsAssumption DEF ListenerOf, OwnedBy, Registered, TypeOK, Service, Listener
<1>g. \A v \in Sessions : PendingOf(v) \in SUBSET Publics
  BY DEF PendingOf, TypeOK
<1>1. CASE RegularDuplicate(s)
  <2> DEFINE r == [ses[s] EXCEPT !.shut = {ses[s].binding}]
  <2>1. ses' = [ses EXCEPT ![s] = r]
    BY <1>1 DEF RegularDuplicate, TypeOK
  <2>2. {ses[s].binding} \in SUBSET Listener
    BY <1>1 DEF RegularDuplicate, SessionPhase
  <2>3. r \in Locals
    BY <1>0, <2>2, LocalsUpdates
  <2> QED
    BY <2>1, <2>3, SesType DEF TypeOK
<1>2. CASE PoolListen(s)
  <2>1. PICK p \in PoolPorts :
           ses' = [ses EXCEPT ![s] = [ses[s] EXCEPT !.binding =
                      [port |-> p, client |-> s, name |-> s]]]
    BY <1>2 DEF PoolListen, PoolName, TypeOK
  <2>2. [port |-> p, client |-> s, name |-> s] \in Listener
    BY ConfigAssumption DEF Listener, Names
  <2>3. [ses[s] EXCEPT !.binding = [port |-> p, client |-> s, name |-> s]] \in Locals
    BY <1>0, <2>2, LocalsUpdates
  <2> QED
    BY <2>1, <2>3, SesType DEF TypeOK
<1>3. CASE Evict(s)
  <2>1. PICK v \in Sessions :
           ses' = [ses EXCEPT ![s] = [ses[s] EXCEPT !.victim = v, !.doomed = PendingOf(v),
                      !.shut = {ListenerOf(m) : m \in OwnedBy(v)}, !.tried = {}]]
    BY <1>3, EvictWrites
  <2> DEFINE r == [ses[s] EXCEPT !.victim = v, !.doomed = PendingOf(v),
                     !.shut = {ListenerOf(m) : m \in OwnedBy(v)}, !.tried = {}]
  <2>3. r \in Locals
    BY <1>0, <1>f, <1>g, LocalsUpdates
  <2> QED
    BY <2>1, <2>3, SesType DEF TypeOK
<1>4. CASE RebindFailed(s)
  <2> DEFINE r == [ses[s] EXCEPT !.fault = "fatal", !.doomed = {}]
  <2>1. ses' = [ses EXCEPT ![s] = r]
    BY <1>4 DEF RebindFailed, TypeOK
  <2>2. r \in Locals
    BY <1>0, LocalsUpdates DEF Faults
  <2> QED
    BY <2>1, <2>2, SesType DEF TypeOK
<1>5. CASE Drop(s)
  <2> DEFINE l == Head(ses[s].made)
             r == [ses[s] EXCEPT !.shut = {l}, !.made = Tail(ses[s].made)]
  <2>1. ses' = [ses EXCEPT ![s] = r]
    BY <1>5 DEF Drop, TypeOK
  <2>2. l \in Listener /\ Tail(ses[s].made) \in Seq(Listener)
    BY <1>0, <1>5, HeadTailType DEF Drop, SessionPhase, Locals
  <2>3. r \in Locals
    BY <1>0, <2>2, LocalsUpdates
  <2> QED
    BY <2>1, <2>3, SesType DEF TypeOK
<1>6. CASE RemoveClient(s)
  <2> DEFINE r == [ses[s] EXCEPT !.shut = {ListenerOf(n) : n \in OwnedBy(s)}]
  <2>1. ses' = [ses EXCEPT ![s] = r]
    BY <1>6 DEF RemoveClient, TypeOK
  <2>2. r \in Locals
    BY <1>0, <1>f, LocalsUpdates
  <2> QED
    BY <2>1, <2>2, SesType DEF TypeOK
<1> QED
  BY <1>1, <1>2, <1>3, <1>4, <1>5, <1>6

LEMMA MapStepTypes ==
    ASSUME TypeOK, NEW s \in Sessions, SessionPhase(s),
           RegularInsert(s) \/ RegularDuplicate(s) \/ PoolListen(s) \/ PoolInsert(s)
             \/ Evict(s) \/ RebindFailed(s) \/ Drop(s) \/ RemoveClient(s)
    PROVE  TypeOK'
<1>0. s \in Handlers
  BY DEF Handlers
<1>u. \A S : Unregister(S) => services' \in [Names -> Service \cup {None}]
  BY DEF Unregister, TypeOK
<1>c. \A S : Close(S) => listening' \subseteq Listener
  BY DEF Close, TypeOK
<1>p. \A S : Forget(S) => pending' \subseteq Publics
  BY DEF Forget, TypeOK
<1>t. \A S : FailFutures(S) =>
         fut' \in [Publics -> Tunnels \cup {"unset", "pending", "failed", "cancelled"}]
  BY DEF FailFutures, TypeOK
<1>g. \A l \in SessionPC : Goto(s, l) => pc' \in [Handlers -> SessionPC \cup PublicPC \cup TunnelPC]
  BY <1>0 DEF Goto, TypeOK
<1>1. CASE RegularInsert(s)
  <2>1. services' \in [Names -> Service \cup {None}] /\ ses' \in [Sessions -> Locals]
    BY <1>1, StoreTypes DEF RegularInsert, SessionPhase
  <2> QED
    BY <1>0, <1>1, <1>g, <2>1, LockTypes DEF RegularInsert, TypeOK, wire, data, SessionPC
<1>2. CASE RegularDuplicate(s)
  BY <1>2, <1>c, <1>g, MapStepLocals DEF RegularDuplicate, TypeOK, wire, data, SessionPC
<1>3. CASE PoolListen(s)
  <2>1. listening' \subseteq Listener
    BY <1>3, ConfigAssumption DEF PoolListen, PoolName, Listener, Names, TypeOK
  <2> QED
    BY <1>3, <1>g, <2>1, MapStepLocals DEF PoolListen, TypeOK, wire, data, SessionPC
<1>4. CASE PoolInsert(s)
  <2>1. services' \in [Names -> Service \cup {None}] /\ ses' \in [Sessions -> Locals]
    BY <1>4, StoreTypes DEF PoolInsert, SessionPhase
  <2>2. pc' \in [Handlers -> SessionPC \cup PublicPC \cup TunnelPC]
    BY <1>4, <1>g DEF PoolInsert, SessionPC
  <2> QED
    BY <1>0, <1>4, <1>t, <2>1, <2>2, LockTypes DEF PoolInsert, TypeOK, wire
<1>5. CASE Evict(s)
  <2>1. /\ services' \in [Names -> Service \cup {None}]
        /\ listening' \subseteq Listener
        /\ pending' \subseteq Publics
    BY <1>5, <1>u, <1>c, <1>p DEF Evict
  <2> QED
    BY <1>5, <1>g, <2>1, MapStepLocals DEF Evict, TypeOK, wire, data, SessionPC
<1>6. CASE RebindFailed(s)
  BY <1>0, <1>6, <1>t, <1>g, MapStepLocals, LockTypes
     DEF RebindFailed, Exhausted, TypeOK, maps, wire, SessionPC
<1>7. CASE Drop(s)
  BY <1>0, <1>7, <1>u, <1>c, <1>g, MapStepLocals, LockTypes
     DEF Drop, TypeOK, wire, data, SessionPC
<1>8. CASE RemoveClient(s)
  BY <1>0, <1>8, <1>u, <1>c, <1>p, <1>t, <1>g, MapStepLocals, LockTypes
     DEF RemoveClient, TypeOK, wire, SessionPC
<1> QED
  BY <1>1, <1>2, <1>3, <1>4, <1>5, <1>6, <1>7, <1>8

LEMMA SessionTypes ==
    ASSUME TypeInv, NEW s \in Sessions, SessionStep(s) \/ ClientStep(s)
    PROVE  TypeOK'
<1>1. TypeOK /\ SessionPhase(s)
  BY DEF TypeInv, Phases
<1> QED
  BY <1>1, PlainSessionTypes, RegularTypes, RaisingTypes, OtherLocalTypes, MapStepTypes
     DEF SessionStep, ClientStep

\* Public connections.
LEMMA PublicTypes ==
    ASSUME TypeInv, NEW q \in Publics, PublicStep(q) \/ UserStep(q)
    PROVE  TypeOK'
<1> USE LockTypes DEF TypeOK, maps, wire, data, Goto, Handlers, PublicPC, TunnelPC
<1>0. TypeOK /\ (pc[q] \in {"accepted", "lookup"} => from[q] \in Listener)
  BY DEF TypeInv, Phases
<1>1. CASE PublicConnect(q)
  BY <1>0, <1>1 DEF PublicConnect
<1>12. CASE PublicQueues(q)
  BY <1>0, <1>12 DEF PublicQueues
<1>2. CASE PublicAccept(q)
  <2>1. services[from[q].name].client \in Sessions
    BY <1>0, <1>2 DEF PublicAccept, Listener, Service
  <2> QED
    BY <1>0, <1>2, <2>1 DEF PublicAccept
<1>3. CASE PublicTurnAway(q)
  BY <1>0, <1>3 DEF PublicTurnAway
<1>4. CASE PublicLookup(q)
  <2>1. services[from[q].name].client \in Sessions
    BY <1>0, <1>4 DEF PublicLookup, Listener, Service
  <2> QED
    BY <1>0, <1>4, <2>1 DEF PublicLookup
<1>5. CASE PublicUnknown(q)
  BY <1>0, <1>5 DEF PublicUnknown
<1>6. CASE PublicInsert(q)
  BY <1>0, <1>6 DEF PublicInsert
<1>7. CASE SendOpen(q) \/ SendFails(q)
  BY <1>0, <1>7 DEF SendOpen, SendFails
<1>8. CASE StartRelay(q) \/ OpenFailed(q) \/ OpenTimeout(q) \/ OpenTimeoutLate(q)
  BY <1>0, <1>8 DEF StartRelay, OpenFailed, OpenTimeout, OpenTimeoutLate
<1>9. CASE RelayEnd(q)
  BY <1>0, <1>9 DEF RelayEnd
<1>10. CASE PublicFinally(q)
  BY <1>0, <1>10 DEF PublicFinally, Forget
<1>11. CASE PublicReset(q)
  BY <1>0, <1>11 DEF PublicReset
<1> QED
  BY <1>1, <1>2, <1>3, <1>4, <1>5, <1>6, <1>7, <1>8, <1>9, <1>10, <1>11,
     <1>12 DEF PublicStep, UserStep

\* Tunnel connections.
LEMMA TunnelTypes ==
    ASSUME TypeInv, NEW t \in Tunnels, TunnelStep(t) \/ TunnelConnect(t)
    PROVE  TypeOK'
<1> USE LockTypes DEF TypeOK, maps, wire, data, Goto, Handlers, TunnelPC, Claim
<1>0. TypeOK /\ (pc[t] = "lookup" => claim[t].id \in Publics)
  BY DEF TypeInv, Phases
<1>1. CASE TunnelConnect(t)
  BY <1>0, <1>1 DEF TunnelConnect
<1>2. CASE TunnelPair(t)
  BY <1>0, <1>2 DEF TunnelPair
<1>3. CASE TunnelReject(t)
  BY <1>0, <1>3 DEF TunnelReject
<1> QED
  BY <1>1, <1>2, <1>3 DEF TunnelStep

-----------------------------------------------------------------------------
(* The phases.                                                             *)

\* A session moves its own program counter and writes its own locals only.
LEMMA SessionFrame ==
    ASSUME TypeOK, NEW s \in Sessions, SessionStep(s) \/ ClientStep(s)
    PROVE  /\ \A h \in Handlers \ {s} : pc'[h] = pc[h]
           /\ \A o \in Sessions \ {s} : ses'[o] = ses[o]
           /\ UNCHANGED <<from, claim>>
<1> USE DEF TypeOK, data, Goto
<1>1. CASE Join(s) \/ NextRejected(s) \/ NextPool(s) \/ NextRegular(s) \/ NextDone(s)
  BY <1>1 DEF Join, NextRejected, NextPool, NextRegular, NextDone, Raise
<1>2. CASE RegularListen(s) \/ RegularRefused(s) \/ RegularInsert(s)
             \/ RegularDuplicate(s) \/ RegularReject(s)
  BY <1>2 DEF RegularListen, RegularRefused, RegularInsert, RegularDuplicate, RegularReject,
              Raise, Store
<1>3. CASE PoolListen(s) \/ PoolRefused(s) \/ PoolInsert(s) \/ PoolUnavailable(s)
  BY <1>3 DEF PoolListen, PoolRefused, PoolInsert, PoolUnavailable, Raise, Store
<1>4. CASE Evict(s) \/ Evicted(s) \/ RebindFailed(s) \/ NotifyVictim(s)
  BY <1>4 DEF Evict, Evicted, RebindFailed, NotifyVictim
<1>5. CASE RollbackNext(s) \/ Drop(s) \/ Dropped(s) \/ AskForce(s) \/ ReportError(s)
  BY <1>5 DEF RollbackNext, Drop, Dropped, AskForce, ReportError
<1>6. CASE RemoveClient(s) \/ FinishLeave(s)
  BY <1>6 DEF RemoveClient, FinishLeave
<1>7. CASE ClientStep(s)
  BY <1>7 DEF ClientStep, Connect, Register, RefuseHandshake, Retry, Decline, Depart, End
<1> QED
  BY <1>1, <1>2, <1>3, <1>4, <1>5, <1>6, <1>7 DEF SessionStep

\* What a session's own step makes of its own phase.
LEMMA OwnPhase ==
    ASSUME TypeOK, NEW s \in Sessions, SessionPhase(s), SessionStep(s) \/ ClientStep(s)
    PROVE  SessionPhase(s)'
<1> USE DEF Goto, Handlers, SessionPhase
<1>0. ses[s] \in Locals /\ s \in Handlers /\ pc \in [Handlers -> SessionPC \cup PublicPC \cup TunnelPC]
        /\ ses \in [Sessions -> Locals]
  BY DEF TypeOK
<1>1. CASE Join(s) \/ NextDone(s) \/ RegularListen(s) \/ Evicted(s) \/ NotifyVictim(s)
             \/ RollbackNext(s) \/ Dropped(s) \/ ReportError(s)
  BY <1>0, <1>1 DEF Join, NextDone, RegularListen, Evicted, NotifyVictim, RollbackNext,
                    Dropped, ReportError, RolledBack
<1>2. CASE NextRejected(s) \/ RegularRefused(s) \/ RegularReject(s) \/ PoolUnavailable(s)
  BY <1>0, <1>2 DEF NextRejected, RegularRefused, RegularReject, PoolUnavailable, Raise, Locals
<1>3. CASE NextPool(s)
  BY <1>0, <1>3 DEF NextPool, Raws, Locals
<1>4. CASE NextRegular(s)
  <2>1. ses'[s].binding \in Listener
    BY <1>4, RegularTypes
  <2> QED
    BY <1>0, <1>4, <2>1 DEF NextRegular, Raws, Locals
<1>5. CASE RegularInsert(s) \/ PoolInsert(s)
  <2> DEFINE l == ses[s].binding
  <2>1. Store(s, TRUE) \/ Store(s, FALSE)
    BY <1>5 DEF RegularInsert, PoolInsert
  <2>2. /\ ses'[s].made = Append(ses[s].made, l)
        /\ ses'[s].victim = ses[s].victim
    BY <1>0, <2>1 DEF Store, Locals
  <2>3. ses[s].made \in Seq(Listener) /\ l \in Listener /\ l.client = s
    BY <1>0, <1>5 DEF Locals, RegularInsert, PoolInsert
  <2>4. \A i \in DOMAIN ses'[s].made : ses'[s].made[i].client = s
    BY <2>2, <2>3
  <2>5. pc'[s] = "next" \/ (pc'[s] = "notify" /\ ses[s].victim # None)
    BY <1>0, <1>5 DEF RegularInsert, PoolInsert
  <2> QED
    BY <2>2, <2>4, <2>5
<1>6. CASE RegularDuplicate(s)
  BY <1>0, <1>6 DEF RegularDuplicate, Locals
<1>7. CASE PoolListen(s)
  <2>1. PICK p \in PoolPorts :
           ses' = [ses EXCEPT ![s].binding = [port |-> p, client |-> s, name |-> s]]
    BY <1>7 DEF PoolListen, PoolName
  <2>2. [port |-> p, client |-> s, name |-> s] \in Listener
    BY ConfigAssumption DEF Listener, Names
  <2> QED
    BY <1>0, <1>7, <2>1, <2>2 DEF PoolListen, Locals
<1>8. CASE PoolRefused(s)
  BY <1>0, <1>8 DEF PoolRefused, Locals
<1>9. CASE Evict(s)
  <2>1. PICK v \in Sessions :
           ses' = [ses EXCEPT ![s] = [ses[s] EXCEPT !.victim = v, !.doomed = PendingOf(v),
                      !.shut = {ListenerOf(m) : m \in OwnedBy(v)}, !.tried = {}]]
    BY <1>9, EvictWrites
  <2>2. ses'[s].made = ses[s].made /\ ses'[s].todo = ses[s].todo
    BY <1>0, <2>1 DEF Locals
  <2>3. pc[s] = "bind" /\ pc'[s] = "evict"
    BY <1>0, <1>9 DEF Evict, Exhausted
  <2> QED
    BY <2>2, <2>3
<1>10. CASE RebindFailed(s)
  BY <1>0, <1>10 DEF RebindFailed, Locals
<1>11. CASE Drop(s)
  <2>1. ses'[s].made = Tail(ses[s].made) /\ pc'[s] = "dropping"
    BY <1>0, <1>11 DEF Drop, Locals
  <2>2. ses[s].made \in Seq(Listener) /\ ses[s].made # <<>>
    BY <1>0, <1>11 DEF Locals, Drop
  <2>3. \A i \in DOMAIN ses'[s].made : ses'[s].made[i].client = s
    BY <2>1, <2>2
  <2> QED
    BY <2>1, <2>3
<1>12. CASE AskForce(s)
  BY <1>0, <1>12 DEF AskForce, Locals
<1>13. CASE RemoveClient(s)
  BY <1>0, <1>13 DEF RemoveClient, Locals
<1>14. CASE FinishLeave(s)
  BY <1>0, <1>14 DEF FinishLeave, NoLocals, Locals
<1>15. CASE ClientStep(s)
  <2>1. CASE Connect(s)
    BY <1>0, <2>1 DEF Connect, Locals
  <2>2. CASE Register(s) \/ Retry(s)
    <3>1. PICK req \in Requests, f \in BOOLEAN :
             ses' = [ses EXCEPT ![s] = [ses[s] EXCEPT !.todo = req, !.force = f]]
      BY <2>2, RegisterWrites
    <3>2. ses'[s].made = ses[s].made /\ pc'[s] = "next"
      BY <1>0, <2>2, <3>1 DEF Register, Retry, Locals
    <3> QED
      BY <3>2
  <2>3. CASE RefuseHandshake(s) \/ Decline(s) \/ Depart(s)
    BY <1>0, <2>3 DEF RefuseHandshake, Decline, Depart, End
  <2> QED
    BY <1>15, <2>1, <2>2, <2>3 DEF ClientStep
<1> QED
  BY <1>1, <1>2, <1>3, <1>4, <1>5, <1>6, <1>7, <1>8, <1>9, <1>10, <1>11, <1>12, <1>13,
     <1>14, <1>15 DEF SessionStep

LEMMA SessionPhases ==
    ASSUME TypeInv, NEW s \in Sessions, SessionStep(s) \/ ClientStep(s)
    PROVE  Phases'
<1>0. TypeOK /\ Phases
  BY DEF TypeInv
<1>1. \A o \in Sessions \ {s} : SessionPhase(o)'
  BY <1>0, SessionFrame DEF Phases, SessionPhase, Handlers
<1>2. SessionPhase(s)'
  BY <1>0, OwnPhase DEF Phases
<1>3. \A q \in Publics : pc'[q] \in {"accepted", "lookup"} => from'[q] # None
  BY <1>0, SessionFrame, KindsAssumption DEF Phases, Handlers
<1>4. \A t \in Tunnels : pc'[t] = "lookup" => claim'[t] # None
  BY <1>0, SessionFrame, KindsAssumption DEF Phases, Handlers
<1> QED
  BY <1>1, <1>2, <1>3, <1>4 DEF Phases

\* A public or tunnel connection moves a session only by ending a relay, and
\* then to a point with no obligation.
LEMMA ConnectionPhases ==
    ASSUME TypeInv,
           \/ \E q \in Publics : PublicStep(q) \/ UserStep(q)
           \/ \E t \in Tunnels : TunnelStep(t) \/ TunnelConnect(t)
    PROVE  Phases'
<1>0. TypeOK /\ Phases /\ pc \in [Handlers -> SessionPC \cup PublicPC \cup TunnelPC]
  BY DEF TypeInv, TypeOK
<1>1. CASE \E q \in Publics : PublicStep(q) \/ UserStep(q)
  <2>1. PICK q \in Publics : PublicStep(q) \/ UserStep(q)
    BY <1>1
  <2>2. ses' = ses /\ claim' = claim
    BY <2>1 DEF PublicStep, UserStep, PublicConnect, PublicQueues, PublicAccept, PublicTurnAway, PublicLookup,
       PublicUnknown, PublicInsert, SendOpen, SendFails, StartRelay, OpenFailed, OpenTimeout,
       OpenTimeoutLate, RelayEnd, PublicFinally, PublicReset, data
  <2>3. \A h \in Handlers : \/ pc'[h] = pc[h]
                            \/ pc'[h] = "closed"
                            \/ h = q
    BY <1>0, <2>1 DEF PublicStep, UserStep, PublicConnect, PublicQueues, PublicAccept, PublicTurnAway, PublicLookup,
       PublicUnknown, PublicInsert, SendOpen, SendFails, StartRelay, OpenFailed, OpenTimeout,
       OpenTimeoutLate, RelayEnd, PublicFinally, PublicReset, data, Goto
  <2>4. \A o \in Publics : pc'[o] \in {"accepted", "lookup"} => from'[o] # None
    BY SMTT(30), <1>0, <2>1, KindsAssumption DEF Phases, TypeOK, Handlers, PublicStep, UserStep, PublicConnect,
       PublicQueues, PublicAccept, PublicTurnAway, PublicLookup,
       PublicUnknown, PublicInsert, SendOpen, SendFails, StartRelay, OpenFailed, OpenTimeout,
       OpenTimeoutLate, RelayEnd, PublicFinally, PublicReset, data, Goto
  <2> QED
    BY <1>0, <2>2, <2>3, <2>4, KindsAssumption DEF Phases, SessionPhase, Handlers
<1>2. CASE \E t \in Tunnels : TunnelStep(t) \/ TunnelConnect(t)
  <2>1. PICK t \in Tunnels : TunnelStep(t) \/ TunnelConnect(t)
    BY <1>2
  <2>2. ses' = ses /\ from' = from
    BY <2>1 DEF TunnelStep, TunnelConnect, TunnelPair, TunnelReject, data
  <2>3. /\ \A h \in Handlers \ {t} : pc'[h] = pc[h]
        /\ \A h \in Tunnels \ {t} : claim'[h] = claim[h]
        /\ pc'[t] = "lookup" => claim'[t] # None
    BY <1>0, <2>1, KindsAssumption
       DEF TunnelStep, TunnelConnect, TunnelPair, TunnelReject, data, Goto, TypeOK, Handlers, Claim
  <2> QED
    BY <1>0, <2>2, <2>3, KindsAssumption DEF Phases, SessionPhase, Handlers
<1> QED
  BY <1>1, <1>2

LEMMA TypeStep == TypeInv /\ [Next]_vars => TypeInv'
<1> SUFFICES ASSUME TypeInv, [Next]_vars PROVE TypeInv'
  OBVIOUS
<1>1. CASE \E s \in Sessions : SessionStep(s) \/ ClientStep(s)
  BY <1>1, SessionTypes, SessionPhases DEF TypeInv
<1>2. CASE \E q \in Publics : PublicStep(q) \/ UserStep(q)
  BY <1>2, PublicTypes, ConnectionPhases DEF TypeInv
<1>3. CASE \E t \in Tunnels : TunnelStep(t) \/ TunnelConnect(t)
  BY <1>3, TunnelTypes, ConnectionPhases DEF TypeInv
<1>4. CASE UNCHANGED vars
  BY <1>4 DEF TypeInv, TypeOK, Phases, SessionPhase, vars, maps, wire, data
<1> QED
  BY <1>1, <1>2, <1>3, <1>4 DEF Next, Idle

\* Every variable of the server keeps its type: what the handlers read from
\* the maps, the futures and their own locals across an await is always of
\* the kind the code takes it for.
THEOREM TypeCorrect == Spec => []TypeOK
<1>1. Init => TypeInv
  BY InitTypes
<1>2. TypeInv /\ [Next]_vars => TypeInv'
  BY TypeStep
<1>3. TypeInv => TypeOK
  BY DEF TypeInv
<1> QED
  BY <1>1, <1>2, <1>3, PTL DEF Spec

-----------------------------------------------------------------------------
(* Every service keeps its listener.                                       *)

\* The steps that neither open nor close a listener, write no entry of the
\* map, and bring no session to where it holds a binding.
LEMMA QuietStep ==
    ASSUME ListenInv, TypeOK, UNCHANGED <<services, listening>>,
           \A s \in Sessions :
              pc'[s] \in {"bound", "insert"} => pc[s] = pc'[s] /\ ses'[s] = ses[s]
    PROVE  ListenInv'
  BY DEF ListenInv, ServiceListening, BindingHeld, Registered, ListenerOf

\* A session opens the listener of its binding on a port nobody listens on.
LEMMA OpeningStep ==
    ASSUME IInv, NEW s \in Sessions, NEW l \in Listener,
           services' = services, listening' = listening \cup {l},
           ~Taken(l.port), ses'[s].binding = l,
           \A o \in Sessions \ {s} : pc'[o] = pc[o] /\ ses'[o] = ses[o]
    PROVE  ListenInv'
<1>1. \A n \in Registered : ListenerOf(n) # l /\ ListenerOf(n) \in listening
  BY DEF IInv, ListenInv, ServiceListening, Taken
<1> QED
  BY <1>1 DEF IInv, ListenInv, ServiceListening, BindingHeld, Registered, ListenerOf

\* A session stores its binding under the binding's name.
LEMMA StoringStep ==
    ASSUME IInv, NEW s \in Sessions, NEW p \in BOOLEAN, Store(s, p),
           pc[s] \in {"bound", "insert"}, pc'[s] \notin {"bound", "insert"},
           listening' = listening,
           \A o \in Sessions \ {s} : pc'[o] = pc[o] /\ ses'[o] = ses[o]
    PROVE  ListenInv'
<1>0. PICK l : l = ses[s].binding
  OBVIOUS
<1>1. l \in Listener /\ l.client = s /\ l \in listening
  BY <1>0 DEF IInv, TypeInv, Phases, SessionPhase, ListenInv, BindingHeld
<1>2. /\ services'[l.name].port = l.port
      /\ services'[l.name].client = s
      /\ \A n \in Names \ {l.name} : services'[n] = services[n]
  BY <1>0, <1>1 DEF Store, IInv, TypeInv, TypeOK, Listener
<1>3. (ListenerOf(l.name))' = l
  BY <1>1, <1>2 DEF ListenerOf, Listener
<1>4. \A n \in Names \ {l.name} :
         /\ n \in Registered' <=> n \in Registered
         /\ (ListenerOf(n))' = ListenerOf(n)
  BY <1>2 DEF Registered, ListenerOf
<1>5. ServiceListening'
  BY <1>1, <1>3, <1>4 DEF ServiceListening, IInv, ListenInv, Registered
<1>6. BindingHeld'
  <2> SUFFICES ASSUME NEW o \in Sessions, pc'[o] \in {"bound", "insert"}
               PROVE  /\ ses'[o].binding \in listening'
                      /\ \A n \in Registered' : (ListenerOf(n))' # ses'[o].binding
    BY DEF BindingHeld
  <2>1. o # s /\ pc'[o] = pc[o] /\ ses'[o] = ses[o]
    OBVIOUS
  <2>2. ses[o].binding.client = o
    BY <2>1 DEF IInv, TypeInv, Phases, SessionPhase
  <2> QED
    BY <1>1, <1>3, <1>4, <2>1, <2>2 DEF IInv, ListenInv, BindingHeld, Registered
<1> QED
  BY <1>5, <1>6 DEF ListenInv

\* Entries are removed and listeners closed, none of them the listener of an
\* entry that stays or of another session's binding.
LEMMA ClosingStep ==
    ASSUME IInv, NEW s \in Sessions, NEW N, NEW L, Unregister(N), Close(L),
           pc'[s] \notin {"bound", "insert"},
           \A o \in Sessions \ {s} : pc'[o] = pc[o] /\ ses'[o] = ses[o],
           \A n \in Registered \ N : ListenerOf(n) \notin L,
           \A o \in Sessions \ {s} : pc[o] \in {"bound", "insert"} => ses[o].binding \notin L
    PROVE  ListenInv'
<1>1. \A n \in Registered' : n \in Registered \ N /\ (ListenerOf(n))' = ListenerOf(n)
  BY DEF Unregister, Registered, ListenerOf
<1> QED
  BY <1>1 DEF IInv, ListenInv, ServiceListening, BindingHeld, Close

LEMMA SessionListens ==
    ASSUME IInv, NEW s \in Sessions, SessionStep(s) \/ ClientStep(s)
    PROVE  ListenInv'
<1>0. /\ TypeOK /\ ListenInv /\ SessionPhase(s)
      /\ s \in Handlers /\ pc \in [Handlers -> SessionPC \cup PublicPC \cup TunnelPC]
      /\ ses[s] \in Locals /\ ses \in [Sessions -> Locals]
  BY DEF IInv, TypeInv, TypeOK, Phases, Handlers
<1>f. \A o \in Sessions \ {s} : pc'[o] = pc[o] /\ ses'[o] = ses[o]
  BY <1>0, SessionFrame DEF Handlers
<1>b. \A o \in Sessions : pc[o] \in {"bound", "insert"} =>
         /\ ses[o].binding.client = o
         /\ \A n \in Registered : ListenerOf(n) # ses[o].binding
  BY <1>0 DEF IInv, TypeInv, Phases, SessionPhase, ListenInv, BindingHeld
<1>1. CASE RegularListen(s)
  <2>1. ses[s].binding \in Listener /\ ses' = ses
    BY <1>0, <1>1 DEF RegularListen, SessionPhase
  <2> QED
    BY <1>1, <1>f, <2>1, OpeningStep DEF RegularListen
<1>2. CASE PoolListen(s)
  <2>1. PICK p \in PoolPorts :
           LET l == [port |-> p, client |-> s, name |-> s] IN
           /\ ~Taken(p)
           /\ ses' = [ses EXCEPT ![s].binding = l]
           /\ listening' = listening \cup {l}
    BY <1>2 DEF PoolListen, PoolName
  <2> DEFINE l == [port |-> p, client |-> s, name |-> s]
  <2>2. l \in Listener /\ l.port = p
    BY ConfigAssumption DEF Listener, Names
  <2>3. ses'[s].binding = l
    BY <1>0, <2>1 DEF Locals
  <2>4. services' = services
    BY <1>2 DEF PoolListen
  <2> HIDE DEF l
  <2> QED
    BY <1>f, <2>1, <2>2, <2>3, <2>4, OpeningStep DEF l
<1>3. CASE RegularInsert(s)
  <2>1. Store(s, FALSE) /\ pc[s] = "insert" /\ pc'[s] = "next" /\ listening' = listening
    BY <1>0, <1>3 DEF RegularInsert, Goto
  <2> QED
    BY <1>f, <2>1, StoringStep
<1>4. CASE PoolInsert(s)
  <2>1. /\ Store(s, TRUE) /\ pc[s] = "bound" /\ listening' = listening
        /\ pc'[s] \in {"next", "notify"}
    BY <1>0, <1>4 DEF PoolInsert, Goto
  <2> QED
    BY <1>f, <2>1, StoringStep
<1>5. CASE RegularDuplicate(s)
  <2>1. /\ Unregister({}) /\ Close({ses[s].binding})
        /\ pc[s] = "insert" /\ pc'[s] = "duplicate"
    BY <1>0, <1>5 DEF RegularDuplicate, Goto, Unregister, TypeOK
  <2> QED
    BY <1>b, <1>f, <2>1, ClosingStep
<1>6. CASE Evict(s)
  <2>1. PICK v \in Sessions :
           /\ Unregister(OwnedBy(v))
           /\ Close({ListenerOf(m) : m \in OwnedBy(v)})
    BY <1>0, <1>6, EvictWrites
  <2>2. pc'[s] = "evict"
    BY <1>0, <1>6 DEF Evict, Goto
  <2> QED
    BY <1>b, <1>f, <2>1, <2>2, ClosingStep DEF OwnedBy, ListenerOf
<1>7. CASE Drop(s)
  <2>1. PICK l : l = Head(ses[s].made)
    OBVIOUS
  <2>2. /\ Unregister({l.name}) /\ Close({l}) /\ pc'[s] = "dropping" /\ ses[s].made # <<>>
    BY <1>0, <1>7, <2>1 DEF Drop, Goto, SessionPhase
  <2>3. l.client = s
    <3>1. ses[s].made \in Seq(Listener)
      BY <1>0 DEF Locals
    <3> QED
      BY <1>0, <2>1, <2>2, <3>1 DEF SessionPhase
  <2> QED
    BY <1>b, <1>f, <2>2, <2>3, ClosingStep DEF ListenerOf
<1>8. CASE RemoveClient(s)
  <2>1. /\ Unregister(OwnedBy(s)) /\ Close({ListenerOf(n) : n \in OwnedBy(s)})
        /\ pc'[s] = "closing"
    BY <1>0, <1>8 DEF RemoveClient, Goto
  <2> QED
    BY <1>b, <1>f, <2>1, ClosingStep DEF OwnedBy, ListenerOf
<1>9. CASE ClientStep(s)
  <2>1. UNCHANGED <<services, listening>> /\ pc'[s] \notin {"bound", "insert"}
    BY <1>0, <1>9 DEF ClientStep, Connect, Register, RefuseHandshake, Retry, Decline, Depart, End,
                      Goto, maps
  <2> QED
    BY <1>0, <1>f, <2>1, QuietStep
<1>10. CASE \/ Join(s) \/ NextRejected(s) \/ NextPool(s) \/ NextRegular(s) \/ NextDone(s)
            \/ RegularRefused(s) \/ RegularReject(s) \/ PoolRefused(s) \/ PoolUnavailable(s)
            \/ Evicted(s) \/ RebindFailed(s) \/ NotifyVictim(s) \/ RollbackNext(s) \/ Dropped(s)
            \/ AskForce(s) \/ ReportError(s) \/ FinishLeave(s)
  <2>1. UNCHANGED <<services, listening>> /\ pc'[s] \notin {"bound", "insert"}
    BY <1>0, <1>10
       DEF Join, NextRejected, NextPool, NextRegular, NextDone, RegularRefused, RegularReject,
           PoolRefused, PoolUnavailable, Evicted, RebindFailed, NotifyVictim, RollbackNext,
           Dropped, AskForce, ReportError, FinishLeave, Raise, Goto, Exhausted, maps
  <2> QED
    BY <1>0, <1>f, <2>1, QuietStep
<1> QED
  BY <1>1, <1>2, <1>3, <1>4, <1>5, <1>6, <1>7, <1>8, <1>9, <1>10 DEF SessionStep

\* Public and tunnel connections open and close no listener.
LEMMA ConnectionListens ==
    ASSUME IInv,
           \/ \E q \in Publics : PublicStep(q) \/ UserStep(q)
           \/ \E t \in Tunnels : TunnelStep(t) \/ TunnelConnect(t)
    PROVE  ListenInv'
<1>0. /\ TypeOK /\ ListenInv
      /\ pc \in [Handlers -> SessionPC \cup PublicPC \cup TunnelPC]
  BY DEF IInv, TypeInv, TypeOK
<1>1. CASE \E q \in Publics : PublicStep(q) \/ UserStep(q)
  <2>1. PICK q \in Publics : PublicStep(q) \/ UserStep(q)
    BY <1>1
  <2>2. /\ UNCHANGED <<services, listening, ses>>
        /\ \A h \in Handlers : pc'[h] = pc[h] \/ pc'[h] = "closed" \/ h = q
    BY <1>0, <2>1 DEF PublicStep, UserStep, PublicConnect, PublicQueues, PublicAccept, PublicTurnAway,
       PublicLookup, PublicUnknown, PublicInsert, SendOpen, SendFails, StartRelay, OpenFailed,
       OpenTimeout, OpenTimeoutLate, RelayEnd, PublicFinally, PublicReset, maps, Goto
  <2> QED
    BY <1>0, <2>2, QuietStep, KindsAssumption DEF Handlers
<1>2. CASE \E t \in Tunnels : TunnelStep(t) \/ TunnelConnect(t)
  <2>1. PICK t \in Tunnels : TunnelStep(t) \/ TunnelConnect(t)
    BY <1>2
  <2>2. /\ UNCHANGED <<services, listening, ses>>
        /\ \A h \in Handlers \ {t} : pc'[h] = pc[h]
    BY <1>0, <2>1 DEF TunnelStep, TunnelConnect, TunnelPair, TunnelReject, maps, Goto
  <2> QED
    BY <1>0, <2>2, QuietStep, KindsAssumption DEF Handlers
<1> QED
  BY <1>1, <1>2

LEMMA ListenStep == IInv /\ [Next]_vars => IInv'
<1> SUFFICES ASSUME IInv, [Next]_vars PROVE IInv'
  OBVIOUS
<1>1. TypeInv'
  BY TypeStep DEF IInv
<1>2. CASE \E s \in Sessions : SessionStep(s) \/ ClientStep(s)
  BY <1>1, <1>2, SessionListens DEF IInv
<1>3. CASE \/ \E q \in Publics : PublicStep(q) \/ UserStep(q)
           \/ \E t \in Tunnels : TunnelStep(t) \/ TunnelConnect(t)
  BY <1>1, <1>3, ConnectionListens DEF IInv
<1>4. CASE UNCHANGED vars
  BY <1>1, <1>4 DEF IInv, ListenInv, ServiceListening, BindingHeld, Registered, ListenerOf,
                    vars, maps
<1> QED
  BY <1>2, <1>3, <1>4 DEF Next, Idle

\* Whatever registrations, evictions, rollbacks, cleanups and connections
\* interleave, a service in the map has its public listener open.
THEOREM ServicesListen == Spec => []ServiceListening
<1>1. Init => IInv
  <2>1. Init => ListenInv
    BY KindsAssumption
       DEF Init, ListenInv, ServiceListening, BindingHeld, Registered, Handlers
  <2> QED
    BY <2>1, InitTypes DEF IInv
<1>2. IInv /\ [Next]_vars => IInv'
  BY ListenStep
<1>3. IInv => ServiceListening
  BY DEF IInv, ListenInv
<1> QED
  BY <1>1, <1>2, <1>3, PTL DEF Spec
=============================================================================
