-------------------------- MODULE LifecycleProofs --------------------------
(***************************************************************************)
(* Proofs about ServerLifecycle for every value of its constants: whom a   *)
(* restart tells before it closes anything.                                *)
(***************************************************************************)
EXTENDS ServerLifecycle, TLAPS

-----------------------------------------------------------------------------
(* The inductive invariant.                                                *)

\* The types of what the steps below read; the lock queue holds Main, too.
Typed ==
    /\ pc \in [Handlers -> SessionPC \cup PublicPC \cup TunnelPC]
    /\ fut \in [Publics -> Tunnels \cup {"unset", "pending", "failed", "cancelled"}]
    /\ \A q \in Publics : pc[q] = "relay" => fut[q] \in Tunnels

\* A session between its entry into _clients and its removal.
Joined(s) == pc[s] \notin {"none", "join", "closing", "gone"}

\* What was served when the update was found, and since.
Fading(s) == pc[s] \in {"serve", "leave", "closing", "gone"}

Left(s) == pc[s] \in {"leave", "closing", "gone"}

\* close() has not emptied _clients yet.
MapsKept == main \notin {"ending", "cancelling", "exited"}

\* The snapshot of notify_restarting takes in everyone who is still served.
Owed ==
    /\ owed \subseteq Sessions
    /\ owed # {} => restart
    /\ main \in {"serve", "exited"} => owed = {}
    /\ \A s \in owed :
          /\ Fading(s)
          /\ main = "telling" => Left(s) \/ s \in mailing
          /\ main \in {"close", "clear", "ending"} => Left(s)

NoticeInv ==
    /\ Typed
    /\ main \in MainPC
    /\ cancels \subseteq Handlers
    /\ cancels # {} => main = "cancelling"
    /\ MapsKept => \A s \in Sessions : Joined(s) => s \in clients
    /\ Owed

-----------------------------------------------------------------------------
(* What the steps of the handlers do.                                      *)

\* A session joins before it is greeted, leaves the map when it is removed,
\* and from serving only goes on to leave.
Moves(s) ==
    /\ \A h \in Handlers \ {s} : pc'[h] = pc[h]
    /\ \A o \in Sessions \ {s} : o \in clients => o \in clients'
    /\ (Joined(s) => s \in clients) => (Joined(s)' => s \in clients')
    /\ Fading(s) => Left(s)'
    /\ Typed'

LEMMA SessionMoves ==
    ASSUME Typed, NEW s \in Sessions, SessionStep(s) \/ ClientStep(s)
    PROVE  Moves(s)
<1>0. /\ pc \in [Handlers -> SessionPC \cup PublicPC \cup TunnelPC] /\ s \in Handlers
      /\ \A q \in Publics : q \in Handlers \ {s}
  BY KindsAssumption DEF Typed, Handlers
<1>1. \E l \in SessionPC \cup {pc[s]} :
         /\ pc' = [pc EXCEPT ![s] = l]
         /\ Fading(s) => l \in {"leave", "closing", "gone"}
         /\ \/ clients' = clients /\ (pc[s] \in {"none", "join"} => l = "join")
            \/ clients' = clients \cup {s}
            \/ clients' = clients \ {s} /\ l = "closing"
         /\ pc[s] \in {"closing", "gone"} => l = "gone"
  <2> USE <1>0 DEF Goto, maps, Fading, SessionPC
  <2>1. CASE Join(s) \/ NextRejected(s) \/ NextPool(s) \/ NextRegular(s) \/ NextDone(s)
    BY <2>1 DEF Join, NextRejected, NextPool, NextRegular, NextDone, Raise
  <2>2. CASE RegularListen(s) \/ RegularRefused(s) \/ RegularInsert(s)
               \/ RegularDuplicate(s) \/ RegularReject(s)
    BY <2>2 DEF RegularListen, RegularRefused, RegularInsert, RegularDuplicate, RegularReject,
                Raise
  <2>3. CASE PoolListen(s) \/ PoolInsert(s) \/ PoolUnavailable(s)
    BY <2>3 DEF PoolListen, PoolInsert, PoolUnavailable, Exhausted, Raise
  <2>4. CASE Evict(s) \/ Evicted(s) \/ RebindFailed(s)
    BY <2>4 DEF Evict, Evicted, RebindFailed, Exhausted
  <2>5. CASE RollbackNext(s) \/ Drop(s) \/ Dropped(s) \/ AskForce(s) \/ ReportError(s)
    BY <2>5 DEF RollbackNext, Drop, Dropped, AskForce, ReportError
  <2>6. CASE RemoveClient(s) \/ FinishLeave(s)
    BY <2>6 DEF RemoveClient, FinishLeave
  <2>7. CASE Connect(s) \/ Register(s) \/ RefuseHandshake(s) \/ Retry(s) \/ Decline(s) \/ Depart(s)
    BY <2>7 DEF Connect, Register, RefuseHandshake, Retry, Decline, Depart, End
  <2>8. CASE PoolRefused(s)
    <3>1. pc' = [pc EXCEPT ![s] = pc[s]] /\ pc[s] = "bind" /\ clients' = clients
      BY <2>8 DEF PoolRefused
    <3> QED
      BY <3>1
  <2>9. CASE NotifyVictim(s)
    BY <2>9 DEF NotifyVictim
  <2> QED
    BY <2>1, <2>2, <2>3, <2>4, <2>5, <2>6, <2>7, <2>8, <2>9 DEF SessionStep, ClientStep
<1>2. fut' = fut \/ \E S : FailFutures(S)
  BY DEF SessionStep, ClientStep, Join, NextRejected, NextPool, NextRegular, NextDone,
     RegularRefused, RegularListen, RegularInsert, RegularDuplicate, RegularReject, PoolRefused,
     PoolListen, PoolInsert, PoolUnavailable, Evict, Evicted, RebindFailed, NotifyVictim,
     RollbackNext, Drop, Dropped, RemoveClient, FinishLeave, AskForce, ReportError, Connect,
     Register, RefuseHandshake, Retry, Decline, Depart, End, data
<1>3. Typed'
  <2>1. /\ pc' \in [Handlers -> SessionPC \cup PublicPC \cup TunnelPC]
        /\ \A q \in Publics : pc'[q] = pc[q]
    BY <1>0, <1>1
  <2>2. /\ fut' \in [Publics -> Tunnels \cup {"unset", "pending", "failed", "cancelled"}]
        /\ \A q \in Publics : fut[q] \in Tunnels => fut'[q] = fut[q]
    BY <1>2, FutureAssumption DEF Typed, FailFutures
  <2> QED
    BY <2>1, <2>2 DEF Typed
<1> QED
  BY <1>0, <1>1, <1>3 DEF Moves, Joined, Fading, Left

\* Public and tunnel connections leave the sessions alone.
Apart ==
    /\ clients' = clients
    /\ \A s \in Sessions : pc'[s] = pc[s]
    /\ Typed'

LEMMA PublicApart ==
    ASSUME Typed, NEW q \in Publics, PublicStep(q) \/ UserStep(q)
    PROVE  Apart
<1>0. /\ pc \in [Handlers -> SessionPC \cup PublicPC \cup TunnelPC] /\ q \in Handlers
      /\ fut \in [Publics -> Tunnels \cup {"unset", "pending", "failed", "cancelled"}]
      /\ \A r \in Publics : r \in Handlers /\ (pc[r] = "relay" => fut[r] \in Tunnels)
      /\ \A s \in Sessions : s \in Handlers /\ s # q
      /\ \A t \in Tunnels : t \in Handlers /\ t \notin Sessions /\ t \notin Publics
  BY KindsAssumption DEF Typed, Handlers
<1>1. CASE RelayEnd(q)
  <2>1. fut[q] \in Tunnels /\ pc' = [pc EXCEPT ![q] = "finally", ![fut[q]] = "closed"]
        /\ fut' = fut /\ clients' = clients
    BY <1>0, <1>1 DEF RelayEnd, maps
  <2>2. pc' \in [Handlers -> SessionPC \cup PublicPC \cup TunnelPC]
    BY <1>0, <2>1 DEF PublicPC, TunnelPC
  <2>3. \A s \in Sessions : pc'[s] = pc[s]
    BY <1>0, <2>1
  <2>4. \A r \in Publics : pc'[r] = "relay" => pc[r] = "relay"
    BY <1>0, <2>1
  <2> QED
    BY <1>0, <2>1, <2>2, <2>3, <2>4 DEF Apart, Typed
<1>2. CASE ~RelayEnd(q)
  <2> USE <1>0 DEF Goto, maps, data, PublicPC
  <2>1. /\ clients' = clients
        /\ \E l \in PublicPC \cup {pc[q]} :
              /\ pc' = [pc EXCEPT ![q] = l]
              /\ l = "relay" => fut[q] \in Tunnels /\ fut' = fut
        /\ fut' \in [Publics -> Tunnels \cup {"unset", "pending", "failed", "cancelled"}]
        /\ \A r \in Publics \ {q} : fut'[r] = fut[r]
    <3>2. CASE PublicQueues(q) \/ PublicAccept(q) \/ PublicTurnAway(q) \/ PublicLookup(q)
                 \/ PublicUnknown(q) \/ PublicInsert(q)
      BY <3>2 DEF PublicQueues, PublicAccept, PublicTurnAway, PublicLookup, PublicUnknown,
         PublicInsert
    <3>3. CASE SendOpen(q) \/ SendFails(q) \/ StartRelay(q) \/ OpenFailed(q) \/ OpenTimeout(q)
                 \/ OpenTimeoutLate(q) \/ PublicFinally(q)
      BY <3>3 DEF SendOpen, SendFails, StartRelay, OpenFailed, OpenTimeout, OpenTimeoutLate,
         PublicFinally, Paired
    <3>4. CASE PublicConnect(q)
      BY <3>4 DEF PublicConnect
    <3>5. CASE PublicReset(q)
      <4>1. pc' = [pc EXCEPT ![q] = pc[q]] /\ clients' = clients /\ fut' = fut
        BY <3>5 DEF PublicReset
      <4> QED
        BY <4>1
    <3> QED
      BY <1>2, <3>2, <3>3, <3>4, <3>5 DEF PublicStep, UserStep
  <2> QED
    BY <2>1 DEF Apart, Typed
<1> QED
  BY <1>1, <1>2

LEMMA TunnelApart ==
    ASSUME Typed, NEW t \in Tunnels, TunnelStep(t) \/ TunnelConnect(t)
    PROVE  Apart
<1>0. /\ pc \in [Handlers -> SessionPC \cup PublicPC \cup TunnelPC] /\ t \in Handlers
      /\ fut \in [Publics -> Tunnels \cup {"unset", "pending", "failed", "cancelled"}]
      /\ \A s \in Sessions : s \in Handlers /\ s # t
      /\ \A q \in Publics : q \in Handlers /\ q # t
  BY KindsAssumption DEF Typed, Handlers
<1>1. /\ clients' = clients
      /\ \E l \in TunnelPC : pc' = [pc EXCEPT ![t] = l]
      /\ fut' = fut \/ \E q : fut' = [fut EXCEPT ![q] = t]
  BY DEF TunnelStep, TunnelConnect, TunnelPair, TunnelReject, Goto, maps, data, TunnelPC
<1> QED
  BY <1>0, <1>1 DEF Apart, Typed

-----------------------------------------------------------------------------
(* The invariant is inductive.                                             *)

\* A handler leaves to the main coroutine what the invariant speaks of.
MainStays == UNCHANGED <<main, restart, mailing, cancels, owed>>

\* A step of a session goes on from where it stood, while main stays.
LEMMA SessionNotice ==
    ASSUME NoticeInv, MainStays, NEW s \in Sessions, Moves(s)
    PROVE  NoticeInv'
<1>0. \A o \in Sessions \ {s} : pc'[o] = pc[o] /\ (o \in clients => o \in clients')
  BY DEF Moves, Handlers
<1>1. /\ Typed' /\ main' \in MainPC
      /\ cancels' \subseteq Handlers /\ (cancels' # {} => main' = "cancelling")
  BY DEF Moves, NoticeInv, MainStays
<1>2. (MapsKept => \A o \in Sessions : Joined(o) => o \in clients)'
  <2> SUFFICES ASSUME MapsKept', NEW o \in Sessions, Joined(o)' PROVE o \in clients'
    OBVIOUS
  <2>1. MapsKept /\ (Joined(o) => o \in clients)
    BY DEF NoticeInv, MapsKept, MainStays
  <2>2. CASE o = s
    BY <2>1, <2>2 DEF Moves
  <2>3. CASE o # s
    BY <1>0, <2>1, <2>3 DEF Joined
  <2> QED
    BY <2>2, <2>3
<1>3. Owed'
  <2>1. \A o \in owed : Fading(o)' /\ (Left(o) => Left(o)')
    BY <1>0 DEF NoticeInv, Owed, Moves, Fading, Left
  <2> QED
    BY <2>1 DEF NoticeInv, Owed, MainStays
<1> QED
  BY <1>1, <1>2, <1>3 DEF NoticeInv

LEMMA ApartNotice ==
    ASSUME NoticeInv, MainStays, Apart
    PROVE  NoticeInv'
  BY DEF NoticeInv, MainStays, Apart, Owed, MapsKept, Joined, Fading, Left

\* Where the main coroutine goes.
LEMMA MainNotice ==
    ASSUME NoticeInv, MainStep \/ UpdateFound \/ Interrupt
    PROVE  NoticeInv'
<1> USE DEF NoticeInv, MainPC
<1>1. CASE UpdateFound
  BY <1>1 DEF UpdateFound, vars, maps, data, Typed, MapsKept, Joined, Owed, Served, Fading, Left
<1>2. CASE Interrupt
  BY <1>2 DEF Interrupt, vars, maps, data, Typed, MapsKept, Joined, Owed, Fading, Left
<1>3. CASE Drained
  BY <1>3 DEF Drained, maps, data, Typed, MapsKept, Joined, Owed, Fading, Left
<1>4. CASE Snapshot
  BY <1>4 DEF Snapshot, maps, data, Typed, MapsKept, Joined, Owed, Fading, Left
<1>5. CASE NoticesSent
  BY <1>5 DEF NoticesSent, AllTold, vars, maps, data, Typed, MapsKept, Joined, Owed, Fading, Left
<1>6. CASE ControlClosed
  BY <1>6 DEF ControlClosed, maps, data, Typed, MapsKept, Joined, Owed, Fading, Left
<1>7. ASSUME NEW s \in Sessions, Notice(s) PROVE NoticeInv'
  BY <1>7 DEF Notice, vars, maps, data, Typed, MapsKept, Joined, Owed, Fading, Left
<1>8. ASSUME NEW s \in Sessions, CloseWriter(s) PROVE NoticeInv'
  BY <1>8 DEF CloseWriter, maps, data, Typed, MapsKept, Joined, Owed, Fading, Left
<1>9. CASE ClearMaps
  <2>1. Typed'
    BY <1>9, FutureAssumption DEF ClearMaps, FailFutures, Typed
  <2>2. /\ main' = "ending" /\ pc' = pc /\ owed' = owed /\ restart' = restart /\ main = "clear"
        /\ cancels' = cancels
    BY <1>9 DEF ClearMaps
  <2> QED
    BY <2>1, <2>2 DEF MapsKept, Owed, Fading, Left
<1>10. CASE Exit
  <2>1. main' = "exited" /\ owed' = {} /\ restart' = restart /\ cancels' = {}
    BY <1>10 DEF Exit
  <2>2. /\ pc' \in [Handlers -> SessionPC \cup PublicPC \cup TunnelPC]
        /\ \A q \in Publics : pc'[q] # "relay"
    BY <1>10, KindsAssumption DEF Exit, Over, Handlers, SessionPC, PublicPC, TunnelPC
  <2>3. Typed'
    BY <1>10, <2>2 DEF Exit, Typed
  <2> QED
    BY <2>1, <2>3 DEF MapsKept, Owed
<1>11. CASE Returned
  BY <1>11 DEF Returned, Alive, vars, maps, data, Typed, MapsKept, Joined, Owed, Fading, Left
<1> QED
  BY <1>1, <1>2, <1>3, <1>4, <1>5, <1>6, <1>7, <1>8, <1>9, <1>10, <1>11 DEF MainStep

\* A handler that asyncio.run cancels: a session that was served begins to leave,
\* or is over.
LEMMA CancelledNotice ==
    ASSUME NoticeInv, NEW h \in Handlers, Cancelled(h)
    PROVE  NoticeInv'
<1>0. /\ pc \in [Handlers -> SessionPC \cup PublicPC \cup TunnelPC]
      /\ \A q \in Publics : q \in Handlers /\ (pc[q] = "relay" => fut[q] \in Tunnels)
      /\ \A s \in Sessions : s \in Handlers
      /\ main = "cancelling"
  BY DEF NoticeInv, Typed, Handlers, Cancelled
<1>1. /\ fut' = fut /\ owed' = owed /\ restart' = restart /\ main' = main
      /\ cancels' \subseteq cancels
  BY DEF Cancelled, data
<1>2. CancelledAt(h) \in {"gone", "leave", "finally", "done", "closed"}
  BY DEF CancelledAt
<1>3. /\ pc' \in [Handlers -> {pc'[o] : o \in Handlers}]
      /\ \A o \in Handlers : \/ o = h /\ pc'[o] = CancelledAt(h)
                             \/ o # h /\ o \in Tunnels /\ pc'[o] = "closed"
                             \/ o # h /\ pc'[o] = pc[o]
  <2> DEFINE C == {t \in Tunnels : pc[h] = "relay" /\ fut[h] = t}
             f(o) == IF o = h THEN CancelledAt(h) ELSE IF o \in C THEN "closed" ELSE pc[o]
  <2>1. pc' = [o \in Handlers |-> f(o)] /\ C \subseteq Tunnels
    BY DEF Cancelled
  <2>2. \A o \in Handlers : \/ o = h /\ f(o) = CancelledAt(h)
                            \/ o # h /\ o \in C /\ f(o) = "closed"
                            \/ o # h /\ f(o) = pc[o]
    OBVIOUS
  <2> HIDE DEF C, f
  <2>3. \A o \in Handlers : pc'[o] = f(o)
    BY <2>1
  <2>4. pc' \in [Handlers -> {pc'[o] : o \in Handlers}]
    BY <2>1
  <2> QED
    BY <2>1, <2>2, <2>3, <2>4
<1>4. Typed'
  <2>1. \A o \in Handlers : pc'[o] \in SessionPC \cup PublicPC \cup TunnelPC
    BY <1>0, <1>3, <1>2 DEF SessionPC, PublicPC, TunnelPC
  <2>2. \A q \in Publics : pc'[q] = "relay" => pc[q] = "relay"
    BY <1>0, <1>3, <1>2
  <2> QED
    BY <1>0, <1>1, <1>3, <2>1, <2>2 DEF NoticeInv, Typed
<1>5. \A s \in owed : Fading(s)'
  <2> SUFFICES ASSUME NEW s \in owed PROVE Fading(s)'
    OBVIOUS
  <2>1. s \in Sessions /\ s \in Handlers /\ Fading(s)
    BY <1>0 DEF NoticeInv, Owed
  <2>2. CASE s = h
    <3>1. CancelledAt(h) \in {"gone", "leave"}
      BY <2>1, <2>2, KindsAssumption DEF CancelledAt
    <3> QED
      BY <1>3, <2>1, <2>2, <3>1 DEF Fading
  <2>3. CASE s # h
    <3>1. s \notin Tunnels
      BY <2>1, KindsAssumption
    <3>2. pc'[s] = pc[s]
      BY <1>3, <2>1, <2>3, <3>1
    <3> QED
      BY <2>1, <3>2 DEF Fading
  <2> QED
    BY <2>2, <2>3
<1> QED
  BY <1>0, <1>1, <1>4, <1>5 DEF NoticeInv, MapsKept, Owed

\* Every step is one of a session, of a connection or of the main coroutine.
LEMMA LifecycleKinds ==
    ASSUME LifecycleNext
    PROVE  \/ MainStays /\ \E s \in Sessions : SessionStep(s) \/ ClientStep(s)
           \/ MainStays /\ \E q \in Publics : PublicStep(q) \/ UserStep(q)
           \/ MainStays /\ \E t \in Tunnels : TunnelStep(t) \/ TunnelConnect(t)
           \/ MainStays /\ UNCHANGED vars
           \/ \E h \in Handlers : Cancelled(h)
           \/ MainStep \/ UpdateFound \/ Interrupt
  BY DEF LifecycleNext, Running, WriterClosed, Peers, Arrive, ArriveTunnel, ClientStep, MainStays,
     all, lvars

\* A restart tells everyone it found served before it closes anything: whoever
\* is owed a notice is still in _clients when the snapshot is taken, and then
\* in the list of notices to send, unless its session has begun to leave
\* (notify_restarting, _run_server_until_update). It holds for any number of
\* sessions and connections, on every Python, whether or not clients read.
THEOREM RestartsAreAnnounced == LifecycleSpec => []NoticeFirst
<1>1. LifecycleInit => NoticeInv
  BY DEF LifecycleInit, Init, NoticeInv, Typed, MapsKept, Joined, Owed, MainPC, Handlers,
     SessionPC, PublicPC, TunnelPC
<1>2. NoticeInv /\ [LifecycleNext]_all => NoticeInv'
  <2> SUFFICES ASSUME NoticeInv, [LifecycleNext]_all PROVE NoticeInv'
    OBVIOUS
  <2>0. Typed
    BY DEF NoticeInv
  <2>1. CASE MainStays /\ UNCHANGED vars
    BY <2>1 DEF MainStays, vars, maps, data, NoticeInv, Typed, MapsKept, Joined, Owed, Fading, Left
  <2>2. UNCHANGED all => MainStays /\ UNCHANGED vars
    BY DEF all, lvars, MainStays
  <2> QED
    BY <2>0, <2>1, <2>2, LifecycleKinds, SessionMoves, SessionNotice, PublicApart, TunnelApart,
       ApartNotice, MainNotice, CancelledNotice
<1>3. NoticeInv => NoticeFirst
  BY DEF NoticeInv, Owed, Left, NoticeFirst
<1> QED
  BY <1>1, <1>2, <1>3, PTL DEF LifecycleSpec

=============================================================================
