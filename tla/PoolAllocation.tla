--------------------------- MODULE PoolAllocation ---------------------------
(***************************************************************************)
(* What the port pool promises, whatever the interleaving of sessions,     *)
(* locks and listeners: which session holds which port at which priority.  *)
(* A free port is given out lowest first (a port the system refuses is     *)
(* skipped), a session gives everything back at once, and a session loses  *)
(* its ports to another one only when the pool is full and nobody else     *)
(* ranks lower.                                                            *)
(***************************************************************************)
EXTENDS Integers

CONSTANTS Sessions, PoolPorts, BusyPorts, Priorities, None

VARIABLES
    holder,   \* for each port None, or the session and its priority
    leaving   \* sessions that failed to register, asked to think, or ended

vars == <<holder, leaving>>

Grant == [who : Sessions, prio : Priorities]

Held == {p \in PoolPorts : holder[p] # None}

Holds(s) == {p \in Held : holder[p].who = s}

Init ==
    /\ holder = [p \in PoolPorts |-> None]
    /\ leaving = {}

\* A session takes the lowest port that is free and not refused.
Take(s, p, k) ==
    /\ s \notin leaving
    /\ p \notin Held
    /\ Holds(s) = {}
    /\ \A r \in PoolPorts : r < p => r \in Held \cup BusyPorts
    /\ holder' = [holder EXCEPT ![p] = [who |-> s, prio |-> k]]
    /\ UNCHANGED leaving

Drop(s) == holder' = [p \in PoolPorts |-> IF p \in Holds(s) THEN None ELSE holder[p]]

\* Only a session that leaves gives its ports back.
Leave(s) ==
    /\ s \notin leaving
    /\ leaving' = leaving \cup {s}
    /\ UNCHANGED holder

GiveBack(s) ==
    /\ s \in leaving
    /\ Holds(s) # {}
    /\ Drop(s)
    /\ UNCHANGED leaving

\* A session that was asked for force tries once more.
Return(s) ==
    /\ s \in leaving
    /\ Holds(s) = {}
    /\ leaving' = leaving \ {s}
    /\ UNCHANGED holder

\* A forced request of priority k from r takes the ports of the lowest rank
\* away. Ranks are numbers: a higher number ranks lower.
Preempt(r, v, k) ==
    /\ r # v
    /\ r \notin leaving
    /\ Holds(r) = {}
    /\ PoolPorts \subseteq Held \cup BusyPorts
    /\ \E p \in Holds(v) :
          /\ holder[p].prio >= k
          /\ \A o \in Held : holder[o].prio <= holder[p].prio
    /\ Drop(v)
    /\ UNCHANGED leaving

Next ==
    \/ \E s \in Sessions : Leave(s) \/ GiveBack(s) \/ Return(s)
    \/ \E s \in Sessions, p \in PoolPorts, k \in Priorities : Take(s, p, k)
    \/ \E r, v \in Sessions, k \in Priorities : Preempt(r, v, k)

Spec == Init /\ [][Next]_vars

=============================================================================
