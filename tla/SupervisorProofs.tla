-------------------------- MODULE SupervisorProofs --------------------------
(***************************************************************************)
(* Proofs about Supervisor for every value of its constants: one child at  *)
(* a time, none left behind, one restart state, no child stopped for a     *)
(* suppressed version, and a bounded number of attempts.                   *)
(***************************************************************************)
EXTENDS Supervisor, TLAPS

-----------------------------------------------------------------------------
(* The inductive invariant.                                                *)

\* No Ctrl+C arrives while the supervisor does not know its child.
Shielded == {"spawned", "terminate", "kill"} \subseteq Quiet

\* There is a last generation from the first launch on.
Launched ==
    sup \in {"spawned", "await", "terminate", "kill", "validate", "monitor"} => gen # None

TypeInv == TypeOK /\ Launched

\* Only the child launched last may be alive, none is when the next one is to
\* be launched, and the supervisor knows the one it watches, and no other.
Owned ==
    /\ \A g \in Generations : Alive(g) => g = gen
    /\ child # None => child = gen /\ proc[child] # "none"
    /\ sup = "spawned" => proc[gen] # "none"
    /\ sup \in {"launch", "spawned", "suppressed"} => child = None
    /\ sup \in {"launch", "suppressed"} => \A g \in Generations : ~Alive(g)
    /\ sup \in {"await", "terminate", "kill", "validate", "monitor"} => child = gen
    /\ Shielded /\ sup \in Finishing => child = gen \/ \A g \in Generations : ~Alive(g)
    /\ Shielded => NothingLeftBehind

\* The token and certificate of the first child are the only ones: until the
\* first rotation there is one child, which has made them.
Chained ==
    /\ \A g \in Generations : tok[g] \in {None, "first"}
    /\ \A g \in Generations : Alive(g) => tok[g] # None
    /\ env \in {None, "first"}
    /\ state # None => state.env = "first"
    /\ env = None => /\ target = None
                     /\ sup # "suppressed"
                     /\ sup = "launch" => FirstLaunch

\* A command, and what a child made of it, name a version that is not
\* suppressed; there is none until the child is monitored.
Served ==
    /\ sup \in {"spawned", "await", "terminate", "kill", "validate"} =>
          /\ command = None
          /\ \A g \in Generations : proc[g] \notin {"waiting", "stopping", "saved"}
    /\ sup = "monitor" /\ command # None => command.target # suppressed
    /\ \A g \in Generations : proc[g] \in {"waiting", "stopping", "saved"} => heard[g] # None
    /\ KeepsServing

IInv == TypeInv /\ Owned /\ Chained /\ Served
-----------------------------------------------------------------------------
(* Types.                                                                  *)

LEMMA FailureTypes ==
    ASSUME TypeOK, NEW t \in Versions
    PROVE  /\ RecordFailure(t) =>
                 failures' \in [Versions -> 0..Limit] /\ suppressed' \in {t, suppressed}
           /\ ClearFailures(t) =>
                 failures' \in [Versions -> 0..Limit] /\ suppressed'
                     \in {None, suppressed}
  <1> USE SupervisorAssumption DEF TypeOK
  <1>1. ASSUME RecordFailure(t)
        PROVE  failures' \in [Versions -> 0..Limit] /\ suppressed' \in {t, suppressed}
    <2>1. PICK kept \in 0..failures[t] :
             /\ failures' = [failures EXCEPT ![t] = IF kept + 1 < Limit
                 THEN kept + 1 ELSE Limit]
             /\ suppressed' = IF kept + 1 >= Limit THEN t ELSE suppressed
      <3>1. failures[t] \in 0..Limit
        OBVIOUS
      <3>2. failures[t] \in 0..failures[t]
        BY <3>1
      <3> QED BY <1>1, <3>2 DEF RecordFailure
    <2>2. (IF kept + 1 < Limit THEN kept + 1 ELSE Limit) \in 0..Limit
      OBVIOUS
    <2> QED BY <2>1, <2>2
  <1>2. ASSUME ClearFailures(t)
        PROVE  failures' \in [Versions -> 0..Limit] /\ suppressed' \in {None,
            suppressed}
    BY <1>2 DEF ClearFailures
  <1> QED BY <1>1, <1>2

\* Lifting the suppression forgets every failure.
LEMMA LiftTypes ==
    ASSUME TypeOK, NEW v, ClearSuppression(v)
    PROVE  failures' \in [Versions -> 0..Limit] /\ suppressed' \in {None, suppressed}
  BY SupervisorAssumption DEF TypeOK, ClearSuppression

LEMMA FailedTypes ==
    ASSUME TypeOK, Failed
    PROVE  /\ sup' \in {"done", "suppressed", "launch"}
           /\ failures' \in [Versions -> 0..Limit]
           /\ suppressed' \in Versions \cup {None}
           /\ target = None => sup' = "done"
           /\ target # None => sup' # "done"
  BY FailureTypes, SupervisorAssumption DEF TypeOK, Failed

LEMMA TypeStep ==
    ASSUME TypeInv, [Next]_vars
    PROVE  TypeInv'
  <1> USE SupervisorAssumption DEF TypeInv, TypeOK, Launched, loop, files, inner,
      package
  <1>a. /\ "launch" \in SupPC /\ "spawned" \in SupPC /\ "await" \in SupPC
        /\ "terminate" \in SupPC /\ "kill" \in SupPC /\ "validate" \in SupPC
        /\ "monitor" \in SupPC /\ "suppressed" \in SupPC /\ "finish" \in SupPC
        /\ "finish terminate" \in SupPC /\ "finish kill" \in SupPC /\ "done" \in SupPC
    BY DEF SupPC
  <1>b. /\ "boot" \in ProcPC /\ "up" \in ProcPC /\ "waiting" \in ProcPC
        /\ "stopping" \in ProcPC /\ "saved" \in ProcPC /\ "killed" \in ProcPC
        /\ "handed" \in ProcPC /\ "gone" \in ProcPC
    BY DEF ProcPC
  <1>c. "spawned" \in SupPC /\ "boot" \in ProcPC
    BY <1>a, <1>b
  <1>d. "launch" \in SupPC /\ "monitor" \in SupPC
    BY <1>a
  <1>e. Failed => sup' \in SupPC
    BY FailedTypes, <1>a
  <1>1. ASSUME NEW g \in Generations, Launch(g) PROVE TypeInv'
    BY <1>c, <1>1 DEF States, Launch, ClearFiles, StateFor
  <1>2. ASSUME Assign PROVE TypeInv'
    BY <1>a, <1>2 DEF Assign
  <1>3. ASSUME SeeStatus PROVE TypeInv'
    BY <1>a, <1>3 DEF SeeStatus
  <1>4. ASSUME AwaitExited PROVE TypeInv'
    BY <1>e, <1>4, FailedTypes DEF AwaitExited, Exited
  <1>5. ASSUME AwaitTimeout PROVE TypeInv'
    BY <1>a, <1>5 DEF AwaitTimeout
  <1>6. ASSUME Terminated PROVE TypeInv'
    BY ZenonT(60), <1>a, <1>6, FailedTypes DEF Terminated, Waited, Exited
  <1>7. ASSUME Stable PROVE TypeInv'
    BY <1>d, <1>7, FailureTypes DEF Stable, Mismatch
  <1>8. ASSUME Unstable PROVE TypeInv'
    BY <1>d, <1>e, <1>8, FailedTypes, FailureTypes DEF Unstable,
        Mismatch, Exited
  <1>9. ASSUME ChildEnded PROVE TypeInv'
    BY <1>a, <1>9 DEF ChildEnded
  <1>10. ASSUME Rotate PROVE TypeInv'
    BY <1>d, <1>10 DEF States, Rotate, Adopt
  <1>11. ASSUME CheckInstalled PROVE TypeInv'
    BY <1>11, LiftTypes DEF CheckInstalled, Request
  <1>12. ASSUME Resume PROVE TypeInv'
    BY <1>a, <1>12, LiftTypes DEF Resume, Lifts, ClearSuppression
  <1>13. ASSUME Finish PROVE TypeInv'
    BY <1>a, <1>13 DEF Finish, Finishing, Waited, Exited
  <1>14. ASSUME NEW g \in Generations, Report(g) PROVE TypeInv'
    BY <1>b, <1>14 DEF Report
  <1>15. ASSUME NEW g \in Generations, HearCommand(g) PROVE TypeInv'
    BY <1>b, <1>15 DEF HearCommand
  <1>16. ASSUME NEW g \in Generations, SaveState(g) PROVE TypeInv'
    BY <1>b, <1>16 DEF States, SaveState
  <1>17. ASSUME NEW g \in Generations, HandOver(g) PROVE TypeInv'
    BY <1>b, <1>17 DEF HandOver
  <1>18. ASSUME NEW g \in Generations, Die(g) PROVE TypeInv'
    BY <1>b, <1>18 DEF Die
  <1>19. ASSUME NEW v \in Versions, Install(v) PROVE TypeInv'
    BY <1>19 DEF Install
  <1>20. ASSUME Installed PROVE TypeInv'
    BY <1>20 DEF Installed
  <1>21. ASSUME Interrupt PROVE TypeInv'
    BY <1>a, <1>21 DEF Interrupt, Finishing
  <1>22. ASSUME UNCHANGED vars PROVE TypeInv'
    BY <1>22 DEF vars
  <1>23. ASSUME TerminateTimeout PROVE TypeInv'
    BY <1>a, <1>b, <1>23 DEF TerminateTimeout, Kill, Waited, Exited
  <1>24. ASSUME FinishTimeout PROVE TypeInv'
    BY <1>a, <1>24 DEF FinishTimeout, Finishing, Waited
  <1>25. ASSUME NEW g \in Generations, Ready(g) PROVE TypeInv'
    BY <1>b, <1>25 DEF Ready
  <1> QED BY <1>1, <1>2, <1>3, <1>4, <1>5, <1>6, <1>7, <1>8, <1>9, <1>10, <1>11,
      <1>12, <1>13, <1>14, <1>15, <1>16, <1>17, <1>18, <1>19, <1>20, <1>21, <1>22, <1>23, <1>24, <1>25 DEF
      Next, SupervisorStep, ChildStep, Rest

-----------------------------------------------------------------------------
(* Ownership of the child.                                                 *)

\* Children start only at launch, and only the supervisor moves on from one.
LEMMA OwnedStep ==
    ASSUME TypeInv, Owned, [Next]_vars
    PROVE  Owned'
  <1> USE SupervisorAssumption DEF TypeInv, TypeOK, Launched, Owned,
      NothingLeftBehind, Shielded, Alive, loop, files, inner, package
  <1>1. ASSUME NEW g \in Generations, Launch(g) PROVE Owned'
    <2>1. \A h \in Generations : Alive(h)' => h = g
      BY <1>1 DEF Launch
    <2>2. sup' = "spawned" /\ gen' = g /\ child' = None /\ proc'[g] = "boot"
      <3>1. sup = "launch" /\ child = None
        BY <1>1 DEF Launch
      <3>2. g \in DOMAIN proc
        BY <1>1
      <3> QED BY <1>1, <3>1, <3>2 DEF Launch
    <2>3. /\ \A h \in Generations : Alive(h)' => h = gen'
          /\ sup' \notin Finishing \cup {"launch", "suppressed", "done", "await", "terminate",
                                       "kill", "validate", "monitor"}
          /\ proc'[gen'] # "none"
      BY <2>1, <2>2 DEF Finishing
    <2> QED BY <2>2, <2>3
  <1>2. ASSUME Assign PROVE Owned'
    BY <1>2 DEF Assign
  <1>3. ASSUME SeeStatus PROVE Owned'
    BY <1>3 DEF SeeStatus
  <1>4. ASSUME AwaitExited PROVE Owned'
    BY <1>4, FailedTypes DEF AwaitExited, Exited
  <1>5. ASSUME AwaitTimeout PROVE Owned'
    BY <1>5 DEF AwaitTimeout
  <1>6. ASSUME Terminated PROVE Owned'
    BY <1>6, FailedTypes DEF Terminated, Waited, Exited
  <1>7. ASSUME Stable PROVE Owned'
    BY <1>7 DEF Stable, Exited
  <1>8. ASSUME Unstable PROVE Owned'
    BY <1>8, FailedTypes DEF Unstable, Exited
  <1>9. ASSUME ChildEnded PROVE Owned'
    BY <1>9 DEF ChildEnded
  <1>10. ASSUME Rotate PROVE Owned'
    BY <1>10 DEF Rotate
  <1>11. ASSUME CheckInstalled PROVE Owned'
    BY <1>11 DEF CheckInstalled
  <1>12. ASSUME Resume PROVE Owned'
    BY <1>12 DEF Resume
  <1>13. ASSUME Finish PROVE Owned'
    BY <1>13 DEF Finish, Finishing, Waited, Exited
  <1>14. ASSUME NEW g \in Generations, Report(g) PROVE Owned'
    BY <1>14 DEF Report
  <1>15. ASSUME NEW g \in Generations, HearCommand(g) PROVE Owned'
    BY <1>15 DEF HearCommand
  <1>16. ASSUME NEW g \in Generations, SaveState(g) PROVE Owned'
    BY <1>16 DEF SaveState
  <1>17. ASSUME NEW g \in Generations, HandOver(g) PROVE Owned'
    BY <1>17 DEF HandOver
  <1>18. ASSUME NEW g \in Generations, Die(g) PROVE Owned'
    BY <1>18 DEF Die
  <1>19. ASSUME NEW v \in Versions, Install(v) PROVE Owned'
    BY <1>19 DEF Install
  <1>20. ASSUME Installed PROVE Owned'
    BY <1>20 DEF Installed
  <1>21. ASSUME Interrupt PROVE Owned'
    <2>1. Shielded => sup \notin {"spawned", "terminate", "kill"}
      BY <1>21 DEF Interrupt, Shielded
    <2> QED BY <1>21, <2>1 DEF Interrupt, Finishing, SupPC
  <1>22. ASSUME UNCHANGED vars PROVE Owned'
    BY <1>22 DEF vars
  <1>23. ASSUME TerminateTimeout PROVE Owned'
    <2>1. child = gen /\ proc' = [proc EXCEPT ![gen] = "killed"] /\ gen \in Generations
      BY <1>23 DEF TerminateTimeout, Kill, Waited
    <2>2. sup' \in {"kill", "finish kill"} /\ UNCHANGED <<gen, child>>
      BY <1>23 DEF TerminateTimeout
    <2> QED BY <2>1, <2>2 DEF Finishing
  <1>24. ASSUME FinishTimeout PROVE Owned'
    BY <1>24 DEF FinishTimeout, Finishing, Waited
  <1>25. ASSUME NEW g \in Generations, Ready(g) PROVE Owned'
    BY <1>25 DEF Ready
  <1> QED BY <1>1, <1>2, <1>3, <1>4, <1>5, <1>6, <1>7, <1>8, <1>9, <1>10, <1>11,
      <1>12, <1>13, <1>14, <1>15, <1>16, <1>17, <1>18, <1>19, <1>20, <1>21, <1>22, <1>23, <1>24, <1>25 DEF
      Next, SupervisorStep, ChildStep, Rest

-----------------------------------------------------------------------------
(* Restart state.                                                          *)

\* Rotation hands on what the child has; only the first child has none.
LEMMA ChainedStep ==
    ASSUME TypeInv, Owned, Chained, [Next]_vars
    PROVE  Chained'
  <1> USE SupervisorAssumption DEF TypeInv, TypeOK, States, Launched, Chained,
      FirstLaunch, Alive, loop, files, inner, package
  <1>1. ASSUME NEW g \in Generations, Launch(g) PROVE Chained'
    BY <1>1 DEF Launch, ClearFiles, StateFor
  <1>2. ASSUME Assign PROVE Chained'
    BY <1>2 DEF Assign
  <1>3. ASSUME SeeStatus PROVE Chained'
    BY <1>3 DEF SeeStatus
  <1>4. ASSUME AwaitExited PROVE Chained'
    BY <1>4, FailedTypes DEF AwaitExited
  <1>5. ASSUME AwaitTimeout PROVE Chained'
    BY <1>5 DEF AwaitTimeout
  <1>6. ASSUME Terminated PROVE Chained'
    BY <1>6, FailedTypes DEF Terminated, Waited, Exited
  <1>7. ASSUME Stable PROVE Chained'
    BY <1>7 DEF Stable, Exited
  <1>8. ASSUME Unstable PROVE Chained'
    BY <1>8, FailedTypes DEF Unstable, Mismatch
  <1>9. ASSUME ChildEnded PROVE Chained'
    BY <1>9 DEF ChildEnded
  <1>10. ASSUME Rotate PROVE Chained'
    BY <1>10 DEF Rotate, Adopt
  <1>11. ASSUME CheckInstalled PROVE Chained'
    BY <1>11 DEF CheckInstalled, Request
  <1>12. ASSUME Resume PROVE Chained'
    BY <1>12 DEF Resume
  <1>13. ASSUME Finish PROVE Chained'
    BY <1>13 DEF Finish, Finishing, Waited, Exited
  <1>14. ASSUME NEW g \in Generations, Report(g) PROVE Chained'
    BY <1>14 DEF Report, Owned
  <1>15. ASSUME NEW g \in Generations, HearCommand(g) PROVE Chained'
    BY <1>15 DEF HearCommand, Owned
  <1>16. ASSUME NEW g \in Generations, SaveState(g) PROVE Chained'
    BY <1>16 DEF SaveState, Owned
  <1>17. ASSUME NEW g \in Generations, HandOver(g) PROVE Chained'
    BY <1>17 DEF HandOver, Owned
  <1>18. ASSUME NEW g \in Generations, Die(g) PROVE Chained'
    BY <1>18 DEF Die, Owned
  <1>19. ASSUME NEW v \in Versions, Install(v) PROVE Chained'
    BY <1>19 DEF Install
  <1>20. ASSUME Installed PROVE Chained'
    BY <1>20 DEF Installed
  <1>21. ASSUME Interrupt PROVE Chained'
    BY <1>21 DEF Interrupt, Finishing
  <1>22. ASSUME UNCHANGED vars PROVE Chained'
    BY <1>22 DEF vars
  <1>23. ASSUME TerminateTimeout PROVE Chained'
    <2>1. child \in Generations /\ proc' = [proc EXCEPT ![child] = "killed"]
      BY <1>23 DEF TerminateTimeout, Kill, Waited
    <2>2. proc[child] \in ProcPC \ {"none", "handed", "gone"}
      BY <1>23, <2>1 DEF TerminateTimeout, Waited, Exited, Owned
    <2>3. Alive(child)
      BY <2>2 DEF ProcPC
    <2>4. tok[child] # None
      BY <2>1, <2>3
    <2>5. sup' \in {"kill", "finish kill"} /\ UNCHANGED <<tok, env, state, target>>
      BY <1>23 DEF TerminateTimeout
    <2> QED BY <2>1, <2>4, <2>5
  <1>24. ASSUME FinishTimeout PROVE Chained'
    BY <1>24 DEF FinishTimeout, Finishing, Waited
  <1>25. ASSUME NEW g \in Generations, Ready(g) PROVE Chained'
    BY <1>25 DEF Ready, Owned
  <1> QED BY <1>1, <1>2, <1>3, <1>4, <1>5, <1>6, <1>7, <1>8, <1>9, <1>10, <1>11,
      <1>12, <1>13, <1>14, <1>15, <1>16, <1>17, <1>18, <1>19, <1>20, <1>21, <1>22, <1>23, <1>24, <1>25 DEF
      Next, SupervisorStep, ChildStep, Rest

-----------------------------------------------------------------------------
(* Suppressed versions.                                                    *)

\* A command names a version that is not suppressed when it is given, and no
\* version is suppressed while a child is monitored.
LEMMA ServedStep ==
    ASSUME TypeInv, Owned, Served, [Next]_vars
    PROVE  Served'
  <1> USE SupervisorAssumption DEF TypeInv, TypeOK, Launched, Served, KeepsServing,
      loop, files, inner, package
  <1>1. ASSUME NEW g \in Generations, Launch(g) PROVE Served'
    BY <1>1 DEF Launch, ClearFiles, Owned, Alive
  <1>2. ASSUME Assign PROVE Served'
    BY <1>2 DEF Assign
  <1>3. ASSUME SeeStatus PROVE Served'
    BY <1>3 DEF SeeStatus
  <1>4. ASSUME AwaitExited PROVE Served'
    BY <1>4, FailedTypes DEF AwaitExited
  <1>5. ASSUME AwaitTimeout PROVE Served'
    BY <1>5 DEF AwaitTimeout
  <1>6. ASSUME Terminated PROVE Served'
    BY <1>6, FailedTypes DEF Terminated, Waited, Exited
  <1>7. ASSUME Stable PROVE Served'
    BY <1>7 DEF Stable
  <1>8. ASSUME Unstable PROVE Served'
    BY <1>8, FailedTypes DEF Unstable
  <1>9. ASSUME ChildEnded PROVE Served'
    BY <1>9 DEF ChildEnded
  <1>10. ASSUME Rotate PROVE Served'
    BY <1>10 DEF Rotate
  <1>11. ASSUME CheckInstalled PROVE Served'
    BY <1>11 DEF CheckInstalled, Wanted, Request, Lifts, ClearSuppression
  <1>12. ASSUME Resume PROVE Served'
    BY <1>12 DEF Resume
  <1>13. ASSUME Finish PROVE Served'
    BY <1>13 DEF Finish, Finishing, Waited, Exited
  <1>14. ASSUME NEW g \in Generations, Report(g) PROVE Served'
    BY <1>14 DEF Report
  <1>15. ASSUME NEW g \in Generations, HearCommand(g) PROVE Served'
    BY <1>15 DEF HearCommand, Owned, Alive
  <1>16. ASSUME NEW g \in Generations, SaveState(g) PROVE Served'
    BY <1>16 DEF SaveState, Owned, Alive
  <1>17. ASSUME NEW g \in Generations, HandOver(g) PROVE Served'
    BY <1>17 DEF HandOver
  <1>18. ASSUME NEW g \in Generations, Die(g) PROVE Served'
    BY <1>18 DEF Die
  <1>19. ASSUME NEW v \in Versions, Install(v) PROVE Served'
    BY <1>19 DEF Install
  <1>20. ASSUME Installed PROVE Served'
    BY <1>20 DEF Installed
  <1>21. ASSUME Interrupt PROVE Served'
    BY <1>21 DEF Interrupt, Finishing
  <1>22. ASSUME UNCHANGED vars PROVE Served'
    BY <1>22 DEF vars
  <1>23. ASSUME TerminateTimeout PROVE Served'
    BY <1>23 DEF TerminateTimeout, Kill, Waited, Exited
  <1>24. ASSUME FinishTimeout PROVE Served'
    BY <1>24 DEF FinishTimeout, Finishing, Waited
  <1>25. ASSUME NEW g \in Generations, Ready(g) PROVE Served'
    BY <1>25 DEF Ready
  <1> QED BY <1>1, <1>2, <1>3, <1>4, <1>5, <1>6, <1>7, <1>8, <1>9, <1>10, <1>11,
      <1>12, <1>13, <1>14, <1>15, <1>16, <1>17, <1>18, <1>19, <1>20, <1>21, <1>22, <1>23, <1>24, <1>25 DEF
      Next, SupervisorStep, ChildStep, Rest

-----------------------------------------------------------------------------
(* Theorems.                                                               *)

LEMMA InitInv == Init => IInv
  BY SupervisorAssumption
     DEF Init, IInv, TypeInv, TypeOK, States, SupPC, ProcPC, Launched, Owned, Alive,
         NothingLeftBehind, Chained, FirstLaunch, Served, KeepsServing

LEMMA Invariance == Spec => []IInv
  <1>1. IInv /\ [Next]_vars => IInv'
    BY TypeStep, OwnedStep, ChainedStep, ServedStep DEF IInv
  <1> QED BY InitInv, <1>1, PTL DEF Spec

\* Every variable keeps its type.
THEOREM TypeCorrect == Spec => []TypeOK
  BY Invariance, PTL DEF IInv, TypeInv

\* A replacement never runs beside the child it replaces, whatever dies, times
\* out or is interrupted (ProcessSupervisor._run_children).
THEOREM OneChildAtATime == Spec => []OneChild
  <1>1. IInv => OneChild
    BY DEF IInv, Owned, OneChild
  <1> QED BY Invariance, <1>1, PTL

\* If no Ctrl+C arrives while a child is started or terminated, the supervisor
\* returns only when its child is gone (ProcessSupervisor.run).
THEOREM NoneLeftBehind ==
    ASSUME Shielded
    PROVE  Spec => []NothingLeftBehind
  <1>1. IInv => NothingLeftBehind
    BY DEF IInv, Owned
  <1> QED BY Invariance, <1>1, PTL

\* Token and certificate survive any number of rotations and failures
\* (replace_restart_environment).
THEOREM StateSurvives == Spec => []SameState
  <1>1. IInv => SameState
    BY DEF IInv, Chained, SameState
  <1> QED BY Invariance, <1>1, PTL

\* The breaker never takes a serving child away (ProcessSupervisor._monitor_child).
THEOREM ChildKeepsServing == Spec => []KeepsServing
  <1>1. IInv => KeepsServing
    BY DEF IInv, Served
  <1> QED BY Invariance, <1>1, PTL

-----------------------------------------------------------------------------
(* Attempts.                                                               *)

\* A child lives through validation: it may die before it reports only.
Hardy == Frail \subseteq {"boot"}

\* No failure leaves the window.
Lasting == Ages = FALSE

Launching == {"spawned", "await", "terminate", "kill", "validate"}

Heading == Launching \cup {"launch", "suppressed"}

\* A child that has reported is not gone before it is monitored.
Steady ==
    /\ sup \in {"spawned", "await"} /\ status # None /\ status.gen = gen => proc[gen] = "up"
    /\ sup = "validate" => proc[gen] = "up"

\* What a child was told, and what it leaves behind, starts from a command of
\* this generation, which lifts suppression.
Commanded ==
    /\ sup \in Launching => heard[gen] = None /\ state = None
    /\ sup = "monitor" /\ proc[gen] \in {"boot", "up"} => heard[gen] = None
    /\ sup = "monitor" /\ (command # None \/ heard[gen] # None) => suppressed = None
    /\ sup = "monitor" /\ state # None =>
          heard[gen] # None /\ state.target = heard[gen]

\* The breaker is open for a version that has used up its failures, and for
\* no other; the supervisor does not launch while it is open.
Breaker ==
    /\ \A v \in Versions : failures[v] = Limit => suppressed = v
    /\ sup \in Launching \cup {"launch"} => suppressed = None
    /\ sup = "suppressed" => target # None /\ suppressed = target

\* The next launch is, or may become, one toward v.
Aimed(v) ==
    \/ sup \in Heading /\ target = v
    \/ sup = "monitor" /\ command # None /\ command.target = v
    \/ sup = "monitor" /\ heard[gen] = v

\* A launch toward v has not been judged yet.
InFlight(v) == IF sup \in Launching /\ target = v THEN 1 ELSE 0

\* Each launch toward a version that may be launched again has been counted
\* as a failure; toward the version the metadata shows there was none yet when
\* another one is aimed at or suppressed.
Counted ==
    /\ BoundedAttempts
    /\ \A v \in Versions :
          Aimed(v) \/ (sup = "monitor" /\ installed = v) =>
             tries[v] <= failures[v] + InFlight(v)
    /\ installed # None =>
          /\ sup \in Heading /\ target # installed => tries[installed] = 0
          /\ sup = "monitor" /\ command # None /\ command.target # installed
                => tries[installed] = 0
          /\ sup = "monitor" /\ heard[gen] \notin {None, installed} => tries[installed] = 0
          /\ sup = "monitor" /\ suppressed \notin {None, installed} => tries[installed] = 0

AttemptInv == IInv /\ Steady /\ Commanded /\ Breaker /\ Counted

\* A failure that stays in the window is one more; the last one opens the breaker.
LEMMA FailureCounts ==
    ASSUME TypeOK, Lasting, Breaker, NEW t \in Versions, RecordFailure(t),
           suppressed = None
    PROVE  /\ failures' = [failures EXCEPT ![t] = @ + 1]
           /\ suppressed' = IF failures'[t] = Limit THEN t ELSE None
  <1> USE SupervisorAssumption DEF TypeOK
  <1>1. failures[t] \in 0..Limit /\ failures[t] # Limit
    BY DEF Breaker
  <1>2. PICK kept \in {failures[t]} :
             /\ failures' = [failures EXCEPT ![t] = IF kept + 1 < Limit
                 THEN kept + 1 ELSE Limit]
             /\ suppressed' = IF kept + 1 >= Limit THEN t ELSE suppressed
    BY DEF RecordFailure, Lasting
  <1>3. (IF kept + 1 < Limit THEN kept + 1 ELSE Limit) = failures[t] + 1
    BY <1>1, <1>2
  <1>4. kept + 1 >= Limit <=> failures[t] + 1 = Limit
    BY <1>1, <1>2
  <1>5. failures'[t] = failures[t] + 1
    BY <1>2, <1>3
  <1> QED BY <1>2, <1>3, <1>4, <1>5

\* A child that never served is one failure of its target, if it has one.
LEMMA FailedCounts ==
    ASSUME TypeOK, Lasting, Breaker, Failed, suppressed = None
    PROVE  \/ target = None /\ sup' = "done" /\ UNCHANGED <<failures, suppressed>>
           \/ /\ target \in Versions
              /\ failures' = [failures EXCEPT ![target] = @ + 1]
              /\ \/ failures'[target] = Limit /\ suppressed' = target /\ sup' = "suppressed"
                 \/ failures'[target] # Limit /\ suppressed' = None /\ sup' = "launch"
  BY FailureCounts, SupervisorAssumption DEF TypeOK, Failed

\* The child is up when it is validated: Unstable is never taken.
LEMMA NeverUnstable == ASSUME Steady, Owned, TypeInv, Unstable PROVE FALSE
  BY DEF Steady, Owned, Unstable, Exited

\* What has reported stays up: nothing tells it to stop yet.
LEMMA SteadyStep ==
    ASSUME IInv, Hardy, Steady, [Next]_vars
    PROVE  Steady'
  <1> USE SupervisorAssumption DEF IInv, TypeInv, TypeOK, Launched, Steady, Owned, Served, Alive, Launching, Heading,
      loop, files, inner, package
  <1>1. ASSUME NEW g \in Generations, Launch(g) PROVE Steady'
    BY <1>1 DEF Launch, ClearFiles
  <1>2. ASSUME Assign PROVE Steady'
    BY <1>2 DEF Assign
  <1>3. ASSUME SeeStatus PROVE Steady'
    BY <1>3 DEF SeeStatus
  <1>4. ASSUME AwaitExited PROVE Steady'
    BY <1>4, FailedTypes DEF AwaitExited, Exited
  <1>5. ASSUME AwaitTimeout PROVE Steady'
    BY <1>5 DEF AwaitTimeout
  <1>6. ASSUME Terminated PROVE Steady'
    BY <1>6, FailedTypes DEF Terminated, Waited, Exited
  <1>7. ASSUME Stable PROVE Steady'
    BY <1>7 DEF Stable, Mismatch, ClearFailures, Exited
  <1>8. ASSUME Unstable PROVE Steady'
    BY <1>8, NeverUnstable
  <1>9. ASSUME ChildEnded PROVE Steady'
    BY <1>9 DEF ChildEnded
  <1>10. ASSUME Rotate PROVE Steady'
    BY <1>10 DEF Rotate
  <1>11. ASSUME CheckInstalled PROVE Steady'
    BY <1>11 DEF CheckInstalled, Request, Wanted, Lifts, ClearSuppression
  <1>12. ASSUME Resume PROVE Steady'
    BY <1>12 DEF Resume, Lifts, ClearSuppression
  <1>13. ASSUME Finish PROVE Steady'
    BY <1>13 DEF Finish, Finishing, Waited, Exited
  <1>14. ASSUME NEW g \in Generations, Report(g) PROVE Steady'
    BY <1>14 DEF Report
  <1>15. ASSUME NEW g \in Generations, HearCommand(g) PROVE Steady'
    BY <1>15 DEF HearCommand
  <1>16. ASSUME NEW g \in Generations, SaveState(g) PROVE Steady'
    BY <1>16 DEF SaveState
  <1>17. ASSUME NEW g \in Generations, HandOver(g) PROVE Steady'
    BY <1>17 DEF HandOver
  <1>18. ASSUME NEW g \in Generations, Die(g) PROVE Steady'
    BY <1>18 DEF Die, Hardy
  <1>19. ASSUME NEW v \in Versions, Install(v) PROVE Steady'
    BY <1>19 DEF Install
  <1>20. ASSUME Installed PROVE Steady'
    BY <1>20 DEF Installed
  <1>21. ASSUME Interrupt PROVE Steady'
    BY <1>21 DEF Interrupt, Finishing
  <1>22. ASSUME UNCHANGED vars PROVE Steady'
    BY <1>22 DEF vars
  <1>23. ASSUME TerminateTimeout PROVE Steady'
    BY <1>23 DEF TerminateTimeout, Kill, Waited, Exited
  <1>24. ASSUME FinishTimeout PROVE Steady'
    BY <1>24 DEF FinishTimeout, Finishing, Waited
  <1>25. ASSUME NEW g \in Generations, Ready(g) PROVE Steady'
    BY <1>25 DEF Ready
  <1> QED BY <1>1, <1>2, <1>3, <1>4, <1>5, <1>6, <1>7, <1>8, <1>9, <1>10, <1>11,
      <1>12, <1>13, <1>14, <1>15, <1>16, <1>17, <1>18, <1>19, <1>20, <1>21, <1>22, <1>23, <1>24, <1>25 DEF
      Next, SupervisorStep, ChildStep, Rest

\* Commands are given by a monitoring supervisor that has lifted suppression.
LEMMA CommandedStep ==
    ASSUME IInv, Steady, Commanded, Breaker, Lasting, [Next]_vars
    PROVE  Commanded'
  <1> USE SupervisorAssumption DEF IInv, TypeInv, TypeOK, Launched, Commanded, Owned, Served, Alive, Launching, Heading,
      loop, files, inner, package
  <1>1. ASSUME NEW g \in Generations, Launch(g) PROVE Commanded'
    BY <1>1 DEF Launch, ClearFiles
  <1>2. ASSUME Assign PROVE Commanded'
    BY <1>2 DEF Assign
  <1>3. ASSUME SeeStatus PROVE Commanded'
    BY <1>3 DEF SeeStatus
  <1>4. ASSUME AwaitExited PROVE Commanded'
    BY <1>4, FailedCounts DEF AwaitExited
  <1>5. ASSUME AwaitTimeout PROVE Commanded'
    BY <1>5 DEF AwaitTimeout
  <1>6. ASSUME Terminated PROVE Commanded'
    BY <1>6, FailedCounts DEF Terminated, Waited, Exited
  <1>7. ASSUME Stable PROVE Commanded'
    BY <1>7, FailureCounts DEF Stable, Mismatch, ClearFailures, Exited
  <1>8. ASSUME Unstable PROVE Commanded'
    BY <1>8, NeverUnstable
  <1>9. ASSUME ChildEnded PROVE Commanded'
    BY <1>9 DEF ChildEnded
  <1>10. ASSUME Rotate PROVE Commanded'
    BY <1>10 DEF Rotate
  <1>11. ASSUME CheckInstalled PROVE Commanded'
    BY <1>11 DEF CheckInstalled, Request, Wanted, Lifts, ClearSuppression
  <1>12. ASSUME Resume PROVE Commanded'
    BY <1>12 DEF Resume, Lifts, ClearSuppression
  <1>13. ASSUME Finish PROVE Commanded'
    BY <1>13 DEF Finish, Finishing, Waited, Exited
  <1>14. ASSUME NEW g \in Generations, Report(g) PROVE Commanded'
    BY <1>14 DEF Report
  <1>15. ASSUME NEW g \in Generations, HearCommand(g) PROVE Commanded'
    BY <1>15 DEF HearCommand
  <1>16. ASSUME NEW g \in Generations, SaveState(g) PROVE Commanded'
    BY <1>16 DEF SaveState
  <1>17. ASSUME NEW g \in Generations, HandOver(g) PROVE Commanded'
    BY <1>17 DEF HandOver
  <1>18. ASSUME NEW g \in Generations, Die(g) PROVE Commanded'
    BY <1>18 DEF Die
  <1>19. ASSUME NEW v \in Versions, Install(v) PROVE Commanded'
    BY <1>19 DEF Install
  <1>20. ASSUME Installed PROVE Commanded'
    BY <1>20 DEF Installed
  <1>21. ASSUME Interrupt PROVE Commanded'
    BY <1>21 DEF Interrupt, Finishing
  <1>22. ASSUME UNCHANGED vars PROVE Commanded'
    BY <1>22 DEF vars
  <1>23. ASSUME TerminateTimeout PROVE Commanded'
    BY <1>23 DEF TerminateTimeout, Kill, Waited, Exited
  <1>24. ASSUME FinishTimeout PROVE Commanded'
    BY <1>24 DEF FinishTimeout, Finishing, Waited
  <1>25. ASSUME NEW g \in Generations, Ready(g) PROVE Commanded'
    BY <1>25 DEF Ready
  <1> QED BY <1>1, <1>2, <1>3, <1>4, <1>5, <1>6, <1>7, <1>8, <1>9, <1>10, <1>11,
      <1>12, <1>13, <1>14, <1>15, <1>16, <1>17, <1>18, <1>19, <1>20, <1>21, <1>22, <1>23, <1>24, <1>25 DEF
      Next, SupervisorStep, ChildStep, Rest

\* Only a failure opens the breaker, and what launches has found it closed.
LEMMA BreakerStep ==
    ASSUME IInv, Steady, Commanded, Breaker, Lasting, [Next]_vars
    PROVE  Breaker'
  <1> USE SupervisorAssumption DEF IInv, TypeInv, TypeOK, Launched, Breaker, Launching, Heading,
      loop, files, inner, package
  <1>1. ASSUME NEW g \in Generations, Launch(g) PROVE Breaker'
    BY <1>1 DEF Launch, ClearFiles
  <1>2. ASSUME Assign PROVE Breaker'
    BY <1>2 DEF Assign
  <1>3. ASSUME SeeStatus PROVE Breaker'
    BY <1>3 DEF SeeStatus
  <1>4. ASSUME AwaitExited PROVE Breaker'
    BY <1>4, FailedCounts DEF AwaitExited
  <1>5. ASSUME AwaitTimeout PROVE Breaker'
    BY <1>5 DEF AwaitTimeout
  <1>6. ASSUME Terminated PROVE Breaker'
    BY <1>6, FailedCounts DEF Terminated, Waited, Exited
  <1>7. ASSUME Stable PROVE Breaker'
    BY <1>7, FailureCounts DEF Stable, Mismatch, ClearFailures, Exited
  <1>8. ASSUME Unstable PROVE Breaker'
    BY <1>8, NeverUnstable
  <1>9. ASSUME ChildEnded PROVE Breaker'
    BY <1>9 DEF ChildEnded
  <1>10. ASSUME Rotate PROVE Breaker'
    BY <1>10 DEF Rotate, Commanded
  <1>11. ASSUME CheckInstalled PROVE Breaker'
    BY <1>11 DEF CheckInstalled, Request, Wanted, Lifts, ClearSuppression
  <1>12. ASSUME Resume PROVE Breaker'
    BY <1>12 DEF Resume, Lifts, ClearSuppression
  <1>13. ASSUME Finish PROVE Breaker'
    BY <1>13 DEF Finish, Finishing, Waited, Exited
  <1>14. ASSUME NEW g \in Generations, Report(g) PROVE Breaker'
    BY <1>14 DEF Report
  <1>15. ASSUME NEW g \in Generations, HearCommand(g) PROVE Breaker'
    BY <1>15 DEF HearCommand
  <1>16. ASSUME NEW g \in Generations, SaveState(g) PROVE Breaker'
    BY <1>16 DEF SaveState
  <1>17. ASSUME NEW g \in Generations, HandOver(g) PROVE Breaker'
    BY <1>17 DEF HandOver
  <1>18. ASSUME NEW g \in Generations, Die(g) PROVE Breaker'
    BY <1>18 DEF Die
  <1>19. ASSUME NEW v \in Versions, Install(v) PROVE Breaker'
    BY <1>19 DEF Install
  <1>20. ASSUME Installed PROVE Breaker'
    BY <1>20 DEF Installed
  <1>21. ASSUME Interrupt PROVE Breaker'
    BY <1>21 DEF Interrupt, Finishing
  <1>22. ASSUME UNCHANGED vars PROVE Breaker'
    BY <1>22 DEF vars
  <1>23. ASSUME TerminateTimeout PROVE Breaker'
    BY <1>23 DEF TerminateTimeout, Kill, Waited, Exited
  <1>24. ASSUME FinishTimeout PROVE Breaker'
    BY <1>24 DEF FinishTimeout, Finishing, Waited
  <1>25. ASSUME NEW g \in Generations, Ready(g) PROVE Breaker'
    BY <1>25 DEF Ready
  <1> QED BY <1>1, <1>2, <1>3, <1>4, <1>5, <1>6, <1>7, <1>8, <1>9, <1>10, <1>11,
      <1>12, <1>13, <1>14, <1>15, <1>16, <1>17, <1>18, <1>19, <1>20, <1>21, <1>22, <1>23, <1>24, <1>25 DEF
      Next, SupervisorStep, ChildStep, Rest

\* A launch is counted before the next one, and suppression is lifted for a
\* version that has not been tried only.
LEMMA CountedStep ==
    ASSUME IInv, Steady, Commanded, Breaker, Lasting, Counted, [Next]_vars
    PROVE  Counted'
  <1> USE SupervisorAssumption DEF IInv, TypeInv, TypeOK, Launched, Counted, BoundedAttempts, Aimed, InFlight, Commanded, Breaker, Launching, Heading,
      loop, files, inner, package
  <1>1. ASSUME NEW g \in Generations, Launch(g) PROVE Counted'
    BY <1>1 DEF Launch, ClearFiles
  <1>2. ASSUME Assign PROVE Counted'
    BY <1>2 DEF Assign
  <1>3. ASSUME SeeStatus PROVE Counted'
    BY <1>3 DEF SeeStatus
  <1>4. ASSUME AwaitExited PROVE Counted'
    BY <1>4, FailedCounts DEF AwaitExited
  <1>5. ASSUME AwaitTimeout PROVE Counted'
    BY <1>5 DEF AwaitTimeout
  <1>6. ASSUME Terminated PROVE Counted'
    BY <1>6, FailedCounts DEF Terminated, Waited, Exited
  <1>7. ASSUME Stable PROVE Counted'
    <2>1. /\ sup = "validate" /\ sup' = "monitor" /\ gen \in Generations
          /\ heard[gen] = None /\ command = None /\ suppressed = None
          /\ UNCHANGED <<gen, files, heard, installed>>
      BY <1>7 DEF Stable, Served
    <2>2. installed # None => installed \in Versions /\ installed' \in Versions
      BY <2>1
    <2>3. BoundedAttempts' /\ (installed # None => tries'[installed] <= failures'[installed])
      <3>1. CASE target = None
        BY <1>7, <2>1, <2>2, <3>1 DEF Stable, Mismatch
      <3>2. CASE Mismatch
        <4>1. target \in Versions /\ failures' = [failures EXCEPT ![target] = @ + 1]
          BY <1>7, <2>1, <3>2, FailureCounts DEF Stable, Mismatch
        <4>2. tries' = tries
          BY <1>7, <3>2 DEF Stable, Mismatch
        <4> QED BY <2>1, <2>2, <4>1, <4>2
      <3>3. CASE target # None /\ ~Mismatch
        <4>1. target \in Versions /\ failures' = [failures EXCEPT ![target] = 0]
              /\ tries' = [tries EXCEPT ![target] = 0]
          BY <1>7, <3>3 DEF Stable, ClearFailures
        <4> QED BY <2>1, <2>2, <4>1
      <3> QED BY <3>1, <3>2, <3>3 DEF Mismatch
    <2>4. suppressed' \in {None, target} /\ (suppressed' # None => tries' = tries)
      <3>1. CASE target = None
        BY <1>7, <2>1, <3>1 DEF Stable, Mismatch
      <3>2. CASE Mismatch
        <4>1. target \in Versions /\ suppressed' \in {target, None}
          BY <1>7, <2>1, <3>2, FailureCounts DEF Stable, Mismatch
        <4> QED BY <1>7, <3>2, <4>1 DEF Stable, Mismatch
      <3>3. CASE target # None /\ ~Mismatch
        BY <1>7, <2>1, <3>3 DEF Stable, ClearFailures
      <3> QED BY <3>1, <3>2, <3>3 DEF Mismatch
    <2>5. \A v \in Versions :
             Aimed(v)' \/ (sup' = "monitor" /\ installed' = v) =>
                tries'[v] <= failures'[v] + InFlight(v)'
      <3> SUFFICES ASSUME NEW v \in Versions,
                          Aimed(v)' \/ (sup' = "monitor" /\ installed' = v)
                   PROVE  tries'[v] <= failures'[v] + InFlight(v)'
        OBVIOUS
      <3>1. ~Aimed(v)' /\ InFlight(v)' = 0
        BY <2>1
      <3>2. failures' \in [Versions -> 0..Limit] /\ tries'[v] <= failures'[v]
        BY <1>7, <2>1, <2>3, <3>1, TypeStep DEF Next, SupervisorStep
      <3> QED BY <3>1, <3>2
    <2>6. sup' \notin Heading /\ command' = None /\ heard'[gen'] = None
      BY <2>1
    <2>7. installed' # None /\ suppressed' \notin {None, installed'} => tries'[installed'] = 0
      BY <2>1, <2>2, <2>4
    <2> QED BY <2>3, <2>5, <2>6, <2>7
  <1>8. ASSUME Unstable PROVE Counted'
    BY <1>8, NeverUnstable
  <1>9. ASSUME ChildEnded PROVE Counted'
    BY <1>9 DEF ChildEnded
  <1>10. ASSUME Rotate PROVE Counted'
    BY <1>10 DEF Rotate
  <1>11. ASSUME CheckInstalled PROVE Counted'
    BY <1>11 DEF CheckInstalled, Request, Wanted, Lifts, ClearSuppression
  <1>12. ASSUME Resume PROVE Counted'
    BY <1>12 DEF Resume, Lifts, ClearSuppression
  <1>13. ASSUME Finish PROVE Counted'
    BY <1>13 DEF Finish, Finishing, Waited, Exited
  <1>14. ASSUME NEW g \in Generations, Report(g) PROVE Counted'
    BY <1>14 DEF Report
  <1>15. ASSUME NEW g \in Generations, HearCommand(g) PROVE Counted'
    BY <1>15 DEF HearCommand
  <1>16. ASSUME NEW g \in Generations, SaveState(g) PROVE Counted'
    BY <1>16 DEF SaveState
  <1>17. ASSUME NEW g \in Generations, HandOver(g) PROVE Counted'
    BY <1>17 DEF HandOver
  <1>18. ASSUME NEW g \in Generations, Die(g) PROVE Counted'
    BY <1>18 DEF Die
  <1>19. ASSUME NEW v \in Versions, Install(v) PROVE Counted'
    BY <1>19 DEF Install
  <1>20. ASSUME Installed PROVE Counted'
    BY <1>20 DEF Installed
  <1>21. ASSUME Interrupt PROVE Counted'
    BY <1>21 DEF Interrupt, Finishing
  <1>22. ASSUME UNCHANGED vars PROVE Counted'
    BY <1>22 DEF vars
  <1>23. ASSUME TerminateTimeout PROVE Counted'
    BY <1>23 DEF TerminateTimeout, Kill, Waited, Exited
  <1>24. ASSUME FinishTimeout PROVE Counted'
    BY <1>24 DEF FinishTimeout, Finishing, Waited
  <1>25. ASSUME NEW g \in Generations, Ready(g) PROVE Counted'
    BY <1>25 DEF Ready
  <1> QED BY <1>1, <1>2, <1>3, <1>4, <1>5, <1>6, <1>7, <1>8, <1>9, <1>10, <1>11,
      <1>12, <1>13, <1>14, <1>15, <1>16, <1>17, <1>18, <1>19, <1>20, <1>21, <1>22, <1>23, <1>24, <1>25 DEF
      Next, SupervisorStep, ChildStep, Rest

\* The invariant, for children that live through validation and failures that
\* stay in the window.
LEMMA AttemptsHold == ASSUME Hardy, Lasting PROVE Spec => []AttemptInv
<1>1. Init => AttemptInv
  BY InitInv, SupervisorAssumption DEF AttemptInv, Init, Steady, Commanded, Breaker, Counted,
     BoundedAttempts, Aimed, InFlight, Launching, Heading
<1>2. AttemptInv /\ [Next]_vars => AttemptInv'
  BY TypeStep, OwnedStep, ChainedStep, ServedStep, SteadyStep, CommandedStep, BreakerStep,
     CountedStep DEF AttemptInv, IInv
<1> QED BY <1>1, <1>2, PTL DEF Spec

\* While metadata does not change, at most Limit children are launched toward
\* the version it shows (_record_failure, _wait_until_suppression_clears): for
\* any Limit, versions and number of installations, if children live through
\* validation. The run restart_storm shows that they must.
THEOREM AttemptsAreBounded ==
    ASSUME Hardy, Lasting
    PROVE  Spec => []BoundedAttempts
<1>1. AttemptInv => BoundedAttempts
  BY DEF AttemptInv, Counted
<1> QED BY AttemptsHold, <1>1, PTL

=============================================================================
