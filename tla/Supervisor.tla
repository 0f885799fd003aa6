----------------------------- MODULE Supervisor -----------------------------
(***************************************************************************)
(* The process supervisor (src/py_frp/supervisor.py), its business child,  *)
(* the files they exchange (supervisor_ipc.py, restart.py, update.py), and *)
(* the package installer and the user who act at any moment.               *)
(*                                                                         *)
(* An action is one poll, one file operation or one process event. Time is *)
(* abstract: a timer may fire whenever what it waits for has not happened. *)
(***************************************************************************)
EXTENDS Integers, FiniteSets

CONSTANTS
    Versions,      \* package versions
    Shipped,       \* the version installed at the start
    Generations,   \* generation identifiers, reused only when out of use
    Limit,         \* RESTART_FAILURE_LIMIT
    AutoRestart,   \* auto_restart
    Ages,          \* TRUE: failures may be older than RESTART_FAILURE_WINDOW
    MayShadow,     \* TRUE: metadata may name a version that is not imported
    Frail,         \* the states in which a child may exit during startup
    Quiet,         \* where no Ctrl+C reaches the supervisor
    MaxInstalls,   \* bound on package installations
    None

ASSUME SupervisorAssumption ==
    /\ Shipped \in Versions
    /\ None \notin Versions \cup Generations \cup {"first", "other"}
    /\ Limit \in Nat \ {0}
    /\ {AutoRestart, Ages, MayShadow} \subseteq BOOLEAN
    /\ Frail \subseteq {"boot", "up"}
    /\ MaxInstalls \in Nat

VARIABLES
    sup,         \* where the supervisor is
    gen,         \* generation of the child launched last
    child,       \* self.child
    target,      \* the version the next child is to load
    seen,        \* child_version
    asked,       \* requested_target
    failures,    \* how many failures self.failures holds for each version
    suppressed,  \* self.suppressed_target
    env,         \* the restart state in self.environment
    status,      \* child-status.json
    command,     \* command.json
    state,       \* restart-state.json
    proc,        \* the child process of each generation
    ver,         \* the version it imported
    tok,         \* the restart state (token, certificate) it runs with
    heard,       \* the target it read from command.json
    installed,   \* the version in the package metadata
    code,        \* the version a new process imports
    coming,      \* the version being installed
    installs,    \* installations so far
    tries        \* history: launches toward a version since metadata changed

loop    == <<target, seen, asked, failures, suppressed, env>>
files   == <<status, command, state>>
inner   == <<proc, ver, tok, heard>>
package == <<installed, code, coming, installs>>
vars == <<sup, gen, child, loop, files, inner, package, tries>>

\* terminate, kill: a child that does not report; finish and what follows:
\* after Ctrl+C. The supervisor waits for its child in each of them.
SupPC == {"launch", "spawned", "await", "terminate", "kill", "validate", "monitor",
          "suppressed", "finish", "finish terminate", "finish kill", "done"}

\* up: status published; waiting: the restart command was read; stopping: the
\* runtime was cancelled; saved: the restart state was published; handed: exit
\* code 75; killed: SIGKILL is on its way; gone: any other end.
ProcPC == {"none", "boot", "up", "waiting", "stopping", "saved", "killed", "handed", "gone"}

Exited(g) == proc[g] \in {"handed", "gone"}

Alive(g) == proc[g] \in {"boot", "up", "waiting", "stopping", "saved", "killed"}

Init ==
    /\ sup = "launch"
    /\ gen = None /\ child = None
    /\ target = None /\ seen = None /\ asked = None
    /\ failures = [v \in Versions |-> 0]
    /\ suppressed = None
    /\ env = None
    /\ status = None /\ command = None /\ state = None
    /\ proc = [g \in Generations |-> "none"]
    /\ ver = [g \in Generations |-> None]
    /\ tok = [g \in Generations |-> None]
    /\ heard = [g \in Generations |-> None]
    /\ installed = Shipped /\ code = Shipped /\ coming = Shipped
    /\ installs = 0
    /\ tries = [v \in Versions |-> 0]

-----------------------------------------------------------------------------
(* Failures and suppression.                                               *)

\* Fault: a failure does not open the circuit breaker.
Forgive(t) == UNCHANGED <<failures, suppressed>>

\* Failures that left the window are dropped first; the count stops at Limit,
\* beyond which nothing depends on it.
RecordFailure(t) ==
    \E kept \in IF Ages THEN 0..failures[t] ELSE {failures[t]} :
       /\ failures' = [failures EXCEPT ![t] = IF kept + 1 < Limit THEN kept + 1 ELSE Limit]
       /\ suppressed' = IF kept + 1 >= Limit THEN t ELSE suppressed

ClearFailures(t) ==
    /\ failures' = [failures EXCEPT ![t] = 0]
    /\ suppressed' = IF suppressed = t THEN None ELSE suppressed

\* Metadata shows another version than the suppressed one.
Lifts(current) == suppressed # None /\ current # suppressed

ClearSuppression(current) ==
    IF Lifts(current)
    THEN failures' = [v \in Versions |-> 0] /\ suppressed' = None
    ELSE UNCHANGED <<failures, suppressed>>

\* A child that never served: without a target the supervisor gives up, else
\* it tries again or, at the limit, waits for another version.
Failed ==
    \/ target = None /\ sup' = "done" /\ UNCHANGED <<failures, suppressed>>
    \/ /\ target # None
       /\ RecordFailure(target)
       /\ sup' = IF failures'[target] = Limit THEN "suppressed" ELSE "launch"

-----------------------------------------------------------------------------
(* Launching a child.                                                      *)

\* prepare_child_environment removes the files of the last generation.
ClearFiles == status' = None /\ command' = None /\ state' = None

\* A child without restart state makes its own: a new one each time.
FirstLaunch == \A g \in Generations : proc[g] = "none"

StateFor == IF env # None THEN env ELSE IF FirstLaunch THEN "first" ELSE "other"

Launch(g) ==
    /\ sup = "launch"
    /\ ~Alive(g) /\ g # gen
    /\ gen' = g
    /\ ClearFiles
    /\ proc' = [proc EXCEPT ![g] = "boot"]
    /\ tok' = [tok EXCEPT ![g] = StateFor]
    /\ ver' = [ver EXCEPT ![g] = None]
    /\ heard' = [heard EXCEPT ![g] = None]
    /\ tries' = IF target = None THEN tries
                ELSE [tries EXCEPT ![target] = IF @ > Limit THEN @ ELSE @ + 1]
    /\ sup' = "spawned"
    /\ UNCHANGED <<child, loop, package>>

\* Popen has returned: the supervisor knows its child.
Assign ==
    /\ sup = "spawned"
    /\ child' = gen
    /\ sup' = "await"
    /\ UNCHANGED <<gen, loop, files, inner, package, tries>>

SeeStatus ==
    /\ sup = "await"
    /\ status # None /\ status.gen = gen
    /\ seen' = status.ver
    /\ sup' = "validate"
    /\ UNCHANGED <<gen, child, target, asked, failures, suppressed, env, files, inner, package,
                   tries>>

\* poll() after a look at the file that found nothing.
AwaitExited ==
    /\ sup = "await"
    /\ Exited(child)
    /\ child' = None
    /\ Failed
    /\ UNCHANGED <<gen, target, seen, asked, env, files, inner, package, tries>>

\* STARTUP_REPORT_TIMEOUT passes; the child is asked to terminate.
AwaitTimeout ==
    /\ sup = "await"
    /\ sup' = "terminate"
    /\ UNCHANGED <<gen, child, loop, files, inner, package, tries>>

\* Fault: a child that ignores termination is not killed.
AskOnly(g) == UNCHANGED proc

Kill(g) == proc' = [proc EXCEPT ![g] = "killed"]

\* Fault: the supervisor goes on while its child runs.
Forsaken == TRUE

\* child.wait() returns, or there is no child to wait for.
Waited == child # None => Exited(child)

\* CHILD_TERMINATE_TIMEOUT passes.
TerminateTimeout ==
    /\ sup \in {"terminate", "finish terminate"}
    /\ ~Waited
    /\ Kill(child)
    /\ sup' = IF sup = "terminate" THEN "kill" ELSE "finish kill"
    /\ UNCHANGED <<gen, child, loop, files, ver, tok, heard, package, tries>>

Terminated ==
    /\ sup \in {"terminate", "kill"}
    /\ Waited
    /\ child' = None
    /\ Failed
    /\ UNCHANGED <<gen, target, seen, asked, env, files, inner, package, tries>>

-----------------------------------------------------------------------------
(* Validation and monitoring.                                              *)

Mismatch == target # None /\ seen # target

\* The child outlives STARTUP_STABILITY_TIME. With the wrong version it is
\* counted as a failure and serves all the same.
Stable ==
    /\ sup = "validate"
    /\ ~Exited(child)
    /\ \/ target = None /\ UNCHANGED <<target, failures, suppressed, tries>>
       \/ Mismatch /\ RecordFailure(target) /\ UNCHANGED <<target, tries>>
       \/ /\ target # None /\ ~Mismatch
          /\ ClearFailures(target)
          /\ target' = None
          /\ tries' = [tries EXCEPT ![target] = 0]
    /\ asked' = None
    /\ sup' = "monitor"
    /\ UNCHANGED <<gen, child, seen, env, files, inner, package>>

\* It exits. With the wrong version the failure is recorded but whether it
\* reached the limit is not looked at.
Unstable ==
    /\ sup = "validate"
    /\ Exited(child)
    /\ child' = None
    /\ \/ ~Mismatch /\ Failed
       \/ Mismatch /\ RecordFailure(target) /\ sup' = "launch"
    /\ UNCHANGED <<gen, target, seen, asked, env, files, inner, package, tries>>

ChildEnded ==
    /\ sup = "monitor"
    /\ proc[child] = "gone"
    /\ child' = None
    /\ sup' = "done"
    /\ UNCHANGED <<gen, loop, files, inner, package, tries>>

\* Fault: the restart state of the child is not adopted.
Ignore == UNCHANGED env

\* Fault: the target is taken for the state.
Confuse == env' = state.target

\* replace_restart_environment.
Adopt == env' = state.env

\* Exit code 75: the child left its state and a target (it cannot exit so
\* without: the error branch for that is not modelled).
Rotate ==
    /\ sup = "monitor"
    /\ proc[child] = "handed"
    /\ state # None /\ state.gen = gen
    /\ child' = None
    /\ Adopt
    /\ target' = state.target
    /\ sup' = "launch"
    /\ UNCHANGED <<gen, seen, asked, failures, suppressed, files, inner, package, tries>>

\* Fault: a suppressed version is requested all the same.
AnyOther(current) == current # seen /\ current # asked

\* The version the child should be replaced by, once suppression is lifted.
Wanted(current) ==
    /\ current # seen
    /\ current # asked
    /\ Lifts(current) \/ current # suppressed

\* Fault: the child is told its own version.
Misdirect(v) == command' = [gen |-> gen, target |-> seen] /\ asked' = v

\* request_restart.
Request(v) == command' = [gen |-> gen, target |-> v] /\ asked' = v

\* A look at the metadata that changes something.
CheckInstalled ==
    /\ sup = "monitor"
    /\ AutoRestart
    /\ installed # None
    /\ Lifts(installed) \/ Wanted(installed)
    /\ ClearSuppression(installed)
    /\ IF Wanted(installed)
       THEN Request(installed)
       ELSE UNCHANGED <<command, asked>>
    /\ UNCHANGED <<sup, gen, child, target, seen, env, status, state, inner, package, tries>>

\* _wait_until_suppression_clears.
Resume ==
    /\ sup = "suppressed"
    /\ installed \notin {None, target}
    /\ ClearSuppression(installed)
    /\ target' = installed
    /\ sup' = "launch"
    /\ UNCHANGED <<gen, child, seen, asked, env, files, inner, package, tries>>

-----------------------------------------------------------------------------
(* Ctrl+C.                                                                 *)

Finishing == {"finish", "finish terminate", "finish kill"}

\* KeyboardInterrupt. _terminate_child forgets the child in its finally
\* clause, whether the child is gone or not.
Interrupt ==
    /\ sup \notin Quiet \cup Finishing \cup {"done"}
    /\ sup' = "finish"
    /\ child' = IF sup \in {"terminate", "kill"} THEN None ELSE child
    /\ UNCHANGED <<gen, loop, files, inner, package, tries>>

\* CHILD_SHUTDOWN_TIMEOUT passes; the child is asked to terminate. Interrupts
\* are ignored from here on.
FinishTimeout ==
    /\ sup = "finish"
    /\ ~Waited
    /\ sup' = "finish terminate"
    /\ UNCHANGED <<gen, child, loop, files, inner, package, tries>>

Finish ==
    /\ sup \in Finishing
    /\ Waited
    /\ child' = None
    /\ sup' = "done"
    /\ UNCHANGED <<gen, loop, files, inner, package, tries>>

-----------------------------------------------------------------------------
(* The child.                                                              *)

\* main() publishes the imported version before anything else.
Report(g) ==
    /\ proc[g] = "boot"
    /\ proc' = [proc EXCEPT ![g] = "up"]
    /\ ver' = [ver EXCEPT ![g] = code]
    /\ status' = [gen |-> g, ver |-> code]
    /\ UNCHANGED <<sup, gen, child, loop, command, state, tok, heard, package, tries>>

\* wait_for_version_change finds a command for this generation and another
\* version.
HearCommand(g) ==
    /\ proc[g] = "up"
    /\ command # None /\ command.gen = g /\ command.target # ver[g]
    /\ proc' = [proc EXCEPT ![g] = "waiting"]
    /\ heard' = [heard EXCEPT ![g] = command.target]
    /\ UNCHANGED <<sup, gen, child, loop, files, ver, tok, package, tries>>

\* restart_ready returns, at once in a server and in a client once it trusts
\* its server; the runtime is cancelled.
Ready(g) ==
    /\ proc[g] = "waiting"
    /\ proc' = [proc EXCEPT ![g] = "stopping"]
    /\ UNCHANGED <<sup, gen, child, loop, files, ver, tok, heard, package, tries>>

\* The runtime has ended: request_restart publishes the state.
SaveState(g) ==
    /\ proc[g] = "stopping"
    /\ proc' = [proc EXCEPT ![g] = "saved"]
    /\ state' = [gen |-> g, target |-> heard[g], env |-> tok[g]]
    /\ UNCHANGED <<sup, gen, child, loop, status, command, ver, tok, heard, package, tries>>

\* The event loop has ended: exit code 75.
HandOver(g) ==
    /\ proc[g] = "saved"
    /\ proc' = [proc EXCEPT ![g] = "handed"]
    /\ UNCHANGED <<sup, gen, child, loop, files, ver, tok, heard, package, tries>>

\* Any other end: it finishes, fails, crashes, is interrupted or killed.
Die(g) ==
    /\ Alive(g)
    /\ sup \in {"spawned", "await", "validate"} => proc[g] \in Frail
    /\ proc' = [proc EXCEPT ![g] = "gone"]
    /\ UNCHANGED <<sup, gen, child, loop, files, ver, tok, heard, package, tries>>

-----------------------------------------------------------------------------
(* The package manager removes old metadata, replaces the code (in another *)
(* place than the one imported, if MayShadow), and writes new metadata.    *)

Install(v) ==
    /\ installs < MaxInstalls
    /\ installs' = installs + 1
    /\ installed' = None
    /\ code' \in IF MayShadow THEN {v, code} ELSE {v}
    /\ coming' = v
    /\ UNCHANGED <<sup, gen, child, loop, files, inner, tries>>

Installed ==
    /\ installed = None
    /\ installed' = coming
    /\ tries' = [v \in Versions |-> 0]
    /\ UNCHANGED <<sup, gen, child, loop, files, inner, code, coming, installs>>

-----------------------------------------------------------------------------
\* What the supervisor does by itself, and what its child does.
SupervisorStep ==
    \/ \E g \in Generations : Launch(g)
    \/ Assign \/ SeeStatus \/ AwaitExited \/ AwaitTimeout \/ TerminateTimeout \/ Terminated
    \/ Stable \/ Unstable \/ ChildEnded \/ Rotate \/ CheckInstalled \/ Resume
    \/ FinishTimeout \/ Finish

ChildStep(g) == Report(g) \/ HearCommand(g) \/ Ready(g) \/ SaveState(g) \/ HandOver(g)

\* The supervisor returned, or waits for the metadata to change.
Rest == sup \in {"done", "suppressed"} /\ UNCHANGED vars

Next ==
    \/ SupervisorStep
    \/ \E g \in Generations : ChildStep(g) \/ Die(g)
    \/ \E v \in Versions : Install(v)
    \/ Installed \/ Interrupt \/ Rest

Spec == Init /\ [][Next]_vars

\* The supervisor runs, the child polls for commands, and a killed process
\* dies. Whether a child dies otherwise, is ready to restart, comes to the end
\* of its runtime or ignores every signal but SIGKILL is up to it.
FairSpec ==
    /\ Spec
    /\ WF_vars(SupervisorStep)
    /\ \A g \in Generations :
          /\ WF_vars(Report(g) \/ HearCommand(g))
          /\ WF_vars(proc[g] = "killed" /\ Die(g))

-----------------------------------------------------------------------------
States == {None, "first", "other"}

TypeOK ==
    /\ sup \in SupPC
    /\ gen \in Generations \cup {None}
    /\ child \in Generations \cup {None}
    /\ {target, seen, asked, suppressed, installed} \subseteq Versions \cup {None}
    /\ failures \in [Versions -> 0..Limit]
    /\ env \in States
    /\ status \in [gen : Generations, ver : Versions] \cup {None}
    /\ command \in [gen : Generations, target : Versions] \cup {None}
    /\ state \in [gen : Generations, target : Versions \cup {None}, env : States] \cup {None}
    /\ proc \in [Generations -> ProcPC]
    /\ ver \in [Generations -> Versions \cup {None}]
    /\ tok \in [Generations -> States]
    /\ heard \in [Generations -> Versions \cup {None}]
    /\ {code, coming} \subseteq Versions
    /\ installs \in 0..MaxInstalls
    /\ tries \in [Versions -> 0..(Limit + 1)]

\* Exactly one child: a replacement starts only when the old child is gone.
OneChild == \A g, h \in Generations : Alive(g) /\ Alive(h) => g = h

\* The supervisor returns, on its own or after Ctrl+C, only when no child is
\* left.
NothingLeftBehind == sup = "done" => \A g \in Generations : ~Alive(g)

\* Every child of the chain runs with the token and certificate of the first
\* one, over any number of rotations and failed replacements.
SameState == \A g \in Generations : tok[g] # None => tok[g] = "first"

\* A child is never told to stop for a suppressed version: the last one with
\* the wrong version keeps serving.
KeepsServing ==
    \A g \in Generations :
       proc[g] \in {"waiting", "stopping", "saved"} /\ sup = "monitor" =>
          heard[g] # suppressed

\* While metadata does not change, at most Limit children are launched toward
\* the version it shows (for failures that stay within the window).
BoundedAttempts == \A v \in Versions : tries[v] <= Limit

\* A new version that stays installed is loaded by a child in the end, unless
\* it is suppressed, the supervisor has returned, or one child that was told to
\* restart never does: nothing limits the time it has for that.
UpdateTakesEffect ==
    \A v \in Versions :
       sup = "monitor" /\ installed = v /\ seen # v
          ~> \/ sup = "monitor" /\ seen = v
             \/ installed # v
             \/ suppressed = v
             \/ sup = "done"
             \/ \E g \in Generations : [](proc[g] \in {"waiting", "stopping", "saved"})

\* An interrupted supervisor returns, even if its child ignores everything but
\* SIGKILL, whatever the child was doing.
InterruptEnds == sup = "finish" ~> sup = "done"

=============================================================================
