---------------------------- MODULE ClientProofs ----------------------------
(***************************************************************************)
(* Proofs about Client for every value of its constants: no task and no    *)
(* connection outlives its session, and tokens go to trusted servers only. *)
(***************************************************************************)
EXTENDS Client, FingerprintProofs

-----------------------------------------------------------------------------
(* Fingerprints.                                                           *)

LEMMA TrustableFingerprints ==
    ASSUME NEW p \in Trustable, p # None
    PROVE  p \in Fingerprints /\ WellFormed(p)
<1>1. CASE p \in Patterns
  BY <1>1, ClientAssumption
<1>2. ASSUME NEW c \in Certs, p = Exact(c)
      PROVE  p \in Fingerprints /\ WellFormed(p)
  <2>1. c \in Seq(Bytes) /\ Len(c) = Length /\ <<>> \in Seq(Bytes)
    BY ClientAssumption DEF Digests
  <2> QED
    BY <1>2, <2>1 DEF Exact, Fingerprints, WellFormed
<1> QED
  BY <1>1, <1>2 DEF Trustable

\* A server that passes the comparison fits the fingerprint.
LEMMA GenuineFits ==
    ASSUME NEW c \in Certs, trusted \in Trustable, trusted # None, Genuine(c)
    PROVE  Fits(c, trusted)
<1>1. trusted \in Fingerprints /\ WellFormed(trusted) /\ c \in Digests
  BY TrustableFingerprints, ClientAssumption
<1> QED
  BY <1>1, EqualIffFits DEF Genuine

\* A server fits the fingerprint the user is shown of it.
LEMMA ConfirmFits ==
    ASSUME NEW c \in Certs
    PROVE  Exact(c) \in Trustable /\ Exact(c) # None /\ Fits(c, Exact(c))
<1>1. Exact(c) \in Trustable
  BY DEF Trustable
<1>2. c \in Seq(Bytes) /\ <<>> \in Seq(Bytes)
  BY ClientAssumption DEF Digests
<1>3. Exact(c) \in Fingerprints
  BY <1>2 DEF Exact, Fingerprints
<1>4. Fits(c, Exact(c))
  BY DEF Fits, Exact
<1> QED
  BY <1>1, <1>3, <1>4, ClientAssumption

-----------------------------------------------------------------------------
(* The inductive invariant.                                                *)

\* Tasks that run are tracked in a session and waited for after it, and only
\* those that are waited for may be cancelled.
Bookkeeping ==
    /\ pc # "drain" => draining = {}
    /\ pc = "drain" => tracked = {}
    /\ \A t \in tracked : task[t] # "none"
    /\ \A t \in hit : t \in draining /\ task[t] # "none"
    /\ NoTaskLeft

\* From the first register message on, a server is trusted.
Trusting ==
    /\ pc \in {"hello", "register", "ask", "forced", "serve"} =>
          trusted # None /\ peer \in Certs /\ Fits(peer, trusted)
    /\ \A t \in Tasks : task[t] # "none" => trusted # None
    /\ pc = "confirm" => trusted = None /\ peer # None
    /\ OnlyTrusted

\* A local connection is open up to the finally clause of its task. A tunnel
\* connection is left by a task only if a second cancellation hits the task.
Tidy ==
    /\ pc = "connect" => writer = "none"
    /\ pc \in {"closing", "drain"} /\ cause # "cancelled" => writer # "open"
    /\ \A t \in loc : task[t] \in {"dial", "refuse", "send", "relay"}
    /\ \A t \in Tasks : tun[t] # None =>
          \/ task[t] \in {"send", "relay"}
          \/ task[t] = "close local" /\ t \in draining /\ (t \in hit => cause = "cancelled")
          \/ task[t] = "none" /\ cause = "cancelled" /\ pc \in {"drain", "stopped"}
    /\ NothingLeftOpen

IInv == TypeOK /\ Bookkeeping /\ Trusting /\ Tidy

-----------------------------------------------------------------------------
(* Steps of the session.                                                   *)

Talking == {"hello", "register", "ask", "forced", "serve"}
Causes  == {"none", "lost", "fatal", "restarting", "security", "cancelled"}
Updates == {"no", "asked", "cancelled", "lost"}

LEMMA InitInv == Init => IInv
<1> SUFFICES ASSUME Init PROVE IInv
  OBVIOUS
<1> USE DEF Init, IInv
<1>1. TypeOK
  BY DEF TypeOK, RunPC, TaskPC, Trustable
<1>2. Bookkeeping /\ Trusting /\ Tidy
  BY DEF Bookkeeping, Trusting, Tidy, NoTaskLeft, OnlyTrusted, NothingLeftOpen
<1> QED
  BY <1>1, <1>2

\* A session that ends keeps its tasks until they are waited for.
LEMMA LeaveStep ==
    ASSUME IInv, pc \in Talking, NEW c \in Causes, Leave(c),
           update' \in Updates, UNCHANGED <<conf, cert, told>>
    PROVE  IInv'
<1> USE DEF Leave, IInv, jobs, conf, Updates
<1>1. TypeOK'
  BY DEF TypeOK, Talking, Causes, RunPC
<1>2. Bookkeeping'
  BY DEF Bookkeeping, NoTaskLeft, Talking
<1>3. Trusting'
  BY DEF Trusting, OnlyTrusted, Talking
<1>4. Tidy'
  BY DEF Tidy, NothingLeftOpen, Bookkeeping, NoTaskLeft, Talking
<1> QED
  BY <1>1, <1>2, <1>3, <1>4

\* The tasks of a session are waited for once.
LEMMA DrainStep ==
    ASSUME IInv, pc \in {"connect", "leave", "closing"}, NEW c \in Causes, Drain(c),
           writer # "open" \/ c = "cancelled",
           update' \in Updates, UNCHANGED <<conf, writer, peer, beat, cert, told>>
    PROVE  IInv'
<1> USE DEF Drain, CancelAll, IInv, conf, Updates
<1>1. TypeOK'
  BY DEF TypeOK, Bookkeeping, Causes, RunPC
<1>2. Bookkeeping'
  BY DEF TypeOK, Bookkeeping, NoTaskLeft
<1>3. Trusting'
  BY DEF Trusting, OnlyTrusted
<1>4. Tidy'
  BY DEF Tidy, NothingLeftOpen, Bookkeeping, TypeOK
<1> QED
  BY <1>1, <1>2, <1>3, <1>4

\* The server that answers is trusted, to be confirmed, or refused.
LEMMA ReachedStep ==
    ASSUME IInv, Reached, update' \in Updates
    PROVE  IInv'
<1> USE DEF Reached, IInv, jobs, conf, Updates
<1>1. TypeOK'
  BY DEF TypeOK, RunPC
<1>2. Bookkeeping'
  BY DEF Bookkeeping, NoTaskLeft
<1>3. Trusting'
  <2>1. cert \in Certs /\ cert # None
    BY ClientAssumption DEF TypeOK
  <2>2. trusted # None /\ Genuine(cert) => Fits(cert, trusted)
    BY <2>1, GenuineFits DEF TypeOK
  <2> QED
    BY <2>1, <2>2 DEF Trusting, OnlyTrusted
<1>4. Tidy'
  BY DEF Tidy, NothingLeftOpen, Bookkeeping, NoTaskLeft, TypeOK
<1> QED
  BY <1>1, <1>2, <1>3, <1>4

\* Tokens go to the server of the session, which is trusted.
LEMMA SendStep ==
    ASSUME IInv, pc \in Talking \ {"serve"}, NEW n \in {"register", "forced"}, SendTokens(n),
           UNCHANGED <<conf, update, cert>>
    PROVE  IInv'
<1> USE DEF SendTokens, IInv, jobs, conf, Talking
<1>1. TypeOK'
  <2>1. peer \in Certs
    BY DEF TypeOK, Trusting
  <2> QED
    BY <2>1 DEF TypeOK, RunPC
<1>2. Bookkeeping'
  BY DEF Bookkeeping, NoTaskLeft
<1>3. Trusting'
  BY DEF Trusting, OnlyTrusted
<1>4. Tidy'
  BY DEF Tidy, NothingLeftOpen
<1> QED
  BY <1>1, <1>2, <1>3, <1>4

\* The steps that connect and register.
LEMMA ConnectSteps ==
    ASSUME IInv, Connected \/ Confirm \/ HelloAnswer \/ Registered \/ RegisterRefused
                    \/ ForceRequired \/ ForceAnswer \/ ConnectFails
    PROVE  IInv'
<1> USE DEF Talking, Causes, Updates
<1>1. CASE Connected
  BY <1>1, ReachedStep DEF Connected, IInv, TypeOK, Updates
<1>2. CASE Confirm
  <2> USE <1>2 DEF Confirm, IInv, jobs
  <2>0. peer \in Certs /\ trusted = None
    BY DEF TypeOK, Trusting
  <2>1. TypeOK'
    BY <2>0, ConfirmFits DEF TypeOK, RunPC
  <2>2. Bookkeeping'
    BY DEF Bookkeeping, NoTaskLeft
  <2>3. Trusting'
    BY <2>0, ConfirmFits DEF Trusting, OnlyTrusted, TypeOK, Bookkeeping, NoTaskLeft
  <2>4. Tidy'
    BY DEF Tidy, NothingLeftOpen, Bookkeeping, NoTaskLeft, TypeOK
  <2> QED
    BY <2>1, <2>2, <2>3, <2>4
<1>3. CASE HelloAnswer
  BY <1>3, SendStep, LeaveStep DEF HelloAnswer, Refused, conf, IInv, TypeOK
<1>4. CASE Registered
  BY ZenonT(60), <1>4 DEF Registered, IInv, jobs, conf, TypeOK, RunPC, Bookkeeping, NoTaskLeft, Trusting,
              OnlyTrusted, Tidy, NothingLeftOpen
<1>5. CASE RegisterRefused
  BY <1>5, LeaveStep DEF RegisterRefused, Refused, conf, IInv, TypeOK
<1>6. CASE ForceRequired
  <2>1. CASE SendTokens("forced")
    BY <1>6, <2>1, SendStep DEF ForceRequired
  <2>2. CASE ~SendTokens("forced")
    BY ZenonT(60), <1>6, <2>2 DEF ForceRequired, IInv, jobs, conf, TypeOK, RunPC, Bookkeeping, NoTaskLeft,
                      Trusting, OnlyTrusted, Tidy, NothingLeftOpen
  <2> QED
    BY <2>1, <2>2
<1>7. CASE ForceAnswer
  BY <1>7, SendStep, LeaveStep DEF ForceAnswer, conf, IInv, TypeOK
<1>8. CASE ConnectFails
  BY <1>8, DrainStep DEF ConnectFails, IInv, TypeOK, Tidy
<1> QED
  BY <1>1, <1>2, <1>3, <1>4, <1>5, <1>6, <1>7, <1>8

\* The steps that end a session and lead to the next one.
LEMMA EndSteps ==
    ASSUME IInv, CloseControl \/ ControlClosed \/ Drained \/ Wake
    PROVE  IInv'
<1>1. CASE CloseControl
  BY <1>1 DEF CloseControl, IInv, jobs, conf, TypeOK, RunPC, Bookkeeping, NoTaskLeft, Trusting,
              OnlyTrusted, Tidy, NothingLeftOpen
<1>2. CASE ControlClosed
  BY <1>2, DrainStep DEF ControlClosed, IInv, TypeOK, Tidy, Causes, Updates
<1>3. CASE Drained
  <2> USE <1>3 DEF Drained, IInv, conf
  <2>1. \A t \in Tasks : task[t] = "none"
    BY DEF TypeOK, Bookkeeping
  <2>2. TypeOK'
    BY <2>1 DEF TypeOK, RunPC
  <2>3. Bookkeeping'
    BY <2>1 DEF TypeOK, Bookkeeping, NoTaskLeft
  <2>4. Trusting'
    BY DEF Trusting, OnlyTrusted
  <2>5. Tidy'
    BY <2>1 DEF TypeOK, Tidy, NothingLeftOpen
  <2> QED
    BY <2>2, <2>3, <2>4, <2>5
<1>4. CASE Wake
  BY <1>4 DEF Wake, IInv, jobs, conf, TypeOK, RunPC, Bookkeeping, NoTaskLeft, Trusting,
              OnlyTrusted, Tidy, NothingLeftOpen
<1> QED
  BY <1>1, <1>2, <1>3, <1>4

\* The control loop.
LEMMA LoopSteps ==
    ASSUME IInv, HeartbeatFails \/ HeartbeatSeen \/ ReadEnd \/ \E t \in Tasks : ReadOpen(t)
    PROVE  IInv'
<1>1. CASE HeartbeatFails
  BY ZenonT(60), <1>1 DEF HeartbeatFails, IInv, jobs, conf, TypeOK, Bookkeeping, NoTaskLeft, Trusting,
              OnlyTrusted, Tidy, NothingLeftOpen
<1>2. CASE HeartbeatSeen
  BY <1>2, LeaveStep DEF HeartbeatSeen, Talking, Causes, Updates, conf, IInv, TypeOK
<1>3. CASE ReadEnd
  BY <1>3, LeaveStep DEF ReadEnd, Read, Talking, Causes, Updates, conf, IInv, TypeOK
<1>4. ASSUME NEW t \in Tasks, ReadOpen(t) PROVE IInv'
  <2> USE <1>4 DEF ReadOpen, Read, IInv, session, conf
  <2>1. TypeOK'
    BY ZenonT(60) DEF TypeOK, TaskPC
  <2>2. Bookkeeping'
    BY DEF TypeOK, Bookkeeping, NoTaskLeft
  <2>3. Trusting'
    BY DEF TypeOK, Trusting, OnlyTrusted
  <2>4. Tidy'
    BY DEF TypeOK, Tidy, NothingLeftOpen
  <2> QED
    BY <2>1, <2>2, <2>3, <2>4
<1> QED
  BY <1>1, <1>2, <1>3, <1>4

\* An update, or another server.
LEMMA OutsideSteps ==
    ASSUME IInv, \/ CancelRun \/ CancelLost \/ AskUpdate \/ Restart
                 \/ \E c \in Certs : NewServer(c)
    PROVE  IInv'
<1>1. CASE CancelRun
  <2> USE <1>1 DEF CancelRun, Talking, Causes, Updates, conf
  <2>1. CASE pc \in Talking
    BY <2>1, LeaveStep
  <2>2. CASE pc \in {"connect", "leave", "closing"}
    BY <2>2, DrainStep
  <2>3. CASE pc = "drain"
    BY <2>3 DEF CancelAgain, IInv, TypeOK, Bookkeeping, NoTaskLeft, Trusting, OnlyTrusted, Tidy,
                NothingLeftOpen
  <2>4. CASE pc = "sleep"
    BY <2>4 DEF IInv, jobs, TypeOK, RunPC, Bookkeeping, NoTaskLeft, Trusting, OnlyTrusted, Tidy,
                NothingLeftOpen
  <2> QED
    BY <2>1, <2>2, <2>3, <2>4
<1>2. CASE AskUpdate \/ \E c \in Certs : NewServer(c)
  <2> USE <1>2 DEF AskUpdate, NewServer, IInv, session, jobs, conf
  <2>1. TypeOK'
    BY DEF TypeOK
  <2>2. Bookkeeping'
    BY DEF Bookkeeping, NoTaskLeft
  <2>3. Trusting'
    BY DEF Trusting, OnlyTrusted
  <2>4. Tidy'
    BY DEF Tidy, NothingLeftOpen
  <2> QED
    BY <2>1, <2>2, <2>3, <2>4
<1>3. CASE Restart
  <2> USE <1>3 DEF Restart, Preserved, IInv
  <2>1. TypeOK'
    BY DEF TypeOK, RunPC, TaskPC
  <2>2. Bookkeeping'
    BY DEF Bookkeeping, NoTaskLeft
  <2>3. Trusting'
    BY DEF Trusting, OnlyTrusted
  <2>4. Tidy'
    BY DEF Tidy, NothingLeftOpen
  <2> QED
    BY <2>1, <2>2, <2>3, <2>4
<1>4. CASE CancelLost
  BY <1>4, ReachedStep DEF CancelLost, Updates
<1> QED
  BY <1>1, <1>2, <1>3, <1>4

-----------------------------------------------------------------------------
(* Steps of tunnel tasks.                                                  *)

\* A task that moves on without opening or closing anything.
LEMMA MoveStep ==
    ASSUME IInv, NEW t \in Tasks, NEW p \in TaskPC, task[t] # "none", p # "none",
           task' = [task EXCEPT ![t] = p],
           t \in loc => p \in {"dial", "refuse", "send", "relay"},
           tun[t] # None => p \in {"send", "relay"},
           hit' \in {hit, hit \ {t}}, deaf' \subseteq Tasks,
           UNCHANGED <<session, conf, tracked, draining, loc, tun, update, cert, told>>
    PROVE  IInv'
<1> USE DEF IInv, session, conf
<1>1. TypeOK'
  BY DEF TypeOK
<1>2. Bookkeeping'
  BY DEF TypeOK, Bookkeeping, NoTaskLeft
<1>3. Trusting'
  BY DEF TypeOK, Trusting, OnlyTrusted
<1>4. Tidy'
  BY DEF TypeOK, Tidy, NothingLeftOpen
<1> QED
  BY <1>1, <1>2, <1>3, <1>4

\* A task enters its finally clause or goes on in it. Only a task that was
\* cancelled leaves its tunnel open meanwhile.
LEMMA FinallyStep ==
    ASSUME IInv, NEW t \in Tasks, task[t] # "none",
           NEW c \in Certs \cup {None}, Finally(t, c), c = None \/ t \notin loc \/ t \in hit,
           hit' \in {hit, hit \ {t}}, t \in hit => hit' = hit \ {t},
           UNCHANGED <<session, conf, tracked, draining, deaf, update, cert, told>>
    PROVE  IInv'
<1> USE DEF Finally, IInv, session, conf
<1>1. TypeOK'
  <2>1. hit' \subseteq Tasks /\ task' \in [Tasks -> TaskPC]
    BY DEF TypeOK, TaskPC
  <2>2. tun' \in [Tasks -> Certs \cup {None}] /\ loc' \subseteq Tasks
    BY ZenonT(60) DEF TypeOK
  <2>3. \A u \in Tasks : task'[u] # "none" => u \in tracked \cup draining
    BY DEF TypeOK
  <2> QED
    BY <2>1, <2>2, <2>3 DEF TypeOK
<1>2. Bookkeeping'
  <2>1. PICK p \in {"close local", "close tunnel"} : task' = [task EXCEPT ![t] = p]
    OBVIOUS
  <2>2. hit' \subseteq hit
    OBVIOUS
  <2> QED
    BY <2>1, <2>2 DEF TypeOK, Bookkeeping, NoTaskLeft
<1>3. Trusting'
  BY DEF TypeOK, Trusting, OnlyTrusted
<1>4. Tidy'
  <2>1. pc \notin {"sleep", "stopped"}
    BY DEF Bookkeeping, NoTaskLeft
  <2>2. CASE t \in loc
    <3>1. task' = [task EXCEPT ![t] = "close local"] /\ loc' = loc \ {t}
             /\ tun' = [tun EXCEPT ![t] = c] /\ t \notin hit'
      BY <2>2 DEF TypeOK
    <3> QED
      BY <2>1, <2>2, <3>1 DEF TypeOK, Tidy, NothingLeftOpen, Bookkeeping
  <2>3. CASE t \notin loc
    <3>1. task' = [task EXCEPT ![t] = "close tunnel"] /\ loc' = loc
             /\ tun' = [tun EXCEPT ![t] = None]
      BY <2>3
    <3> QED
      BY <2>1, <2>3, <3>1 DEF TypeOK, Tidy, NothingLeftOpen
  <2> QED
    BY <2>2, <2>3
<1> QED
  BY <1>1, <1>2, <1>3, <1>4

\* A task is done. Only a second cancellation lets it leave its tunnel open.
LEMMA FinishStep ==
    ASSUME IInv, NEW t \in Tasks, task[t] # "none", Finish(t),
           loc' = loc \ {t},
           \/ tun' = [tun EXCEPT ![t] = None]
           \/ UNCHANGED tun /\ (tun[t] = None \/ (task[t] = "close local" /\ t \in hit)),
           hit' \in {hit, hit \ {t}}, t \in hit => hit' = hit \ {t},
           UNCHANGED <<session, conf, draining, deaf, update, cert, told>>
    PROVE  IInv'
<1> USE DEF Finish, IInv, session, conf
<1>1. TypeOK'
  <2>1. hit' \subseteq Tasks /\ task' \in [Tasks -> TaskPC] /\ tracked' \subseteq Tasks
    BY DEF TypeOK, TaskPC
  <2>2. tun' \in [Tasks -> Certs \cup {None}] /\ loc' \subseteq Tasks
    BY DEF TypeOK
  <2>3. \A u \in Tasks : task'[u] # "none" => u \in tracked' \cup draining
    BY DEF TypeOK
  <2> QED
    BY <2>1, <2>2, <2>3 DEF TypeOK
<1>2. Bookkeeping'
  BY DEF TypeOK, Bookkeeping, NoTaskLeft
<1>3. Trusting'
  BY DEF TypeOK, Trusting, OnlyTrusted
<1>4. Tidy'
  BY DEF TypeOK, Tidy, NothingLeftOpen, Bookkeeping, NoTaskLeft
<1> QED
  BY <1>1, <1>2, <1>3, <1>4

\* The local target has answered, or not.
LEMMA LocalStep ==
    ASSUME IInv, NEW t \in Tasks, task[t] = "local", task' = [task EXCEPT ![t] = "dial"],
           loc' \in {loc, loc \cup {t}}, hit' \in {hit, hit \ {t}}, deaf' \subseteq Tasks,
           UNCHANGED <<session, conf, tracked, draining, tun, update, cert, told>>
    PROVE  IInv'
<1> USE DEF IInv, session, conf
<1>1. TypeOK'
  BY ZenonT(60) DEF TypeOK, TaskPC
<1>2. Bookkeeping'
  BY DEF TypeOK, Bookkeeping, NoTaskLeft
<1>3. Trusting'
  BY DEF TypeOK, Trusting, OnlyTrusted
<1>4. Tidy'
  BY DEF TypeOK, Tidy, NothingLeftOpen, Bookkeeping, NoTaskLeft
<1> QED
  BY <1>1, <1>2, <1>3, <1>4

\* A tunnel gets its first token, or its server is refused.
LEMMA DialledStep ==
    ASSUME IInv, NEW t \in Tasks, task[t] = "dial", Dialled(t),
           hit' \in {hit, hit \ {t}}, deaf' \subseteq Tasks,
           UNCHANGED <<session, conf, tracked, draining, update, cert>>
    PROVE  IInv'
<1>1. CASE UNCHANGED <<loc, tun, told>> /\ task' = [task EXCEPT ![t] = "refuse"]
  <2>1. tun[t] = None
    BY DEF IInv, Tidy
  <2> QED
    BY <1>1, <2>1, MoveStep DEF TaskPC
<1>2. CASE /\ Genuine(cert)
           /\ task' = [task EXCEPT ![t] = "send"]
           /\ tun' = [tun EXCEPT ![t] = cert]
           /\ told' = told \cup {cert}
           /\ UNCHANGED loc
  <2> USE <1>2 DEF IInv, session, conf
  <2>1. TypeOK'
    BY ZenonT(60) DEF TypeOK, TaskPC
  <2>2. Bookkeeping'
    BY DEF TypeOK, Bookkeeping, NoTaskLeft
  <2>3. Trusting'
    <3>1. Fits(cert, trusted)
      BY GenuineFits DEF TypeOK, Trusting
    <3> QED
      BY <3>1 DEF TypeOK, Trusting, OnlyTrusted
  <2>4. Tidy'
    BY DEF TypeOK, Tidy, NothingLeftOpen, Bookkeeping, NoTaskLeft
  <2> QED
    BY <2>1, <2>2, <2>3, <2>4
<1> QED
  BY <1>1, <1>2 DEF Dialled

\* Every step of a task is one of these.
LEMMA TaskSteps ==
    ASSUME IInv, NEW t \in Tasks, TaskStep(t) \/ Traffic(t)
    PROVE  IInv'
<1> USE DEF JobsOnly, At, session, conf, IInv
<1>1. t \in loc => task[t] \in {"dial", "refuse", "send", "relay"}
  BY DEF Tidy
<1>2. tun[t] # None =>
         \/ task[t] \in {"send", "relay", "none"}
         \/ task[t] = "close local" /\ t \in draining
  BY DEF Tidy
<1>3. tun[t] \in Certs \cup {None} /\ task \in [Tasks -> TaskPC] /\ loc \subseteq Tasks
  BY DEF TypeOK
<1>4. CASE Start(t)
  <2>1. CASE Finish(t)
    BY <1>1, <1>2, <1>4, <2>1, FinishStep DEF Start
  <2>2. CASE ~Finish(t)
    BY <1>1, <1>2, <1>4, <2>2, MoveStep DEF Start, TaskPC, TypeOK
  <2> QED
    BY <2>1, <2>2
<1>5. CASE Local(t)
  BY <1>5, LocalStep DEF Local, IInv, TypeOK
<1>6. CASE Dial(t)
  <2>1. CASE Finally(t, None) /\ UNCHANGED told
    BY <1>6, <2>1, FinallyStep DEF Dial
  <2>2. CASE Dialled(t)
    BY <1>6, <2>2, DialledStep DEF Dial, TypeOK
  <2> QED
    BY <1>6, <2>1, <2>2 DEF Dial
<1>7. CASE Sent(t)
  <2>1. CASE \E c \in {None, tun[t]} : Finally(t, c) /\ (c = None \/ t \notin loc)
    BY <1>3, <1>7, <2>1, FinallyStep DEF Sent
  <2>2. CASE task' = [task EXCEPT ![t] = "relay"] /\ UNCHANGED <<loc, tun>>
    BY <1>7, <2>2, MoveStep DEF Sent, TaskPC, TypeOK
  <2> QED
    BY <1>7, <2>1, <2>2 DEF Sent
<1>8. CASE RelayEnd(t)
  BY <1>8, FinishStep DEF RelayEnd
<1>9. CASE Closed(t)
  BY <1>9, FinallyStep DEF Closed
<1>10. CASE TunnelClosed(t)
  <2>1. loc' = loc \ {t} /\ tun[t] = None
    BY <1>1, <1>2, <1>10 DEF TunnelClosed
  <2> QED
    BY <2>1, <1>10, FinishStep DEF TunnelClosed
<1>11. CASE Cancelled(t)
  <2>1. CASE Finish(t)
    <3>1. task[t] \in {"start", "local", "close local", "close tunnel"} /\ UNCHANGED <<loc, tun>>
      BY <1>3, <1>11, <2>1 DEF Cancelled, Finish, Finally
    <3>2. loc' = loc \ {t} /\ (tun[t] = None \/ (task[t] = "close local" /\ t \in hit))
      BY <1>1, <1>2, <1>11, <3>1 DEF Cancelled
    <3> QED
      BY <1>11, <2>1, <3>1, <3>2, FinishStep DEF Cancelled
  <2>2. CASE Finally(t, tun[t]) /\ UNCHANGED tracked /\ task[t] # "none"
    BY <1>3, <1>11, <2>2, FinallyStep DEF Cancelled
  <2> QED
    BY <1>11, <2>1, <2>2 DEF Cancelled
<1>12. CASE Swallowed(t)
  <2>1. deaf' \subseteq Tasks
    BY <1>12 DEF Swallowed, TypeOK
  <2>2. CASE task[t] = "local"
    BY <1>12, <2>1, <2>2, LocalStep DEF Swallowed
  <2>3. CASE task[t] = "dial"
    BY <1>12, <2>1, <2>3, DialledStep DEF Swallowed
  <2> QED
    BY <1>12, <2>2, <2>3 DEF Swallowed
<1> QED
  BY <1>4, <1>5, <1>6, <1>7, <1>8, <1>9, <1>10, <1>11, <1>12 DEF TaskStep, Traffic

-----------------------------------------------------------------------------
(* The theorems.                                                           *)

LEMMA StutterStep ==
    ASSUME IInv, UNCHANGED vars
    PROVE  IInv'
<1> USE DEF vars, session, conf, jobs, IInv
<1>1. TypeOK'
  BY DEF TypeOK
<1>2. Bookkeeping'
  BY DEF Bookkeeping, NoTaskLeft
<1>3. Trusting'
  BY DEF Trusting, OnlyTrusted
<1>4. Tidy'
  BY DEF Tidy, NothingLeftOpen
<1> QED
  BY <1>1, <1>2, <1>3, <1>4

LEMMA Inductive == Spec => []IInv
<1>1. IInv /\ [Next]_vars => IInv'
  BY ConnectSteps, EndSteps, LoopSteps, OutsideSteps, TaskSteps, StutterStep
     DEF Next, RunStep, Answer
<1> QED
  BY InitInv, <1>1, PTL DEF Spec

\* The variables of the client keep their types, and every running task is
\* tracked or waited for (Client._tasks, Client._cancel_tunnel_tasks).
THEOREM TypeCorrect == Spec => []TypeOK
<1>1. IInv => TypeOK
  BY DEF IInv
<1> QED
  BY Inductive, <1>1, PTL

\* Whatever the configured pattern and however servers come and go, tokens are
\* sent only to servers whose certificate fits the trusted fingerprint
\* (Client._verify_server_fingerprint, fingerprints_equal).
THEOREM TokensToTrusted == Spec => []OnlyTrusted
<1>1. IInv => OnlyTrusted
  BY DEF IInv, Trusting
<1> QED
  BY Inductive, <1>1, PTL

\* A client keeps the fingerprint it trusts, configured or confirmed, also
\* when it restarts for an update (Client.__init__, restart_environment).
THEOREM TrustIsKept == Spec => TrustKept
<1>1. IInv /\ [Next]_vars => [trusted # None => trusted' = trusted]_vars
  <2> SUFFICES ASSUME IInv, Next, trusted # None
               PROVE  trusted' = trusted
    OBVIOUS
  <2>1. pc # "confirm"
    BY DEF IInv, Trusting
  <2>2. ~Confirm
    BY <2>1 DEF Confirm
  <2>3. CASE RunStep
    BY <2>3 DEF RunStep, CloseControl, ControlClosed, Drained, Wake, ConnectFails, Connected,
                Reached, HeartbeatSeen, conf
  <2>4. CASE Answer
    BY <2>2, <2>4 DEF Answer, HelloAnswer, Registered, RegisterRefused, ForceRequired,
                      ForceAnswer, HeartbeatFails, ReadEnd, ReadOpen, conf
  <2>5. CASE AskUpdate \/ CancelRun \/ CancelLost \/ Restart \/ \E c \in Certs : NewServer(c)
    BY <2>5 DEF AskUpdate, CancelRun, CancelLost, Reached, Restart, Preserved, NewServer, conf
  <2>6. ASSUME NEW t \in Tasks, TaskStep(t) \/ Traffic(t)
        PROVE  trusted' = trusted
    BY <2>6 DEF TaskStep, Traffic, Start, Local, Dial, Sent, RelayEnd, Closed, TunnelClosed,
                Cancelled, Swallowed, JobsOnly, conf
  <2> QED
    BY <2>3, <2>4, <2>5, <2>6 DEF Next
<1> QED
  BY Inductive, <1>1, PTL DEF Spec, TrustKept

\* For any number of tunnel tasks, none runs when the client reconnects,
\* sleeps or has stopped (Client._cancel_tunnel_tasks).
THEOREM TasksEndWithSession == Spec => []NoTaskLeft
<1>1. IInv => NoTaskLeft
  BY DEF IInv, Bookkeeping
<1> QED
  BY Inductive, <1>1, PTL

\* A session that ends otherwise than by cancellation leaves no connection
\* open (the finally clauses of _run_once and _open_tunnel).
THEOREM ConnectionsEndWithSession == Spec => []NothingLeftOpen
<1>1. IInv => NothingLeftOpen
  BY DEF IInv, Tidy
<1> QED
  BY Inductive, <1>1, PTL

=============================================================================
