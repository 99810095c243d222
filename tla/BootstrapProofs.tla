--------------------------- MODULE BootstrapProofs ---------------------------
(* Proofs about module Bootstrap, for any number of authorization attempts, *)
(* restarts and passes: its types, the ownership of records, the order of    *)
(* removal and final installation, and what a failure record says of a       *)
(* grant.                                                                    *)
EXTENDS Bootstrap, TLAPS

-----------------------------------------------------------------------------
(* The inductive invariant.                                                  *)

\* A pass of the converger, and what follows it.
Busy == {"pass", "failing", "upload", "handed_over", "verified", "revoking"}

\* The one grant object that still holds its token is the pending one, it was
\* handed over, and the token of an attempt appears with its exchange.
GrantsKept ==
  /\ held = {pending.attempt} \ {NoAttempt}
  /\ pending.attempt # NoAttempt => cb[pending.attempt] = "handed"
  /\ \A a \in Attempts :
       /\ cb[a] \in {"unused", "authorizing", "exchanging"} => tok[a] = "none"
       /\ cb[a] = "handed" => tok[a] # "none"

\* The revision a process read is the stored one while the record is about
\* its attempt, and once it is not, that attempt never returns.
Owns(p) ==
  p.pc # "idle" =>
    /\ p.attempt \in Attempts /\ cb[p.attempt] = "handed"
    /\ \/ p.rev = st.rev /\ st.status = "CONVERGING" /\ st.oauth.attempt = p.attempt
       \/ p.rev < st.rev /\ st.oauth.attempt # p.attempt

RecordsKept ==
  /\ Owns(run) /\ Owns(page)
  /\ \A a \in Attempts : cb[a] = "exchanging" =>
       \/ cbRev[a] = st.rev /\ st.status = "CONVERGING" /\ st.oauth.attempt = a
       \/ cbRev[a] < st.rev
  /\ st.status = "READY" => st.oauth.attempt = NoAttempt /\ host = "final"

\* What was sent, in order: the journal is armed before the attempt is marked
\* finalizing, that before the upload, and the upload before the rollout.
WritesOrdered ==
  /\ uploaded => ~Unsent
  /\ host = "final" => uploaded
  /\ run.pc \in {"upload", "handed_over"} => ~Unsent
  /\ run.pc = "verified" => host = "final"
  /\ st.oauth.phase = "finalizing" => ~Unsent

\* While a removal is recorded, or one runs with the grant the driver holds,
\* nothing was armed and no pass runs that could arm anything.
RemovalsGuarded ==
  /\ st.cleanup = "removing" => Unsent /\ run.pc \notin Busy
  /\ run.pc \in {"removing", "removed", "kept"} => Unsent
  /\ page.pc # "idle" /\ page.rev = st.rev => st.cleanup = "removing"
  /\ page.pc # "idle" /\ page.attempt = pending.attempt =>
       /\ Unsent /\ run.pc \notin Busy
       /\ st.cleanup = "removing" \/ st.oauth.attempt # page.attempt
  /\ ~root => \/ Unsent /\ run.pc \notin Busy
              \/ /\ cb[removedBy] = "handed" /\ removedBy \notin held
                 /\ tok[removedBy] \in {"live", "refused"}

\* The grant of the attempt was not dropped for another one, and the root is
\* there to tell of it.
Alone(a) == root /\ a \notin ousted

\* The token of attempt a is not live.
Over(a) == tok[a] \notin {"live", "refused"}

\* A process that can still write its record holds the grant it will revoke,
\* unless it was revoked for it or another hand-over took its place.
Revokes(p) ==
  p.pc # "idle" /\ p.rev = st.rev /\ Alone(p.attempt) => p.attempt \in held \/ Over(p.attempt)

EndsKnown ==
  /\ Revokes(run) /\ Revokes(page)
  /\ /\ st.status = "INCOMPLETE" /\ st.oauth.attempt = NoAttempt
     /\ settled # NoAttempt /\ st.failure \in ThrownFailures
     => cb[settled] \in {"handed", "ended"} /\ (Alone(settled) => Over(settled))

SetupInv == /\ TypeOK /\ GrantsKept /\ RecordsKept /\ WritesOrdered
            /\ RemovalsGuarded /\ EndsKnown /\ GrantIsTended

-----------------------------------------------------------------------------
(* Types.                                                                    *)

\* Every transition of the stored state gives a stored state.
LEMMA TransitionTypes ==
  ASSUME TypeOK
  PROVE  /\ Consumed \in States /\ Rejected \in States /\ Exchanging \in States
         /\ Finalizing \in States /\ Ready \in States
         /\ \A a \in Attempts, s, raise \in Nat : Started(a, s, raise) \in States
         /\ \A f \in Failures : CleanupPending(f) \in States
         /\ \A f \in Failures, c \in CleanupPhases : Incomplete(f, c) \in States
  <1> USE AttemptsAssumption, TimeAssumption DEF TypeOK, States, Oauths
  <1>1. Consumed \in States
    BY DEF Consumed, NoOauth, Least, OauthPhases, Failures
  <1>2. Rejected \in States
    BY DEF Rejected, NoOauth, OauthPhases, Failures, Statuses
  <1>3. Exchanging \in States
    BY DEF Exchanging, InPhase, OauthPhases, Failures, Statuses
  <1>4. Finalizing \in States
    BY DEF Finalizing, InPhase, OauthPhases
  <1>5. Ready \in States
    BY DEF Ready, NoOauth, OauthPhases, Failures, Statuses
  <1>6. ASSUME NEW a \in Attempts, NEW s \in Nat, NEW raise \in Nat
        PROVE  Started(a, s, raise) \in States
    BY DEF Started, Least, OauthPhases, Failures, Statuses
  <1>7. ASSUME NEW f \in Failures PROVE CleanupPending(f) \in States
    BY DEF CleanupPending, CleanupPhases
  <1>8. ASSUME NEW f \in Failures, NEW c \in CleanupPhases PROVE Incomplete(f, c) \in States
    BY DEF Incomplete, NoOauth, OauthPhases, Statuses
  <1> QED BY <1>1, <1>2, <1>3, <1>4, <1>5, <1>6, <1>7, <1>8

\* Settling an attempt writes a stored state and names an attempt.
LEMMA SettleTypes ==
  ASSUME TypeOK, NEW rev, NEW a \in Attempts \cup {NoAttempt}, NEW f \in Failures,
         NEW c \in CleanupPhases, Settle(rev, a, f, c)
  PROVE  st' \in States /\ settled' \in Attempts \cup {NoAttempt}
  BY TransitionTypes DEF Settle, TypeOK

\* The alarm stays one of its kinds, whatever the credential does to it.
LEMMA TendTypes ==
  ASSUME TypeOK, NEW s, NEW al \in {"none", "now", "later", "tick"}, Tend(s, al)
  PROVE  cred' \in BOOLEAN /\ alarm' \in {"none", "now", "later", "tick"}
  BY DEF Tend, TypeOK

\* One lemma for the types: what the actions of each group do to them.
LEMMA TypesInit == Init => TypeOK
  <1>1. InitialState \in States
    BY DEF InitialState, States, Oauths, NoOauth, Statuses, OauthPhases, Failures, CleanupPhases
  <1>2. /\ NoPending \in [attempt : Attempts \cup {NoAttempt}, startedAt : Nat, passes : Nat]
        /\ IdleProc \in Procs({"idle", "pass", "failing", "upload", "handed_over", "verified",
                               "revoking", "removing", "removed", "kept"})
        /\ IdleProc \in Procs({"idle", "removing", "removed", "kept"})
    BY DEF NoPending, IdleProc, Procs
  <1> SUFFICES ASSUME Init PROVE TypeOK
    OBVIOUS
  <1>3. cb \in [Attempts -> {"unused", "authorizing", "exchanging", "handed", "ended"}]
    BY DEF Init
  <1>4. cbRev \in [Attempts -> Nat]
    BY DEF Init
  <1>5. tok \in [Attempts -> {"none", "live", "revoked", "refused"}] /\ held \subseteq Attempts
    BY DEF Init
  <1> QED BY <1>1, <1>2, <1>3, <1>4, <1>5 DEF Init, TypeOK

LEMMA CustomerTypes ==
  ASSUME TypeOK, Continue \/ Paste \/ \E a \in Attempts : Customer(a) \/ Exchange(a)
  PROVE  TypeOK'
  <1> USE TransitionTypes, AttemptsAssumption, TimeAssumption DEF driver, procs, grants, world
  <1>1. CASE Continue BY <1>1 DEF Continue, TypeOK
  <1>2. CASE Paste BY <1>2 DEF Paste, TypeOK
  <1>3. ASSUME NEW a \in Attempts, Start(a) PROVE TypeOK'
    <2>1. st.session \in Nat /\ now + SessionTTL \in Nat
      BY DEF TypeOK, States
    <2>2. st' \in States
      BY <1>3, <2>1 DEF Start
    <2> QED BY <1>3, <2>2 DEF Start, TypeOK
  <1>4. ASSUME NEW a \in Attempts, Reject(a) PROVE TypeOK'
    BY <1>4 DEF Reject, TypeOK
  <1>5. ASSUME NEW a \in Attempts, Callback(a) PROVE TypeOK'
    <2>1. st.rev \in Nat
      BY DEF TypeOK, States
    <2>2. st.rev + 1 \in Nat
      BY <2>1
    <2> QED BY <1>5, <2>2 DEF Callback, TypeOK
  <1>6. ASSUME NEW a \in Attempts, HandOver(a) PROVE TypeOK'
    BY <1>6 DEF HandOver, Ousts, TypeOK
  <1>7. ASSUME NEW a \in Attempts, ExchangeFails(a) PROVE TypeOK'
    <2>1. PICK outcome \in {"none", "revoked", "refused"}, failure \in ThrownFailures :
            /\ tok' = [tok EXCEPT ![a] = outcome]
            /\ Settle(cbRev[a], a, IF outcome = "refused" THEN "revocation_unconfirmed"
                                   ELSE failure, "none")
      BY <1>7 DEF ExchangeFails
    <2>2. st' \in States /\ settled' \in Attempts \cup {NoAttempt}
      BY <2>1, SettleTypes DEF ThrownFailures, Failures, CleanupPhases
    <2> QED BY <1>7, <2>1, <2>2 DEF ExchangeFails, TypeOK
  <1> QED BY <1>1, <1>2, <1>3, <1>4, <1>5, <1>6, <1>7 DEF Customer, Exchange

LEMMA AlarmTypes ==
  ASSUME TypeOK, Alarm
  PROVE  TypeOK'
  <1> USE TransitionTypes, AttemptsAssumption, TimeAssumption DEF driver, procs, grants, world
  <1>0. /\ NoPending \in [attempt : Attempts \cup {NoAttempt}, startedAt : Nat, passes : Nat]
        /\ IdleProc \in Procs({"idle", "pass", "failing", "upload", "handed_over", "verified",
                               "revoking", "removing", "removed", "kept"})
        /\ st.oauth.attempt \in Attempts \cup {NoAttempt}
        /\ "revocation_unconfirmed" \in Failures
        /\ {"none", "recovery_required"} \subseteq CleanupPhases
    BY DEF NoPending, IdleProc, Procs, TypeOK, States, Oauths, Failures, CleanupPhases
  <1>a. ASSUME NEW pc \in {"removing", "failing", "pass"}
        PROVE  Proc(pc, st.rev) \in Procs({"idle", "pass", "failing", "upload", "handed_over",
                 "verified", "revoking", "removing", "removed", "kept"})
    BY DEF Proc, Procs, TypeOK, States
  <1>1. CASE AlarmTick BY <1>1, TendTypes DEF AlarmTick, TypeOK
  <1>2. CASE AlarmIdle BY <1>2, <1>0, TendTypes DEF AlarmIdle, Forget, EndAlarm, TypeOK
  <1>3. CASE AlarmWatch
    <2>1. st' \in States /\ settled' \in Attempts \cup {NoAttempt}
      BY <1>3, <1>0, SettleTypes DEF AlarmWatch, TypeOK
    <2>2. cred' \in BOOLEAN /\ alarm' \in {"none", "now", "later", "tick"} /\ run' = IdleProc
      BY <1>3, TendTypes DEF AlarmWatch, EndAlarm
    <2> QED BY <1>3, <1>0, <2>1, <2>2 DEF AlarmWatch, Forget, TypeOK
  <1>4. CASE AlarmHandover BY <1>4, <1>0, TendTypes DEF AlarmHandover, Forget, EndAlarm, TypeOK
  <1>5. CASE AlarmCleanup BY <1>5, <1>a DEF AlarmCleanup, TypeOK
  <1>6. CASE AlarmCleanupLost
    BY <1>6, <1>0, SettleTypes, TendTypes DEF AlarmCleanupLost, Forget, EndAlarm, TypeOK
  <1>7. CASE AlarmLost
    BY <1>7, <1>0, SettleTypes, TendTypes DEF AlarmLost, Forget, EndAlarm, TypeOK
  <1>8. CASE AlarmPass BY <1>8, <1>a DEF AlarmPass, TypeOK
  <1> QED BY <1>1, <1>2, <1>3, <1>4, <1>5, <1>6, <1>7, <1>8 DEF Alarm

LEMMA PassTypes ==
  ASSUME TypeOK, Work
  PROVE  TypeOK'
  <1> USE TransitionTypes, AttemptsAssumption DEF driver, procs, grants, world
  <1>0. /\ NoPending \in [attempt : Attempts \cup {NoAttempt}, startedAt : Nat, passes : Nat]
        /\ IdleProc \in Procs({"idle", "pass", "failing", "upload", "handed_over", "verified",
                               "revoking", "removing", "removed", "kept"})
        /\ run.attempt \in Attempts \cup {NoAttempt}
        /\ {"revocation_unconfirmed"} \cup ThrownFailures \subseteq Failures
        /\ {"none", "recovery_required"} \subseteq CleanupPhases
    BY DEF NoPending, IdleProc, Procs, TypeOK, Failures, ThrownFailures, CleanupPhases
  <1>a. ASSUME NEW pc \in {"failing", "handed_over", "verified", "revoking"}, RunGoes(pc)
        PROVE  run' \in Procs({"idle", "pass", "failing", "upload", "handed_over",
                 "verified", "revoking", "removing", "removed", "kept"})
    BY <1>a DEF RunGoes, Procs, TypeOK
  <1>b. /\ Revoked(run.attempt) => tok' \in [Attempts -> {"none", "live", "revoked", "refused"}]
        /\ Refused(run.attempt) => tok' \in [Attempts -> {"none", "live", "revoked", "refused"}]
    BY DEF Revoked, Refused, TypeOK
  <1>1. CASE PassJournal BY <1>1 DEF PassJournal, TypeOK
  <1>2. CASE PassPause BY <1>2, <1>0, TendTypes DEF PassPause, EndAlarm, TypeOK
  <1>3. CASE PassFails BY <1>3, <1>a DEF PassFails, TypeOK
  <1>4. CASE PassHandover
    <2>1. CASE Current(run.rev)
      <3>1. run' \in Procs({"idle", "pass", "failing", "upload", "handed_over",
                 "verified", "revoking", "removing", "removed", "kept"})
        <4>1. run' = [run EXCEPT !.pc = "upload", !.rev = run.rev + 1]
          BY <1>4, <2>1 DEF PassHandover
        <4>2. run.rev + 1 \in Nat
          BY DEF TypeOK, Procs
        <4> QED BY <4>1, <4>2 DEF Procs, TypeOK
      <3> QED BY <1>4, <2>1, <3>1 DEF PassHandover, TypeOK
    <2>2. CASE ~Current(run.rev)
      BY <1>4, <2>2, <1>a DEF PassHandover, TypeOK
    <2> QED BY <2>1, <2>2
  <1>5. CASE Upload BY <1>5 DEF Upload, TypeOK
  <1>6. CASE PassHandedOver BY <1>6, <1>a DEF PassHandedOver, TypeOK
  <1>7. CASE PassVerified BY <1>7, <1>a DEF PassVerified, TypeOK
  <1>8. CASE ClassifyRemoval
    <2>1. st' \in States
      BY <1>8, <1>0 DEF ClassifyRemoval, TypeOK
    <2>2. cred' \in BOOLEAN /\ alarm' \in {"none", "now", "later", "tick"} /\ run' = IdleProc
      BY <1>8, TendTypes DEF ClassifyRemoval, EndAlarm, TypeOK
    <2> QED BY <1>8, <1>0, <2>1, <2>2 DEF ClassifyRemoval, TypeOK
  <1>9. CASE ClassifyRecovery BY <1>9, <1>a DEF ClassifyRecovery, TypeOK
  <1>10. CASE PassSettles
    <2>1. st' \in States /\ settled' \in Attempts \cup {NoAttempt}
      BY <1>10, <1>0, SettleTypes DEF PassSettles
    <2>2. cred' \in BOOLEAN /\ alarm' \in {"none", "now", "later", "tick"} /\ run' = IdleProc
      BY <1>10, TendTypes DEF PassSettles, EndAlarm, TypeOK
    <2> QED BY <1>10, <1>0, <1>b, <2>1, <2>2 DEF PassSettles, Ousts, TypeOK
  <1>11. CASE PassLeaves
    <2>1. st' \in States /\ settled' \in Attempts \cup {NoAttempt}
      BY <1>11, <1>0, SettleTypes DEF PassLeaves, Ousts, TypeOK
    <2>2. cred' \in BOOLEAN /\ alarm' \in {"none", "now", "later", "tick"} /\ run' = IdleProc
      BY <1>11, TendTypes DEF PassLeaves, EndAlarm, TypeOK
    <2> QED BY <1>11, <1>0, <1>b, <2>1, <2>2 DEF PassLeaves, Ousts, TypeOK
  <1>12. CASE PassReady
    <2>1. st' \in States /\ settled' \in Attempts \cup {NoAttempt}
      BY <1>12, <1>0, SettleTypes DEF PassReady, Ousts, TypeOK
    <2>2. cred' \in BOOLEAN /\ alarm' \in {"none", "now", "later", "tick"} /\ run' = IdleProc
      BY <1>12, TendTypes DEF PassReady, EndAlarm, TypeOK
    <2> QED BY <1>12, <1>0, <1>b, <2>1, <2>2 DEF PassReady, Ousts, TypeOK
  <1> QED BY <1>1, <1>2, <1>3, <1>4, <1>5, <1>6, <1>7, <1>8, <1>9, <1>10, <1>11, <1>12 DEF Work

LEMMA CleanupTypes ==
  ASSUME TypeOK, PageCleanup \/ \E p \in {run, page} : Cleanup(p)
  PROVE  TypeOK'
  <1> USE TransitionTypes, AttemptsAssumption DEF driver, procs, grants, world
  <1>0. /\ NoPending \in [attempt : Attempts \cup {NoAttempt}, startedAt : Nat, passes : Nat]
        /\ IdleProc \in Procs({"idle", "pass", "failing", "upload", "handed_over", "verified",
                               "revoking", "removing", "removed", "kept"})
        /\ IdleProc \in Procs({"idle", "removing", "removed", "kept"})
        /\ st.oauth.attempt \in Attempts \cup {NoAttempt}
        /\ "revocation_unconfirmed" \in Failures /\ "provider_recovery_required" \in Failures
        /\ {"none", "removed", "recovery_required"} \subseteq CleanupPhases
    BY DEF NoPending, IdleProc, Procs, TypeOK, States, Oauths, Failures, CleanupPhases
  <1>1. CASE PageCleanup
    <2>1. Proc("removing", st.rev) \in Procs({"idle", "removing", "removed", "kept"})
      BY DEF Proc, Procs, TypeOK, States
    <2>2. st' \in States /\ settled' \in Attempts \cup {NoAttempt}
      BY <1>1, <1>0, SettleTypes DEF PageCleanup, TypeOK
    <2> QED BY <1>1, <1>0, <2>1, <2>2 DEF PageCleanup, Forget, TypeOK
  <1>2. ASSUME NEW p \in {run, page}, Cleanup(p) PROVE TypeOK'
    <2>0. p.attempt \in Attempts \cup {NoAttempt}
      BY DEF TypeOK, Procs
    <2>1. CASE RemoveRoot(p) BY <2>0, <2>1 DEF RemoveRoot, TypeOK
    <2>2. CASE RemovalEnds(p)
      <3>1. ASSUME NEW pc \in {"removed", "kept"}, Outcome(p, pc)
            PROVE  /\ run' \in Procs({"idle", "pass", "failing", "upload", "handed_over",
                        "verified", "revoking", "removing", "removed", "kept"})
                   /\ page' \in Procs({"idle", "removing", "removed", "kept"})
        BY <3>1 DEF Outcome, RunGoes, Procs, TypeOK
      <3> QED BY <2>2, <3>1 DEF RemovalEnds, TypeOK
    <2>3. CASE RemovalRetried(p)
      <3>1. cred' \in BOOLEAN /\ alarm' \in {"none", "now", "later", "tick"}
        BY <2>3, TendTypes DEF RemovalRetried, EndAlarm, TypeOK
      <3> QED BY <1>0, <2>3, <3>1 DEF RemovalRetried, EndAlarm, TypeOK
    <2>4. CASE CleanupEnds(p)
      <3>1. st' \in States /\ settled' \in Attempts \cup {NoAttempt}
        BY <1>0, <2>0, <2>4, SettleTypes DEF CleanupEnds, TypeOK
      <3>2. cred' \in BOOLEAN /\ alarm' \in {"none", "now", "later", "tick"}
        BY <2>4, TendTypes DEF CleanupEnds, EndAlarm, TypeOK
      <3>3. tok' \in [Attempts -> {"none", "live", "revoked", "refused"}]
        BY <2>4 DEF CleanupEnds, Revoked, Refused, TypeOK
      <3> QED BY <1>0, <2>4, <3>1, <3>2, <3>3 DEF CleanupEnds, Ousts, EndAlarm, Forget, TypeOK
    <2> QED BY <1>2, <2>1, <2>2, <2>3, <2>4 DEF Cleanup
  <1> QED BY <1>1, <1>2

LEMMA RestartTypes ==
  ASSUME TypeOK, Restart \/ SwapRuntime \/ Tick
  PROVE  TypeOK'
  <1> USE AttemptsAssumption DEF driver, procs, grants, world
  <1>0. /\ NoPending \in [attempt : Attempts \cup {NoAttempt}, startedAt : Nat, passes : Nat]
        /\ IdleProc \in Procs({"idle", "pass", "failing", "upload", "handed_over", "verified",
                               "revoking", "removing", "removed", "kept"})
        /\ IdleProc \in Procs({"idle", "removing", "removed", "kept"})
    BY DEF NoPending, IdleProc, Procs
  <1>1. CASE Restart
    <2>1. restarts' \in Nat
      BY <1>1 DEF Restart, TypeOK
    <2> QED BY <1>0, <1>1, <2>1 DEF Restart, MemoryLost, TypeOK
  <1>2. CASE SwapRuntime BY <1>0, <1>2 DEF SwapRuntime, MemoryLost, TypeOK
  <1>3. CASE Tick
    <2>1. now' \in Nat
      BY <1>3 DEF Tick, TypeOK
    <2>2. UNCHANGED <<st, driver, procs, grants, world, settled, restarts>>
      BY <1>3 DEF Tick
    <2> QED BY <2>1, <2>2 DEF TypeOK
  <1> QED BY <1>1, <1>2, <1>3

\* A step of the installation, or none.
LEMMA TypesStep == TypeOK /\ [Next]_vars => TypeOK'
  <1> SUFFICES ASSUME TypeOK, [Next]_vars PROVE TypeOK'
    OBVIOUS
  <1>1. CASE UNCHANGED vars
    BY <1>1 DEF vars, driver, procs, grants, world, TypeOK
  <1>2. CASE Next
    BY <1>2, CustomerTypes, AlarmTypes, PassTypes, CleanupTypes, RestartTypes DEF Next
  <1> QED BY <1>1, <1>2

-----------------------------------------------------------------------------
(* How the record, the processes and the grants move.                        *)

Kept == GrantsKept /\ RecordsKept /\ WritesOrdered /\ RemovalsGuarded /\ EndsKnown /\ GrantIsTended

\* The atomic facts of the types.
Atoms ==
  /\ NoAttempt \notin Attempts
  /\ st.rev \in Nat /\ run.rev \in Nat /\ page.rev \in Nat /\ cbRev \in [Attempts -> Nat]
  /\ {st.oauth.attempt, pending.attempt, run.attempt, page.attempt, settled, removedBy}
       \subseteq Attempts \cup {NoAttempt}
  /\ cb \in [Attempts -> {"unused", "authorizing", "exchanging", "handed", "ended"}]
  /\ tok \in [Attempts -> {"none", "live", "revoked", "refused"}]

LEMMA AtomsHold == TypeOK => Atoms
  BY AttemptsAssumption DEF TypeOK, Atoms, States, Oauths, Procs

\* The record stays, or it is replaced by a later one that is about no
\* attempt whose grant was handed over.
Replaced ==
  /\ st'.rev \in Nat /\ st'.rev > st.rev
  /\ \A a \in Attempts : cb[a] = "handed" => st'.oauth.attempt # a
  /\ st'.status = "READY" => st'.oauth.attempt = NoAttempt /\ host = "final"
  /\ st'.oauth.phase # "finalizing"
  /\ st'.cleanup = "removing" => st.cleanup = "removing"

Moves == UNCHANGED st \/ Replaced

\* Nothing begins and nothing is sent: processes go on or end.
Steady ==
  /\ UNCHANGED run \/ run'.pc = "idle"
  /\ UNCHANGED page \/ page'.pc = "idle"
  /\ UNCHANGED world /\ ousted \subseteq ousted'
  /\ \A a \in Attempts : cb[a] = "handed" => cb'[a] = "handed"

\* A token that is over stays over once its exchange ended.
Lasting == \A a \in Attempts : cb[a] \in {"handed", "ended"} =>
             cb'[a] \in {"handed", "ended"} /\ (Over(a) => tok'[a] \notin {"live", "refused"})

LEMMA OwnsMove ==
  ASSUME Atoms, NEW p, p.rev \in Nat, Owns(p), Moves,
         \A a \in Attempts : cb[a] = "handed" => cb'[a] = "handed"
  PROVE  Owns(p)'
  <1>1. CASE UNCHANGED st BY <1>1 DEF Owns
  <1>2. CASE Replaced BY <1>2 DEF Owns, Replaced, Atoms
  <1> QED BY <1>1, <1>2 DEF Moves

\* A callback that exchanges is one that did, or the one just armed.
LEMMA RecordsMove ==
  ASSUME SetupInv, Moves, Steady,
         \A a \in Attempts : cb'[a] = "exchanging" =>
            \/ cb[a] = "exchanging" /\ cbRev'[a] = cbRev[a]
            \/ cbRev'[a] = st'.rev /\ st'.status = "CONVERGING" /\ st'.oauth.attempt = a
  PROVE  RecordsKept'
  <1>0. Atoms
    BY AtomsHold DEF SetupInv
  <1>1. Owns(run)' /\ Owns(page)'
    <2>1. ASSUME NEW p, p.rev \in Nat, Owns(p) PROVE Owns(p)'
      BY <1>0, <2>1, OwnsMove DEF Steady
    <2>2. CASE UNCHANGED run /\ UNCHANGED page
      BY <1>0, <2>1, <2>2 DEF SetupInv, RecordsKept, Owns, Atoms
    <2>3. CASE UNCHANGED run /\ page'.pc = "idle"
      BY <1>0, <2>1, <2>3 DEF SetupInv, RecordsKept, Owns, Atoms
    <2>4. CASE run'.pc = "idle" /\ UNCHANGED page
      BY <1>0, <2>1, <2>4 DEF SetupInv, RecordsKept, Owns, Atoms
    <2>5. CASE run'.pc = "idle" /\ page'.pc = "idle"
      BY <2>5 DEF Owns
    <2> QED BY <2>2, <2>3, <2>4, <2>5 DEF Steady
  <1>2. ASSUME NEW a \in Attempts, cb'[a] = "exchanging"
        PROVE  \/ cbRev'[a] = st'.rev /\ st'.status = "CONVERGING" /\ st'.oauth.attempt = a
               \/ cbRev'[a] < st'.rev
    BY <1>0, <1>2 DEF SetupInv, RecordsKept, Moves, Replaced, Atoms
  <1>3. st'.status = "READY" => st'.oauth.attempt = NoAttempt /\ host' = "final"
    BY DEF SetupInv, RecordsKept, Moves, Replaced, Steady, world
  <1> QED BY <1>1, <1>2, <1>3 DEF RecordsKept

\* The grant the driver holds is the one it held, none, or one just handed
\* over, and a token it does not hold stays as it is.
LEMMA RemovalsMove ==
  ASSUME SetupInv, Moves, Steady,
         \/ pending'.attempt = pending.attempt
         \/ pending'.attempt \in Attempts => cb[pending'.attempt] # "handed",
         \A a \in Attempts : cb[a] = "handed" /\ a \notin held => a \notin held' /\ tok'[a] = tok[a]
  PROVE  RemovalsGuarded'
  <1>0. Atoms
    BY AtomsHold DEF SetupInv
  <1>1. UNCHANGED <<Unsent, root>>
    BY DEF Steady, world, Unsent, root
  <1>2. run'.pc \in Busy => run.pc \in Busy /\ run' = run
    BY DEF Steady, Busy
  <1>3. st'.cleanup = "removing" => Unsent' /\ run'.pc \notin Busy
    BY <1>1, <1>2 DEF SetupInv, RemovalsGuarded, Moves, Replaced
  <1>4. run'.pc \in {"removing", "removed", "kept"} => Unsent'
    BY <1>1 DEF SetupInv, RemovalsGuarded, Steady
  <1>5. ASSUME page'.pc # "idle"
        PROVE  /\ page'.rev = st'.rev => st'.cleanup = "removing"
               /\ page'.attempt = pending'.attempt =>
                    /\ Unsent' /\ run'.pc \notin Busy
                    /\ st'.cleanup = "removing" \/ st'.oauth.attempt # page'.attempt
    <2>1. page' = page /\ Owns(page)
      BY <1>5 DEF Steady, SetupInv, RecordsKept
    <2>2. page'.rev = st'.rev => UNCHANGED st
      BY <1>0, <1>5, <2>1 DEF Moves, Replaced, Owns, Atoms
    <2>3. page'.attempt = pending'.attempt => page.attempt = pending.attempt
      BY <1>5, <2>1 DEF Owns
    <2>4. UNCHANGED st \/ st'.oauth.attempt # page.attempt
      BY <1>5, <2>1 DEF Moves, Replaced, Owns
    <2> QED BY <1>1, <1>2, <1>5, <2>1, <2>2, <2>3, <2>4 DEF SetupInv, RemovalsGuarded
  <1>6. ~root' => \/ Unsent' /\ run'.pc \notin Busy
                  \/ /\ cb'[removedBy'] = "handed" /\ removedBy' \notin held'
                     /\ tok'[removedBy'] \in {"live", "refused"}
    BY <1>0, <1>1, <1>2 DEF SetupInv, RemovalsGuarded, Steady, world, root, Atoms
  <1> QED BY <1>3, <1>4, <1>5, <1>6 DEF RemovalsGuarded

\* A record that is replaced leaves no process that could still write; what
\* the new record says of its attempt has to hold.
LEMMA EndsReplaced ==
  ASSUME SetupInv, Replaced, Steady,
         /\ st'.status = "INCOMPLETE" /\ st'.oauth.attempt = NoAttempt
         /\ settled' # NoAttempt /\ st'.failure \in ThrownFailures
         => cb'[settled'] \in {"handed", "ended"} /\ (Alone(settled) => Over(settled))'
  PROVE  EndsKnown'
  <1>0. Atoms
    BY AtomsHold DEF SetupInv
  <1>1. run'.pc = "idle" \/ run'.rev # st'.rev
    BY <1>0 DEF Steady, SetupInv, RecordsKept, Owns, Replaced, Atoms
  <1>2. page'.pc = "idle" \/ page'.rev # st'.rev
    BY <1>0 DEF Steady, SetupInv, RecordsKept, Owns, Replaced, Atoms
  <1>3. Revokes(run)' /\ Revokes(page)'
    BY <1>1, <1>2 DEF Revokes
  <1> QED BY <1>3 DEF EndsKnown

\* A record that stays: the processes that can still write it keep what they
\* have to revoke, and the token of the settled attempt stays over.
LEMMA EndsSame ==
  ASSUME SetupInv, UNCHANGED <<st, settled>>, Steady, Lasting,
         \A p \in {run, page} \cap {run', page'} :
           p.pc # "idle" /\ p.rev = st.rev /\ Alone(p.attempt)' /\ p.attempt \in held =>
             p.attempt \in held' \/ tok'[p.attempt] \notin {"live", "refused"}
  PROVE  EndsKnown'
  <1>0. Atoms
    BY AtomsHold DEF SetupInv
  <1>1. ASSUME NEW a, Alone(a)' PROVE Alone(a)
    BY <1>0, <1>1 DEF Alone, Steady, world, root, Atoms
  <1>2. ASSUME NEW p \in {run, page}, p \in {run', page'}, p.pc # "idle", p.rev = st.rev,
               Alone(p.attempt)'
        PROVE  p.attempt \in held' \/ tok'[p.attempt] \notin {"live", "refused"}
    <2>1. Alone(p.attempt)
      BY <1>1, <1>2
    <2>2. p.attempt \in Attempts /\ cb[p.attempt] = "handed"
      BY <1>2 DEF SetupInv, RecordsKept, Owns
    <2>3. p.attempt \in held \/ Over(p.attempt)
      BY <1>2, <2>1 DEF SetupInv, EndsKnown, Revokes
    <2> QED BY <1>2, <2>1, <2>2, <2>3 DEF Lasting
  <1>3. Revokes(run)' /\ Revokes(page)'
    BY <1>2 DEF Steady, Revokes, Over
  <1>4. ASSUME st.status = "INCOMPLETE", st.oauth.attempt = NoAttempt,
               settled # NoAttempt, st.failure \in ThrownFailures
        PROVE  cb'[settled] \in {"handed", "ended"} /\
                 (Alone(settled)' => tok'[settled] \notin {"live", "refused"})
    BY <1>0, <1>1, <1>4 DEF SetupInv, EndsKnown, Lasting, Atoms
  <1> QED BY <1>3, <1>4 DEF EndsKnown, Over

LEMMA CustomerKeeps ==
  ASSUME SetupInv, Continue \/ Paste \/ \E a \in Attempts : Customer(a) \/ Exchange(a)
  PROVE  Kept'
  <1> USE DEF driver, procs, grants, world
  <1>0. Atoms /\ SetupInv
    BY AtomsHold DEF SetupInv
  <1>1. CASE Continue
    <2>1. Replaced
      BY <1>0, <1>1 DEF Continue, Consumed, NoOauth, ThrownFailures, Replaced, Moves, GrantsKept, RecordsKept, SetupInv, Atoms
    <2>2. Moves /\ Steady /\ Lasting
      BY <1>0, <1>1, <2>1 DEF Continue, Consumed, NoOauth, ThrownFailures, Moves, Steady, Lasting, Over, GrantsKept, SetupInv, Atoms
    <2>3. GrantsKept'
      BY <1>0, <1>1 DEF Continue, Consumed, NoOauth, ThrownFailures, GrantsKept, RecordsKept, Owns, SetupInv, Atoms
    <2>4. RecordsKept'
      BY <1>0, <1>1, <2>2, RecordsMove DEF Continue, Consumed, NoOauth, ThrownFailures, SetupInv, Atoms
    <2>5. WritesOrdered'
      BY <1>0, <1>1, <2>1, <2>2 DEF Continue, Consumed, NoOauth, ThrownFailures, WritesOrdered, Moves, Replaced, Steady, Unsent, SetupInv
    <2>6. RemovalsGuarded'
      BY <1>0, <1>1, <2>2, RemovalsMove DEF Continue, Consumed, NoOauth, ThrownFailures, GrantsKept, SetupInv, Atoms
    <2>7. EndsKnown'
      BY <1>0, <1>1, <2>1, <2>2, EndsReplaced DEF Continue, Consumed, NoOauth, ThrownFailures, GrantsKept, SetupInv, Atoms
    <2>8. GrantIsTended'
      BY <1>0, <1>1 DEF Continue, Consumed, NoOauth, ThrownFailures, GrantIsTended, root, IdleProc, SetupInv, Atoms
    <2> QED BY <2>3, <2>4, <2>5, <2>6, <2>7, <2>8 DEF Kept
  <1>2. CASE Paste
    <2>1. UNCHANGED st
      BY <1>0, <1>2 DEF Paste, GrantsKept, RecordsKept, SetupInv, Atoms
    <2>2. Moves /\ Steady /\ Lasting
      BY <1>0, <1>2, <2>1 DEF Paste, Moves, Steady, Lasting, Over, GrantsKept, SetupInv, Atoms
    <2>3. GrantsKept'
      BY <1>0, <1>2 DEF Paste, GrantsKept, RecordsKept, Owns, SetupInv, Atoms
    <2>4. RecordsKept'
      BY <1>0, <1>2, <2>2, RecordsMove DEF Paste, SetupInv, Atoms
    <2>5. WritesOrdered'
      BY <1>0, <1>2, <2>1, <2>2 DEF Paste, WritesOrdered, Moves, Replaced, Steady, Unsent, SetupInv
    <2>6. RemovalsGuarded'
      BY <1>0, <1>2, <2>2, RemovalsMove DEF Paste, GrantsKept, SetupInv, Atoms
    <2>7. EndsKnown'
      BY <1>0, <1>2, <2>1, <2>2, EndsSame DEF Paste, GrantsKept, SetupInv, Atoms
    <2>8. GrantIsTended'
      BY <1>0, <1>2 DEF Paste, GrantIsTended, root, IdleProc, SetupInv, Atoms
    <2> QED BY <2>3, <2>4, <2>5, <2>6, <2>7, <2>8 DEF Kept
  <1>3. ASSUME NEW a \in Attempts, Start(a) PROVE Kept'
    <2>1. Replaced
      BY <1>0, <1>3 DEF Start, Started, ThrownFailures, Replaced, Moves, GrantsKept, RecordsKept, SetupInv, Atoms
    <2>2. Moves /\ Steady /\ Lasting
      BY <1>0, <1>3, <2>1 DEF Start, Started, ThrownFailures, Moves, Steady, Lasting, Over, GrantsKept, SetupInv, Atoms
    <2>3. GrantsKept'
      BY <1>0, <1>3 DEF Start, Started, ThrownFailures, GrantsKept, RecordsKept, Owns, SetupInv, Atoms
    <2>4. RecordsKept'
      BY <1>0, <1>3, <2>2, RecordsMove DEF Start, Started, ThrownFailures, SetupInv, Atoms
    <2>5. WritesOrdered'
      BY <1>0, <1>3, <2>1, <2>2 DEF Start, Started, ThrownFailures, WritesOrdered, Moves, Replaced, Steady, Unsent, SetupInv
    <2>6. RemovalsGuarded'
      BY <1>0, <1>3, <2>2, RemovalsMove DEF Start, Started, ThrownFailures, GrantsKept, SetupInv, Atoms
    <2>7. EndsKnown'
      BY <1>0, <1>3, <2>1, <2>2, EndsReplaced DEF Start, Started, ThrownFailures, GrantsKept, SetupInv, Atoms
    <2>8. GrantIsTended'
      BY <1>0, <1>3 DEF Start, Started, ThrownFailures, GrantIsTended, root, IdleProc, SetupInv, Atoms
    <2> QED BY <2>3, <2>4, <2>5, <2>6, <2>7, <2>8 DEF Kept
  <1>4. ASSUME NEW a \in Attempts, Reject(a) PROVE Kept'
    <2>1. Replaced
      BY <1>0, <1>4 DEF Reject, Rejected, NoOauth, ThrownFailures, Replaced, Moves, GrantsKept, RecordsKept, SetupInv, Atoms
    <2>2. Moves /\ Steady /\ Lasting
      BY <1>0, <1>4, <2>1 DEF Reject, Rejected, NoOauth, ThrownFailures, Moves, Steady, Lasting, Over, GrantsKept, SetupInv, Atoms
    <2>3. GrantsKept'
      BY <1>0, <1>4 DEF Reject, Rejected, NoOauth, ThrownFailures, GrantsKept, RecordsKept, Owns, SetupInv, Atoms
    <2>4. RecordsKept'
      BY <1>0, <1>4, <2>2, RecordsMove DEF Reject, Rejected, NoOauth, ThrownFailures, SetupInv, Atoms
    <2>5. WritesOrdered'
      BY <1>0, <1>4, <2>1, <2>2 DEF Reject, Rejected, NoOauth, ThrownFailures, WritesOrdered, Moves, Replaced, Steady, Unsent, SetupInv
    <2>6. RemovalsGuarded'
      BY <1>0, <1>4, <2>2, RemovalsMove DEF Reject, Rejected, NoOauth, ThrownFailures, GrantsKept, SetupInv, Atoms
    <2>7. EndsKnown'
      BY <1>0, <1>4, <2>1, <2>2, EndsReplaced DEF Reject, Rejected, NoOauth, ThrownFailures, GrantsKept, SetupInv, Atoms
    <2>8. GrantIsTended'
      BY <1>0, <1>4 DEF Reject, Rejected, NoOauth, ThrownFailures, GrantIsTended, root, IdleProc, SetupInv, Atoms
    <2> QED BY <2>3, <2>4, <2>5, <2>6, <2>7, <2>8 DEF Kept
  <1>5. ASSUME NEW a \in Attempts, Callback(a) PROVE Kept'
    <2>1. Replaced
      BY <1>0, <1>5 DEF Callback, Exchanging, InPhase, ThrownFailures, Replaced, Moves, GrantsKept, RecordsKept, SetupInv, Atoms
    <2>2. Moves /\ Steady /\ Lasting
      BY <1>0, <1>5, <2>1 DEF Callback, Exchanging, InPhase, ThrownFailures, Moves, Steady, Lasting, Over, GrantsKept, SetupInv, Atoms
    <2>3. GrantsKept'
      BY <1>0, <1>5 DEF Callback, Exchanging, InPhase, ThrownFailures, GrantsKept, RecordsKept, Owns, SetupInv, Atoms
    <2>4. RecordsKept'
      BY <1>0, <1>5, <2>2, RecordsMove DEF Callback, Exchanging, InPhase, ThrownFailures, SetupInv, Atoms
    <2>5. WritesOrdered'
      BY <1>0, <1>5, <2>1, <2>2 DEF Callback, Exchanging, InPhase, ThrownFailures, WritesOrdered, Moves, Replaced, Steady, Unsent, SetupInv
    <2>6. RemovalsGuarded'
      BY <1>0, <1>5, <2>2, RemovalsMove DEF Callback, Exchanging, InPhase, ThrownFailures, GrantsKept, SetupInv, Atoms
    <2>7. EndsKnown'
      BY <1>0, <1>5, <2>1, <2>2, EndsReplaced DEF Callback, Exchanging, InPhase, ThrownFailures, GrantsKept, SetupInv, Atoms
    <2>8. GrantIsTended'
      BY <1>0, <1>5 DEF Callback, Exchanging, InPhase, ThrownFailures, GrantIsTended, root, IdleProc, SetupInv, Atoms
    <2> QED BY <2>3, <2>4, <2>5, <2>6, <2>7, <2>8 DEF Kept
  <1>6. ASSUME NEW a \in Attempts, HandOver(a) PROVE Kept'
    <2>1. UNCHANGED st
      BY <1>0, <1>6 DEF HandOver, GrantsKept, RecordsKept, SetupInv, Atoms
    <2>2. Moves /\ Steady /\ Lasting
      BY <1>0, <1>6, <2>1 DEF HandOver, Ousts, Moves, Steady, Lasting, Over, GrantsKept, SetupInv, Atoms
    <2>3. GrantsKept'
      BY <1>0, <1>6 DEF HandOver, GrantsKept, RecordsKept, Owns, SetupInv, Atoms
    <2>4. RecordsKept'
      BY <1>0, <1>6, <2>2, RecordsMove DEF HandOver, SetupInv, Atoms
    <2>5. WritesOrdered'
      BY <1>0, <1>6, <2>1, <2>2 DEF HandOver, WritesOrdered, Moves, Replaced, Steady, Unsent, SetupInv
    <2>6. RemovalsGuarded'
      BY <1>0, <1>6, <2>2, RemovalsMove DEF HandOver, GrantsKept, SetupInv, Atoms
    <2>7. EndsKnown'
      <3>1. ASSUME NEW p \in {run, page}, p.pc # "idle", Alone(p.attempt)', p.attempt \in held PROVE FALSE
        <4>1. p.attempt \in Attempts /\ p.attempt # a
          BY <1>0, <1>6, <3>1 DEF HandOver, SetupInv, RecordsKept, Owns, Atoms
        <4>2. p.attempt = pending.attempt
          BY <3>1 DEF SetupInv, GrantsKept
        <4> QED BY <1>0, <1>6, <3>1, <4>1, <4>2 DEF Alone, HandOver, Ousts, Atoms
      <3> QED BY <1>0, <1>6, <2>1, <2>2, <3>1, EndsSame DEF HandOver
    <2>8. GrantIsTended'
      BY <1>0, <1>6 DEF HandOver, GrantIsTended, root, IdleProc, SetupInv, Atoms
    <2> QED BY <2>3, <2>4, <2>5, <2>6, <2>7, <2>8 DEF Kept
  <1>7. ASSUME NEW a \in Attempts, ExchangeFails(a) PROVE Kept'
    <2>1. Moves
      BY <1>0, <1>7 DEF ExchangeFails, Settle, Current, Incomplete, NoOauth, ThrownFailures, Replaced, Moves, GrantsKept, RecordsKept, SetupInv, Atoms
    <2>2. Moves /\ Steady /\ Lasting
      BY <1>0, <1>7, <2>1 DEF ExchangeFails, Settle, Current, Incomplete, NoOauth, ThrownFailures, Moves, Steady, Lasting, Over, GrantsKept, SetupInv, Atoms
    <2>3. GrantsKept'
      BY <1>0, <1>7 DEF ExchangeFails, Settle, Current, Incomplete, NoOauth, ThrownFailures, GrantsKept, RecordsKept, Owns, SetupInv, Atoms
    <2>4. RecordsKept'
      BY <1>0, <1>7, <2>2, RecordsMove DEF ExchangeFails, Settle, Current, Incomplete, NoOauth, ThrownFailures, SetupInv, Atoms
    <2>5. WritesOrdered'
      BY <1>0, <1>7, <2>1, <2>2 DEF ExchangeFails, Settle, Current, Incomplete, NoOauth, ThrownFailures, WritesOrdered, Moves, Replaced, Steady, Unsent, SetupInv
    <2>6. RemovalsGuarded'
      BY <1>0, <1>7, <2>2, RemovalsMove DEF ExchangeFails, Settle, Current, Incomplete, NoOauth, ThrownFailures, GrantsKept, SetupInv, Atoms
    <2>7. EndsKnown'
      <3>1. CASE Current(cbRev[a])
        <4>1. Replaced /\ settled' = a
          BY <1>0, <1>7, <2>1, <3>1 DEF ExchangeFails, Settle, Current, Incomplete, Moves, Atoms
        <4>2. st'.failure \in ThrownFailures => cb'[a] = "ended" /\ tok'[a] \in {"none", "revoked"}
          BY <1>0, <1>7, <3>1 DEF ExchangeFails, Settle, Current, Incomplete, ThrownFailures, Atoms
        <4> QED BY <2>2, <4>1, <4>2, <1>0, EndsReplaced DEF Over
      <3>2. CASE ~Current(cbRev[a])
        <4>1. UNCHANGED <<st, settled>> /\ UNCHANGED held
          BY <1>7, <3>2 DEF ExchangeFails, Settle
        <4> QED BY <1>0, <2>2, <4>1, EndsSame
      <3> QED BY <3>1, <3>2
    <2>8. GrantIsTended'
      BY <1>0, <1>7 DEF ExchangeFails, Settle, Current, Incomplete, NoOauth, ThrownFailures, GrantIsTended, root, IdleProc, SetupInv, Atoms
    <2> QED BY <2>3, <2>4, <2>5, <2>6, <2>7, <2>8 DEF Kept
  <1> QED BY <1>1, <1>2, <1>3, <1>4, <1>5, <1>6, <1>7 DEF Customer, Exchange

LEMMA AlarmKeeps ==
  ASSUME SetupInv, Alarm
  PROVE  Kept'
  <1> USE DEF driver, procs, grants, world
  <1>0. Atoms /\ SetupInv
    BY AtomsHold DEF SetupInv
  <1>1. CASE AlarmTick
    <2>1. UNCHANGED st
      BY <1>0, <1>1 DEF AlarmTick, Tend, Fires, ConvergerRuns, GrantsKept, RecordsKept, SetupInv, Atoms
    <2>2. Moves /\ Steady /\ Lasting
      BY <1>0, <1>1, <2>1 DEF AlarmTick, Tend, Fires, ConvergerRuns, Moves, Steady, Lasting, Over, GrantsKept, SetupInv, Atoms
    <2>3. GrantsKept'
      BY <1>0, <1>1 DEF AlarmTick, Tend, Fires, ConvergerRuns, GrantsKept, RecordsKept, Owns, SetupInv, Atoms
    <2>4. RecordsKept'
      BY <1>0, <1>1, <2>2, RecordsMove DEF AlarmTick, Tend, Fires, ConvergerRuns, SetupInv, Atoms
    <2>5. WritesOrdered'
      BY <1>0, <1>1, <2>1, <2>2 DEF AlarmTick, Tend, Fires, ConvergerRuns, WritesOrdered, Moves, Replaced, Steady, Unsent, SetupInv
    <2>6. RemovalsGuarded'
      BY <1>0, <1>1, <2>2, RemovalsMove DEF AlarmTick, Tend, Fires, ConvergerRuns, GrantsKept, SetupInv, Atoms
    <2>7. EndsKnown'
      BY <1>0, <1>1, <2>1, <2>2, EndsSame DEF AlarmTick, Tend, Fires, ConvergerRuns, GrantsKept, SetupInv, Atoms
    <2>8. GrantIsTended'
      BY <1>0, <1>1 DEF AlarmTick, Tend, Fires, ConvergerRuns, GrantIsTended, root, IdleProc, SetupInv, Atoms
    <2> QED BY <2>3, <2>4, <2>5, <2>6, <2>7, <2>8 DEF Kept
  <1>2. CASE AlarmIdle
    <2>1. UNCHANGED st
      BY <1>0, <1>2 DEF AlarmIdle, Wakes, Fires, Converging, EndAlarm, Tend, IdleProc, Forget, NoPending, GrantsKept, RecordsKept, SetupInv, Atoms
    <2>2. Moves /\ Steady /\ Lasting
      BY <1>0, <1>2, <2>1 DEF AlarmIdle, Wakes, Fires, Converging, EndAlarm, Tend, IdleProc, Forget, NoPending, Moves, Steady, Lasting, Over, GrantsKept, SetupInv, Atoms
    <2>3. GrantsKept'
      BY <1>0, <1>2 DEF AlarmIdle, Wakes, Fires, Converging, EndAlarm, Tend, IdleProc, Forget, NoPending, GrantsKept, RecordsKept, Owns, SetupInv, Atoms
    <2>4. RecordsKept'
      BY <1>0, <1>2, <2>2, RecordsMove DEF AlarmIdle, Wakes, Fires, Converging, EndAlarm, Tend, IdleProc, Forget, NoPending, SetupInv, Atoms
    <2>5. WritesOrdered'
      BY <1>0, <1>2, <2>1, <2>2 DEF AlarmIdle, Wakes, Fires, Converging, EndAlarm, Tend, IdleProc, Forget, NoPending, WritesOrdered, Moves, Replaced, Steady, Unsent, SetupInv
    <2>6. RemovalsGuarded'
      BY <1>0, <1>2, <2>2, RemovalsMove DEF AlarmIdle, Wakes, Fires, Converging, EndAlarm, Tend, IdleProc, Forget, NoPending, GrantsKept, SetupInv, Atoms
    <2>7. EndsKnown'
      <3>1. ASSUME NEW p \in {run, page}, p.pc # "idle", p.rev = st.rev PROVE FALSE
        BY <1>0, <1>2, <3>1 DEF AlarmIdle, Wakes, Converging, SetupInv, RecordsKept, Owns, Atoms
      <3> QED BY <1>0, <1>2, <2>1, <2>2, <3>1, EndsSame DEF AlarmIdle
    <2>8. GrantIsTended'
      BY <1>0, <1>2 DEF AlarmIdle, Wakes, Fires, Converging, EndAlarm, Tend, IdleProc, Forget, NoPending, GrantIsTended, root, IdleProc, SetupInv, Atoms
    <2> QED BY <2>3, <2>4, <2>5, <2>6, <2>7, <2>8 DEF Kept
  <1>3. CASE AlarmWatch
    <2>1. Moves
      BY <1>0, <1>3 DEF AlarmWatch, Wakes, Fires, Converging, EndAlarm, Tend, IdleProc, Forget, NoPending, Settle, Current, Incomplete, NoOauth, ThrownFailures, Replaced, Moves, GrantsKept, RecordsKept, SetupInv, Atoms
    <2>2. Moves /\ Steady /\ Lasting
      BY <1>0, <1>3, <2>1 DEF AlarmWatch, Wakes, Fires, Converging, EndAlarm, Tend, IdleProc, Forget, NoPending, Settle, Current, Incomplete, NoOauth, ThrownFailures, Moves, Steady, Lasting, Over, GrantsKept, SetupInv, Atoms
    <2>3. GrantsKept'
      BY <1>0, <1>3 DEF AlarmWatch, Wakes, Fires, Converging, EndAlarm, Tend, IdleProc, Forget, NoPending, Settle, Current, Incomplete, NoOauth, ThrownFailures, GrantsKept, RecordsKept, Owns, SetupInv, Atoms
    <2>4. RecordsKept'
      BY <1>0, <1>3, <2>2, RecordsMove DEF AlarmWatch, Wakes, Fires, Converging, EndAlarm, Tend, IdleProc, Forget, NoPending, Settle, Current, Incomplete, NoOauth, ThrownFailures, SetupInv, Atoms
    <2>5. WritesOrdered'
      BY <1>0, <1>3, <2>1, <2>2 DEF AlarmWatch, Wakes, Fires, Converging, EndAlarm, Tend, IdleProc, Forget, NoPending, Settle, Current, Incomplete, NoOauth, ThrownFailures, WritesOrdered, Moves, Replaced, Steady, Unsent, SetupInv
    <2>6. RemovalsGuarded'
      BY <1>0, <1>3, <2>2, RemovalsMove DEF AlarmWatch, Wakes, Fires, Converging, EndAlarm, Tend, IdleProc, Forget, NoPending, Settle, Current, Incomplete, NoOauth, ThrownFailures, GrantsKept, SetupInv, Atoms
    <2>7. EndsKnown'
      <3>1. CASE UNCHANGED st
        <4>1. ASSUME NEW p \in {run, page}, p.pc # "idle", p.rev = st.rev PROVE FALSE
          BY <1>0, <1>3, <4>1 DEF AlarmWatch, Wakes, Fires, IdleProc, SetupInv, RemovalsGuarded,
            WritesOrdered
        <4>2. UNCHANGED settled
          BY <1>0, <1>3, <3>1 DEF AlarmWatch, Settle, Current, Incomplete, Atoms
        <4> QED BY <1>0, <2>2, <3>1, <4>1, <4>2, EndsSame
      <3>2. CASE Replaced
        BY <1>0, <1>3, <2>2, <3>2, EndsReplaced DEF AlarmWatch, Settle, Current, Incomplete,
          ThrownFailures, Replaced, Atoms
      <3> QED BY <2>2, <3>1, <3>2 DEF Moves
    <2>8. GrantIsTended'
      BY <1>0, <1>3 DEF AlarmWatch, Wakes, Fires, Converging, EndAlarm, Tend, IdleProc, Forget, NoPending, Settle, Current, Incomplete, NoOauth, ThrownFailures, GrantIsTended, root, IdleProc, SetupInv, Atoms
    <2> QED BY <2>3, <2>4, <2>5, <2>6, <2>7, <2>8 DEF Kept
  <1>4. CASE AlarmHandover
    <2>1. Replaced
      BY <1>0, <1>4 DEF AlarmHandover, Wakes, Fires, Converging, Ready, NoOauth, EndAlarm, Tend, IdleProc, Forget, NoPending, Replaced, Moves, GrantsKept, RecordsKept, SetupInv, Atoms
    <2>2. Moves /\ Steady /\ Lasting
      BY <1>0, <1>4, <2>1 DEF AlarmHandover, Wakes, Fires, Converging, Ready, NoOauth, EndAlarm, Tend, IdleProc, Forget, NoPending, Moves, Steady, Lasting, Over, GrantsKept, SetupInv, Atoms
    <2>3. GrantsKept'
      BY <1>0, <1>4 DEF AlarmHandover, Wakes, Fires, Converging, Ready, NoOauth, EndAlarm, Tend, IdleProc, Forget, NoPending, GrantsKept, RecordsKept, Owns, SetupInv, Atoms
    <2>4. RecordsKept'
      BY <1>0, <1>4, <2>2, RecordsMove DEF AlarmHandover, Wakes, Fires, Converging, Ready, NoOauth, EndAlarm, Tend, IdleProc, Forget, NoPending, SetupInv, Atoms
    <2>5. WritesOrdered'
      BY <1>0, <1>4, <2>1, <2>2 DEF AlarmHandover, Wakes, Fires, Converging, Ready, NoOauth, EndAlarm, Tend, IdleProc, Forget, NoPending, WritesOrdered, Moves, Replaced, Steady, Unsent, SetupInv
    <2>6. RemovalsGuarded'
      BY <1>0, <1>4, <2>2, RemovalsMove DEF AlarmHandover, Wakes, Fires, Converging, Ready, NoOauth, EndAlarm, Tend, IdleProc, Forget, NoPending, GrantsKept, SetupInv, Atoms
    <2>7. EndsKnown'
      BY <1>0, <1>4, <2>1, <2>2, EndsReplaced DEF AlarmHandover, Wakes, Fires, Converging, Ready, NoOauth, EndAlarm, Tend, IdleProc, Forget, NoPending, GrantsKept, SetupInv, Atoms
    <2>8. GrantIsTended'
      BY <1>0, <1>4 DEF AlarmHandover, Wakes, Fires, Converging, Ready, NoOauth, EndAlarm, Tend, IdleProc, Forget, NoPending, GrantIsTended, root, IdleProc, SetupInv, Atoms
    <2> QED BY <2>3, <2>4, <2>5, <2>6, <2>7, <2>8 DEF Kept
  <1>5. CASE AlarmCleanup
    <2>1. /\ run.pc = "idle" /\ run'.pc = "removing" /\ run'.rev = st.rev
          /\ run'.attempt = pending.attempt /\ pending.attempt = st.oauth.attempt
          /\ pending.attempt \in Attempts /\ pending.attempt \in held
          /\ st.status = "CONVERGING" /\ st.cleanup = "removing"
      BY <1>0, <1>5 DEF AlarmCleanup, Wakes, Fires, Converging, Removing, Holds, Proc, IdleProc,
        GrantsKept, SetupInv, Atoms
    <2>2. UNCHANGED <<st, pending, page, cb, cbRev, grants, world, settled>>
      BY <1>5 DEF AlarmCleanup
    <2>3. GrantsKept'
      BY <1>0, <2>2 DEF GrantsKept, SetupInv
    <2>4. RecordsKept'
      BY <1>0, <2>1, <2>2 DEF RecordsKept, Owns, GrantsKept, SetupInv
    <2>5. WritesOrdered'
      BY <1>0, <2>1, <2>2 DEF WritesOrdered, Unsent, SetupInv
    <2>6. RemovalsGuarded'
      BY <1>0, <2>1, <2>2 DEF RemovalsGuarded, Unsent, Busy, root, SetupInv
    <2>7. EndsKnown'
      BY <1>0, <2>1, <2>2 DEF EndsKnown, Revokes, Alone, Over, root, SetupInv
    <2>8. GrantIsTended'
      BY <2>1 DEF GrantIsTended, IdleProc
    <2> QED BY <2>3, <2>4, <2>5, <2>6, <2>7, <2>8 DEF Kept
  <1>6. CASE AlarmCleanupLost
    <2>1. Replaced
      BY <1>0, <1>6 DEF AlarmCleanupLost, Wakes, Fires, Converging, Removing, Holds, EndAlarm, Tend, IdleProc, Forget, NoPending, Settle, Current, Incomplete, NoOauth, ThrownFailures, Replaced, Moves, GrantsKept, RecordsKept, SetupInv, Atoms
    <2>2. Moves /\ Steady /\ Lasting
      BY <1>0, <1>6, <2>1 DEF AlarmCleanupLost, Wakes, Fires, Converging, Removing, Holds, EndAlarm, Tend, IdleProc, Forget, NoPending, Settle, Current, Incomplete, NoOauth, ThrownFailures, Moves, Steady, Lasting, Over, GrantsKept, SetupInv, Atoms
    <2>3. GrantsKept'
      BY <1>0, <1>6 DEF AlarmCleanupLost, Wakes, Fires, Converging, Removing, Holds, EndAlarm, Tend, IdleProc, Forget, NoPending, Settle, Current, Incomplete, NoOauth, ThrownFailures, GrantsKept, RecordsKept, Owns, SetupInv, Atoms
    <2>4. RecordsKept'
      BY <1>0, <1>6, <2>2, RecordsMove DEF AlarmCleanupLost, Wakes, Fires, Converging, Removing, Holds, EndAlarm, Tend, IdleProc, Forget, NoPending, Settle, Current, Incomplete, NoOauth, ThrownFailures, SetupInv, Atoms
    <2>5. WritesOrdered'
      BY <1>0, <1>6, <2>1, <2>2 DEF AlarmCleanupLost, Wakes, Fires, Converging, Removing, Holds, EndAlarm, Tend, IdleProc, Forget, NoPending, Settle, Current, Incomplete, NoOauth, ThrownFailures, WritesOrdered, Moves, Replaced, Steady, Unsent, SetupInv
    <2>6. RemovalsGuarded'
      BY <1>0, <1>6, <2>2, RemovalsMove DEF AlarmCleanupLost, Wakes, Fires, Converging, Removing, Holds, EndAlarm, Tend, IdleProc, Forget, NoPending, Settle, Current, Incomplete, NoOauth, ThrownFailures, GrantsKept, SetupInv, Atoms
    <2>7. EndsKnown'
      BY <1>0, <1>6, <2>1, <2>2, EndsReplaced DEF AlarmCleanupLost, Wakes, Fires, Converging, Removing, Holds, EndAlarm, Tend, IdleProc, Forget, NoPending, Settle, Current, Incomplete, NoOauth, ThrownFailures, GrantsKept, SetupInv, Atoms
    <2>8. GrantIsTended'
      BY <1>0, <1>6 DEF AlarmCleanupLost, Wakes, Fires, Converging, Removing, Holds, EndAlarm, Tend, IdleProc, Forget, NoPending, Settle, Current, Incomplete, NoOauth, ThrownFailures, GrantIsTended, root, IdleProc, SetupInv, Atoms
    <2> QED BY <2>3, <2>4, <2>5, <2>6, <2>7, <2>8 DEF Kept
  <1>7. CASE AlarmLost
    <2>1. Replaced
      BY <1>0, <1>7 DEF AlarmLost, Wakes, Fires, Converging, Removing, Holds, EndAlarm, Tend, IdleProc, Forget, NoPending, Settle, Current, Incomplete, NoOauth, ThrownFailures, Replaced, Moves, GrantsKept, RecordsKept, SetupInv, Atoms
    <2>2. Moves /\ Steady /\ Lasting
      BY <1>0, <1>7, <2>1 DEF AlarmLost, Wakes, Fires, Converging, Removing, Holds, EndAlarm, Tend, IdleProc, Forget, NoPending, Settle, Current, Incomplete, NoOauth, ThrownFailures, Moves, Steady, Lasting, Over, GrantsKept, SetupInv, Atoms
    <2>3. GrantsKept'
      BY <1>0, <1>7 DEF AlarmLost, Wakes, Fires, Converging, Removing, Holds, EndAlarm, Tend, IdleProc, Forget, NoPending, Settle, Current, Incomplete, NoOauth, ThrownFailures, GrantsKept, RecordsKept, Owns, SetupInv, Atoms
    <2>4. RecordsKept'
      BY <1>0, <1>7, <2>2, RecordsMove DEF AlarmLost, Wakes, Fires, Converging, Removing, Holds, EndAlarm, Tend, IdleProc, Forget, NoPending, Settle, Current, Incomplete, NoOauth, ThrownFailures, SetupInv, Atoms
    <2>5. WritesOrdered'
      BY <1>0, <1>7, <2>1, <2>2 DEF AlarmLost, Wakes, Fires, Converging, Removing, Holds, EndAlarm, Tend, IdleProc, Forget, NoPending, Settle, Current, Incomplete, NoOauth, ThrownFailures, WritesOrdered, Moves, Replaced, Steady, Unsent, SetupInv
    <2>6. RemovalsGuarded'
      BY <1>0, <1>7, <2>2, RemovalsMove DEF AlarmLost, Wakes, Fires, Converging, Removing, Holds, EndAlarm, Tend, IdleProc, Forget, NoPending, Settle, Current, Incomplete, NoOauth, ThrownFailures, GrantsKept, SetupInv, Atoms
    <2>7. EndsKnown'
      BY <1>0, <1>7, <2>1, <2>2, EndsReplaced DEF AlarmLost, Wakes, Fires, Converging, Removing, Holds, EndAlarm, Tend, IdleProc, Forget, NoPending, Settle, Current, Incomplete, NoOauth, ThrownFailures, GrantsKept, SetupInv, Atoms
    <2>8. GrantIsTended'
      BY <1>0, <1>7 DEF AlarmLost, Wakes, Fires, Converging, Removing, Holds, EndAlarm, Tend, IdleProc, Forget, NoPending, Settle, Current, Incomplete, NoOauth, ThrownFailures, GrantIsTended, root, IdleProc, SetupInv, Atoms
    <2> QED BY <2>3, <2>4, <2>5, <2>6, <2>7, <2>8 DEF Kept
  <1>8. CASE AlarmPass
    <2>1. /\ run.pc = "idle" /\ run'.pc \in {"failing", "pass"} /\ run'.rev = st.rev
          /\ run'.attempt = pending.attempt /\ pending.attempt = st.oauth.attempt
          /\ pending.attempt \in Attempts /\ pending.attempt \in held
          /\ st.status = "CONVERGING" /\ st.cleanup # "removing" /\ root
      BY <1>0, <1>8 DEF AlarmPass, Wakes, Fires, Converging, Removing, Holds, Proc, IdleProc,
        GrantsKept, SetupInv, Atoms
    <2>2. UNCHANGED <<st, page, cb, cbRev, grants, world, settled>>
      BY <1>8 DEF AlarmPass
    <2>3. pending'.attempt = pending.attempt
      BY <1>8 DEF AlarmPass, SetupInv, TypeOK
    <2>4. GrantsKept'
      BY <1>0, <2>2, <2>3 DEF GrantsKept, SetupInv
    <2>5. RecordsKept'
      BY <1>0, <2>1, <2>2 DEF RecordsKept, Owns, GrantsKept, SetupInv
    <2>6. WritesOrdered'
      BY <1>0, <2>1, <2>2 DEF WritesOrdered, Unsent, SetupInv
    <2>7. RemovalsGuarded'
      BY <1>0, <2>1, <2>2, <2>3 DEF RemovalsGuarded, Unsent, Busy, root, SetupInv
    <2>8. EndsKnown'
      BY <1>0, <2>1, <2>2 DEF EndsKnown, Revokes, Alone, Over, root, SetupInv
    <2>9. GrantIsTended'
      BY <2>1 DEF GrantIsTended, IdleProc
    <2> QED BY <2>4, <2>5, <2>6, <2>7, <2>8, <2>9 DEF Kept
  <1> QED BY <1>1, <1>2, <1>3, <1>4, <1>5, <1>6, <1>7, <1>8 DEF Alarm

\* A process that goes on keeps its attempt and its revision.
LEMMA RunGoesFacts ==
  ASSUME TypeOK, NEW pc, RunGoes(pc)
  PROVE  run'.pc = pc /\ run'.attempt = run.attempt /\ run'.rev = run.rev
  BY DEF RunGoes, TypeOK, Procs

\* A pass that goes on without writing the record.
LEMMA BusyGoes ==
  ASSUME SetupInv, run.pc \in Busy, run'.pc \in Busy,
         run'.attempt = run.attempt, run'.rev = run.rev,
         UNCHANGED <<st, pending, page, cb, cbRev, grants, host, removedBy, uploaded, settled>>,
         journal' = journal \/ (~Unsent /\ ~Unsent'),
         run'.pc = "verified" => host = "final",
         run'.pc \in {"upload", "handed_over"} => ~Unsent
  PROVE  Kept'
  <1> USE DEF grants
  <1>0. Atoms /\ SetupInv /\ (Unsent' <=> Unsent)
    BY AtomsHold DEF SetupInv, Unsent
  <1>1. GrantsKept'
    BY <1>0 DEF GrantsKept, SetupInv
  <1>2. RecordsKept'
    BY <1>0 DEF RecordsKept, Owns, Busy, SetupInv
  <1>3. WritesOrdered'
    BY <1>0 DEF WritesOrdered, SetupInv
  <1>4. RemovalsGuarded'
    BY <1>0 DEF RemovalsGuarded, Busy, root, SetupInv
  <1>5. EndsKnown'
    BY <1>0 DEF EndsKnown, Revokes, Alone, Over, Busy, root, SetupInv
  <1>6. GrantIsTended'
    BY DEF GrantIsTended, IdleProc, Busy
  <1> QED BY <1>1, <1>2, <1>3, <1>4, <1>5, <1>6 DEF Kept

\* A process that revoked what it held may settle its attempt.
LEMMA SettlesHonestly ==
  ASSUME SetupInv, NEW p \in {run, page}, p.pc # "idle", p.rev = st.rev, Revoked(p.attempt),
         UNCHANGED <<cb, removedBy>>
  PROVE  /\ cb'[p.attempt] \in {"handed", "ended"}
         /\ Alone(p.attempt) => tok'[p.attempt] \notin {"live", "refused"}
  <1>1. Atoms /\ p.attempt \in Attempts /\ cb[p.attempt] = "handed"
    BY AtomsHold DEF SetupInv, RecordsKept, Owns
  <1>2. Alone(p.attempt) => p.attempt \in held \/ Over(p.attempt)
    BY DEF SetupInv, EndsKnown, Revokes
  <1> QED BY <1>1, <1>2 DEF Revoked, Over, Atoms

\* The cleanup request cannot write the record while a pass runs.
LEMMA PageIsStale ==
  ASSUME SetupInv, run.pc \in Busy, page.pc # "idle"
  PROVE  page.rev # st.rev
  BY DEF SetupInv, RemovalsGuarded

LEMMA PassKeeps ==
  ASSUME SetupInv, Work
  PROVE  Kept'
  <1> USE DEF driver, procs, grants, world
  <1>0. Atoms /\ SetupInv
    BY AtomsHold DEF SetupInv
  <1>1. CASE PassJournal
    <2>1. run.pc = "pass" /\ uploaded' = uploaded /\ (~Unsent => ~Unsent')
      BY <1>1 DEF PassJournal, Unsent
    <2>2. UNCHANGED <<st, driver, procs, grants, host, removedBy, settled>>
      BY <1>1 DEF PassJournal
    <2>3. GrantsKept'
      BY <1>0, <2>2 DEF GrantsKept, SetupInv
    <2>4. RecordsKept'
      BY <1>0, <2>2 DEF RecordsKept, Owns, SetupInv
    <2>5. WritesOrdered'
      BY <1>0, <2>1, <2>2 DEF WritesOrdered, SetupInv
    <2>6. RemovalsGuarded'
      BY <1>0, <2>1, <2>2 DEF RemovalsGuarded, Busy, root, SetupInv
    <2>7. EndsKnown'
      BY <1>0, <2>2 DEF EndsKnown, Revokes, Alone, Over, root, SetupInv
    <2>8. GrantIsTended'
      BY <1>0, <2>2 DEF GrantIsTended, root, SetupInv
    <2> QED BY <2>3, <2>4, <2>5, <2>6, <2>7, <2>8 DEF Kept
  <1>2. CASE PassPause
    <2>1. UNCHANGED st
      BY <1>0, <1>2 DEF PassPause, EndAlarm, Tend, IdleProc, Forget, NoPending, GrantsKept, RecordsKept, SetupInv, Atoms
    <2>2. Moves /\ Steady /\ Lasting
      BY <1>0, <1>2, <2>1 DEF PassPause, EndAlarm, Tend, IdleProc, Forget, NoPending, Moves, Steady, Lasting, Over, GrantsKept, SetupInv, Atoms
    <2>3. GrantsKept'
      BY <1>0, <1>2 DEF PassPause, EndAlarm, Tend, IdleProc, Forget, NoPending, GrantsKept, RecordsKept, Owns, SetupInv, Atoms
    <2>4. RecordsKept'
      BY <1>0, <1>2, <2>2, RecordsMove DEF PassPause, EndAlarm, Tend, IdleProc, Forget, NoPending, SetupInv, Atoms
    <2>5. WritesOrdered'
      BY <1>0, <1>2, <2>1, <2>2 DEF PassPause, EndAlarm, Tend, IdleProc, Forget, NoPending, WritesOrdered, Moves, Replaced, Steady, Unsent, SetupInv
    <2>6. RemovalsGuarded'
      BY <1>0, <1>2, <2>2, RemovalsMove DEF PassPause, EndAlarm, Tend, IdleProc, Forget, NoPending, GrantsKept, SetupInv, Atoms
    <2>7. EndsKnown'
      BY <1>0, <1>2, <2>1, <2>2, EndsSame DEF PassPause, EndAlarm, Tend, IdleProc, Forget, NoPending, GrantsKept, SetupInv, Atoms
    <2>8. GrantIsTended'
      BY <1>0, <1>2 DEF PassPause, EndAlarm, Tend, IdleProc, Forget, NoPending, GrantIsTended, root, IdleProc, SetupInv, Atoms
    <2> QED BY <2>3, <2>4, <2>5, <2>6, <2>7, <2>8 DEF Kept
  <1>3. CASE PassFails
    BY <1>0, <1>3, RunGoesFacts, BusyGoes DEF PassFails, Busy, SetupInv
  <1>4. CASE PassHandover
    <2>1. CASE Current(run.rev)
      <3>1. /\ run.pc = "pass" /\ run'.pc = "upload" /\ run'.attempt = run.attempt
            /\ run'.rev = run.rev + 1
        <4>1. run' = [run EXCEPT !.pc = "upload", !.rev = run.rev + 1] /\ run.pc = "pass"
          BY <1>4, <2>1 DEF PassHandover
        <4> QED BY <4>1 DEF SetupInv, TypeOK, Procs
      <3>2. /\ st'.rev = st.rev + 1 /\ st'.status = st.status /\ st'.failure = st.failure
            /\ st'.oauth.attempt = st.oauth.attempt /\ st'.oauth.phase = "finalizing"
            /\ st'.cleanup = st.cleanup
        BY <1>4, <2>1 DEF PassHandover, Finalizing, InPhase
      <3>3. UNCHANGED <<pending, page, cb, cbRev, grants, world, settled>> /\ alarm' = "later"
        BY <1>4, <2>1 DEF PassHandover
      <3>4. run.rev = st.rev /\ st.status = "CONVERGING" /\ st.oauth.attempt = run.attempt
        BY <1>0, <2>1, <3>1 DEF Current, SetupInv, RecordsKept, Owns, Atoms
      <3>5. ~Unsent /\ ~Unsent'
        BY <1>4, <3>3 DEF PassHandover, Unsent
      <3>6. page.pc # "idle" => page.rev < st.rev /\ st.oauth.attempt # page.attempt
        BY <1>0, <3>1, <3>5 DEF SetupInv, RecordsKept, RemovalsGuarded, Owns, Busy
      <3>7. GrantsKept'
        BY <1>0, <3>3 DEF GrantsKept, SetupInv
      <3>8. RecordsKept'
        <4>1. Owns(run)'
          BY <1>0, <3>1, <3>2, <3>3, <3>4 DEF SetupInv, RecordsKept, Owns
        <4>2. Owns(page)'
          BY <1>0, <3>2, <3>3, <3>6 DEF SetupInv, RecordsKept, Owns, Atoms
        <4>3. \A a \in Attempts : cb'[a] = "exchanging" => cbRev'[a] < st'.rev
          BY <1>0, <3>2, <3>3 DEF SetupInv, RecordsKept, Atoms
        <4> QED BY <1>0, <3>2, <3>4, <4>1, <4>2, <4>3 DEF RecordsKept
      <3>9. WritesOrdered'
        BY <1>0, <3>1, <3>2, <3>3, <3>5 DEF WritesOrdered, SetupInv
      <3>10. RemovalsGuarded'
        BY <1>0, <3>1, <3>2, <3>3, <3>5, <3>6 DEF RemovalsGuarded, Busy, root, SetupInv, Atoms
      <3>11. EndsKnown'
        <4>1. Revokes(run)'
          BY <1>0, <3>1, <3>3, <3>4 DEF SetupInv, EndsKnown, Revokes, Alone, Over, root
        <4>2. Revokes(page)'
          BY <1>0, <3>2, <3>3, <3>6 DEF Revokes, Atoms
        <4> QED BY <3>2, <3>4, <4>1, <4>2 DEF EndsKnown
      <3>12. GrantIsTended'
        BY <3>3 DEF GrantIsTended
      <3> QED BY <3>7, <3>8, <3>9, <3>10, <3>11, <3>12 DEF Kept
    <2>2. CASE ~Current(run.rev)
      BY <1>0, <1>4, <2>2, RunGoesFacts, BusyGoes DEF PassHandover, Busy, SetupInv
    <2> QED BY <2>1, <2>2
  <1>5. CASE Upload
    <2>1. run.pc = "upload" /\ UNCHANGED <<st, driver, procs, grants, journal, host, removedBy, settled>>
      BY <1>5 DEF Upload
    <2>2. GrantsKept'
      BY <1>0, <2>1 DEF GrantsKept, SetupInv
    <2>3. RecordsKept'
      BY <1>0, <2>1 DEF RecordsKept, Owns, SetupInv
    <2>4. WritesOrdered'
      BY <1>0, <1>5, <2>1 DEF Upload, WritesOrdered, Unsent, SetupInv
    <2>5. RemovalsGuarded'
      BY <1>0, <2>1 DEF RemovalsGuarded, Unsent, root, SetupInv
    <2>6. EndsKnown'
      BY <1>0, <2>1 DEF EndsKnown, Revokes, Alone, Over, root, SetupInv
    <2>7. GrantIsTended'
      BY <1>0, <2>1 DEF GrantIsTended, root, SetupInv
    <2> QED BY <2>2, <2>3, <2>4, <2>5, <2>6, <2>7 DEF Kept
  <1>6. CASE PassHandedOver
    <2>1. ~Unsent
      BY <1>0, <1>6 DEF PassHandedOver, SetupInv, WritesOrdered
    <2> QED BY <1>0, <1>6, <2>1, RunGoesFacts, BusyGoes DEF PassHandedOver, Busy, SetupInv
  <1>7. CASE PassVerified
    <2>1. ~Unsent /\ ~Unsent'
      BY <1>7 DEF PassVerified, Unsent
    <2> QED BY <1>0, <1>7, <2>1, RunGoesFacts, BusyGoes DEF PassVerified, Busy, SetupInv
  <1>8. CASE ClassifyRemoval
    <2>0. /\ run.pc = "failing" /\ run'.pc = "idle" /\ Unsent
          /\ UNCHANGED <<pending, page, cb, cbRev, grants, world, settled>>
          /\ alarm' \in {"now", "later"}
      BY <1>8 DEF ClassifyRemoval, EndAlarm, Tend, IdleProc
    <2>1. CASE Current(run.rev)
      <3>1. /\ st'.rev = st.rev + 1 /\ st'.status = st.status /\ st'.cleanup = "removing"
            /\ st'.oauth = st.oauth
        BY <1>8, <2>1 DEF ClassifyRemoval, CleanupPending
      <3>2. st.status = "CONVERGING" /\ st.oauth.attempt = run.attempt
        BY <1>0, <2>0, <2>1 DEF Current, SetupInv, RecordsKept, Owns, Atoms
      <3>3. page.pc # "idle" => page.rev < st.rev /\ st.oauth.attempt # page.attempt
        BY <1>0, <2>0 DEF SetupInv, RecordsKept, RemovalsGuarded, Owns, Busy
      <3>4. GrantsKept'
        BY <1>0, <2>0 DEF GrantsKept, SetupInv
      <3>5. RecordsKept'
        <4>1. Owns(page)'
          BY <1>0, <2>0, <3>1, <3>3 DEF SetupInv, RecordsKept, Owns, Atoms
        <4>2. \A a \in Attempts : cb'[a] = "exchanging" => cbRev'[a] < st'.rev
          BY <1>0, <2>0, <3>1 DEF SetupInv, RecordsKept, Atoms
        <4> QED BY <1>0, <2>0, <3>1, <3>2, <4>1, <4>2 DEF RecordsKept, Owns
      <3>6. WritesOrdered'
        BY <1>0, <2>0, <3>1 DEF WritesOrdered, Unsent, SetupInv
      <3>7. RemovalsGuarded'
        BY <1>0, <2>0, <3>1, <3>3 DEF RemovalsGuarded, Unsent, Busy, root, SetupInv, Atoms
      <3>8. EndsKnown'
        BY <1>0, <2>0, <3>1, <3>2, <3>3 DEF EndsKnown, Revokes, Atoms
      <3>9. GrantIsTended'
        BY <2>0 DEF GrantIsTended
      <3> QED BY <3>4, <3>5, <3>6, <3>7, <3>8, <3>9 DEF Kept
    <2>2. CASE ~Current(run.rev)
      <3>1. UNCHANGED st /\ Moves /\ Steady /\ Lasting
        BY <1>0, <1>8, <2>0, <2>2 DEF ClassifyRemoval, Moves, Steady, Lasting, Over
      <3>2. GrantsKept'
        BY <1>0, <2>0 DEF GrantsKept, SetupInv
      <3>3. RecordsKept'
        BY <1>0, <2>0, <3>1, RecordsMove
      <3>4. WritesOrdered'
        BY <1>0, <2>0, <3>1 DEF WritesOrdered, Unsent, SetupInv
      <3>5. RemovalsGuarded'
        BY <1>0, <2>0, <3>1, RemovalsMove
      <3>6. EndsKnown'
        BY <1>0, <2>0, <3>1, EndsSame
      <3>7. GrantIsTended'
        BY <2>0 DEF GrantIsTended
      <3> QED BY <3>2, <3>3, <3>4, <3>5, <3>6, <3>7 DEF Kept
    <2> QED BY <2>1, <2>2
  <1>9. CASE ClassifyRecovery
    BY <1>0, <1>9, RunGoesFacts, BusyGoes DEF ClassifyRecovery, Busy, SetupInv
  <1>10. CASE PassSettles
    <2>1. Moves
      BY <1>0, <1>10 DEF PassSettles, Revoked, Refused, EndAlarm, Tend, IdleProc, Forget, NoPending, Settle, Current, Incomplete, NoOauth, ThrownFailures, Replaced, Moves, GrantsKept, RecordsKept, SetupInv, Atoms
    <2>2. Moves /\ Steady /\ Lasting
      BY <1>0, <1>10, <2>1 DEF PassSettles, Ousts, Revoked, Refused, EndAlarm, Tend, IdleProc, Forget, NoPending, Settle, Current, Incomplete, NoOauth, ThrownFailures, Moves, Steady, Lasting, Over, GrantsKept, SetupInv, Atoms
    <2>3. GrantsKept'
      BY <1>0, <1>10 DEF PassSettles, Revoked, Refused, EndAlarm, Tend, IdleProc, Forget, NoPending, Settle, Current, Incomplete, NoOauth, ThrownFailures, GrantsKept, RecordsKept, Owns, SetupInv, Atoms
    <2>4. RecordsKept'
      BY <1>0, <1>10, <2>2, RecordsMove DEF PassSettles, Revoked, Refused, EndAlarm, Tend, IdleProc, Forget, NoPending, Settle, Current, Incomplete, NoOauth, ThrownFailures, SetupInv, Atoms
    <2>5. WritesOrdered'
      BY <1>0, <1>10, <2>1, <2>2 DEF PassSettles, Revoked, Refused, EndAlarm, Tend, IdleProc, Forget, NoPending, Settle, Current, Incomplete, NoOauth, ThrownFailures, WritesOrdered, Moves, Replaced, Steady, Unsent, SetupInv
    <2>6. RemovalsGuarded'
      BY <1>0, <1>10, <2>2, RemovalsMove DEF PassSettles, Revoked, Refused, EndAlarm, Tend, IdleProc, Forget, NoPending, Settle, Current, Incomplete, NoOauth, ThrownFailures, GrantsKept, SetupInv, Atoms
    <2>7. EndsKnown'
      <3>0. run.pc \in Busy /\ run'.pc = "idle" /\ UNCHANGED <<page, cb, removedBy>>
        BY <1>10 DEF PassSettles, EndAlarm, IdleProc, Busy
      <3>1. ASSUME NEW p \in {run, page} \cap {run', page'}, p.pc # "idle", p.rev = st.rev PROVE FALSE
        BY <1>0, <3>0, <3>1, PageIsStale
      <3>2. CASE UNCHANGED <<st, settled>>
        BY <1>0, <2>2, <3>1, <3>2, EndsSame
      <3>3. CASE Replaced
        <4>1. run.rev = st.rev
          BY <1>0, <1>10, <3>3 DEF PassSettles, Settle, Current, Replaced, Atoms
        <4>2. /\ st'.status = "INCOMPLETE" => settled' = run.attempt
              /\ st'.status = "INCOMPLETE" /\ st'.failure \in ThrownFailures => Revoked(run.attempt)
          BY <1>10, <3>3, <4>1 DEF PassSettles, Settle, Current, Incomplete, ThrownFailures, Replaced
        <4>3. Revoked(run.attempt) => /\ cb'[run.attempt] \in {"handed", "ended"}
                                      /\ Alone(run.attempt) => tok'[run.attempt] \notin {"live", "refused"}
          BY <1>0, <3>0, <4>1, SettlesHonestly DEF Busy
        <4>4. settled' = run.attempt /\ Alone(settled)' => Alone(run.attempt)
          BY <2>2, <3>0 DEF Alone, root, Steady
        <4>5. /\ st'.status = "INCOMPLETE" /\ st'.failure \in ThrownFailures
              => cb'[settled'] \in {"handed", "ended"} /\ (Alone(settled) => Over(settled))'
          BY <4>2, <4>3, <4>4 DEF Over
        <4> QED BY <1>0, <2>2, <3>3, <4>5, EndsReplaced
      <3>4. UNCHANGED st => UNCHANGED settled
        BY <1>0, <1>10 DEF PassSettles, Settle, Incomplete, Atoms
      <3> QED BY <2>2, <3>2, <3>3, <3>4 DEF Moves
    <2>8. GrantIsTended'
      BY <1>0, <1>10 DEF PassSettles, Revoked, Refused, EndAlarm, Tend, IdleProc, Forget, NoPending, Settle, Current, Incomplete, NoOauth, ThrownFailures, GrantIsTended, root, IdleProc, SetupInv, Atoms
    <2> QED BY <2>3, <2>4, <2>5, <2>6, <2>7, <2>8 DEF Kept
  <1>11. CASE PassLeaves
    <2>1. Moves
      BY <1>0, <1>11 DEF PassLeaves, Revoked, Refused, EndAlarm, Tend, IdleProc, Forget, NoPending, Settle, Current, Incomplete, NoOauth, ThrownFailures, Replaced, Moves, GrantsKept, RecordsKept, SetupInv, Atoms
    <2>2. Moves /\ Steady /\ Lasting
      BY <1>0, <1>11, <2>1 DEF PassLeaves, Ousts, Revoked, Refused, EndAlarm, Tend, IdleProc, Forget, NoPending, Settle, Current, Incomplete, NoOauth, ThrownFailures, Moves, Steady, Lasting, Over, GrantsKept, SetupInv, Atoms
    <2>3. GrantsKept'
      BY <1>0, <1>11 DEF PassLeaves, Revoked, Refused, EndAlarm, Tend, IdleProc, Forget, NoPending, Settle, Current, Incomplete, NoOauth, ThrownFailures, GrantsKept, RecordsKept, Owns, SetupInv, Atoms
    <2>4. RecordsKept'
      BY <1>0, <1>11, <2>2, RecordsMove DEF PassLeaves, Revoked, Refused, EndAlarm, Tend, IdleProc, Forget, NoPending, Settle, Current, Incomplete, NoOauth, ThrownFailures, SetupInv, Atoms
    <2>5. WritesOrdered'
      BY <1>0, <1>11, <2>1, <2>2 DEF PassLeaves, Revoked, Refused, EndAlarm, Tend, IdleProc, Forget, NoPending, Settle, Current, Incomplete, NoOauth, ThrownFailures, WritesOrdered, Moves, Replaced, Steady, Unsent, SetupInv
    <2>6. RemovalsGuarded'
      BY <1>0, <1>11, <2>2, RemovalsMove DEF PassLeaves, Revoked, Refused, EndAlarm, Tend, IdleProc, Forget, NoPending, Settle, Current, Incomplete, NoOauth, ThrownFailures, GrantsKept, SetupInv, Atoms
    <2>7. EndsKnown'
      <3>0. run.pc \in Busy /\ run'.pc = "idle" /\ UNCHANGED <<page, cb, removedBy>>
        BY <1>11 DEF PassLeaves, EndAlarm, IdleProc, Busy
      <3>1. ASSUME NEW p \in {run, page} \cap {run', page'}, p.pc # "idle", p.rev = st.rev PROVE FALSE
        BY <1>0, <3>0, <3>1, PageIsStale
      <3>2. CASE UNCHANGED <<st, settled>>
        BY <1>0, <2>2, <3>1, <3>2, EndsSame
      <3>3. CASE Replaced
        <4>1. run.rev = st.rev
          BY <1>0, <1>11, <3>3 DEF PassLeaves, Settle, Current, Replaced, Atoms
        <4>2. /\ st'.status = "INCOMPLETE" => settled' = run.attempt
              /\ st'.status = "INCOMPLETE" /\ st'.failure \in ThrownFailures => Revoked(run.attempt)
          BY <1>11, <3>3, <4>1 DEF PassLeaves, Settle, Current, Incomplete, ThrownFailures, Replaced
        <4>3. Revoked(run.attempt) => /\ cb'[run.attempt] \in {"handed", "ended"}
                                      /\ Alone(run.attempt) => tok'[run.attempt] \notin {"live", "refused"}
          BY <1>0, <3>0, <4>1, SettlesHonestly DEF Busy
        <4>4. settled' = run.attempt /\ Alone(settled)' => Alone(run.attempt)
          BY <2>2, <3>0 DEF Alone, root, Steady
        <4>5. /\ st'.status = "INCOMPLETE" /\ st'.failure \in ThrownFailures
              => cb'[settled'] \in {"handed", "ended"} /\ (Alone(settled) => Over(settled))'
          BY <4>2, <4>3, <4>4 DEF Over
        <4> QED BY <1>0, <2>2, <3>3, <4>5, EndsReplaced
      <3>4. UNCHANGED st => UNCHANGED settled
        BY <1>0, <1>11 DEF PassLeaves, Settle, Incomplete, Atoms
      <3> QED BY <2>2, <3>2, <3>3, <3>4 DEF Moves
    <2>8. GrantIsTended'
      BY <1>0, <1>11 DEF PassLeaves, Revoked, Refused, EndAlarm, Tend, IdleProc, Forget, NoPending, Settle, Current, Incomplete, NoOauth, ThrownFailures, GrantIsTended, root, IdleProc, SetupInv, Atoms
    <2> QED BY <2>3, <2>4, <2>5, <2>6, <2>7, <2>8 DEF Kept
  <1>12. CASE PassReady
    <2>0. host = "final"
      BY <1>0, <1>12 DEF PassReady, SetupInv, WritesOrdered
    <2>1. Moves
      <3>1. CASE st' = Ready
        BY <1>0, <2>0, <3>1 DEF Ready, NoOauth, Moves, Replaced, Atoms
      <3>2. CASE st' # Ready
        BY <1>0, <1>12, <3>2 DEF PassReady, Settle, Incomplete, NoOauth, Moves, Replaced, Atoms
      <3> QED BY <3>1, <3>2
    <2>2. Moves /\ Steady /\ Lasting
      BY <1>0, <1>12, <2>1 DEF PassReady, Ousts, Ready, Revoked, Refused, EndAlarm, Tend, IdleProc, Forget, NoPending, Settle, Current, Incomplete, NoOauth, ThrownFailures, Moves, Steady, Lasting, Over, GrantsKept, SetupInv, Atoms
    <2>3. GrantsKept'
      BY <1>0, <1>12 DEF PassReady, Ready, Revoked, Refused, EndAlarm, Tend, IdleProc, Forget, NoPending, Settle, Current, Incomplete, NoOauth, ThrownFailures, GrantsKept, RecordsKept, Owns, SetupInv, Atoms
    <2>4. RecordsKept'
      BY <1>0, <1>12, <2>2, RecordsMove DEF PassReady, Ready, Revoked, Refused, EndAlarm, Tend, IdleProc, Forget, NoPending, Settle, Current, Incomplete, NoOauth, ThrownFailures, SetupInv, Atoms
    <2>5. WritesOrdered'
      BY <1>0, <1>12, <2>1, <2>2 DEF PassReady, Ready, Revoked, Refused, EndAlarm, Tend, IdleProc, Forget, NoPending, Settle, Current, Incomplete, NoOauth, ThrownFailures, WritesOrdered, Moves, Replaced, Steady, Unsent, SetupInv
    <2>6. RemovalsGuarded'
      BY <1>0, <1>12, <2>2, RemovalsMove DEF PassReady, Ready, Revoked, Refused, EndAlarm, Tend, IdleProc, Forget, NoPending, Settle, Current, Incomplete, NoOauth, ThrownFailures, GrantsKept, SetupInv, Atoms
    <2>7. EndsKnown'
      <3>0. run.pc \in Busy /\ run'.pc = "idle" /\ UNCHANGED <<page, cb, removedBy>>
        BY <1>12 DEF PassReady, EndAlarm, IdleProc, Busy
      <3>1. ASSUME NEW p \in {run, page} \cap {run', page'}, p.pc # "idle", p.rev = st.rev PROVE FALSE
        BY <1>0, <3>0, <3>1, PageIsStale
      <3>2. CASE UNCHANGED <<st, settled>>
        BY <1>0, <2>2, <3>1, <3>2, EndsSame
      <3>3. CASE Replaced
        <4>1. run.rev = st.rev
          BY <1>0, <1>12, <3>3 DEF PassReady, Settle, Current, Replaced, Atoms
        <4>2. /\ st'.status = "INCOMPLETE" => settled' = run.attempt
              /\ st'.status = "INCOMPLETE" /\ st'.failure \in ThrownFailures => Revoked(run.attempt)
          BY <1>12, <3>3, <4>1 DEF PassReady, Ready, Settle, Current, Incomplete, ThrownFailures, Replaced
        <4>3. Revoked(run.attempt) => /\ cb'[run.attempt] \in {"handed", "ended"}
                                      /\ Alone(run.attempt) => tok'[run.attempt] \notin {"live", "refused"}
          BY <1>0, <3>0, <4>1, SettlesHonestly DEF Busy
        <4>4. settled' = run.attempt /\ Alone(settled)' => Alone(run.attempt)
          BY <2>2, <3>0 DEF Alone, root, Steady
        <4>5. /\ st'.status = "INCOMPLETE" /\ st'.failure \in ThrownFailures
              => cb'[settled'] \in {"handed", "ended"} /\ (Alone(settled) => Over(settled))'
          BY <4>2, <4>3, <4>4 DEF Over
        <4> QED BY <1>0, <2>2, <3>3, <4>5, EndsReplaced
      <3>4. UNCHANGED st => UNCHANGED settled
        BY <1>0, <1>12 DEF PassReady, Settle, Incomplete, Atoms
      <3> QED BY <2>2, <3>2, <3>3, <3>4 DEF Moves
    <2>8. GrantIsTended'
      BY <1>0, <1>12 DEF PassReady, Ready, Revoked, Refused, EndAlarm, Tend, IdleProc, Forget, NoPending, Settle, Current, Incomplete, NoOauth, ThrownFailures, GrantIsTended, root, IdleProc, SetupInv, Atoms
    <2> QED BY <2>3, <2>4, <2>5, <2>6, <2>7, <2>8 DEF Kept
  <1> QED BY <1>1, <1>2, <1>3, <1>4, <1>5, <1>6, <1>7, <1>8, <1>9, <1>10, <1>11, <1>12 DEF Work

LEMMA CleanupKeeps ==
  ASSUME SetupInv, PageCleanup \/ \E p \in {run, page} : Cleanup(p)
  PROVE  Kept'
  <1> USE DEF driver, procs, grants, world
  <1>0. Atoms /\ SetupInv
    BY AtomsHold DEF SetupInv
  <1>1. CASE PageCleanup
    <2>1. /\ page.pc = "idle" /\ root /\ st.status = "CONVERGING" /\ st.cleanup = "removing"
          /\ UNCHANGED <<run, cb, cbRev, tok, ousted, world, alarm>>
      BY <1>1 DEF PageCleanup, Removing, Converging, IdleProc
    <2>2. CASE Holds
      <3>1. /\ page'.pc = "removing" /\ page'.rev = st.rev
            /\ page'.attempt = pending.attempt /\ pending.attempt = st.oauth.attempt
            /\ pending.attempt \in Attempts /\ pending.attempt \in held
            /\ UNCHANGED <<st, pending, held, settled>>
        BY <1>0, <1>1, <2>2 DEF PageCleanup, Holds, Proc, GrantsKept, SetupInv, Atoms
      <3>2. GrantsKept'
        BY <1>0, <2>1, <3>1 DEF GrantsKept, SetupInv
      <3>3. RecordsKept'
        BY <1>0, <2>1, <3>1 DEF RecordsKept, Owns, GrantsKept, SetupInv
      <3>4. WritesOrdered'
        BY <1>0, <2>1, <3>1 DEF WritesOrdered, Unsent, SetupInv
      <3>5. RemovalsGuarded'
        BY <1>0, <2>1, <3>1 DEF RemovalsGuarded, Unsent, Busy, root, SetupInv
      <3>6. EndsKnown'
        BY <1>0, <2>1, <3>1 DEF EndsKnown, Revokes, Alone, Over, root, SetupInv
      <3>7. GrantIsTended'
        BY <1>0, <2>1, <3>1 DEF GrantIsTended, root, SetupInv
      <3> QED BY <3>2, <3>3, <3>4, <3>5, <3>6, <3>7 DEF Kept
    <2>3. CASE ~Holds
      <3>1. Forget /\ Settle(st.rev, st.oauth.attempt, "revocation_unconfirmed", "recovery_required")
            /\ UNCHANGED page
        BY <1>1, <2>3 DEF PageCleanup
      <3>2. Replaced /\ st'.failure = "revocation_unconfirmed" /\ st'.oauth.attempt = NoAttempt
        BY <1>0, <3>1 DEF Replaced, Settle, Current, Incomplete, NoOauth, Atoms
      <3>3. Moves /\ Steady
        BY <1>0, <2>1, <3>1, <3>2 DEF Moves, Steady
      <3>4. GrantsKept'
        BY <1>0, <2>1, <3>1 DEF Forget, NoPending, GrantsKept, SetupInv
      <3>5. RecordsKept'
        BY <1>0, <2>1, <3>3, RecordsMove
      <3>6. WritesOrdered'
        BY <1>0, <2>1, <3>2 DEF WritesOrdered, Unsent, Replaced, SetupInv
      <3>7. RemovalsGuarded'
        BY <1>0, <2>1, <3>1, <3>3, RemovalsMove DEF Forget, NoPending, Atoms
      <3>8. EndsKnown'
        BY <1>0, <3>2, <3>3, EndsReplaced DEF ThrownFailures
      <3>9. GrantIsTended'
        BY <3>1 DEF Forget, NoPending, GrantIsTended
      <3> QED BY <3>4, <3>5, <3>6, <3>7, <3>8, <3>9 DEF Kept
    <2> QED BY <2>2, <2>3
  <1>2. ASSUME NEW p \in {run, page}, RemoveRoot(p) PROVE Kept'
    <2>1. /\ p.pc = "removing" /\ root /\ tok[p.attempt] # "revoked" /\ removedBy' = p.attempt
          /\ UNCHANGED <<st, driver, procs, grants, journal, uploaded, host, settled>>
      BY <1>2 DEF RemoveRoot
    <2>2. p.attempt \in Attempts /\ cb[p.attempt] = "handed" /\ tok[p.attempt] \in {"live", "refused"}
      BY <1>0, <2>1 DEF SetupInv, RecordsKept, GrantsKept, Owns, Atoms
    <2>3. p.attempt \in held => Unsent /\ run.pc \notin Busy
      <3>1. CASE p = run BY <1>0, <2>1, <3>1 DEF SetupInv, RemovalsGuarded, Busy
      <3>2. CASE p = page BY <1>0, <2>1, <3>2 DEF SetupInv, RemovalsGuarded, GrantsKept
      <3> QED BY <3>1, <3>2
    <2>4. ~root'
      BY <1>0, <2>1, <2>2 DEF root, Atoms
    <2>5. GrantsKept'
      BY <1>0, <2>1 DEF GrantsKept, SetupInv
    <2>6. RecordsKept'
      BY <1>0, <2>1 DEF RecordsKept, Owns, SetupInv
    <2>7. WritesOrdered'
      BY <1>0, <2>1 DEF WritesOrdered, Unsent, SetupInv
    <2>8. RemovalsGuarded'
      BY <1>0, <2>1, <2>2, <2>3 DEF RemovalsGuarded, Unsent, SetupInv
    <2>9. EndsKnown'
      BY <1>0, <2>1, <2>4 DEF EndsKnown, Revokes, Alone, SetupInv
    <2>10. GrantIsTended'
      BY <2>4 DEF GrantIsTended
    <2> QED BY <2>5, <2>6, <2>7, <2>8, <2>9, <2>10 DEF Kept
  <1>3. ASSUME NEW p \in {run, page}, RemovalEnds(p) PROVE Kept'
    <2>1. PICK pc \in {"removed", "kept"} : p.pc = "removing" /\ Outcome(p, pc)
      BY <1>3 DEF RemovalEnds
    <2>2. UNCHANGED <<st, driver, cb, cbRev, grants, world, settled>>
      BY <1>3 DEF RemovalEnds
    <2>3. /\ run'.attempt = run.attempt /\ run'.rev = run.rev
          /\ page'.attempt = page.attempt /\ page'.rev = page.rev
          /\ \/ run'.pc = run.pc
             \/ run.pc = "removing" /\ run'.pc \in {"removed", "kept"}
          /\ \/ page'.pc = page.pc
             \/ page.pc = "removing" /\ page'.pc \in {"removed", "kept"}
      <3>1. CASE p = run /\ RunGoes(pc) /\ UNCHANGED page
        BY <1>0, <2>1, <3>1, RunGoesFacts DEF SetupInv
      <3>2. CASE p = page /\ page' = [page EXCEPT !.pc = pc] /\ UNCHANGED run
        BY <1>0, <2>1, <3>2 DEF SetupInv, TypeOK, Procs
      <3> QED BY <2>1, <3>1, <3>2 DEF Outcome
    <2>4. GrantsKept'
      BY <1>0, <2>2 DEF GrantsKept, SetupInv
    <2>5. RecordsKept'
      BY <1>0, <2>2, <2>3 DEF RecordsKept, Owns, SetupInv
    <2>6. WritesOrdered'
      BY <1>0, <2>2, <2>3 DEF WritesOrdered, Unsent, SetupInv
    <2>7. RemovalsGuarded'
      BY <1>0, <2>2, <2>3 DEF RemovalsGuarded, Unsent, Busy, root, SetupInv
    <2>8. EndsKnown'
      BY <1>0, <2>2, <2>3 DEF EndsKnown, Revokes, Alone, Over, root, SetupInv
    <2>9. run # IdleProc => run' # IdleProc
      <3>1. CASE UNCHANGED run BY <3>1
      <3>2. CASE RunGoes(pc)
        BY <1>0, <2>1, <3>2, RunGoesFacts DEF IdleProc, SetupInv
      <3> QED BY <2>1, <3>1, <3>2 DEF Outcome
    <2>10. GrantIsTended'
      BY <1>0, <2>2, <2>9 DEF GrantIsTended, root, SetupInv
    <2> QED BY <2>4, <2>5, <2>6, <2>7, <2>8, <2>10 DEF Kept
  <1>4. ASSUME NEW p \in {run, page}, RemovalRetried(p) PROVE Kept'
    <2>1. UNCHANGED st
      BY <1>0, <1>4 DEF RemovalRetried, EndAlarm, Tend, IdleProc, Forget, NoPending, GrantsKept, RecordsKept, SetupInv, Atoms
    <2>2. Moves /\ Steady /\ Lasting
      BY <1>0, <1>4, <2>1 DEF RemovalRetried, EndAlarm, Tend, IdleProc, Forget, NoPending, Moves, Steady, Lasting, Over, GrantsKept, SetupInv, Atoms
    <2>3. GrantsKept'
      BY <1>0, <1>4 DEF RemovalRetried, EndAlarm, Tend, IdleProc, Forget, NoPending, GrantsKept, RecordsKept, Owns, SetupInv, Atoms
    <2>4. RecordsKept'
      BY <1>0, <1>4, <2>2, RecordsMove DEF RemovalRetried, EndAlarm, Tend, IdleProc, Forget, NoPending, SetupInv, Atoms
    <2>5. WritesOrdered'
      BY <1>0, <1>4, <2>1, <2>2 DEF RemovalRetried, EndAlarm, Tend, IdleProc, Forget, NoPending, WritesOrdered, Moves, Replaced, Steady, Unsent, SetupInv
    <2>6. RemovalsGuarded'
      BY <1>0, <1>4, <2>2, RemovalsMove DEF RemovalRetried, EndAlarm, Tend, IdleProc, Forget, NoPending, GrantsKept, SetupInv, Atoms
    <2>7. EndsKnown'
      BY <1>0, <1>4, <2>1, <2>2, EndsSame DEF RemovalRetried, EndAlarm, Tend, IdleProc, Forget, NoPending, GrantsKept, SetupInv, Atoms
    <2>8. GrantIsTended'
      BY <1>0, <1>4 DEF RemovalRetried, EndAlarm, Tend, IdleProc, Forget, NoPending, GrantIsTended, root, IdleProc, SetupInv, Atoms
    <2> QED BY <2>3, <2>4, <2>5, <2>6, <2>7, <2>8 DEF Kept
  <1>5. ASSUME NEW p \in {run, page}, CleanupEnds(p) PROVE Kept'
    <2>1. Moves
      BY <1>0, <1>5 DEF CleanupEnds, Revoked, Refused, EndAlarm, Tend, IdleProc, Forget, NoPending, Settle, Current, Incomplete, NoOauth, ThrownFailures, Replaced, Moves, GrantsKept, RecordsKept, SetupInv, Atoms
    <2>2. Moves /\ Steady /\ Lasting
      BY <1>0, <1>5, <2>1 DEF CleanupEnds, Ousts, Revoked, Refused, EndAlarm, Tend, IdleProc, Forget, NoPending, Settle, Current, Incomplete, NoOauth, ThrownFailures, Moves, Steady, Lasting, Over, GrantsKept, SetupInv, Atoms
    <2>3. GrantsKept'
      BY <1>0, <1>5 DEF CleanupEnds, Revoked, Refused, EndAlarm, Tend, IdleProc, Forget, NoPending, Settle, Current, Incomplete, NoOauth, ThrownFailures, GrantsKept, RecordsKept, Owns, SetupInv, Atoms
    <2>4. RecordsKept'
      BY <1>0, <1>5, <2>2, RecordsMove DEF CleanupEnds, Revoked, Refused, EndAlarm, Tend, IdleProc, Forget, NoPending, Settle, Current, Incomplete, NoOauth, ThrownFailures, SetupInv, Atoms
    <2>5. WritesOrdered'
      BY <1>0, <1>5, <2>1, <2>2 DEF CleanupEnds, Revoked, Refused, EndAlarm, Tend, IdleProc, Forget, NoPending, Settle, Current, Incomplete, NoOauth, ThrownFailures, WritesOrdered, Moves, Replaced, Steady, Unsent, SetupInv
    <2>6. RemovalsGuarded'
      BY <1>0, <1>5, <2>2, RemovalsMove DEF CleanupEnds, Revoked, Refused, EndAlarm, Tend, IdleProc, Forget, NoPending, Settle, Current, Incomplete, NoOauth, ThrownFailures, GrantsKept, SetupInv, Atoms
    <2>7. EndsKnown'
      <3>0. /\ p.pc # "idle" /\ UNCHANGED <<cb, removedBy>>
            /\ root => Current(p.rev) \/ UNCHANGED <<st, settled>>
        BY <1>5 DEF CleanupEnds, Settle
      <3>1. CASE UNCHANGED st
        <4>1. UNCHANGED settled /\ (root => p.rev # st.rev)
          BY <1>0, <1>5, <3>0, <3>1 DEF CleanupEnds, Settle, Current, Incomplete, Atoms
        <4>2. ASSUME NEW q \in {run, page} \cap {run', page'}, q.pc # "idle", q.rev = st.rev,
                     Alone(q.attempt)', q.attempt \in held
              PROVE  FALSE
          <5>1. root
            BY <2>2, <3>0, <4>2 DEF Alone, root, Steady
          <5>2. st.oauth.attempt = q.attempt
            BY <1>0, <4>2 DEF SetupInv, RecordsKept, Owns, Atoms
          <5>3. p.attempt \in Attempts /\ cb[p.attempt] = "handed" /\ st.oauth.attempt # p.attempt
            BY <1>0, <3>0, <4>1, <5>1 DEF SetupInv, RecordsKept, Owns
          <5>4. q.attempt = pending.attempt /\ q.attempt # NoAttempt
            BY <1>0, <4>2 DEF SetupInv, GrantsKept
          <5> QED BY <1>5, <4>2, <5>2, <5>3, <5>4 DEF CleanupEnds, Ousts, Alone
        <4> QED BY <1>0, <2>2, <3>1, <4>1, <4>2, EndsSame
      <3>2. CASE Replaced
        <4>1. p.rev = st.rev
          BY <1>0, <1>5, <3>2 DEF CleanupEnds, Settle, Current, Replaced, Atoms
        <4>2. /\ settled' = p.attempt
              /\ st'.failure \in ThrownFailures => Revoked(p.attempt)
          BY <1>0, <1>5, <3>2 DEF CleanupEnds, Settle, Incomplete, ThrownFailures, Replaced, Atoms
        <4>3. Revoked(p.attempt) => /\ cb'[p.attempt] \in {"handed", "ended"}
                                    /\ Alone(p.attempt) => tok'[p.attempt] \notin {"live", "refused"}
          BY <1>0, <3>0, <4>1, SettlesHonestly
        <4>4. Alone(settled)' => Alone(p.attempt)
          BY <2>2, <3>0, <4>2 DEF Alone, root, Steady
        <4>5. st'.failure \in ThrownFailures
              => cb'[settled'] \in {"handed", "ended"} /\ (Alone(settled) => Over(settled))'
          BY <4>2, <4>3, <4>4 DEF Over
        <4> QED BY <1>0, <2>2, <3>2, <4>5, EndsReplaced
      <3> QED BY <2>2, <3>1, <3>2 DEF Moves
    <2>8. GrantIsTended'
      BY <1>0, <1>5 DEF CleanupEnds, Revoked, Refused, EndAlarm, Tend, IdleProc, Forget, NoPending, Settle, Current, Incomplete, NoOauth, ThrownFailures, GrantIsTended, root, IdleProc, SetupInv, Atoms
    <2> QED BY <2>3, <2>4, <2>5, <2>6, <2>7, <2>8 DEF Kept
  <1> QED BY <1>1, <1>2, <1>3, <1>4, <1>5 DEF Cleanup

LEMMA RestartKeeps ==
  ASSUME SetupInv, Restart \/ SwapRuntime \/ Tick
  PROVE  Kept'
  <1> USE DEF driver, procs, grants, world
  <1>0. Atoms /\ SetupInv
    BY AtomsHold DEF SetupInv
  <1>1. ASSUME MemoryLost, UNCHANGED <<st, cbRev, tok, ousted, journal, uploaded, removedBy, settled>>,
               host' = host \/ (uploaded /\ host' = "final")
        PROVE  Kept'
    <2>1. /\ pending'.attempt = NoAttempt /\ held' = {} /\ run'.pc = "idle" /\ page'.pc = "idle"
          /\ cb' = [a \in Attempts |-> IF cb[a] = "exchanging" THEN "ended" ELSE cb[a]]
      BY <1>1 DEF MemoryLost, NoPending, IdleProc
    <2>2. GrantsKept'
      BY <1>0, <1>1, <2>1 DEF GrantsKept, SetupInv, Atoms
    <2>3. RecordsKept'
      BY <1>0, <1>1, <2>1 DEF RecordsKept, Owns, SetupInv, Atoms
    <2>4. WritesOrdered'
      BY <1>0, <1>1, <2>1 DEF WritesOrdered, Unsent, SetupInv
    <2>5. RemovalsGuarded'
      BY <1>0, <1>1, <2>1 DEF RemovalsGuarded, Unsent, Busy, root, SetupInv, Atoms
    <2>6. EndsKnown'
      BY <1>0, <1>1, <2>1 DEF EndsKnown, Revokes, Alone, Over, root, SetupInv, Atoms
    <2>7. GrantIsTended'
      BY <2>1 DEF GrantIsTended
    <2> QED BY <2>2, <2>3, <2>4, <2>5, <2>6, <2>7 DEF Kept
  <1>2. CASE Restart BY <1>1, <1>2 DEF Restart
  <1>3. CASE SwapRuntime BY <1>1, <1>3 DEF SwapRuntime
  <1>4. CASE Tick
    <2>1. UNCHANGED <<st, driver, procs, grants, world, settled>>
      BY <1>4 DEF Tick
    <2>2. GrantsKept' /\ RecordsKept' /\ WritesOrdered'
      BY <1>0, <2>1 DEF GrantsKept, RecordsKept, Owns, WritesOrdered, Unsent, SetupInv
    <2>3. RemovalsGuarded' /\ EndsKnown' /\ GrantIsTended'
      BY <1>0, <2>1 DEF RemovalsGuarded, EndsKnown, GrantIsTended, Revokes, Alone, Over, Busy,
        Unsent, root, SetupInv
    <2> QED BY <2>2, <2>3 DEF Kept
  <1> QED BY <1>2, <1>3, <1>4

-----------------------------------------------------------------------------
(* The theorems.                                                             *)

LEMMA SetupInit == Init => SetupInv
  <1> SUFFICES ASSUME Init PROVE SetupInv
    OBVIOUS
  <1>1. TypeOK
    BY TypesInit
  <1>2. /\ run.pc = "idle" /\ page.pc = "idle" /\ pending.attempt = NoAttempt /\ held = {}
        /\ st.status = "INCOMPLETE" /\ st.oauth.phase = "authorizing" /\ st.failure = "none"
        /\ st.cleanup = "none" /\ settled = NoAttempt /\ root
        /\ \A a \in Attempts : cb[a] = "unused" /\ tok[a] = "none"
    BY DEF Init, IdleProc, NoPending, InitialState, NoOauth, root
  <1>3. ~uploaded /\ host = "shell" /\ Unsent
    BY DEF Init, Unsent
  <1> QED BY <1>1, <1>2, <1>3 DEF SetupInv, GrantsKept, RecordsKept, Owns, WritesOrdered,
        RemovalsGuarded, EndsKnown, Revokes, GrantIsTended

LEMMA SetupStep == SetupInv /\ [Next]_vars => SetupInv'
  <1> SUFFICES ASSUME SetupInv, [Next]_vars PROVE SetupInv'
    OBVIOUS
  <1>1. TypeOK'
    BY TypesStep DEF SetupInv
  <1>2. Kept'
    <2>1. CASE UNCHANGED vars
      <3>1. GrantsKept' /\ RecordsKept' /\ WritesOrdered' /\ GrantIsTended'
        BY <2>1 DEF vars, driver, procs, grants, world, GrantsKept, RecordsKept, Owns,
          WritesOrdered, GrantIsTended, Unsent, root, SetupInv
      <3>2. RemovalsGuarded' /\ EndsKnown'
        BY <2>1 DEF vars, driver, procs, grants, world, RemovalsGuarded, EndsKnown, Revokes,
          Alone, Over, Unsent, root, SetupInv
      <3> QED BY <3>1, <3>2 DEF Kept
    <2>2. CASE Next
      BY <2>2, CustomerKeeps, AlarmKeeps, PassKeeps, CleanupKeeps, RestartKeeps DEF Next
    <2> QED BY <2>1, <2>2
  <1> QED BY <1>1, <1>2 DEF SetupInv, Kept

LEMMA SetupHolds == Spec => []SetupInv
  BY SetupInit, SetupStep, PTL DEF Spec

\* Whatever attempts, alarms, cleanups, restarts and the swap of the runtime
\* interleave, the record is well formed, the bootstrap is removed only while
\* nothing was armed, unless the token of the removing attempt outlived its
\* grant, and READY means the final runtime runs.
THEOREM SetupSafety == Spec => []SetupIsSafe
  <1>1. SetupInv => SetupIsSafe
    BY DEF SetupInv, SetupIsSafe, RemovedOnlyUnsent, ReadyIsFinalRuntime, RecordsKept,
      RemovalsGuarded, WritesOrdered, Unsent
  <1> QED BY <1>1, SetupHolds, PTL

\* A grant in memory is live, and one that was dropped for another attempt is
\* live for good: nobody can revoke it any more.
Adrift ==
  /\ \A a \in held : tok[a] = "live"
  /\ \A a \in ousted : a \notin held /\ tok[a] = "live"

LEMMA AdriftStep == SetupInv /\ Adrift /\ [Next]_vars => Adrift'
  <1> SUFFICES ASSUME SetupInv, Adrift, [Next]_vars PROVE Adrift'
    OBVIOUS
  <1> USE DEF driver, procs, grants, world
  <1>0. Atoms /\ GrantsKept /\ held \subseteq Attempts /\ ousted \subseteq Attempts
    BY AtomsHold DEF SetupInv, TypeOK
  <1>1. ASSUME NEW a \in Attempts, HandOver(a) PROVE Adrift'
    <2>1. tok[a] = "none" /\ a \notin held /\ a \notin ousted
      BY <1>0, <1>1 DEF HandOver, GrantsKept, Adrift
    <2> QED BY <1>0, <1>1, <2>1 DEF HandOver, Ousts, GrantsKept, Adrift, Atoms
  <1>2. ASSUME NEW a \in Attempts, ExchangeFails(a) PROVE Adrift'
    <2>1. tok[a] = "none" /\ a \notin held /\ a \notin ousted
      BY <1>0, <1>2 DEF ExchangeFails, GrantsKept, Adrift
    <2> QED BY <1>0, <1>2, <2>1 DEF ExchangeFails, Adrift, Atoms
  <1>3. ASSUME NEW a \in Attempts \cup {NoAttempt}, Revoked(a) \/ Refused(a), Ousts(a),
               held' = held \ {pending.attempt, a} \/ held' = held \ {pending.attempt}
        PROVE  Adrift'
    <2>1. \A b \in held : b = pending.attempt
      BY <1>0 DEF GrantsKept
    <2>2. ASSUME NEW b \in ousted' PROVE b \notin held' /\ tok'[b] = "live"
      <3>1. CASE b \in ousted
        BY <1>0, <1>3, <3>1 DEF Adrift, Revoked, Refused, Atoms
      <3>2. CASE b \notin ousted
        <4>1. b = pending.attempt /\ b # a /\ b \in held
          BY <1>0, <1>3, <3>2 DEF Ousts, GrantsKept
        <4> QED BY <1>0, <1>3, <4>1 DEF Adrift, Revoked, Refused, Atoms
      <3> QED BY <3>1, <3>2
    <2>3. held' = {}
      BY <1>3, <2>1
    <2> QED BY <2>2, <2>3 DEF Adrift
  <1>4. CASE Alarm
    BY <1>4 DEF Alarm, AlarmTick, AlarmIdle, AlarmWatch, AlarmHandover, AlarmCleanup,
      AlarmCleanupLost, AlarmLost, AlarmPass, Forget, Adrift
  <1>5. CASE Work
    <2>1. CASE PassSettles \/ PassLeaves \/ PassReady
      BY <1>0, <1>3, <2>1 DEF PassSettles, PassLeaves, PassReady, Atoms
    <2> QED BY <1>5, <2>1 DEF Work, PassJournal, PassPause, PassFails, PassHandover, Upload,
          PassHandedOver, PassVerified, ClassifyRemoval, ClassifyRecovery, Adrift
  <1>6. ASSUME NEW p \in {run, page}, Cleanup(p) PROVE Adrift'
    <2>1. CASE CleanupEnds(p)
      BY <1>0, <1>3, <2>1 DEF CleanupEnds, Forget, Atoms
    <2> QED BY <1>6, <2>1 DEF Cleanup, RemoveRoot, RemovalEnds, RemovalRetried, Adrift
  <1>7. CASE Continue \/ Paste \/ PageCleanup \/ \E a \in Attempts : Customer(a)
    BY <1>7 DEF Continue, Paste, PageCleanup, Forget, Customer, Start, Reject, Callback, Adrift
  <1>8. CASE Restart \/ SwapRuntime \/ Tick
    BY <1>8 DEF Restart, SwapRuntime, Tick, MemoryLost, Adrift
  <1>9. CASE UNCHANGED vars
    BY <1>9 DEF vars, Adrift
  <1> QED BY <1>1, <1>2, <1>4, <1>5, <1>6, <1>7, <1>8, <1>9 DEF Next, Exchange

\* A grant in memory is always on its way out, and a failure record that does
\* not say revocation_unconfirmed is about a token that is not live, whatever
\* attempts overlap; only a grant that was dropped for another attempt, by its
\* hand-over or by the end of its pass, can be live behind such a record.
THEOREM GrantSafety == Spec => []GrantsAreHonest
  <1>1. Init => Adrift
    BY DEF Init, Adrift
  <1>2. Spec => []Adrift
    BY <1>1, SetupHolds, AdriftStep, PTL DEF Spec
  <1>3. SetupInv /\ Adrift => GrantsAreHonest
    BY AtomsHold DEF SetupInv, GrantsAreHonest, RevocationIsHonest, EndsKnown, Alone, Over, Adrift, Atoms
  <1> QED BY <1>2, <1>3, SetupHolds, PTL

\* The records of one step: what RecordsAreOwned says of it.
OwnedStep ==
  /\ st.status = "READY" => st' = st
  /\ \A p \in {<<run, run'>>, <<page, page'>>} :
       p[1].pc # "idle" /\ p[2] # p[1] /\ st' # st =>
         st.status = "CONVERGING" /\ st.oauth.attempt = p[1].attempt

\* A process that writes the record read it while it was about its attempt.
LEMMA OwnedProcess ==
  ASSUME SetupInv, NEW p \in {run, page}, p.pc # "idle", Current(p.rev)
  PROVE  st.status = "CONVERGING" /\ st.oauth.attempt = p.attempt
  BY AtomsHold DEF SetupInv, RecordsKept, Owns, Current, Atoms

LEMMA OwnedSteps == SetupInv /\ [Next]_vars => [OwnedStep]_vars
  <1> SUFFICES ASSUME SetupInv, Next, st' # st PROVE OwnedStep
    BY DEF OwnedStep
  <1> USE DEF driver, procs, grants, world
  <1>0. Atoms
    BY AtomsHold DEF SetupInv
  <1>1. st.status # "READY"
    <2>1. CASE Continue BY <2>1 DEF Continue
    <2>2. ASSUME NEW a \in Attempts, Start(a) PROVE st.status # "READY" BY <2>2 DEF Start
    <2>3. ASSUME NEW a \in Attempts, Reject(a) \/ Callback(a) PROVE st.status # "READY"
      BY <1>0, <2>3 DEF Reject, Callback, SetupInv, RecordsKept, Atoms
    <2>4. ASSUME NEW a \in Attempts, ExchangeFails(a) PROVE st.status # "READY"
      BY <1>0, <2>4 DEF ExchangeFails, Settle, Current, SetupInv, RecordsKept, Atoms
    <2>5. CASE Alarm
      BY <2>5 DEF Alarm, AlarmTick, AlarmIdle, AlarmWatch, AlarmHandover, AlarmCleanup,
        AlarmCleanupLost, AlarmLost, AlarmPass, Removing, Converging
    <2>6. CASE Work
      BY <2>6, OwnedProcess DEF Work, PassJournal, PassPause, PassFails, PassHandover, Upload,
        PassHandedOver, PassVerified, ClassifyRemoval, ClassifyRecovery, PassSettles, PassLeaves,
        PassReady, Settle
    <2>7. CASE PageCleanup
      BY <2>7 DEF PageCleanup, Removing, Converging
    <2>8. ASSUME NEW p \in {run, page}, Cleanup(p) PROVE st.status # "READY"
      BY <2>8, OwnedProcess DEF Cleanup, RemoveRoot, RemovalEnds, RemovalRetried, CleanupEnds, Settle
    <2> QED BY <2>1, <2>2, <2>3, <2>4, <2>5, <2>6, <2>7, <2>8 DEF Next, Customer, Exchange, Paste,
          HandOver, Restart, SwapRuntime, Tick
  <1>2. ASSUME run.pc # "idle", run' # run
        PROVE  st.status = "CONVERGING" /\ st.oauth.attempt = run.attempt
    <2>1. CASE Alarm
      BY <1>2, <2>1 DEF Alarm, AlarmTick, AlarmIdle, AlarmWatch, AlarmHandover, AlarmCleanup,
        AlarmCleanupLost, AlarmLost, AlarmPass, Wakes, Fires, IdleProc
    <2>2. CASE Work
      BY <1>2, <2>2, OwnedProcess DEF Work, PassJournal, PassPause, PassFails, PassHandover, Upload,
        PassHandedOver, PassVerified, ClassifyRemoval, ClassifyRecovery, PassSettles, PassLeaves,
        PassReady, Settle
    <2>3. ASSUME NEW p \in {run, page}, Cleanup(p)
          PROVE  st.status = "CONVERGING" /\ st.oauth.attempt = run.attempt
      BY <1>2, <2>3, OwnedProcess DEF Cleanup, RemoveRoot, RemovalEnds, RemovalRetried, CleanupEnds,
        Settle
    <2> QED BY <1>2, <2>1, <2>2, <2>3 DEF Next, Customer, Exchange, Continue, Paste, Start, Reject,
          Callback, HandOver, ExchangeFails, PageCleanup, Restart, SwapRuntime, Tick
  <1>3. ASSUME page.pc # "idle", page' # page
        PROVE  st.status = "CONVERGING" /\ st.oauth.attempt = page.attempt
    <2>1. CASE PageCleanup BY <1>3, <2>1 DEF PageCleanup, IdleProc
    <2>2. ASSUME NEW p \in {run, page}, Cleanup(p)
          PROVE  st.status = "CONVERGING" /\ st.oauth.attempt = page.attempt
      BY <1>3, <2>2, OwnedProcess DEF Cleanup, RemoveRoot, RemovalEnds, RemovalRetried, CleanupEnds,
        Settle
    <2>3. CASE Alarm \/ Work
      BY <1>3, <2>3 DEF Alarm, AlarmTick, AlarmIdle, AlarmWatch, AlarmHandover, AlarmCleanup,
        AlarmCleanupLost, AlarmLost, AlarmPass, Work, PassJournal, PassPause, PassFails, PassHandover,
        Upload, PassHandedOver, PassVerified, ClassifyRemoval, ClassifyRecovery, PassSettles,
        PassLeaves, PassReady
    <2> QED BY <1>3, <2>1, <2>2, <2>3 DEF Next, Customer, Exchange, Continue, Paste, Start, Reject,
          Callback, HandOver, ExchangeFails, Restart, SwapRuntime, Tick
  <1> QED BY <1>1, <1>2, <1>3 DEF OwnedStep

\* An invocation that works for one attempt never changes a record that is
\* about another one, and READY is never left.
THEOREM RecordOwnership == Spec => RecordsAreOwned
  <1>1. Spec => [][OwnedStep]_vars
    BY SetupHolds, OwnedSteps, PTL DEF Spec
  <1> QED BY <1>1 DEF RecordsAreOwned, OwnedStep
=============================================================================
