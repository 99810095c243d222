------------------------------ MODULE Bootstrap ------------------------------
(***************************************************************************)
(* The customer's installation object around the Stage 2 converger: the    *)
(* stored install state and its OAuth attempts                             *)
(* (apps/installer/src/customer-bootstrap-state.ts), the driver that keeps *)
(* the grant of one attempt in memory and runs one converger pass per      *)
(* alarm (customer-bootstrap-convergence-driver.ts,                        *)
(* customer-bootstrap-callback.ts), the handover to the final runtime and  *)
(* the removal of a bootstrap that sent nothing.                           *)
(*                                                                         *)
(* One Durable Object runs all of it.  Storage calls do not interleave     *)
(* with other events, provider calls do: an alarm invocation `run`, the    *)
(* cleanup request `page` and the callbacks cb are processes that take one *)
(* step per provider call, each with the revision it last read.  Alarms do *)
(* not overlap each other.  A restart loses every process and all memory;  *)
(* the platform retries the alarm it interrupted.                          *)
(*                                                                         *)
(* The converger itself is module Stage2.  Here a pass only tells whether  *)
(* its journal exists, has armed a write, and is completed.                *)
(***************************************************************************)
EXTENDS Integers

CONSTANTS
  Attempts,     \* OAuth attempt ids
  NoAttempt,    \* no attempt
  OauthTTL,     \* CUSTOMER_BOOTSTRAP_OAUTH_TTL_MS
  SessionTTL,   \* CUSTOMER_BOOTSTRAP_TTL_MS
  Deadline,     \* CUSTOMER_BOOTSTRAP_CONVERGENCE_DEADLINE_MS
  MaxPasses,    \* CUSTOMER_BOOTSTRAP_CONVERGENCE_MAX_PASSES
  MaxRestarts,  \* bound: restarts of the object
  Horizon,      \* bound: nobody authorizes and nothing restarts after this time
  MaxClock      \* bound: the clock stops here

ASSUME AttemptsAssumption == NoAttempt \notin Attempts
ASSUME TimeAssumption ==
  /\ OauthTTL \in Nat \ {0} /\ SessionTTL \in Nat \ {0}
  /\ Deadline \in Nat \ {0} /\ MaxPasses \in Nat \ {0}
ASSUME BoundsAssumption ==
  MaxRestarts \in Nat /\ Horizon \in Nat /\ MaxClock \in Nat

VARIABLES
  st,        \* the stored install state
  pending,   \* #pending: whose grant the driver holds, since when, which pass
  handedAt,  \* #handedOverAt, -1 when unset
  alarm,     \* the object's one alarm: none, the driver's (now, or a short while
             \* later) or a keep-alive tick
  run,       \* the alarm invocation
  page,      \* the cleanup request of the progress page
  cb,        \* the callback of each attempt
  cbRev,     \* the revision each callback wrote
  tok,       \* each attempt's token: none, live, revoked, or its revocation refused
  held,      \* the grant objects that still contain their token
  ousted,    \* attempts whose grant a later hand-over, or the end of a pass or
             \* cleanup of another attempt, dropped unrevoked (history)
  cred,      \* the pasted management credential is in memory
  journal,   \* the Stage 2 journal: none, unsent, armed or completed
  uploaded,  \* the final runtime is deployed
  host,      \* the runtime the object runs on: shell or final
  removedBy, \* the attempt whose grant removed the bootstrap Worker and namespace,
             \* NoAttempt while they exist
  settled,   \* the attempt the last failure record is about (history)
  restarts,  \* how often the object restarted (bound)
  now        \* the clock

driver == <<pending, handedAt, alarm, cred>>
procs  == <<run, page, cb, cbRev>>
grants == <<tok, held, ousted>>
world  == <<journal, uploaded, host, removedBy>>
vars   == <<st, driver, procs, grants, world, settled, restarts, now>>

\* The bootstrap Worker and its namespace exist.
root == removedBy = NoAttempt

-----------------------------------------------------------------------------
(* The stored state and its transitions.                                    *)

Statuses == {"INCOMPLETE", "CONVERGING", "READY"}
OauthPhases == {"authorizing", "exchanging", "finalizing"}
Failures == {"none", "authorization_rejected", "grant_invalid",
             "provider_recovery_required", "revocation_unconfirmed"}
CleanupPhases == {"none", "removing", "removed", "recovery_required"}

\* callbackFailureCode: what an error thrown with the grant becomes.
ThrownFailures == {"grant_invalid", "provider_recovery_required"}

Oauths == [attempt : Attempts \cup {NoAttempt}, phase : OauthPhases, expiresAt : Nat]
States == [rev : Nat, unused : BOOLEAN, status : Statuses, session : Nat,
           oauth : Oauths, failure : Failures, cleanup : CleanupPhases]

NoOauth == [attempt |-> NoAttempt, phase |-> "authorizing", expiresAt |-> 0]

\* initialCustomerBootstrapState
InitialState == [rev |-> 1, unused |-> TRUE, status |-> "INCOMPLETE", session |-> 0,
                 oauth |-> NoOauth, failure |-> "none", cleanup |-> "none"]

Least(m, n) == IF m < n THEN m ELSE n

\* authenticatedSession
Authenticated == st.session > now

\* An attempt whose time is over counts as none when a new one starts.
OauthOpen == st.oauth.attempt # NoAttempt /\ st.oauth.expiresAt > now
OauthOver == st.oauth.attempt # NoAttempt /\ st.oauth.expiresAt <= now

\* consumeCustomerBootstrapCapability: the session ends with the capability.
Consumed == [rev |-> st.rev + 1, unused |-> FALSE, status |-> st.status,
             session |-> Least(now + SessionTTL, SessionTTL), oauth |-> NoOauth,
             failure |-> "none", cleanup |-> st.cleanup]

\* startCustomerBootstrapOauth with a session that ends at s.
Started(a, s, raise) ==
  [rev |-> st.rev + raise, unused |-> st.unused, status |-> "INCOMPLETE", session |-> s,
   oauth |-> [attempt |-> a, phase |-> "authorizing", expiresAt |-> Least(now + OauthTTL, s)],
   failure |-> "none", cleanup |-> st.cleanup]

\* rejectCustomerBootstrapOauthStart, rejectCustomerBootstrapOauthCallback
Rejected == [rev |-> st.rev + 1, unused |-> st.unused, status |-> "INCOMPLETE",
             session |-> st.session, oauth |-> NoOauth,
             failure |-> "authorization_rejected", cleanup |-> st.cleanup]

InPhase(p) == [attempt |-> st.oauth.attempt, phase |-> p, expiresAt |-> st.oauth.expiresAt]

\* consumeCustomerBootstrapOauthCallback
Exchanging == [rev |-> st.rev + 1, unused |-> st.unused, status |-> "CONVERGING",
               session |-> st.session, oauth |-> InPhase("exchanging"),
               failure |-> "none", cleanup |-> st.cleanup]

\* markCustomerBootstrapFinalizing
Finalizing == [rev |-> st.rev + 1, unused |-> st.unused, status |-> st.status,
               session |-> st.session, oauth |-> InPhase("finalizing"),
               failure |-> st.failure, cleanup |-> st.cleanup]

\* markCustomerBootstrapIncomplete
Incomplete(failure, cleanup) ==
  [rev |-> st.rev + 1, unused |-> st.unused, status |-> "INCOMPLETE",
   session |-> st.session, oauth |-> NoOauth, failure |-> failure, cleanup |-> cleanup]

\* markCustomerBootstrapCleanupPending
CleanupPending(failure) ==
  [rev |-> st.rev + 1, unused |-> st.unused, status |-> st.status,
   session |-> st.session, oauth |-> st.oauth, failure |-> failure, cleanup |-> "removing"]

\* markCustomerBootstrapReady
Ready == [rev |-> st.rev + 1, unused |-> FALSE, status |-> "READY", session |-> 0,
          oauth |-> NoOauth, failure |-> "none", cleanup |-> st.cleanup]

\* readConverging
Converging == st.status = "CONVERGING"

\* Mutant of Current: the stored revision is not compared.
CurrentUnchecked(rev) == Converging

\* compareAndSet: the record is still the one the process read.
Current(rev) == st.rev = rev

-----------------------------------------------------------------------------
(* The driver's memory.                                                     *)

NoPending == [attempt |-> NoAttempt, startedAt |-> 0, passes |-> 0]
IdleProc  == [pc |-> "idle", attempt |-> NoAttempt, rev |-> 0, since |-> 0]

\* An invocation for the pending attempt: the revision it read, and since when
\* the attempt it captured has been pending.
Proc(pc, rev) == [pc |-> pc, attempt |-> pending.attempt, rev |-> rev,
                  since |-> pending.startedAt]

\* forget: whatever grant the driver holds now is discarded, not revoked.
Forget ==
  /\ pending' = NoPending
  /\ held' = held \ {pending.attempt}

\* The grant the driver holds is dropped on behalf of another attempt, a.
Ousts(a) == ousted' = ousted \cup ({pending.attempt} \ {a, NoAttempt})

\* The deadline of an attempt pending since s.
Overdue(s) == now - s > Deadline

\* settle: the failure of attempt a is recorded, or a concurrent writer
\* already moved the attempt on and its record stands.
Settle(rev, a, failure, cleanup) ==
  IF Current(rev) THEN st' = Incomplete(failure, cleanup) /\ settled' = a
                  ELSE UNCHANGED <<st, settled>>

\* customerManagementCredentialUsable
CredUsable(s) == \/ s.status = "CONVERGING"
                 \/ s.status = "INCOMPLETE" /\ s.session > now

\* tendManagementCredential, after the state became s and the alarm al.
Tend(s, al) ==
  /\ cred' = (cred /\ (host = "shell" => CredUsable(s)))
  /\ alarm' = IF host = "shell" /\ cred /\ CredUsable(s) /\ al = "none" THEN "tick" ELSE al

\* The alarm invocation ends.
EndAlarm(al) == run' = IdleProc /\ Tend(st', al)

-----------------------------------------------------------------------------
Init ==
  /\ st = InitialState
  /\ pending = NoPending /\ handedAt = -1 /\ alarm = "none" /\ cred = FALSE
  /\ run = IdleProc /\ page = IdleProc
  /\ cb = [a \in Attempts |-> "unused"] /\ cbRev = [a \in Attempts |-> 0]
  /\ tok = [a \in Attempts |-> "none"] /\ held = {} /\ ousted = {}
  /\ journal = "none" /\ uploaded = FALSE /\ host = "shell" /\ removedBy = NoAttempt
  /\ settled = NoAttempt /\ restarts = 0 /\ now = 0

(* Requests of the customer.                                                *)

\* The setup link is opened: the capability becomes a browser session.
Continue ==
  /\ root /\ host = "shell" /\ st.unused /\ st.status # "READY" /\ now < SessionTTL
  /\ st' = Consumed
  /\ UNCHANGED <<driver, procs, grants, world, settled, restarts, now>>

\* The management token is pasted while the review is open.
Paste ==
  /\ root /\ host = "shell" /\ Authenticated /\ ~cred
  /\ st.status = "INCOMPLETE"
  /\ ~OauthOpen
  /\ cred' = TRUE
  /\ alarm' = IF alarm = "none" THEN "tick" ELSE alarm
  /\ UNCHANGED <<st, pending, handedAt, procs, grants, world, settled, restarts, now>>

\* An authorization starts.  The shell needs the session and the pasted
\* token; the recovery page of the final runtime rotates the session first.
Start(a) ==
  /\ root /\ now <= Horizon /\ cb[a] = "unused" /\ st.status # "READY"
  /\ OauthOver \/ (st.oauth.attempt = NoAttempt /\ st.status = "INCOMPLETE")
  /\ \/ host = "shell" /\ Authenticated /\ cred /\ st' = Started(a, st.session, 1)
     \/ host = "final" /\ ~st.unused /\ journal # "none"
        /\ st' = Started(a, now + SessionTTL, 2)
  /\ cb' = [cb EXCEPT ![a] = "authorizing"]
  /\ UNCHANGED <<driver, run, page, cbRev, grants, world, settled, restarts, now>>

\* The relay could not be started, or the customer denied the consent.
Reject(a) ==
  /\ root /\ cb[a] = "authorizing"
  /\ st.oauth.attempt = a /\ st.oauth.phase = "authorizing"
  /\ st' = Rejected
  /\ cb' = [cb EXCEPT ![a] = "ended"]
  /\ UNCHANGED <<driver, run, page, cbRev, grants, world, settled, restarts, now>>

\* The callback arms the attempt before the code is exchanged.
Callback(a) ==
  /\ root /\ cb[a] = "authorizing" /\ Authenticated
  /\ st.oauth.attempt = a /\ st.oauth.phase = "authorizing" /\ OauthOpen
  /\ st' = Exchanging
  /\ cb' = [cb EXCEPT ![a] = "exchanging"]
  /\ cbRev' = [cbRev EXCEPT ![a] = st.rev + 1]
  /\ UNCHANGED <<driver, run, page, grants, world, settled, restarts, now>>

\* The exchanged grant sees the right account: driver.start takes it over
\* from whatever was pending and schedules the first pass.
HandOver(a) ==
  /\ cb[a] = "exchanging"
  /\ cb' = [cb EXCEPT ![a] = "handed"]
  /\ tok' = [tok EXCEPT ![a] = "live"]
  /\ held' = (held \ {pending.attempt}) \cup {a} /\ Ousts(a)
  /\ pending' = [attempt |-> a, startedAt |-> now, passes |-> 0]
  /\ handedAt' = -1
  /\ alarm' = "now"
  /\ UNCHANGED <<st, cred, run, page, cbRev, world, settled, restarts, now>>

\* The exchange or the account check fails: a grant is revoked at once and
\* the attempt settles; a conflicting write is left alone.
ExchangeFails(a) ==
  /\ cb[a] = "exchanging"
  /\ cb' = [cb EXCEPT ![a] = "ended"]
  /\ \E outcome \in {"none", "revoked", "refused"}, failure \in ThrownFailures :
       /\ tok' = [tok EXCEPT ![a] = outcome]
       /\ Settle(cbRev[a], a, IF outcome = "refused" THEN "revocation_unconfirmed"
                              ELSE failure, "none")
  /\ UNCHANGED <<driver, run, page, cbRev, held, ousted, world, restarts, now>>

-----------------------------------------------------------------------------
(* The alarm: driver.continue, one branch per action.                       *)

\* customerConvergerRunsOnAlarm: a keep-alive tick runs no pass unless the
\* driver holds a grant.
ConvergerRuns == alarm \in {"now", "later"} \/ pending.attempt # NoAttempt

\* The alarm fires.
Fires == root /\ alarm # "none" /\ run = IdleProc

AlarmTick ==
  /\ Fires /\ host = "shell" /\ ~ConvergerRuns
  /\ Tend(st, "none")
  /\ UNCHANGED <<st, pending, handedAt, procs, grants, world, settled, restarts, now>>

Wakes == Fires /\ (host = "final" \/ ConvergerRuns)

\* Nothing converges: the grant, if any, is dropped.
AlarmIdle ==
  /\ Wakes /\ ~Converging
  /\ UNCHANGED st /\ Forget /\ EndAlarm("none")
  /\ UNCHANGED <<handedAt, page, cb, cbRev, tok, ousted, world, settled, restarts, now>>

\* On the shell a finalizing attempt is only watched, and given up late.
AlarmWatch ==
  /\ Wakes /\ Converging /\ host = "shell" /\ st.oauth.phase = "finalizing"
  /\ Forget
  /\ handedAt' = IF handedAt = -1 THEN now ELSE handedAt
  /\ IF now - handedAt' > Deadline
       THEN /\ Settle(st.rev, st.oauth.attempt, "revocation_unconfirmed", "none")
            /\ EndAlarm("none")
       ELSE UNCHANGED <<st, settled>> /\ EndAlarm("later")
  /\ UNCHANGED <<page, cb, cbRev, tok, ousted, world, restarts, now>>

\* finalizeCustomerBootstrapHandover: on the final runtime a finalizing
\* attempt is READY; driver.continue then finds nothing converging.
AlarmHandover ==
  /\ Wakes /\ Converging /\ host = "final" /\ st.oauth.phase = "finalizing"
  /\ st' = Ready
  /\ Forget /\ EndAlarm("none")
  /\ UNCHANGED <<handedAt, page, cb, cbRev, tok, ousted, world, settled, restarts, now>>

\* The grant of the stored attempt is in memory.
Holds == pending.attempt # NoAttempt /\ pending.attempt = st.oauth.attempt

\* A bootstrap-only cleanup is open: finishOwnedCleanup.
Removing == Converging /\ st.cleanup = "removing"

AlarmCleanup ==
  /\ Wakes /\ Removing /\ st.oauth.phase # "finalizing" /\ Holds /\ host = "shell"
  /\ run' = Proc("removing", st.rev)
  /\ alarm' = "none"
  /\ UNCHANGED <<st, pending, handedAt, cred, page, cb, cbRev, grants, world, settled,
                 restarts, now>>

\* The grant is not here any more: nothing can be removed ...
AlarmCleanupLost ==
  /\ Wakes /\ Removing /\ st.oauth.phase # "finalizing" /\ ~(Holds /\ host = "shell")
  /\ Forget
  /\ Settle(st.rev, st.oauth.attempt, "revocation_unconfirmed", "recovery_required")
  /\ EndAlarm("none")
  /\ UNCHANGED <<handedAt, page, cb, cbRev, tok, ousted, world, restarts, now>>

\* Mutant of AlarmLost: a grant that is not here is taken for one that ended.
AlarmLostAsEnded ==
  /\ Wakes /\ Converging /\ ~Removing /\ st.oauth.phase # "finalizing" /\ ~Holds
  /\ Forget
  /\ Settle(st.rev, st.oauth.attempt, "grant_invalid", "none")
  /\ EndAlarm("none")
  /\ UNCHANGED <<handedAt, page, cb, cbRev, tok, ousted, world, restarts, now>>

\* ... and no pass can run: grant_lost.
AlarmLost ==
  /\ Wakes /\ Converging /\ ~Removing /\ st.oauth.phase # "finalizing" /\ ~Holds
  /\ Forget
  /\ Settle(st.rev, st.oauth.attempt, "revocation_unconfirmed", "none")
  /\ EndAlarm("none")
  /\ UNCHANGED <<handedAt, page, cb, cbRev, tok, ousted, world, restarts, now>>

\* A pass begins; one too late, one too many, or one on the shell without
\* the pasted token throws before it does anything.
AlarmPass ==
  /\ Wakes /\ Converging /\ ~Removing /\ st.oauth.phase # "finalizing" /\ Holds
  /\ pending' = [pending EXCEPT !.passes = @ + 1]
  /\ run' = Proc(IF \/ Overdue(pending.startedAt) \/ pending.passes >= MaxPasses
                    \/ (host = "shell" /\ ~cred)
                   THEN "failing" ELSE "pass", st.rev)
  /\ alarm' = "none"
  /\ UNCHANGED <<st, handedAt, cred, page, cb, cbRev, grants, world, settled, restarts, now>>

-----------------------------------------------------------------------------
(* The pass: continueCustomerBootstrapConvergence.                          *)

RunGoes(pc) == run' = [run EXCEPT !.pc = pc]

\* The converger journals a mutation it has not sent, then arms and sends.
PassJournal ==
  /\ run.pc = "pass"
  /\ \/ journal = "none" /\ host = "shell" /\ journal' = "unsent"
     \/ journal = "unsent" /\ journal' = "armed"
  /\ UNCHANGED <<st, driver, procs, grants, uploaded, host, removedBy, settled, restarts, now>>

\* The pass stops at a checkpoint; the next one is scheduled.
PassPause ==
  /\ run.pc = "pass"
  /\ UNCHANGED st /\ EndAlarm("now")
  /\ UNCHANGED <<pending, handedAt, page, cb, cbRev, grants, world, settled, restarts, now>>

\* The converger throws.
PassFails ==
  /\ run.pc \in {"pass", "upload"}
  /\ RunGoes("failing")
  /\ UNCHANGED <<st, driver, page, cb, cbRev, grants, world, settled, restarts, now>>

\* Everything but the final runtime is done: the attempt is marked finalizing
\* and a delayed alarm armed before the upload; a conflict throws.
PassHandover ==
  /\ run.pc = "pass" /\ host = "shell" /\ journal = "armed"
  /\ IF Current(run.rev)
       THEN /\ st' = Finalizing /\ alarm' = "later"
            /\ run' = [run EXCEPT !.pc = "upload", !.rev = @ + 1]
       ELSE /\ RunGoes("failing")
            /\ UNCHANGED <<st, alarm>>
  /\ UNCHANGED <<pending, handedAt, cred, page, cb, cbRev, grants, world, settled, restarts, now>>

\* The provider takes the upload; the answer may still be lost (PassFails).
Upload ==
  /\ run.pc = "upload" /\ ~uploaded
  /\ uploaded' = TRUE
  /\ UNCHANGED <<st, driver, procs, grants, journal, host, removedBy, settled, restarts, now>>

\* The upload is confirmed: handed over, and the pasted token is released.
PassHandedOver ==
  /\ run.pc = "upload" /\ uploaded
  /\ RunGoes("handed_over")
  /\ cred' = FALSE
  /\ UNCHANGED <<st, pending, handedAt, alarm, page, cb, cbRev, grants, world, settled,
                 restarts, now>>

\* On the final runtime a pass completes the journal or proves it again.
PassVerified ==
  /\ run.pc = "pass" /\ host = "final" /\ journal \in {"armed", "completed"}
  /\ journal' = "completed"
  /\ RunGoes("verified")
  /\ UNCHANGED <<st, driver, page, cb, cbRev, grants, uploaded, host, removedBy, settled, restarts, now>>

\* Mutant of Unsent: a journal with an armed write counts as unsent.
UnsentArmed == journal # "completed"

\* customerStage2MutationsUnsent
Unsent == journal \in {"none", "unsent"}

\* classifyTerminalFailure on the shell, with the grant still usable: the
\* removal is recorded and scheduled if nothing was sent and the certificate
\* agrees; a conflict throws out of the alarm, which is retried.
ClassifyRemoval ==
  /\ run.pc = "failing" /\ host = "shell" /\ Unsent
  /\ IF Current(run.rev)
       THEN (\E failure \in ThrownFailures : st' = CleanupPending(failure)) /\ EndAlarm("later")
       ELSE run' = IdleProc /\ alarm' = "now" /\ UNCHANGED <<st, cred>>
  /\ UNCHANGED <<pending, handedAt, page, cb, cbRev, grants, world, settled, restarts, now>>

\* Anything uncertain is recovery; the final runtime does not classify.
ClassifyRecovery ==
  /\ run.pc = "failing"
  /\ RunGoes("revoking")
  /\ UNCHANGED <<st, driver, page, cb, cbRev, grants, world, settled, restarts, now>>

\* grant.revoke succeeds; a discarded grant has no token left to revoke.
Revoked(a) == tok' = [tok EXCEPT ![a] = IF a \in held THEN "revoked" ELSE @]

\* ... or it is refused, or never answered.
Refused(a) == a \in held /\ tok' = [tok EXCEPT ![a] = IF @ = "live" THEN "refused" ELSE @]

\* The failed pass revokes the grant and settles.
PassSettles ==
  /\ run.pc = "revoking"
  /\ LET cleanup == IF host = "shell" THEN "recovery_required" ELSE "none"
     IN  \/ /\ Revoked(run.attempt)
            /\ \E failure \in ThrownFailures : Settle(run.rev, run.attempt, failure, cleanup)
         \/ /\ Refused(run.attempt)
            /\ Settle(run.rev, run.attempt, "revocation_unconfirmed", cleanup)
  /\ pending' = NoPending /\ held' = held \ {pending.attempt, run.attempt} /\ Ousts(run.attempt)
  /\ EndAlarm(alarm)
  /\ UNCHANGED <<handedAt, page, cb, cbRev, world, restarts, now>>

\* After the handover nothing more is written if the revocation succeeds.
PassLeaves ==
  /\ run.pc = "handed_over"
  /\ \/ Revoked(run.attempt) /\ handedAt' = now /\ UNCHANGED <<st, settled>>
     \/ /\ Refused(run.attempt) /\ UNCHANGED handedAt
        /\ Settle(run.rev, run.attempt, "revocation_unconfirmed", "none")
  /\ pending' = NoPending /\ held' = held \ {pending.attempt, run.attempt} /\ Ousts(run.attempt)
  /\ EndAlarm(alarm)
  /\ UNCHANGED <<page, cb, cbRev, world, restarts, now>>

\* A verified installation is READY once its grant is revoked.
PassReady ==
  /\ run.pc = "verified"
  /\ \/ /\ Revoked(run.attempt)
        /\ st' = IF Current(run.rev) THEN Ready ELSE st
        /\ UNCHANGED settled
     \/ /\ Refused(run.attempt)
        /\ Settle(run.rev, run.attempt, "revocation_unconfirmed", "none")
  /\ pending' = NoPending /\ held' = held \ {pending.attempt, run.attempt} /\ Ousts(run.attempt)
  /\ EndAlarm(alarm)
  /\ UNCHANGED <<handedAt, page, cb, cbRev, world, restarts, now>>

-----------------------------------------------------------------------------
(* finishOwnedCleanup, run by the alarm or by the progress page.            *)

\* The progress page asks for the cleanup.
PageCleanup ==
  /\ root /\ host = "shell" /\ page = IdleProc /\ Authenticated /\ Removing
  /\ \/ /\ Holds
        /\ page' = Proc("removing", st.rev)
        /\ UNCHANGED <<st, pending, held, settled>>
     \/ /\ ~Holds /\ Forget
        /\ Settle(st.rev, st.oauth.attempt, "revocation_unconfirmed", "recovery_required")
        /\ UNCHANGED page
  /\ UNCHANGED <<handedAt, alarm, cred, run, cb, cbRev, tok, ousted, world, restarts, now>>

\* removeOwnedBootstrap deletes the Worker and the namespace with the token
\* it was given ...
RemoveRoot(p) ==
  /\ p.pc = "removing" /\ root /\ tok[p.attempt] # "revoked"
  /\ removedBy' = p.attempt
  /\ UNCHANGED <<st, driver, procs, grants, journal, uploaded, host, settled, restarts, now>>

\* The cleanup process p goes on to revoke, with the outcome in pc.
Outcome(p, pc) ==
  \/ p = run /\ RunGoes(pc) /\ UNCHANGED page
  \/ p = page /\ page' = [page EXCEPT !.pc = pc] /\ UNCHANGED run

\* ... and reads both back, or finds a mismatch, or does not know past the
\* deadline.
RemovalEnds(p) ==
  /\ p.pc = "removing"
  /\ \/ ~root /\ Outcome(p, "removed")
     \/ root /\ Outcome(p, "kept")
     \/ ~root /\ Overdue(p.since) /\ Outcome(p, "kept")
  /\ UNCHANGED <<st, driver, cb, cbRev, grants, world, settled, restarts, now>>

\* An unclear removal before the deadline stays open; the alarm tries again.
RemovalRetried(p) ==
  /\ p.pc = "removing" /\ ~Overdue(p.since) /\ UNCHANGED st
  /\ \/ p = run /\ EndAlarm("later") /\ UNCHANGED page
     \/ p = page /\ page' = IdleProc /\ UNCHANGED <<run, alarm, cred>>
  /\ UNCHANGED <<pending, handedAt, cb, cbRev, grants, world, settled, restarts, now>>

\* The grant is revoked and the outcome recorded, if there is still a place.
CleanupEnds(p) ==
  /\ p.pc \in {"removed", "kept"}
  /\ LET cleanup == IF p.pc = "removed" THEN "removed" ELSE "recovery_required"
     IN  \/ /\ Revoked(p.attempt)
            /\ \/ Settle(p.rev, p.attempt, "provider_recovery_required", cleanup)
               \/ ~root /\ UNCHANGED <<st, settled>>
         \/ /\ Refused(p.attempt)
            /\ \/ Settle(p.rev, p.attempt, "revocation_unconfirmed", cleanup)
               \/ ~root /\ UNCHANGED <<st, settled>>
  /\ Forget /\ Ousts(p.attempt)
  /\ \/ p = run /\ EndAlarm(alarm) /\ UNCHANGED page
     \/ p = page /\ page' = IdleProc /\ UNCHANGED <<run, alarm, cred>>
  /\ UNCHANGED <<handedAt, cb, cbRev, world, restarts, now>>

-----------------------------------------------------------------------------
(* The object restarts, on the same runtime or on the uploaded one.         *)

\* Mutant of MemoryLost: an interrupted alarm is not retried.
MemoryLostUnretried ==
  /\ pending' = NoPending /\ handedAt' = -1 /\ cred' = FALSE /\ held' = {}
  /\ alarm' = IF alarm = "tick" THEN "later" ELSE alarm
  /\ run' = IdleProc /\ page' = IdleProc
  /\ cb' = [a \in Attempts |-> IF cb[a] = "exchanging" THEN "ended" ELSE cb[a]]

\* All memory is lost; an interrupted alarm is retried, and a tick that was
\* set is not known as one any more.
MemoryLost ==
  /\ pending' = NoPending /\ handedAt' = -1 /\ cred' = FALSE /\ held' = {}
  /\ alarm' = IF run # IdleProc THEN "now" ELSE IF alarm = "tick" THEN "later" ELSE alarm
  /\ run' = IdleProc /\ page' = IdleProc
  /\ cb' = [a \in Attempts |-> IF cb[a] = "exchanging" THEN "ended" ELSE cb[a]]

Restart ==
  /\ root /\ restarts < MaxRestarts /\ now <= Horizon
  /\ restarts' = restarts + 1
  /\ MemoryLost
  /\ UNCHANGED <<st, cbRev, tok, ousted, world, settled, now>>

\* The rollout reaches the object: it restarts on the final runtime.
SwapRuntime ==
  /\ root /\ uploaded /\ host = "shell"
  /\ host' = "final"
  /\ MemoryLost
  /\ UNCHANGED <<st, cbRev, tok, ousted, journal, uploaded, removedBy, settled, restarts, now>>

\* Time passes.  An alarm that is due fires at once, and an exchange is over
\* long before an attempt expires: its provider calls have deadlines.
Tick == /\ now < MaxClock /\ now' = now + 1
        /\ \A a \in Attempts : cb[a] # "exchanging"
        /\ ~(alarm = "now" /\ Fires)
        /\ UNCHANGED <<st, driver, procs, grants, world, settled, restarts>>

-----------------------------------------------------------------------------
Customer(a) == Start(a) \/ Reject(a) \/ Callback(a)
Exchange(a) == HandOver(a) \/ ExchangeFails(a)
Alarm == \/ AlarmTick \/ AlarmIdle \/ AlarmWatch \/ AlarmHandover \/ AlarmCleanup
         \/ AlarmCleanupLost \/ AlarmLost \/ AlarmPass
Work  == \/ PassJournal \/ PassPause \/ PassFails \/ PassHandover \/ Upload
         \/ PassHandedOver \/ PassVerified \/ ClassifyRemoval \/ ClassifyRecovery
         \/ PassSettles \/ PassLeaves \/ PassReady
Cleanup(p) == RemoveRoot(p) \/ RemovalEnds(p) \/ RemovalRetried(p) \/ CleanupEnds(p)

Next ==
  \/ Continue \/ Paste \/ PageCleanup
  \/ \E a \in Attempts : Customer(a) \/ Exchange(a)
  \/ Alarm \/ Work
  \/ \E p \in {run, page} : Cleanup(p)
  \/ Restart \/ SwapRuntime \/ Tick

Spec == Init /\ [][Next]_vars

\* Time passes, alarms fire, an exchange and an invocation that runs go on to
\* an end (every provider call has a deadline), and the rollout of an uploaded
\* runtime reaches the object.
FairSpec ==
  /\ Spec
  /\ WF_vars(Tick) /\ WF_vars(Alarm) /\ WF_vars(SwapRuntime)
  /\ \A a \in Attempts : WF_vars(Exchange(a))
  /\ WF_vars(Work) /\ WF_vars(Cleanup(run)) /\ WF_vars(Cleanup(page))
-----------------------------------------------------------------------------
(* Properties.                                                              *)

Procs(pcs) == [pc : pcs, attempt : Attempts \cup {NoAttempt}, rev : Nat, since : Nat]

\* Types of all variables.
TypeOK ==
  /\ st \in States
  /\ pending \in [attempt : Attempts \cup {NoAttempt}, startedAt : Nat, passes : Nat]
  /\ handedAt \in Nat \cup {-1} /\ alarm \in {"none", "now", "later", "tick"}
  /\ run \in Procs({"idle", "pass", "failing", "upload", "handed_over", "verified",
                    "revoking", "removing", "removed", "kept"})
  /\ page \in Procs({"idle", "removing", "removed", "kept"})
  /\ cb \in [Attempts -> {"unused", "authorizing", "exchanging", "handed", "ended"}]
  /\ cbRev \in [Attempts -> Nat]
  /\ tok \in [Attempts -> {"none", "live", "revoked", "refused"}] /\ held \subseteq Attempts
  /\ ousted \subseteq Attempts
  /\ cred \in BOOLEAN /\ journal \in {"none", "unsent", "armed", "completed"}
  /\ uploaded \in BOOLEAN /\ host \in {"shell", "final"}
  /\ removedBy \in Attempts \cup {NoAttempt}
  /\ settled \in Attempts \cup {NoAttempt} /\ restarts \in Nat /\ now \in Nat

\* The bootstrap Worker and its namespace, and with them the journal, are
\* removed only while no mutation of the final installation was ever armed:
\* whatever attempts overlap, the removal never strands what a pass created
\* (classifyTerminalFailure, finishOwnedCleanup).  What stops a removal that
\* outlives its attempt is the revoked token, so the guarantee ends where the
\* token of that very attempt was let go without a revocation: refused, or
\* discarded when the grant of a later attempt took its place (driver.start).
RemovedOnlyUnsent ==
  ~root => \/ journal \in {"none", "unsent"} /\ ~uploaded
           \/ tok[removedBy] \in {"live", "refused"} /\ removedBy \notin held

\* READY means the final runtime runs: neither a late shell pass nor a
\* handover that never happened closes the install.
ReadyIsFinalRuntime == st.status = "READY" => uploaded /\ host = "final"

\* A failure record that does not say revocation_unconfirmed is about an
\* attempt whose token is not live any more, whatever attempts overlap,
\* whatever restarts and whichever of alarm and progress page ends the cleanup;
\* unless its grant had been dropped for another attempt: by the hand-over of a
\* later one (driver.start), or by the end of a pass or cleanup of another
\* (forget).  Then there was nothing to revoke, and revoking nothing succeeds.
RevocationIsHonest ==
  /\ root /\ st.status = "INCOMPLETE" /\ st.oauth.attempt = NoAttempt
  /\ settled # NoAttempt /\ st.failure \in ThrownFailures
  => tok[settled] \notin {"live", "refused"} \/ (settled \in ousted /\ tok[settled] = "live")

\* A grant in memory is always on its way out: an alarm that will continue or
\* drop it is set, or an alarm invocation is running.
GrantIsTended ==
  root /\ pending.attempt # NoAttempt => alarm # "none" \/ run # IdleProc

\* An alarm invocation or cleanup that works for one attempt never changes a
\* record that is about another one, and READY is never left.
RecordsAreOwned ==
  [][/\ st.status = "READY" => st' = st
     /\ \A p \in {<<run, run'>>, <<page, page'>>} :
          p[1].pc # "idle" /\ p[2] # p[1] /\ st' # st =>
            st.status = "CONVERGING" /\ st.oauth.attempt = p[1].attempt]_vars

\* An attempt whose grant was handed over does not stay open for ever: it is
\* settled, finished or superseded, whatever restarts, unless the bootstrap
\* itself is removed.
AttemptsEnd ==
  \A a \in Attempts :
    pending.attempt = a /\ Converging /\ st.oauth.attempt = a
      ~> ~root \/ ~Converging \/ st.oauth.attempt # a

\* What a comment says of the alarms: without keep-alive ticks no alarm can
\* be pending while a callback exchanges its code
\* (customer-management-credential.ts, customerConvergerRunsOnAlarm).
NoAlarmWhileExchanging ==
  \A a \in Attempts : cb[a] = "exchanging" => alarm \notin {"now", "later"}

\* What a comment says of holdsGrant: true from the moment a callback handed
\* its grant over until the attempt settles
\* (customer-bootstrap-convergence-driver.ts).
GrantHeldUntilSettled ==
  \A a \in Attempts :
    /\ root /\ cb[a] = "handed"
    /\ Converging /\ st.oauth.attempt = a /\ st.oauth.phase = "exchanging"
    => pending.attempt = a

\* Whatever attempts, alarms, cleanups, restarts and the swap of the runtime
\* interleave, the record is well formed, the root is removed only while
\* nothing was armed, and READY is the final runtime's word.
SetupIsSafe == TypeOK /\ RemovedOnlyUnsent /\ ReadyIsFinalRuntime

\* A grant is neither forgotten nor misreported: while it is held something
\* will continue or drop it, and a failure that claims its end is about a
\* token that is not live.
GrantsAreHonest == RevocationIsHonest /\ GrantIsTended
=============================================================================
