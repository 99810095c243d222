---------------------------- MODULE RootRemoval ----------------------------
(***************************************************************************)
(* The installer finishes a removal (gateway-teardown-router.ts,           *)
(* gateway-teardown-job.ts, gateway-teardown-finalizer.ts,                 *)
(* gateway-teardown-provider.ts and the job object of                      *)
(* two-stage-deploy-session.ts).                                           *)
(*                                                                         *)
(* A gateway that removed its sources hands a signed statement to the      *)
(* installer, which keeps a job for it.  An administrator consents; the    *)
(* job object exchanges the code, keeps the grant in memory and removes    *)
(* the five root resources in a fixed order, in alarm passes of a bounded  *)
(* number of calls.  Each write is armed in the job before it is sent and  *)
(* verified by its absence.  Every change of the job is a compare-and-set  *)
(* on its revision, so a read and its write are one step here; the pass    *)
(* keeps the copy it read and may find it replaced.                        *)
(***************************************************************************)
EXTENDS Naturals, FiniteSets

CONSTANTS MaxAttempts, \* bound on consents
          MaxPasses,   \* GATEWAY_TEARDOWN_MAX_PASSES
          MaxPauses,   \* bound on passes that spend their call budget
          MaxFaults,   \* bound on restarts and on calls that fail
          MaxLags      \* bound on writes whose listings lag

VARIABLES
  live,     \* the root resources that exist
  stale,    \* removed resources a listing still shows
  old,      \* the deployment listing still shows the version before the retirement
  foreign,  \* another script binds the Worker or its namespace
  flying,   \* a write without an answer that may still arrive
  offer,    \* the gateway's signed statement: "none", "plain", "warned" of an earlier grant, or "expired"
  job,      \* the job record: [phase, att, done, pend, rev]
  expired,  \* attempts whose expiresAt is past
  req,      \* the browser request of each attempt
  grant,    \* the grant of each attempt
  pending,  \* the driver's #pending: the attempt whose grant it holds, or 0
  memory,   \* the attempt memory: the preflight is complete
  passes,   \* passes of the pending attempt
  sent,     \* writes the pending attempt has had answered
  alarm,    \* the object's alarm is set
  pass,     \* the running pass: [att, at, present, job]
  pauses, faults, lags

cloud   == <<live, stale, old, flying>>
clients == <<req, expired>>
driver  == <<grant, pending, memory, passes, sent>>
bounds  == <<foreign, offer, pauses, faults, lags>>
vars == <<live, stale, old, foreign, flying, offer, job, expired, req, grant, pending, memory, passes, sent, alarm, pass,
          pauses, faults, lags>>

(* GATEWAY_ROOT_REMOVAL_STEPS                                                *)
Namespace   == 1
Domain      == 2
Policy      == 3
Application == 4
Worker      == 5
Steps    == 1..5
Attempts == 1..MaxAttempts
Statements == {"none", "plain", "warned", "expired"}
Grants     == {"none", "held", "revoked", "lost"}
Resources  == SUBSET Steps          \* what the provider's readings can show
NoJob    == [phase |-> "none", att |-> 0, done |-> 0, pend |-> 0, rev |-> "not_attempted"]
NoPass   == [att |-> 0, at |-> "none", present |-> "unread", job |-> NoJob]

Init ==
  /\ live = Steps /\ stale = {} /\ old = FALSE /\ foreign \in BOOLEAN /\ flying = 0
  /\ offer = "none" /\ job = NoJob /\ expired = {} /\ req = [i \in Attempts |-> "new"] /\ grant = [i \in Attempts |-> "none"]
  /\ pending = 0 /\ memory = FALSE /\ passes = 0 /\ sent = {} /\ alarm = FALSE /\ pass = NoPass
  /\ pauses = 0 /\ faults = 0 /\ lags = 0

Fault == faults < MaxFaults /\ faults' = faults + 1 /\ UNCHANGED <<foreign, offer, pauses, lags>>
Removed(j) == j.phase \in {"removed", "removed_revocation_unconfirmed"}

-----------------------------------------------------------------------------
(* The job (gateway-teardown-job.ts)                                        *)

(* createGatewayTeardownHandoff: the gateway signs its completed removal,    *)
(* again after a further consent, as long as it is there; a statement is     *)
(* good for ten minutes.                                                     *)
Sign ==
  /\ Namespace \in live /\ offer' \in {"plain", "warned"} \ {offer}
  /\ UNCHANGED <<cloud, job, clients, driver, alarm, pass, foreign, pauses, faults, lags>>
StatementExpires ==
  /\ offer \in {"plain", "warned"} /\ offer' = "expired"
  /\ UNCHANGED <<cloud, job, clients, driver, alarm, pass, foreign, pauses, faults, lags>>

Offered == offer \in {"plain", "warned"}   \* verifyOffered
(* importJob: a new job, or the warning of a fresh equivalent statement; a   *)
(* job that was accepted outlives its statement.                             *)
Import ==
  /\ Offered
  /\ \/ job.phase = "none" /\ job' = [job EXCEPT !.phase = "review", !.rev = IF offer = "warned" THEN "unconfirmed" ELSE @]
     \/ /\ job.phase # "none" /\ ~Removed(job) /\ offer = "warned" /\ job.rev # "unconfirmed"
        /\ job' = [job EXCEPT !.rev = "unconfirmed"]
  /\ UNCHANGED <<cloud, clients, driver, alarm, pass, bounds>>

(* An interrupted exchange may already have received a grant.                *)
WarnInterrupted == IF job.rev = "unconfirmed" \/ job.phase = "exchanging" THEN "unconfirmed" ELSE "not_attempted"

(* authorizeGatewayTeardownJob                                               *)
Authorize(i) ==
  /\ req[i] = "new" /\ \A k \in Attempts : k < i => req[k] # "new"
  /\ job.phase # "none" /\ ~Removed(job) /\ (job.att = 0 \/ job.att \in expired)
  /\ job' = [job EXCEPT !.phase = "authorizing", !.att = i, !.rev = WarnInterrupted]
  /\ req' = [req EXCEPT ![i] = "consent"]
  /\ UNCHANGED <<cloud, expired, driver, alarm, pass, bounds>>

(* settleGatewayTeardownAttempt                                              *)
Settled(revocation) ==
  LET complete == job.phase = "exchanging" /\ job.pend = 0 /\ job.done = 5
      rev      == IF job.rev = "unconfirmed" THEN "unconfirmed" ELSE revocation
  IN  [job EXCEPT !.att = 0, !.rev = rev,
                  !.phase = IF ~complete THEN "recovery_required"
                            ELSE IF rev = "confirmed" THEN "removed" ELSE "removed_revocation_unconfirmed"]
(* settle: only the attempt the job still names.                             *)
Settle(i, revocation) == job' = IF job.att = i /\ i # 0 THEN Settled(revocation) ELSE job
(* revoke: a grant that is known to be revoked.                              *)
Revocation(g) == IF g = "revoked" THEN "confirmed" ELSE "unconfirmed"

(* callback: the attempt is consumed before its code is; a denial settles.   *)
Callback(i) ==
  /\ req[i] = "consent" /\ job.phase = "authorizing" /\ job.att = i /\ i \notin expired /\ flying = 0
  /\ job' = [job EXCEPT !.phase = "exchanging"]
  /\ \E at \in {"finalize", "denied"} : req' = [req EXCEPT ![i] = at]
  /\ UNCHANGED <<cloud, expired, driver, alarm, pass, bounds>>
Denied(i) ==
  /\ req[i] = "denied" /\ req' = [req EXCEPT ![i] = "closed"]
  /\ job' = IF job.phase = "exchanging" /\ job.att = i THEN Settled("confirmed") ELSE job
  /\ UNCHANGED <<cloud, expired, driver, alarm, pass, bounds>>

-----------------------------------------------------------------------------
(* The finalizer (gateway-teardown-finalizer.ts)                            *)

Lost(g, i) == [k \in Attempts |-> IF k = i /\ g[k] = "held" THEN "lost" ELSE g[k]]
Forget(g)  == Lost(g, pending)                \* forget: the grant it holds is discarded

FreshMemory == memory' = FALSE                \* createGatewayRootRemovalAttemptMemory
Schedule    == alarm' = TRUE                  \* the next pass, in an invocation of its own

(* begin: the attempt is still the job's, or nothing happens.                *)
Finalize(i) ==
  /\ req[i] = "finalize"
  /\ \/ /\ job.phase = "exchanging" /\ job.att = i /\ i \notin expired
        /\ req' = [req EXCEPT ![i] = "exchange"] /\ UNCHANGED bounds
     \/ (job.phase # "exchanging" \/ job.att # i \/ i \in expired) /\ req' = [req EXCEPT ![i] = "closed"] /\ UNCHANGED bounds
     \/ Fault /\ req' = [req EXCEPT ![i] = "closed"]
  /\ UNCHANGED <<cloud, job, expired, driver, alarm, pass>>

(* The exchange: an answer that is lost may have issued a grant.             *)
Exchange(i) ==
  /\ req[i] = "exchange"
  /\ \/ grant' = [grant EXCEPT ![i] = "held"] /\ req' = [req EXCEPT ![i] = "bind"] /\ UNCHANGED bounds
     \/ Fault /\ \E g \in {"none", "lost"} : grant' = [grant EXCEPT ![i] = g] /\ req' = [req EXCEPT ![i] = "abort"]
  /\ UNCHANGED <<cloud, job, expired, pending, memory, passes, sent, alarm, pass>>

(* The account check; then the grant is kept and the first pass scheduled.   *)
Bind(i) ==
  /\ req[i] = "bind"
  /\ \/ /\ pending' = i /\ grant' = Forget(grant) /\ FreshMemory /\ passes' = 0 /\ sent' = {} /\ Schedule
        /\ req' = [req EXCEPT ![i] = "closed"] /\ UNCHANGED bounds
     \/ /\ Fault /\ \E g \in {"revoked", "lost"} : grant' = [grant EXCEPT ![i] = g]
        /\ req' = [req EXCEPT ![i] = "abort"] /\ UNCHANGED <<pending, memory, passes, sent, alarm>>
  /\ UNCHANGED <<cloud, job, expired, pass>>

(* A grant that cannot be used: the attempt is settled at once.              *)
Abort(i) ==
  /\ req[i] = "abort" /\ req' = [req EXCEPT ![i] = "closed"]
  /\ grant' = Forget(grant) /\ pending' = 0 /\ Settle(i, Revocation(grant[i]))
  /\ UNCHANGED <<cloud, expired, memory, passes, sent, alarm, pass, bounds>>

Idle == pass.at = "none"
Goto(at) == pass' = [pass EXCEPT !.at = at]
\* Mutant of Pause: a spent budget that schedules no further pass.
PauseUnscheduled == /\ pauses < MaxPauses /\ pauses' = pauses + 1 /\ pass' = NoPass
                    /\ UNCHANGED <<foreign, offer, faults, lags, alarm>>
(* The call budget is spent: the next pass continues.                        *)
Pause == /\ pauses < MaxPauses /\ pauses' = pauses + 1 /\ pass' = NoPass /\ Schedule
         /\ UNCHANGED <<foreign, offer, faults, lags>>

Exhausted(n) == n > MaxPasses

(* continue: one pass of the attempt the job names.                          *)
Alarm ==
  /\ alarm /\ Idle /\ alarm' = FALSE
  /\ \/ job.phase # "exchanging" /\ UNCHANGED <<job, grant, pending, passes, pass>>
     \/ /\ job.phase = "exchanging" /\ pending # job.att
        /\ grant' = Forget(grant) /\ pending' = 0 /\ Settle(job.att, "unconfirmed") /\ UNCHANGED <<passes, pass>>
     \/ /\ job.phase = "exchanging" /\ pending = job.att
        /\ LET dead == pending \in expired
           IN  /\ passes' = IF dead THEN passes ELSE passes + 1
               /\ pass' = [att |-> pending, present |-> "unread", job |-> job,
                           at |-> IF dead \/ Exhausted(passes') THEN "end" ELSE IF memory THEN "step" ELSE "preflight"]
        /\ UNCHANGED <<job, grant, pending>>
  /\ UNCHANGED <<cloud, clients, memory, sent, bounds>>

-----------------------------------------------------------------------------
(* A pass (executeGatewayRootRemoval)                                       *)

Shown == live \cup stale
Step == pass.job.done + 1
Presence(s) == IF s \in Shown THEN "present" ELSE "absent"
Unshared == ~foreign   \* foreignScriptsUnshared
Retired  == ~old       \* retirementMismatch: the one active version is the retirement
(* A namespace that is gone beside a version that is not the retirement.     *)
Mismatch == Namespace \notin Shown /\ Worker \in Shown /\ ~Retired

(* inventory: every resource, no foreign script, nothing verified is back.   *)
Owned == ~Mismatch /\ Unshared /\ \A s \in 1..pass.job.done : s \notin Shown

Preflight ==
  /\ pass.at = "preflight"
  /\ \/ /\ Owned /\ memory' = TRUE
        /\ pass' = [pass EXCEPT !.at = IF Step > 5 THEN "end" ELSE "step",
                                !.present = IF Step > 5 THEN "unread" ELSE Presence(Step)]
        /\ UNCHANGED <<alarm, bounds>>
     \/ ~Owned /\ Goto("end") /\ UNCHANGED <<memory, alarm, bounds>>
     \/ Fault /\ Goto("end") /\ UNCHANGED <<memory, alarm>>
     \/ Pause /\ UNCHANGED memory
  /\ UNCHANGED <<cloud, job, clients, grant, pending, passes, sent>>

(* The pass commits its copy of the job, or finds another one there.         *)
Commit(next, at) ==
  IF job = pass.job /\ job.att \notin expired
  THEN job' = next /\ pass' = [pass EXCEPT !.at = at, !.job = next, !.present = "unread"]
  ELSE Goto("end") /\ UNCHANGED job

Arms(seen) == pass.job.pend # pass.att /\ (pass.job.pend = 0 \/ seen = "present")

(* The resource is read again, unless the preflight just did, and armed.     *)
ReadAndArm ==
  /\ pass.at = "step"
  /\ LET seen == IF pass.present = "unread" THEN Presence(Step) ELSE pass.present
         at   == IF seen = "present" THEN "send" ELSE "verify"
     IN  \/ /\ pass.present = "unread" => ~(Step = Namespace /\ Mismatch)
            /\ IF Arms(seen) THEN Commit([pass.job EXCEPT !.pend = pass.att], at) ELSE Goto(at) /\ UNCHANGED job
            /\ UNCHANGED <<alarm, bounds>>
         \/ pass.present = "unread" /\ Step = Namespace /\ Mismatch /\ Goto("end") /\ UNCHANGED <<job, alarm, bounds>>
         \/ pass.present = "unread" /\ Fault /\ Goto("end") /\ UNCHANGED <<job, alarm>>
         \/ pass.present = "unread" /\ Pause /\ UNCHANGED job
  /\ UNCHANGED <<cloud, clients, driver>>

(* What a write that arrives does: listings may lag behind it.               *)
Arrives(s) ==
  /\ live' = live \ {s}
  /\ \/ stale' = stale /\ old' = old /\ lags' = lags
     \/ /\ lags < MaxLags /\ lags' = lags + 1 /\ s \in live
        /\ \E show \in SUBSET {s} : stale' = stale \cup show
        /\ old' \in (IF s = Namespace THEN {old, TRUE} ELSE {old})

(* remove: sent at most once in a pass; without an answer the attempt ends.  *)
Send ==
  /\ pass.at = "send"
  /\ \/ /\ pass.att \in expired /\ Goto("end") /\ UNCHANGED <<cloud, sent, alarm, bounds>>
     \/ /\ pass.att \notin expired /\ Arrives(Step) /\ sent' = sent \cup {Step} /\ Goto("absent")
        /\ UNCHANGED <<flying, alarm, foreign, offer, pauses, faults>>
     \/ /\ pass.att \notin expired /\ Fault /\ flying' \in {0, Step} /\ Goto("end") /\ UNCHANGED <<live, stale, old, sent, alarm>>
     \/ pass.att \notin expired /\ Pause /\ UNCHANGED <<cloud, sent>>
  /\ UNCHANGED <<job, clients, grant, pending, memory, passes>>

\* Mutant of Absence: a write whose answer is taken for the absence.
AnswerIsAbsence == TRUE
(* stepAbsent: both views of the retirement, the listing and the identity.   *)
Absence == Step \notin Shown /\ (Step = Namespace => Retired)

(* The absence is read up to eight times.                                    *)
Absent ==
  /\ pass.at = "absent"
  /\ \/ Absence /\ Goto("verify") /\ UNCHANGED <<alarm, bounds>>
     \/ ~Absence /\ Goto("end") /\ UNCHANGED <<alarm, bounds>>
     \/ Fault /\ Goto("end") /\ UNCHANGED alarm
     \/ Pause
  /\ UNCHANGED <<cloud, job, clients, driver>>

(* verifyGatewayRootRemoval                                                  *)
Verify ==
  /\ pass.at = "verify"
  /\ Commit([pass.job EXCEPT !.done = @ + 1, !.pend = 0], IF Step = 5 THEN "end" ELSE "step")
  /\ UNCHANGED <<cloud, clients, driver, alarm, bounds>>

(* end: the grant is revoked, forgotten, and the attempt settled; the        *)
(* session's housekeeping then releases the alarm.                           *)
Revoke ==
  /\ pass.at = "end" /\ Goto("settle")
  /\ \/ grant[pass.att] = "held" /\ grant' = [grant EXCEPT ![pass.att] = "revoked"] /\ UNCHANGED bounds
     \/ grant[pass.att] # "held" /\ UNCHANGED <<grant, bounds>>
     \/ Fault /\ grant' = Lost(grant, pass.att)
  /\ UNCHANGED <<cloud, job, clients, pending, memory, passes, sent, alarm>>
SettleAttempt ==
  /\ pass.at = "settle" /\ pass' = NoPass /\ alarm' = FALSE
  /\ grant' = Forget(grant) /\ pending' = 0 /\ Settle(pass.att, Revocation(grant[pass.att]))
  /\ UNCHANGED <<cloud, clients, memory, passes, sent, bounds>>

-----------------------------------------------------------------------------
(* Time, restarts and the provider                                          *)

Expire(i) ==
  /\ job.att = i /\ i \notin expired /\ expired' = expired \cup {i}
  /\ UNCHANGED <<cloud, job, req, driver, alarm, pass, bounds>>

(* The job object restarts: its memory is gone, a pass is retried.           *)
Restart ==
  /\ Fault /\ pending' = 0 /\ FreshMemory /\ passes' = 0 /\ sent' = {} /\ pass' = NoPass /\ alarm' = (alarm \/ ~Idle)
  /\ grant' = [i \in Attempts |-> IF grant[i] = "held" THEN "lost" ELSE grant[i]]
  /\ req' = [i \in Attempts |-> IF req[i] \in {"exchange", "bind", "abort"} THEN "closed" ELSE req[i]]
  /\ UNCHANGED <<cloud, job, expired>>

(* A write without an answer arrives or is dropped, before a later consent.  *)
Land ==
  /\ flying # 0 /\ flying' = 0
  /\ \/ Arrives(flying) /\ UNCHANGED <<foreign, offer, pauses, faults>>
     \/ UNCHANGED <<live, stale, old, bounds>>
  /\ UNCHANGED <<job, clients, driver, alarm, pass>>
CatchUp ==
  /\ \/ \E s \in stale : stale' = stale \ {s} /\ UNCHANGED old
     \/ old /\ old' = FALSE /\ UNCHANGED stale
  /\ UNCHANGED <<live, flying, job, clients, driver, alarm, pass, bounds>>

RequestStep(i) == Denied(i) \/ Finalize(i) \/ Exchange(i) \/ Bind(i) \/ Abort(i)
PassStep == Preflight \/ ReadAndArm \/ Send \/ Absent \/ Verify \/ Revoke \/ SettleAttempt
Next ==
  \/ Sign \/ StatementExpires \/ Import \/ Alarm \/ PassStep \/ Restart \/ Land \/ CatchUp
  \/ \E i \in Attempts : Authorize(i) \/ Callback(i) \/ RequestStep(i) \/ Expire(i)

Spec == Init /\ [][Next]_vars
(* Handlers that run go on and a set alarm fires.                            *)
FairSpec == /\ Spec /\ WF_vars(Alarm) /\ WF_vars(PassStep)
            /\ \A i \in Attempts : WF_vars(RequestStep(i))

-----------------------------------------------------------------------------
(* Properties                                                               *)

Jobs == [phase : {"none", "review", "authorizing", "exchanging", "recovery_required", "removed", "removed_revocation_unconfirmed"},
         att : 0..MaxAttempts, done : 0..5, pend : 0..MaxAttempts, rev : {"not_attempted", "confirmed", "unconfirmed"}]
Places == {"none", "preflight", "step", "send", "absent", "verify", "end", "settle"}
PassRecords == [att : 0..MaxAttempts, at : Places, present : {"unread", "present", "absent"}, job : Jobs]
Requests == {"new", "consent", "denied", "finalize", "exchange", "bind", "abort", "closed"}
TypeOK ==
  /\ live \in Resources /\ stale \in Resources /\ flying \in 0..5
  /\ old \in BOOLEAN /\ foreign \in BOOLEAN /\ memory \in BOOLEAN /\ alarm \in BOOLEAN
  /\ offer \in Statements /\ job \in Jobs /\ expired \subseteq Attempts
  /\ pending \in 0..MaxAttempts /\ passes \in 0..MaxPasses + 1 /\ sent \subseteq Steps
  /\ req \in [Attempts -> Requests] /\ grant \in [Attempts -> Grants] /\ pass \in PassRecords

(* What the job counts as verified is gone, whatever the listings showed and *)
(* whichever attempt removed it; a removed job has nothing left.             *)
VerifiedIsGone == /\ \A s \in 1..job.done : s \notin Shown
                  /\ Removed(job) => live = {}

(* The order holds through lost answers and repeated consents: the           *)
(* management page is never served without its Access application and        *)
(* policy, and the Worker goes last.                                         *)
GuardedUntilGone == /\ Domain \in live => {Policy, Application} \subseteq live
                    /\ Worker \notin live => live = {}

(* Arming is durable before any write is sent: whatever is gone, or may      *)
(* still go, is verified or is the armed step.                               *)
WritesAreArmed == \A s \in (Steps \ live) \cup ({flying} \ {0}) : s <= job.done \/ (s = job.done + 1 /\ job.pend # 0)

(* A job that reads "removed" proves that every grant it received is         *)
(* revoked, and a grant that was lost is warned of or its attempt is still   *)
(* exchanging, in which case the next consent warns.                         *)
RevocationIsHonest ==
  /\ job.phase = "removed" => \A i \in Attempts : grant[i] \in {"none", "revoked"}
  /\ \A i \in Attempts : grant[i] = "lost" => job.rev = "unconfirmed" \/ (job.att = i /\ job.phase = "exchanging")

(* Another script that binds the Worker or its namespace stops the removal   *)
(* before the first write.                                                   *)
ForeignStops == foreign => live = Steps

(* A consent that meets no fault removes the root, unless it or an earlier   *)
(* one expires or a fresh statement replaces the job under the pass: each    *)
(* pass goes on where the last one stopped.                                  *)
Due  == \E i \in Attempts : req[i] = "finalize"
Done == Removed(job) \/ foreign \/ expired # {} \/ job.rev = "unconfirmed"
ConsentRemoves == Due ~> Done

(* "A write it already sent is settled, never sent again"                    *)
(* (gateway-teardown-provider.ts, executeGatewayRootRemoval).                *)
SentOnce == [][pass.at = "send" /\ pass'.at = "absent" => Step \notin sent]_vars

(* An attempt whose grant was lost "then settles recovery-required with      *)
(* grant_lost" (gateway-teardown-finalizer.ts).                              *)
LostGrantSettles ==
  \A i \in Attempts : (grant[i] = "lost" /\ job.att = i /\ job.phase = "exchanging") ~> job.att # i

(* The safety of this component: its invariants together.                   *)
Safe ==
  /\ TypeOK /\ VerifiedIsGone /\ GuardedUntilGone /\ WritesAreArmed /\ RevocationIsHonest
  /\ ForeignStops
=============================================================================
