---------------------------- MODULE LifecycleProofs ----------------------------
(*******************************************************************************)
(* Proofs about removals: what run lifecycle checks of all its parts but those *)
(* of updates, for any number of consents, actions, requests and passes and    *)
(* any bound on what goes wrong.  Root is the instance of RootRemoval in       *)
(* MCLifecycle, Gateway that of Teardown, Cleanup that of CleanupWorker.       *)
(*                                                                             *)
(* RootRemoval: two arguments hardly meet.  The removal: a resource that was   *)
(* not shown is never shown again, and whatever is gone or may still go is     *)
(* counted by the job or armed in it, because a running pass agrees with the   *)
(* job on both, however stale its copy is in everything else.  The grants: a   *)
(* consent that has, lost or may yet get a grant is the one the job names, or  *)
(* the job already warns.                                                      *)
(*                                                                             *)
(* Teardown: a settlement returns to the ready receipt only from a journal     *)
(* that neither counts nor arms a deletion, and then the progress of the pass  *)
(* starts again, so a pass that deletes (MayDelete) never rests on a journal   *)
(* that was reset under it; and from the journal's answer to its first         *)
(* deletion on some action locks the runtime, even when its own action expires *)
(* and is dropped (Alone).                                                     *)
(*                                                                             *)
(* CleanupWorker: an object is one pass's alone, so that a pass may rely on    *)
(* its journal between its own steps (CleanersStand), whatever the pass in the *)
(* other object does; a resource whose deletion has no answer is gone or its   *)
(* object's journal waits for that answer (UnknownStand); what somebody took   *)
(* over is not being deleted (KeptStand), because a pass arms a deletion only  *)
(* of what it found to be the gateway's; and no added source is deleted before *)
(* the Portal's update is seen complete (MappedStand).                         *)
(*******************************************************************************)
EXTENDS MCLifecycle, TLAPS

USE DEF Root!PassRecords, Root!Requests

\* A pass works for a consent whose request is over, on the step the job is at; it does more than
\* look only while a step is left, and sends only what is armed.
PassIsOfJob ==
  /\ itsPass.at # "none" =>
       /\ itsPass.att \in Root!Attempts /\ req[itsPass.att] = "closed"
       /\ itsPass.job.done = job.done /\ itsPass.job.pend = job.pend
  /\ itsPass.at \in {"step", "send", "absent", "verify"} => itsPass.job.done <= 4
  /\ itsPass.at = "send" => itsPass.job.pend # 0

\* What a pass took for absent is absent.
AbsenceHolds ==
  /\ itsPass.at = "verify" => Root!Step \notin Root!Shown
  /\ itsPass.at = "step" /\ itsPass.present = "absent" => Root!Step \notin Root!Shown

\* The memory of a finished preflight is of a removal that has a step left, and the passes of the
\* pending consent are counted until it ends.
MemoryFits ==
  /\ itsPass.at = "preflight" => ~memory
  /\ itsPass.at = "none" /\ memory /\ itsPending # 0 => job.done <= 4
  /\ passes <= RootPasses \/ itsPending = 0 \/ itsPass.at \in {"end", "settle"}

\* A foreign script keeps every pass in its preflight.
ForeignKeepsOut ==
  foreign => /\ live = Root!Steps /\ itsFlying = 0 /\ ~memory
             /\ itsPass.at \notin {"step", "send", "absent", "verify"}

\* The job at work names its consent; the driver's belongs to a request that is over.
ConsentsAreNamed ==
  /\ job.phase \in {"authorizing", "exchanging"} => job.att \in Root!Attempts
  /\ itsPending # 0 => req[itsPending] = "closed"
  /\ \A i \in Root!Attempts :
       req[i] \in {"new", "consent", "denied", "finalize", "exchange"} => itsGrant[i] = "none"

\* A consent that has, lost or may yet get a grant is the job's, or the job warns.
Exposed(i) == itsGrant[i] \in {"held", "lost"} \/ req[i] \in {"exchange", "bind", "abort"}
GrantsAreWarned ==
  /\ \A i \in Root!Attempts : Exposed(i) =>
       job.rev = "unconfirmed" \/ (job.att = i /\ job.phase = "exchanging")
  /\ job.phase = "removed" => job.rev = "confirmed"

RemovalInv ==
  /\ Root!VerifiedIsGone /\ Root!WritesAreArmed /\ PassIsOfJob /\ AbsenceHolds /\ MemoryFits
  /\ ForeignKeepsOut
GrantInv == ConsentsAreNamed /\ GrantsAreWarned
FinalizerInv == Root!TypeOK /\ RemovalInv /\ GrantInv

-----------------------------------------------------------------------------
\* The fields of the job and of the pass.
LEMMA JobFields ==
  ASSUME Root!TypeOK
  PROVE  /\ job.att \in 0..RootAttempts /\ job.done \in 0..5 /\ job.pend \in 0..RootAttempts
         /\ itsPass.att \in 0..RootAttempts /\ itsPass.at \in Root!Places
         /\ itsPass.job \in Root!Jobs
         /\ itsPass.job.done \in 0..5 /\ itsPass.job.pend \in 0..RootAttempts
BY DEF Root!TypeOK, Root!Jobs

\* What settling an attempt leaves of the job.
LEMMA SettledJob ==
  ASSUME Root!TypeOK, NEW r \in {"confirmed", "unconfirmed"}
  PROVE  /\ Root!Settled(r) \in Root!Jobs
         /\ Root!Settled(r).done = job.done /\ Root!Settled(r).pend = job.pend
         /\ Root!Settled(r).att = 0
         /\ Root!Settled(r).phase \in {"recovery_required", "removed",
                                       "removed_revocation_unconfirmed"}
         /\ Root!Settled(r).rev = IF job.rev = "unconfirmed" THEN "unconfirmed" ELSE r
         /\ Root!Removed(Root!Settled(r)) => job.done = 5
         /\ Root!Settled(r).phase = "removed" => Root!Settled(r).rev = "confirmed"
<1> DEFINE rev   == IF job.rev = "unconfirmed" THEN "unconfirmed" ELSE r
           phase == IF ~(job.phase = "exchanging" /\ job.pend = 0 /\ job.done = 5)
                    THEN "recovery_required"
                    ELSE IF rev = "confirmed" THEN "removed" ELSE "removed_revocation_unconfirmed"
<1>1. Root!Settled(r) = [job EXCEPT !.att = 0, !.rev = rev, !.phase = phase]
  BY DEF Root!Settled
<1>2. /\ rev \in {"confirmed", "unconfirmed"}
      /\ phase \in {"recovery_required", "removed", "removed_revocation_unconfirmed"}
      /\ phase # "recovery_required" => job.done = 5
      /\ phase = "removed" => rev = "confirmed"
  OBVIOUS
<1> HIDE DEF rev, phase
<1>3. /\ Root!Settled(r).done = job.done /\ Root!Settled(r).pend = job.pend
      /\ Root!Settled(r).att = 0 /\ Root!Settled(r).phase = phase /\ Root!Settled(r).rev = rev
  BY <1>1 DEF Root!TypeOK, Root!Jobs
<1>4. Root!Settled(r) \in Root!Jobs
  <2>1. 0 \in 0..RootAttempts
    BY RootBounds
  <2> QED BY <1>1, <1>2, <2>1 DEF Root!TypeOK, Root!Jobs
<1> QED BY <1>2, <1>3, <1>4 DEF Root!Removed, rev

\* Settling touches only the job of that attempt.
LEMMA SettleLeaves ==
  ASSUME Root!TypeOK, NEW i, NEW r \in {"confirmed", "unconfirmed"}, Root!Settle(i, r)
  PROVE  /\ job' \in Root!Jobs /\ job'.done = job.done /\ job'.pend = job.pend
         /\ job.att # i \/ i = 0 => job' = job
         /\ job.att = i /\ i # 0 =>
              /\ job'.att = 0
              /\ job'.phase \in {"recovery_required", "removed", "removed_revocation_unconfirmed"}
              /\ job'.rev = IF job.rev = "unconfirmed" THEN "unconfirmed" ELSE r
              /\ Root!Removed(job') => job.done = 5
              /\ job'.phase = "removed" => job'.rev = "confirmed"
BY SettledJob DEF Root!TypeOK, Root!Settle

\* A write takes its resource away and lets a listing show no more than before.
LEMMA ArriveTakes ==
  ASSUME Root!TypeOK, NEW s \in 1..5, Root!Arrives(s)
  PROVE  /\ live' = live \ {s} /\ live' \in Root!Resources /\ stale' \in Root!Resources
         /\ old' \in BOOLEAN /\ Root!Shown' \subseteq Root!Shown
BY DEF Root!TypeOK, Root!Arrives, Root!Resources, Root!Steps, Root!Shown

\* A pass goes on to another place.
LEMMA GotoMoves ==
  ASSUME Root!TypeOK, NEW at \in Root!Places, Root!Goto(at)
  PROVE  /\ itsPass' \in Root!PassRecords
         /\ itsPass'.at = at /\ itsPass'.att = itsPass.att /\ itsPass'.present = itsPass.present
         /\ itsPass'.job = itsPass.job
BY DEF Root!TypeOK, Root!Goto

\* A pass commits, or ends because its copy was replaced or its consent is over.
LEMMA CommitOrEnd ==
  ASSUME Root!TypeOK, NEW next \in Root!Jobs, NEW at \in Root!Places, Root!Commit(next, at)
  PROVE  /\ itsPass' \in Root!PassRecords
         /\ itsPass'.att = itsPass.att /\ job' \in Root!Jobs
         /\ \/ /\ job = itsPass.job /\ job' = next /\ itsPass'.job = next
               /\ itsPass'.at = at /\ itsPass'.present = "unread"
            \/ job' = job /\ itsPass'.at = "end" /\ itsPass'.job = itsPass.job
<1>1. CASE job = itsPass.job /\ job.att \notin itsExpired
  <2>1. job' = next /\ itsPass' = [itsPass EXCEPT !.at = at, !.job = next, !.present = "unread"]
    BY <1>1 DEF Root!Commit
  <2> QED BY <1>1, <2>1 DEF Root!TypeOK
<1>2. CASE ~(job = itsPass.job /\ job.att \notin itsExpired)
  BY <1>2 DEF Root!Commit, Root!Goto, Root!TypeOK, Root!Places
<1> QED BY <1>1, <1>2

\* A grant that is lost was held.
LEMMA LostWasHeld ==
  ASSUME Root!TypeOK, NEW i
  PROVE  /\ Root!Lost(itsGrant, i) \in [Root!Attempts -> Root!Grants]
         /\ \A k \in Root!Attempts :
              Root!Lost(itsGrant, i)[k] =
                IF k = i /\ itsGrant[k] = "held" THEN "lost" ELSE itsGrant[k]
BY DEF Root!TypeOK, Root!Lost, Root!Grants

\* Between the steps of a pass, the driver may give its consent up or begin anew, requests end,
\* and a job may be settled.
LEMMA DriverRests ==
  ASSUME FinalizerInv, UNCHANGED <<live, stale, itsFlying, foreign, itsPass>>,
         job' \in Root!Jobs, job'.done = job.done, job'.pend = job.pend,
         Root!Removed(job') => Root!Removed(job) \/ job.done = 5,
         \A k \in Root!Attempts : req[k] = "closed" => req'[k] = "closed",
         \/ UNCHANGED <<memory, passes>> /\ itsPending' \in {itsPending, 0}
         \/ memory' = FALSE /\ passes' = 0
  PROVE  RemovalInv'
BY RootBounds DEF FinalizerInv, Root!TypeOK, Root!Resources, Root!Steps, Root!VerifiedIsGone,
  Root!Shown, RemovalInv, Root!WritesAreArmed, PassIsOfJob, AbsenceHolds, ForeignKeepsOut,
  Root!Step, MemoryFits

\* No pass.
LEMMA NoPassFits == Root!NoPass \in Root!PassRecords
BY RootBounds DEF Root!NoPass, Root!NoJob, Root!Jobs, Root!Places

LEMMA InitHolds == Root!Init => FinalizerInv
<1> SUFFICES ASSUME Root!Init PROVE FinalizerInv
  OBVIOUS
<1> USE RootBounds
<1>1. Root!NoJob \in Root!Jobs
  BY DEF Root!NoJob, Root!Jobs
<1>2. Root!TypeOK
  <2>1. /\ live \in Root!Resources /\ stale \in Root!Resources /\ itsFlying \in 0..5
        /\ itsSent \subseteq Root!Steps
    BY DEF Root!Init, Root!Resources, Root!Steps
  <2>2. old \in BOOLEAN /\ foreign \in BOOLEAN /\ memory \in BOOLEAN /\ itsAlarm \in BOOLEAN
    BY DEF Root!Init
  <2>3. offer \in Root!Statements /\ job \in Root!Jobs /\ itsExpired \subseteq Root!Attempts
    BY <1>1 DEF Root!Init, Root!Statements
  <2>4. itsPending \in 0..RootAttempts /\ passes \in 0..RootPasses + 1
    BY DEF Root!Init
  <2>5. /\ req \in [Root!Attempts -> Root!Requests]
        /\ itsGrant \in [Root!Attempts -> Root!Grants]
    BY DEF Root!Init, Root!Grants
  <2>6. itsPass \in Root!PassRecords
    BY NoPassFits DEF Root!Init
  <2> QED BY <2>1, <2>2, <2>3, <2>4, <2>5, <2>6 DEF Root!TypeOK
<1>3. RemovalInv
  BY DEF Root!Init, RemovalInv, Root!VerifiedIsGone, Root!WritesAreArmed, PassIsOfJob,
    AbsenceHolds, MemoryFits, ForeignKeepsOut, Root!NoPass, Root!NoJob, Root!Removed, Root!Steps
<1>4. GrantInv
  BY DEF Root!Init, GrantInv, ConsentsAreNamed, Exposed, GrantsAreWarned, Root!NoJob
<1> QED BY <1>2, <1>3, <1>4 DEF FinalizerInv

LEMMA InvIsSafe == FinalizerInv => Root!Safe
<1> SUFFICES ASSUME FinalizerInv PROVE Root!Safe
  OBVIOUS
<1>1. Root!TypeOK /\ Root!VerifiedIsGone /\ Root!WritesAreArmed
  BY DEF FinalizerInv, RemovalInv
<1>2. job.done \in 0..5 /\ live \subseteq 1..5 /\ job.pend \in Nat
  BY <1>1, RootBounds DEF Root!TypeOK, Root!Jobs, Root!Resources, Root!Steps
<1>3. \A s \in 1..5 : s \notin live => s <= job.done + 1
  BY <1>1, <1>2 DEF Root!WritesAreArmed, Root!Steps
<1>4. \A s \in 1..job.done : s \notin live
  BY <1>1 DEF Root!VerifiedIsGone, Root!Shown
<1>5. Root!GuardedUntilGone
  BY <1>2, <1>3, <1>4 DEF Root!GuardedUntilGone, Root!Domain, Root!Policy, Root!Application,
    Root!Worker
<1>6. Root!RevocationIsHonest
  BY DEF FinalizerInv, GrantInv, GrantsAreWarned, Exposed, Root!RevocationIsHonest, Root!TypeOK,
    Root!Grants
<1>7. Root!ForeignStops
  BY DEF FinalizerInv, RemovalInv, ForeignKeepsOut, Root!ForeignStops
<1> QED BY <1>1, <1>5, <1>6, <1>7 DEF Root!Safe

\* The statement says nothing of the removal.
LEMMA SignHolds ==
  ASSUME FinalizerInv, Root!Sign
  PROVE  FinalizerInv'
BY DriverRests DEF FinalizerInv, Root!TypeOK, Root!Sign, Root!cloud, Root!clients, Root!driver,
  Root!bounds, Root!Statements, GrantInv, ConsentsAreNamed, GrantsAreWarned, Exposed

\* The statement says nothing of the removal.
LEMMA StatementExpiresHolds ==
  ASSUME FinalizerInv, Root!StatementExpires
  PROVE  FinalizerInv'
BY DriverRests DEF FinalizerInv, Root!TypeOK, Root!StatementExpires, Root!cloud, Root!clients,
  Root!driver, Root!bounds, Root!Statements, GrantInv, ConsentsAreNamed, GrantsAreWarned, Exposed

\* A new job has nothing done, and a warning stays.
LEMMA ImportHolds ==
  ASSUME FinalizerInv, Root!Import
  PROVE  FinalizerInv'
<1>0. /\ job' \in Root!Jobs /\ job'.done = job.done /\ job'.pend = job.pend
      /\ Root!Removed(job') => Root!Removed(job)
  BY DEF FinalizerInv, Root!TypeOK, Root!Import, Root!Jobs, Root!Removed
<1>1. Root!TypeOK'
  BY <1>0 DEF FinalizerInv, Root!TypeOK, Root!Import, Root!cloud, Root!clients, Root!driver,
    Root!bounds
<1>2. RemovalInv'
  BY <1>0, DriverRests DEF FinalizerInv, Root!TypeOK, Root!Import, Root!cloud, Root!clients,
    Root!driver, Root!bounds
<1>3. GrantInv'
  BY DEF FinalizerInv, Root!TypeOK, GrantInv, ConsentsAreNamed, GrantsAreWarned, Exposed,
    Root!Import, Root!cloud, Root!clients, Root!driver, Root!bounds, Root!Jobs, Root!Removed
<1> QED BY <1>1, <1>2, <1>3 DEF FinalizerInv

\* A consent takes a free job; an interrupted exchange is warned of.
LEMMA AuthorizeHolds ==
  ASSUME FinalizerInv, NEW i \in Root!Attempts, Root!Authorize(i)
  PROVE  FinalizerInv'
<1>0. /\ job' \in Root!Jobs /\ job'.done = job.done /\ job'.pend = job.pend
      /\ ~Root!Removed(job')
  <2>1. /\ i \in 0..RootAttempts
        /\ Root!WarnInterrupted \in {"not_attempted", "confirmed", "unconfirmed"}
    BY RootBounds DEF Root!Attempts, Root!WarnInterrupted
  <2> QED BY <2>1 DEF FinalizerInv, Root!TypeOK, Root!Authorize, Root!Jobs, Root!Removed
<1>1. Root!TypeOK'
  BY <1>0 DEF FinalizerInv, Root!TypeOK, Root!Authorize, Root!cloud, Root!clients, Root!driver,
    Root!bounds
<1>2. RemovalInv'
  BY <1>0, DriverRests DEF FinalizerInv, Root!TypeOK, Root!Authorize, Root!cloud, Root!clients,
    Root!driver, Root!bounds
<1>3. GrantInv'
  BY DEF FinalizerInv, Root!TypeOK, GrantInv, ConsentsAreNamed, GrantsAreWarned, Exposed,
    Root!Authorize, Root!cloud, Root!clients, Root!driver, Root!bounds, Root!Jobs,
    Root!WarnInterrupted, Root!Removed
<1> QED BY <1>1, <1>2, <1>3 DEF FinalizerInv

\* A callback makes the job its own.
LEMMA CallbackHolds ==
  ASSUME FinalizerInv, NEW i \in Root!Attempts, Root!Callback(i)
  PROVE  FinalizerInv'
BY DriverRests DEF FinalizerInv, Root!TypeOK, Root!Callback, Root!Jobs, Root!Removed, Root!cloud,
  Root!clients, Root!driver, Root!bounds, GrantInv, ConsentsAreNamed, GrantsAreWarned, Exposed

\* A denial settles its own job, and no grant came with it.
LEMMA DeniedHolds ==
  ASSUME FinalizerInv, NEW i \in Root!Attempts, Root!Denied(i)
  PROVE  FinalizerInv'
BY SettledJob, DriverRests DEF FinalizerInv, Root!TypeOK, Root!Denied, Root!cloud, Root!clients,
  Root!driver, Root!bounds, GrantInv, ConsentsAreNamed, GrantsAreWarned, Exposed

\* A request goes on only while the job is its own.
LEMMA FinalizeHolds ==
  ASSUME FinalizerInv, NEW i \in Root!Attempts, Root!Finalize(i)
  PROVE  FinalizerInv'
BY DriverRests, RootBounds DEF FinalizerInv, Root!TypeOK, Root!Finalize, Root!cloud, Root!clients,
  Root!driver, Root!bounds, Root!Fault, GrantInv, ConsentsAreNamed, Root!Attempts, GrantsAreWarned,
  Exposed

\* A grant comes to the request of the job, or of one that warns.
LEMMA ExchangeHolds ==
  ASSUME FinalizerInv, NEW i \in Root!Attempts, Root!Exchange(i)
  PROVE  FinalizerInv'
<1>1. Root!TypeOK'
  BY DEF FinalizerInv, Root!TypeOK, Root!Exchange, Root!cloud, Root!clients, Root!driver,
    Root!bounds, Root!Fault, Root!Grants
<1>2. RemovalInv'
  BY DriverRests DEF FinalizerInv, Root!TypeOK, Root!Exchange, Root!cloud, Root!clients,
    Root!driver, Root!bounds, Root!Fault
<1>3. GrantInv'
  <2>1. PICK g \in Root!Grants : itsGrant' = [itsGrant EXCEPT ![i] = g]
    BY DEF Root!Exchange, Root!Grants
  <2>2. PICK at \in {"bind", "abort"} : req' = [req EXCEPT ![i] = at]
    BY DEF Root!Exchange
  <2>3. UNCHANGED <<job, itsPending>> /\ req[i] = "exchange"
    BY DEF Root!Exchange
  <2>4. ConsentsAreNamed'
    BY <2>1, <2>2, <2>3 DEF FinalizerInv, Root!TypeOK, GrantInv, ConsentsAreNamed
  <2>5. GrantsAreWarned'
    BY <2>1, <2>2, <2>3 DEF FinalizerInv, Root!TypeOK, GrantInv, GrantsAreWarned, Exposed
  <2> QED BY <2>4, <2>5 DEF GrantInv
<1> QED BY <1>1, <1>2, <1>3 DEF FinalizerInv

\* The driver takes the grant over; the one it held is lost.
LEMMA BindHolds ==
  ASSUME FinalizerInv, NEW i \in Root!Attempts, Root!Bind(i)
  PROVE  FinalizerInv'
<1>0. /\ UNCHANGED job /\ req[i] = "bind"
      /\ \/ /\ itsPending' = i /\ itsGrant' = Root!Forget(itsGrant)
            /\ req' = [req EXCEPT ![i] = "closed"]
         \/ /\ UNCHANGED itsPending /\ req' = [req EXCEPT ![i] = "abort"]
            /\ \E g \in {"revoked", "lost"} : itsGrant' = [itsGrant EXCEPT ![i] = g]
  BY DEF Root!Bind
<1>g. Root!Forget(itsGrant) \in [Root!Attempts -> Root!Grants]
  BY LostWasHeld DEF FinalizerInv, Root!Forget
<1>1. Root!TypeOK'
  <2>1. itsGrant' \in [Root!Attempts -> Root!Grants]
    BY <1>0, <1>g DEF FinalizerInv, Root!TypeOK, Root!Grants
  <2>2. itsPending' \in 0..RootAttempts
    BY <1>0, RootBounds DEF FinalizerInv, Root!TypeOK, Root!Attempts
  <2>3. req' \in [Root!Attempts -> Root!Requests]
    BY <1>0 DEF FinalizerInv, Root!TypeOK
  <2>4. passes' \in 0..RootPasses + 1 /\ itsSent' \subseteq Root!Steps
    BY RootBounds DEF FinalizerInv, Root!TypeOK, Root!Bind
  <2>5. memory' \in BOOLEAN /\ itsAlarm' \in BOOLEAN
    BY DEF FinalizerInv, Root!TypeOK, Root!Bind, Root!FreshMemory, Root!Schedule
  <2> QED
    BY <2>1, <2>2, <2>3, <2>4, <2>5 DEF FinalizerInv, Root!TypeOK, Root!Bind, Root!Fault,
      Root!cloud, Root!bounds
<1>2. RemovalInv'
  BY DriverRests DEF FinalizerInv, Root!TypeOK, Root!Bind, Root!cloud, Root!clients, Root!driver,
    Root!bounds, Root!Fault, Root!FreshMemory
<1>3. GrantInv'
  <2>1. CASE /\ itsPending' = i /\ itsGrant' = Root!Forget(itsGrant)
             /\ req' = [req EXCEPT ![i] = "closed"]
    BY <2>1, LostWasHeld, <1>0 DEF FinalizerInv, Root!Forget, Root!TypeOK, GrantInv,
      ConsentsAreNamed, GrantsAreWarned, Exposed
  <2>2. CASE /\ UNCHANGED itsPending /\ req' = [req EXCEPT ![i] = "abort"]
             /\ \E g \in {"revoked", "lost"} : itsGrant' = [itsGrant EXCEPT ![i] = g]
    <3>1. PICK g \in {"revoked", "lost"} : itsGrant' = [itsGrant EXCEPT ![i] = g]
      BY <2>2
    <3>2. ConsentsAreNamed'
      BY <1>0, <2>2, <3>1 DEF FinalizerInv, Root!TypeOK, GrantInv, ConsentsAreNamed
    <3>3. GrantsAreWarned'
      BY <1>0, <2>2, <3>1 DEF FinalizerInv, Root!TypeOK, GrantInv, GrantsAreWarned, Exposed
    <3> QED BY <3>2, <3>3 DEF GrantInv
  <2> QED BY <1>0, <2>1, <2>2
<1> QED BY <1>1, <1>2, <1>3 DEF FinalizerInv

\* An unusable grant settles its own job, and the one the driver held is lost.
LEMMA AbortHolds ==
  ASSUME FinalizerInv, NEW i \in Root!Attempts, Root!Abort(i)
  PROVE  FinalizerInv'
<1>0. /\ job' \in Root!Jobs /\ job'.done = job.done /\ job'.pend = job.pend
      /\ Root!Removed(job') => Root!Removed(job) \/ job.done = 5
      /\ job.att # i => job' = job
      /\ job.att = i =>
           /\ job'.att = 0
           /\ job'.phase \in {"recovery_required", "removed", "removed_revocation_unconfirmed"}
           /\ \/ job'.rev = "unconfirmed"
              \/ job'.rev = "confirmed" /\ itsGrant[i] = "revoked" /\ job.rev # "unconfirmed"
           /\ job'.phase = "removed" => job'.rev = "confirmed"
  BY SettleLeaves DEF Root!Abort, Root!Revocation, Root!Attempts, FinalizerInv
<1>1. Root!TypeOK'
  BY RootBounds, LostWasHeld, <1>0 DEF FinalizerInv, Root!TypeOK, Root!Abort, Root!cloud,
    Root!clients, Root!driver, Root!bounds, Root!Forget
<1>2. RemovalInv'
  BY <1>0, DriverRests DEF FinalizerInv, Root!TypeOK, Root!Abort, Root!cloud, Root!clients,
    Root!driver, Root!bounds
<1>3. GrantInv'
  BY LostWasHeld, <1>0 DEF FinalizerInv, Root!TypeOK, GrantInv, ConsentsAreNamed, GrantsAreWarned,
    Exposed, Root!Abort, Root!cloud, Root!clients, Root!driver, Root!bounds, Root!Forget,
    Root!Attempts
<1> QED BY <1>1, <1>2, <1>3 DEF FinalizerInv

\* Time.
LEMMA ExpireHolds ==
  ASSUME FinalizerInv, NEW i \in Root!Attempts, Root!Expire(i)
  PROVE  FinalizerInv'
BY DriverRests DEF FinalizerInv, Root!TypeOK, Root!Expire, Root!cloud, Root!clients, Root!driver,
  Root!bounds, GrantInv, ConsentsAreNamed, GrantsAreWarned, Exposed

\* A listing that catches up shows less.
LEMMA CatchUpHolds ==
  ASSUME FinalizerInv, Root!CatchUp
  PROVE  FinalizerInv'
<1>1. Root!TypeOK'
  BY DEF FinalizerInv, Root!TypeOK, Root!CatchUp, Root!cloud, Root!clients, Root!driver,
    Root!bounds, Root!Resources
<1>2. RemovalInv'
  BY DEF FinalizerInv, RemovalInv, Root!VerifiedIsGone, Root!WritesAreArmed, PassIsOfJob,
    AbsenceHolds, MemoryFits, ForeignKeepsOut, Root!Removed, Root!Shown, Root!Step, Root!CatchUp,
    Root!cloud, Root!clients, Root!driver, Root!bounds
<1>3. GrantInv'
  BY DEF FinalizerInv, Root!TypeOK, GrantInv, ConsentsAreNamed, GrantsAreWarned, Exposed,
    Root!CatchUp, Root!cloud, Root!clients, Root!driver, Root!bounds
<1> QED BY <1>1, <1>2, <1>3 DEF FinalizerInv

\* A grant and a request stand with the job, which no step of a pass gives to another one.
LEMMA GrantsRest ==
  ASSUME FinalizerInv, UNCHANGED <<itsGrant, req, itsPending>>,
         job'.phase = job.phase, job'.att = job.att, job'.rev = job.rev
  PROVE  GrantInv'
BY DEF FinalizerInv, GrantInv, ConsentsAreNamed, GrantsAreWarned, Exposed

\* The alarm begins a pass of the job's consent, or settles the job without its grant.
LEMMA AlarmHolds ==
  ASSUME FinalizerInv, Root!Alarm
  PROVE  FinalizerInv'
<1>1. /\ itsPass.at = "none" /\ itsAlarm' = FALSE
      /\ UNCHANGED <<live, stale, old, itsFlying, req, itsExpired, memory, itsSent, foreign, offer>>
  BY DEF Root!Alarm, Root!Idle, Root!cloud, Root!clients, Root!bounds
<1>2. CASE job.phase # "exchanging" /\ UNCHANGED <<job, itsGrant, itsPending, passes, itsPass>>
  BY <1>1, <1>2, DriverRests, GrantsRest DEF FinalizerInv, Root!TypeOK
<1>3. CASE /\ job.phase = "exchanging" /\ itsPending # job.att
           /\ itsGrant' = Root!Forget(itsGrant) /\ itsPending' = 0
           /\ Root!Settle(job.att, "unconfirmed") /\ UNCHANGED <<passes, itsPass>>
  <2>0. job.att \in Root!Attempts /\ job.att # 0
    BY <1>3 DEF FinalizerInv, GrantInv, ConsentsAreNamed, Root!Attempts
  <2>1. /\ job' \in Root!Jobs /\ job'.done = job.done /\ job'.pend = job.pend
        /\ job'.att = 0 /\ job'.rev = "unconfirmed" /\ job'.phase # "removed"
        /\ job'.phase \notin {"authorizing", "exchanging"}
        /\ Root!Removed(job') => job.done = 5
    BY <1>3, <2>0, SettleLeaves DEF FinalizerInv
  <2>2. /\ itsGrant' \in [Root!Attempts -> Root!Grants]
        /\ \A k \in Root!Attempts :
            itsGrant'[k] = IF k = itsPending /\ itsGrant[k] = "held" THEN "lost" ELSE itsGrant[k]
    BY <1>3, LostWasHeld DEF FinalizerInv, Root!Forget
  <2>p. itsPending' \in 0..RootAttempts
    BY <1>3, RootBounds
  <2>3. Root!TypeOK'
    BY <1>1, <1>3, <2>1, <2>2, <2>p DEF FinalizerInv, Root!TypeOK
  <2>4. RemovalInv'
    BY <1>1, <1>3, <2>1, DriverRests DEF FinalizerInv
  <2>5. GrantInv'
    BY <1>1, <1>3, <2>1, <2>2 DEF FinalizerInv, GrantInv, ConsentsAreNamed, GrantsAreWarned
  <2> QED BY <2>3, <2>4, <2>5 DEF FinalizerInv
<1>4. CASE /\ job.phase = "exchanging" /\ itsPending = job.att
           /\ UNCHANGED <<job, itsGrant, itsPending>>
           /\ passes' = IF itsPending \in itsExpired THEN passes ELSE passes + 1
           /\ itsPass' = [att |-> itsPending, present |-> "unread", job |-> job,
                       at |-> IF itsPending \in itsExpired \/ Root!Exhausted(passes') THEN "end"
                              ELSE IF memory THEN "step" ELSE "preflight"]
  <2>0. itsPending \in Root!Attempts /\ itsPending # 0 /\ req[itsPending] = "closed"
    BY <1>4 DEF FinalizerInv, GrantInv, ConsentsAreNamed, Root!Attempts
  <2>1. passes <= RootPasses /\ passes' \in 0..RootPasses + 1
    BY <1>1, <1>4, <2>0, RootBounds DEF FinalizerInv, RemovalInv, MemoryFits, Root!TypeOK
  <2>2. /\ itsPass'.att = itsPending /\ itsPass'.job = job /\ itsPass'.present = "unread"
        /\ \/ itsPass'.at = "end"
           \/ itsPass'.at = "step" /\ memory /\ passes' <= RootPasses
           \/ itsPass'.at = "preflight" /\ ~memory /\ passes' <= RootPasses
    BY <1>4, <2>1, RootBounds DEF Root!Exhausted
  <2>3. itsPass' \in Root!PassRecords
    <3>1. PICK at \in Root!Places :
                itsPass' = [att |-> itsPending, present |-> "unread", job |-> job, at |-> at]
      BY <1>4 DEF Root!Places
    <3> QED BY <3>1 DEF FinalizerInv, Root!TypeOK
  <2>4. Root!TypeOK'
    BY <1>1, <1>4, <2>1, <2>3 DEF FinalizerInv, Root!TypeOK
  <2>5. Root!VerifiedIsGone' /\ Root!WritesAreArmed'
    BY <1>1, <1>4 DEF FinalizerInv, RemovalInv, Root!VerifiedIsGone, Root!WritesAreArmed, Root!Shown
  <2>6. PassIsOfJob'
    BY <1>1, <1>4, <2>0, <2>2 DEF FinalizerInv, RemovalInv, PassIsOfJob, MemoryFits
  <2>7. AbsenceHolds' /\ MemoryFits' /\ ForeignKeepsOut'
    BY <1>1, <1>4, <2>0, <2>2 DEF FinalizerInv, RemovalInv, AbsenceHolds, MemoryFits,
      ForeignKeepsOut
  <2>8. GrantInv'
    BY <1>1, <1>4, GrantsRest
  <2> QED BY <2>4, <2>5, <2>6, <2>7, <2>8 DEF FinalizerInv, RemovalInv
<1> QED BY <1>2, <1>3, <1>4 DEF Root!Alarm

\* A spent budget leaves no pass.
LEMMA PauseHolds ==
  ASSUME FinalizerInv, Root!Pause, itsPass.at \in {"preflight", "step", "send", "absent"},
         UNCHANGED <<live, stale, old, itsFlying, job, req, itsExpired, itsGrant, itsPending,
                     memory, passes, itsSent>>
  PROVE  FinalizerInv'
BY NoPassFits, GrantsRest DEF Root!Pause, Root!Schedule, Root!NoPass, FinalizerInv, Root!TypeOK,
  RemovalInv, Root!VerifiedIsGone, Root!WritesAreArmed, PassIsOfJob, AbsenceHolds, ForeignKeepsOut,
  Root!Shown, MemoryFits

\* A pass that gives up only revokes its grant.
LEMMA GiveUpHolds ==
  ASSUME FinalizerInv, Root!Goto("end"), itsPass.at # "none",
         UNCHANGED <<live, stale, old, foreign, job, req, itsExpired, itsGrant, itsPending,
                     memory, passes, itsSent, itsAlarm, offer>>,
         itsFlying' = itsFlying \/ (itsFlying' \in {0, Root!Step} /\ itsPass.at = "send")
  PROVE  FinalizerInv'
BY GotoMoves, JobFields, GrantsRest DEF FinalizerInv, Root!Places, RemovalInv, PassIsOfJob,
  ForeignKeepsOut, Root!Step, Root!TypeOK, Root!VerifiedIsGone, Root!WritesAreArmed, AbsenceHolds,
  MemoryFits, Root!Shown

\* The preflight finds the whole removal in order.
LEMMA PreflightHolds ==
  ASSUME FinalizerInv, Root!Preflight
  PROVE  FinalizerInv'
<1>1. /\ itsPass.at = "preflight"
      /\ UNCHANGED <<live, stale, old, itsFlying, job, req, itsExpired, itsGrant, itsPending,
                     passes, itsSent>>
  BY DEF Root!Preflight, Root!cloud, Root!clients
<1>2. CASE /\ Root!Owned /\ memory' = TRUE
           /\ itsPass' = [itsPass EXCEPT !.at = IF Root!Step > 5 THEN "end" ELSE "step",
                                   !.present =
                                      IF Root!Step > 5 THEN "unread" ELSE Root!Presence(Root!Step)]
           /\ UNCHANGED <<itsAlarm, Root!bounds>>
  <2>0. UNCHANGED <<itsAlarm, foreign, offer>>
    BY <1>2 DEF Root!bounds
  <2>1. ~foreign
    BY <1>2 DEF Root!Owned, Root!Unshared
  <2>2. /\ itsPass' \in Root!PassRecords
        /\ itsPass'.att = itsPass.att /\ itsPass'.job = itsPass.job
        /\ \/ itsPass'.at = "end"
           \/ /\ itsPass'.at = "step" /\ Root!Step <= 5
              /\ itsPass'.present = "absent" => Root!Step \notin Root!Shown
    <3>1. Root!Step \in Nat
      BY JobFields DEF FinalizerInv, Root!Step
    <3>2. CASE Root!Step > 5
      BY <1>2, <3>2 DEF FinalizerInv, Root!TypeOK, Root!Places
    <3>3. CASE Root!Step <= 5
      <4>1. itsPass' = [itsPass EXCEPT !.at = "step", !.present = Root!Presence(Root!Step)]
        <5>1. ~(Root!Step > 5)
          BY <3>1, <3>3
        <5> QED BY <1>2, <5>1
      <4>2. /\ Root!Presence(Root!Step) \in {"present", "absent"}
            /\ (Root!Presence(Root!Step) = "absent" => Root!Step \notin Root!Shown)
        BY DEF Root!Presence
      <4> QED BY <3>3, <4>1, <4>2 DEF FinalizerInv, Root!TypeOK, Root!Places
    <3> QED BY <3>1, <3>2, <3>3
  <2>3. Root!TypeOK'
    BY <1>1, <1>2, <2>0, <2>2 DEF FinalizerInv, Root!TypeOK
  <2>4. Root!VerifiedIsGone' /\ Root!WritesAreArmed'
    BY <1>1 DEF FinalizerInv, RemovalInv, Root!VerifiedIsGone, Root!WritesAreArmed, Root!Shown
  <2>5. PassIsOfJob'
    BY <1>1, <2>2, JobFields DEF FinalizerInv, RemovalInv, PassIsOfJob, Root!Step
  <2>6. AbsenceHolds' /\ ForeignKeepsOut' /\ MemoryFits'
    BY <1>1, <2>0, <2>1, <2>2, JobFields DEF FinalizerInv, RemovalInv, AbsenceHolds,
      ForeignKeepsOut, MemoryFits, Root!Shown, Root!Step
  <2>7. GrantInv'
    BY <1>1, GrantsRest
  <2> QED BY <2>3, <2>4, <2>5, <2>6, <2>7 DEF FinalizerInv, RemovalInv
<1>3. CASE Root!Goto("end") /\ UNCHANGED <<memory, itsAlarm, foreign, offer>>
  BY <1>1, <1>3, GiveUpHolds
<1>4. CASE Root!Pause /\ UNCHANGED memory
  BY <1>1, <1>4, PauseHolds
<1> QED BY <1>2, <1>3, <1>4 DEF Root!Preflight, Root!bounds, Root!Fault

\* The step is read and armed, or the pass ends.
LEMMA ReadAndArmHolds ==
  ASSUME FinalizerInv, Root!ReadAndArm
  PROVE  FinalizerInv'
<1>1. /\ itsPass.at = "step"
      /\ UNCHANGED <<live, stale, old, itsFlying, req, itsExpired, itsGrant, itsPending, memory,
                     passes, itsSent>>
  BY DEF Root!ReadAndArm, Root!cloud, Root!clients, Root!driver
<1> DEFINE seen == IF itsPass.present = "unread" THEN Root!Presence(Root!Step) ELSE itsPass.present
           at == IF seen = "present" THEN "send" ELSE "verify"
<1>2. /\ seen \in {"present", "absent"} /\ (seen = "absent" => Root!Step \notin Root!Shown)
      /\ at \in {"send", "verify"} /\ (at = "verify" => Root!Step \notin Root!Shown)
  BY <1>1 DEF FinalizerInv, Root!TypeOK, RemovalInv, AbsenceHolds, Root!Presence
<1>3. /\ itsPass.att \in Root!Attempts /\ itsPass.att # 0 /\ itsPass.att \in 0..RootAttempts
      /\ req[itsPass.att] = "closed"
      /\ itsPass.job.done = job.done /\ itsPass.job.pend = job.pend /\ itsPass.job.done <= 4
      /\ ~foreign
  BY <1>1, RootBounds DEF FinalizerInv, RemovalInv, PassIsOfJob, ForeignKeepsOut, Root!Attempts
<1>4. CASE /\ IF Root!Arms(seen)
             THEN Root!Commit([itsPass.job EXCEPT !.pend = itsPass.att], at)
             ELSE Root!Goto(at) /\ UNCHANGED job
           /\ UNCHANGED <<itsAlarm, Root!bounds>>
  <2>0. UNCHANGED <<itsAlarm, foreign, offer>>
    BY <1>4 DEF Root!bounds
  <2>1. /\ itsPass' \in Root!PassRecords
        /\ itsPass'.att = itsPass.att /\ itsPass'.at \in {at, "end"} /\ job' \in Root!Jobs
        /\ job'.done = job.done /\ itsPass'.job.done = itsPass.job.done
        /\ itsPass'.job.pend = job'.pend
        /\ job'.pend # 0 \/ (job'.pend = job.pend /\ itsPass'.at # "send")
        /\ job'.phase = job.phase /\ job'.att = job.att /\ job'.rev = job.rev
    <3>1. CASE Root!Arms(seen)
      <4>1. [itsPass.job EXCEPT !.pend = itsPass.att] \in Root!Jobs /\ at \in Root!Places
        BY <1>2, <1>3, JobFields DEF FinalizerInv, Root!Jobs, Root!Places
      <4>2. Root!Commit([itsPass.job EXCEPT !.pend = itsPass.att], at)
        BY <1>4, <3>1
      <4> HIDE DEF at, seen
      <4> QED BY <1>1, <1>3, <4>1, <4>2, CommitOrEnd, JobFields DEF FinalizerInv, Root!Jobs
    <3>2. CASE ~Root!Arms(seen)
      <4>1. Root!Goto(at) /\ UNCHANGED job /\ at \in Root!Places
        BY <1>2, <1>4, <3>2 DEF Root!Places
      <4>2. at = "send" => itsPass.job.pend # 0
        BY <1>2, <1>3, <3>2 DEF Root!Arms
      <4> HIDE DEF at, seen
      <4> QED BY <1>3, <4>1, <4>2, GotoMoves DEF FinalizerInv, Root!TypeOK
    <3> QED BY <3>1, <3>2
  <2> HIDE DEF at, seen
  <2>2. Root!TypeOK'
    BY <1>1, <2>0, <2>1 DEF FinalizerInv, Root!TypeOK
  <2>3. Root!VerifiedIsGone' /\ Root!WritesAreArmed'
    BY <1>1, <2>1 DEF FinalizerInv, RemovalInv, Root!VerifiedIsGone, Root!WritesAreArmed,
      Root!Shown, Root!Removed
  <2>4. PassIsOfJob' /\ AbsenceHolds' /\ ForeignKeepsOut' /\ MemoryFits'
    BY <1>1, <1>2, <1>3, <2>0, <2>1 DEF FinalizerInv, RemovalInv, PassIsOfJob, AbsenceHolds,
      ForeignKeepsOut, MemoryFits, Root!Shown, Root!Step
  <2>5. GrantInv'
    BY <1>1, <2>1, GrantsRest
  <2> QED BY <2>2, <2>3, <2>4, <2>5 DEF FinalizerInv, RemovalInv
<1>5. CASE Root!Goto("end") /\ UNCHANGED <<job, itsAlarm, foreign, offer>>
  BY <1>1, <1>5, GiveUpHolds
<1>6. CASE Root!Pause /\ UNCHANGED job
  BY <1>1, <1>6, PauseHolds
<1> QED BY <1>4, <1>5, <1>6 DEF Root!ReadAndArm, Root!bounds, Root!Fault

\* The write: it takes the armed step away, or may still.
LEMMA SendHolds ==
  ASSUME FinalizerInv, Root!Send
  PROVE  FinalizerInv'
<1>1. /\ itsPass.at = "send"
      /\ UNCHANGED <<job, req, itsExpired, itsGrant, itsPending, memory, passes>>
  BY DEF Root!Send, Root!clients
<1>2. /\ Root!Step \in 1..5 /\ Root!Step = job.done + 1 /\ job.pend # 0 /\ ~foreign
      /\ itsPass.att \in Root!Attempts /\ req[itsPass.att] = "closed"
      /\ passes <= RootPasses \/ itsPending = 0
  BY <1>1, JobFields DEF FinalizerInv, RemovalInv, PassIsOfJob, ForeignKeepsOut, MemoryFits,
    Root!Step
<1>3. CASE /\ Root!Goto("end")
           /\ UNCHANGED <<live, stale, old, itsFlying, itsSent, itsAlarm, foreign, offer>>
  BY <1>1, <1>3, GiveUpHolds
<1>4. CASE /\ Root!Arrives(Root!Step) /\ itsSent' = itsSent \cup {Root!Step}
           /\ Root!Goto("absent") /\ UNCHANGED <<itsFlying, itsAlarm, foreign, offer>>
  BY <1>2, <1>4, ArriveTakes, GotoMoves, <1>1, GrantsRest DEF FinalizerInv, Root!Places,
    Root!TypeOK, Root!Steps, RemovalInv, Root!VerifiedIsGone, Root!WritesAreArmed, PassIsOfJob,
    AbsenceHolds, ForeignKeepsOut, MemoryFits
<1>5. CASE /\ Root!Goto("end") /\ itsFlying' \in {0, Root!Step}
           /\ UNCHANGED <<live, stale, old, itsSent, itsAlarm, foreign, offer>>
  BY <1>1, <1>5, GiveUpHolds
<1>6. CASE Root!Pause /\ UNCHANGED <<live, stale, old, itsFlying, itsSent>>
  BY <1>1, <1>6, PauseHolds
<1> QED BY <1>3, <1>4, <1>5, <1>6 DEF Root!Send, Root!cloud, Root!bounds, Root!Fault

\* The absence is read.
LEMMA AbsentHolds ==
  ASSUME FinalizerInv, Root!Absent
  PROVE  FinalizerInv'
BY GotoMoves, GrantsRest, GiveUpHolds, PauseHolds DEF Root!Absent, Root!cloud, Root!clients,
  Root!driver, Root!Absence, FinalizerInv, Root!Places, Root!TypeOK, RemovalInv,
  Root!VerifiedIsGone, Root!WritesAreArmed, Root!Shown, PassIsOfJob, AbsenceHolds, ForeignKeepsOut,
  MemoryFits, Root!Step, Root!bounds, Root!Fault

\* The step is verified: it is gone, and nothing is armed.
LEMMA VerifyHolds ==
  ASSUME FinalizerInv, Root!Verify
  PROVE  FinalizerInv'
<1>1. /\ itsPass.at = "verify"
      /\ UNCHANGED <<live, stale, old, itsFlying, req, itsExpired, itsGrant, itsPending, memory,
                     passes, itsSent, itsAlarm, foreign, offer>>
  BY DEF Root!Verify, Root!cloud, Root!clients, Root!driver, Root!bounds
<1>2. /\ Root!Step \notin Root!Shown /\ ~foreign /\ Root!Step = job.done + 1 /\ Root!Step \in 1..5
      /\ itsPass.att \in Root!Attempts /\ req[itsPass.att] = "closed"
      /\ itsPass.job.done = job.done /\ itsPass.job.pend = job.pend
  BY <1>1, JobFields DEF FinalizerInv, RemovalInv, PassIsOfJob, AbsenceHolds, ForeignKeepsOut,
    Root!Step
<1>3. [itsPass.job EXCEPT !.done = @ + 1, !.pend = 0] \in Root!Jobs
  <2>1. itsPass.job.done + 1 \in 0..5 /\ 0 \in 0..RootAttempts
    BY <1>2, JobFields, RootBounds DEF FinalizerInv, Root!Step
  <2> QED BY <2>1, JobFields DEF FinalizerInv, Root!Jobs
<1>4. PICK at \in Root!Places :
        /\ at \in {"end", "step"} /\ (at = "step" => Root!Step # 5)
        /\ Root!Commit([itsPass.job EXCEPT !.done = @ + 1, !.pend = 0], at)
  BY DEF Root!Verify, Root!Places
<1>5. /\ itsPass' \in Root!PassRecords
      /\ itsPass'.att = itsPass.att /\ job' \in Root!Jobs
      /\ \/ /\ job = itsPass.job /\ job' = [itsPass.job EXCEPT !.done = @ + 1, !.pend = 0]
            /\ itsPass'.job = job' /\ itsPass'.at = at /\ itsPass'.present = "unread"
         \/ job' = job /\ itsPass'.at = "end" /\ itsPass'.job = itsPass.job
  BY <1>3, <1>4, CommitOrEnd DEF FinalizerInv
<1>6. /\ job'.phase = job.phase /\ job'.att = job.att /\ job'.rev = job.rev
      /\ itsPass'.job.done = job'.done /\ itsPass'.job.pend = job'.pend
      /\ \/ job'.done = job.done + 1 /\ itsPass'.at = at /\ itsPass'.present = "unread"
         \/ job'.done = job.done /\ job'.pend = job.pend /\ itsPass'.at = "end"
  <2>1. CASE /\ job = itsPass.job /\ job' = [itsPass.job EXCEPT !.done = @ + 1, !.pend = 0]
             /\ itsPass'.job = job'
             /\ itsPass'.at = at /\ itsPass'.present = "unread"
    BY <2>1, JobFields DEF FinalizerInv, Root!Jobs
  <2>2. CASE job' = job /\ itsPass'.at = "end" /\ itsPass'.job = itsPass.job
    BY <1>2, <2>2
  <2> QED BY <1>5, <2>1, <2>2
<1>7. Root!TypeOK'
  BY <1>1, <1>5 DEF FinalizerInv, Root!TypeOK
<1>8. Root!VerifiedIsGone'
  BY <1>1, <1>2, <1>6, JobFields DEF FinalizerInv, RemovalInv, Root!VerifiedIsGone, Root!Shown,
    Root!Removed
<1>9. Root!WritesAreArmed'
  BY JobFields, <1>1, <1>6 DEF FinalizerInv, Root!TypeOK, Root!Steps, RemovalInv,
    Root!WritesAreArmed
<1>10. PassIsOfJob' /\ AbsenceHolds' /\ ForeignKeepsOut' /\ MemoryFits'
  BY <1>1, <1>2, <1>4, <1>5, <1>6, JobFields DEF FinalizerInv, RemovalInv, PassIsOfJob,
    AbsenceHolds, ForeignKeepsOut, MemoryFits
<1>11. GrantInv'
  BY <1>1, <1>6, GrantsRest
<1> QED BY <1>7, <1>8, <1>9, <1>10, <1>11 DEF FinalizerInv, RemovalInv

\* The grant is revoked or lost.
LEMMA RevokeHolds ==
  ASSUME FinalizerInv, Root!Revoke
  PROVE  FinalizerInv'
BY LostWasHeld, GotoMoves DEF Root!Revoke, Root!cloud, Root!clients, Root!bounds, Root!Fault,
  FinalizerInv, Root!TypeOK, Root!Grants, Root!Places, RemovalInv, Root!VerifiedIsGone,
  Root!WritesAreArmed, PassIsOfJob, AbsenceHolds, ForeignKeepsOut, MemoryFits, Root!Shown, GrantInv,
  ConsentsAreNamed, GrantsAreWarned, Exposed

\* The attempt is settled with what became of its grant.
LEMMA SettleAttemptHolds ==
  ASSUME FinalizerInv, Root!SettleAttempt
  PROVE  FinalizerInv'
<1>1. /\ itsPass.at = "settle" /\ itsPass' = Root!NoPass /\ itsAlarm' = FALSE
      /\ itsGrant' = Root!Forget(itsGrant) /\ itsPending' = 0
      /\ Root!Settle(itsPass.att, Root!Revocation(itsGrant[itsPass.att]))
      /\ UNCHANGED <<live, stale, old, itsFlying, req, itsExpired, memory, passes, itsSent,
                     foreign, offer>>
  BY DEF Root!SettleAttempt, Root!cloud, Root!clients, Root!bounds
<1>2. itsPass.att \in Root!Attempts /\ itsPass.att # 0 /\ req[itsPass.att] = "closed"
  BY <1>1 DEF FinalizerInv, RemovalInv, PassIsOfJob, Root!Attempts
<1>3. /\ job' \in Root!Jobs /\ job'.done = job.done /\ job'.pend = job.pend
      /\ job.att # itsPass.att => job' = job
      /\ job.att = itsPass.att =>
           /\ job'.att = 0
           /\ job'.phase \in {"recovery_required", "removed", "removed_revocation_unconfirmed"}
           /\ job'.rev = IF job.rev = "unconfirmed" THEN "unconfirmed"
                          ELSE Root!Revocation(itsGrant[itsPass.att])
           /\ Root!Removed(job') => job.done = 5
           /\ job'.phase = "removed" => job'.rev = "confirmed"
  BY <1>1, <1>2, SettleLeaves DEF Root!Revocation, FinalizerInv
<1>4. /\ itsGrant' \in [Root!Attempts -> Root!Grants]
      /\ \A k \in Root!Attempts :
            itsGrant'[k] = IF k = itsPending /\ itsGrant[k] = "held" THEN "lost" ELSE itsGrant[k]
  BY <1>1, LostWasHeld DEF FinalizerInv, Root!Forget
<1>5. /\ itsPass' \in Root!PassRecords
      /\ itsPass'.at = "none" /\ itsPending' \in 0..RootAttempts
  BY <1>1, NoPassFits, RootBounds DEF Root!NoPass
<1>6. Root!TypeOK'
  BY <1>1, <1>3, <1>4, <1>5 DEF FinalizerInv, Root!TypeOK
<1>7. Root!VerifiedIsGone'
  BY <1>1, <1>3 DEF FinalizerInv, RemovalInv, Root!VerifiedIsGone, Root!Shown, Root!TypeOK,
    Root!Resources, Root!Steps
<1>8. Root!WritesAreArmed' /\ PassIsOfJob' /\ AbsenceHolds' /\ ForeignKeepsOut' /\ MemoryFits'
  BY <1>1, <1>3, <1>5 DEF FinalizerInv, RemovalInv, Root!WritesAreArmed, PassIsOfJob,
    AbsenceHolds, ForeignKeepsOut, MemoryFits
<1>9. ConsentsAreNamed'
  BY <1>1, <1>3, <1>4 DEF FinalizerInv, GrantInv, ConsentsAreNamed
<1>10. GrantsAreWarned'
  BY <1>1, <1>2, <1>3, <1>4 DEF FinalizerInv, GrantInv, ConsentsAreNamed, GrantsAreWarned,
    Exposed, Root!Revocation
<1> QED BY <1>6, <1>7, <1>8, <1>9, <1>10 DEF FinalizerInv, RemovalInv, GrantInv

\* A restart loses the memory, the grants it held and the requests under way.
LEMMA RestartHolds ==
  ASSUME FinalizerInv, Root!Restart
  PROVE  FinalizerInv'
<1>1. /\ itsPending' = 0 /\ memory' = FALSE /\ passes' = 0 /\ itsSent' = {}
      /\ itsPass' = Root!NoPass
      /\ UNCHANGED <<live, stale, old, itsFlying, job, itsExpired, foreign, offer>>
  BY DEF Root!Restart, Root!FreshMemory, Root!Fault, Root!cloud
<1>2. /\ itsGrant' \in [Root!Attempts -> Root!Grants]
      /\ \A k \in Root!Attempts :
            itsGrant'[k] = IF itsGrant[k] = "held" THEN "lost" ELSE itsGrant[k]
  BY DEF FinalizerInv, Root!TypeOK, Root!Restart, Root!Grants
<1>3. /\ req' \in [Root!Attempts -> Root!Requests]
      /\ \A k \in Root!Attempts :
            req'[k] = IF req[k] \in {"exchange", "bind", "abort"} THEN "closed" ELSE req[k]
  BY DEF FinalizerInv, Root!TypeOK, Root!Restart
<1>4. /\ itsPass' \in Root!PassRecords
      /\ itsPass'.at = "none" /\ itsPending' \in 0..RootAttempts /\ passes' \in 0..RootPasses + 1
      /\ itsSent' \subseteq Root!Steps
  BY <1>1, NoPassFits, RootBounds DEF Root!NoPass
<1>5. itsAlarm' \in BOOLEAN /\ memory' \in BOOLEAN
  BY <1>1 DEF Root!Restart
<1>6. Root!TypeOK'
  BY <1>1, <1>2, <1>3, <1>4, <1>5 DEF FinalizerInv, Root!TypeOK
<1>7. /\ Root!VerifiedIsGone' /\ Root!WritesAreArmed' /\ PassIsOfJob' /\ AbsenceHolds'
      /\ ForeignKeepsOut' /\ MemoryFits'
  BY <1>1, <1>4, RootBounds DEF FinalizerInv, RemovalInv, Root!VerifiedIsGone,
    Root!WritesAreArmed, PassIsOfJob, AbsenceHolds, ForeignKeepsOut, MemoryFits, Root!Shown
<1>8. GrantInv'
  BY <1>1, <1>2, <1>3 DEF FinalizerInv, GrantInv, ConsentsAreNamed, GrantsAreWarned, Exposed
<1> QED BY <1>6, <1>7, <1>8 DEF FinalizerInv, RemovalInv

\* A write without an answer arrives or is dropped.
LEMMA LandHolds ==
  ASSUME FinalizerInv, Root!Land
  PROVE  FinalizerInv'
BY ArriveTakes, GrantsRest DEF FinalizerInv, Root!TypeOK, Root!Land, Root!clients, Root!driver,
  Root!bounds, Root!Shown, Root!Resources, RemovalInv, ForeignKeepsOut, Root!VerifiedIsGone,
  Root!WritesAreArmed, PassIsOfJob, AbsenceHolds, MemoryFits, Root!Step

\* Every step.
LEMMA StepHolds ==
  ASSUME FinalizerInv, [Root!Next]_(Root!vars)
  PROVE  FinalizerInv'
<1>1. CASE Root!Next
  BY <1>1, SignHolds, StatementExpiresHolds, ImportHolds, AlarmHolds, PreflightHolds,
    ReadAndArmHolds, SendHolds, AbsentHolds, VerifyHolds, RevokeHolds, SettleAttemptHolds,
    RestartHolds, LandHolds, CatchUpHolds, AuthorizeHolds, CallbackHolds, DeniedHolds,
    FinalizeHolds, ExchangeHolds, BindHolds, AbortHolds, ExpireHolds DEF Root!Next, Root!PassStep,
    Root!RequestStep
<1>2. CASE UNCHANGED Root!vars
  BY <1>2, DriverRests, GrantsRest DEF FinalizerInv, Root!TypeOK, Root!vars
<1> QED BY <1>1, <1>2

-----------------------------------------------------------------------------
\* The finalizer counts as verified only what is gone, removes in the order that keeps the
\* management page behind Access, arms every write before it is sent, calls a removal finished
\* without a warning only when every grant is revoked, and touches nothing of a Worker that another
\* script binds.
THEOREM FinalizerSafety == Root!Spec => []Root!Safe
<1>1. Root!Init => FinalizerInv
  BY InitHolds
<1>2. FinalizerInv /\ [Root!Next]_(Root!vars) => FinalizerInv'
  BY StepHolds
<1>3. FinalizerInv => Root!Safe
  BY InvIsSafe
<1> QED BY <1>1, <1>2, <1>3, PTL DEF Root!Spec

\* The same in the run: the behaviours of part "root" are those of the finalizer.
THEOREM RootSafety == AnySpec => []RootIsSafe
<1> DEFINE Inv == part = "root" => FinalizerInv
<1>1. AnyInit => Inv
  BY InitHolds DEF AnyInit, UpdateInit, UpdatesInit, GatewayInit, MeddledInit, RootInit,
    CleanupInit, PlainInit, ReplayInit
<1>2. Inv /\ [AnyNext]_allVars => Inv'
  <2> SUFFICES ASSUME Inv, [AnyNext]_allVars, part' = "root"
               PROVE  FinalizerInv'
    OBVIOUS
  <2>1. CASE RootNext
    BY <2>1, StepHolds DEF RootNext
  <2>2. CASE UNCHANGED allVars
    BY <2>2, StepHolds DEF allVars, vars, Root!vars
  <2>3. ~(UpdateNext \/ UpdatesNext \/ GatewayNext \/ MeddledNext \/ CleanupNext \/ PlainNext
          \/ ReplayNext)
    BY DEF UpdateNext, UpdatesNext, GatewayNext, MeddledNext, CleanupNext, PlainNext, ReplayNext
  <2> QED BY <2>1, <2>2, <2>3 DEF AnyNext
<1>3. Inv => RootIsSafe
  BY InvIsSafe DEF RootIsSafe
<1> QED BY <1>1, <1>2, <1>3, PTL DEF AnySpec

-----------------------------------------------------------------------------
(* Teardown                                                                 *)

\* The receipt names something.
LEMMA LengthFits == Gateway!N \in Nat /\ Gateway!N > 0 /\ Gateway!Resources = 1..Gateway!N
  BY GatewayOrderFits DEF Gateway!N, Gateway!Resources

ReqStates == {"new", "proved", "relay", "consent", "exchange", "handover", "settle", "refused",
  "failed", "done"}
PassStates == {"none", "apply", "open", "step", "send", "readback", "bridge", "bridge_send", "removed",
               "end", "settle", "command", "close"}
Phases == {"authorizing", "exchanging", "settled"}
RequestRecords == [at : ReqStates, action : 0..GatewayActions, seen : (0..GatewayAttempts) \X Phases]
AttemptRecords == [id : 0..GatewayAttempts, action : 0..GatewayActions, phase : Phases, warn : BOOLEAN]
PassRecords    == [att : 0..GatewayAttempts, at : PassStates, done : BOOLEAN]
RootRecords    == [status : {"ready", "tearing_down", "removed"}, removed : 0..Gateway!N,
                   pending : [att : 0..GatewayAttempts, phase : {"none", "send_armed", "submitted",
                     "not_applied"}]]
OutcomeRecords == [att : 0..GatewayAttempts, result : {"none", "interrupted", "removed",
  "recovery_required"}]
ActionStates   == {"none", "failed", "gateway_removed", "recovery_required",
  "authorization_required", "applying"}
Grants         == {"none", "held", "revoked", "lost"}
(* The types, those that TypeOK leaves open included.                        *)
Fits ==
  /\ live \subseteq Gateway!Resources /\ bridge \subseteq Gateway!Bridge
  /\ itsFlying \in 0..Gateway!N
  /\ root \in RootRecords /\ prog \in Gateway!Progresses
  /\ bj \in [removed : 0..3, pending : 0..GatewayAttempts]
  /\ bp \in [att : 0..GatewayAttempts, phase : {"none", "preflight", "remove", "complete"}]
  /\ actions \in [Gateway!Actions -> ActionStates] /\ attempt \in AttemptRecords
  /\ itsPending \in 0..GatewayAttempts /\ itsGrant \in [Gateway!Attempts -> Grants]
  /\ req \in [Gateway!Attempts -> RequestRecords] /\ itsPass \in PassRecords
  /\ itsOutcome \in OutcomeRecords
  /\ itsExpired \subseteq Gateway!Actions /\ itsOutside \in Nat /\ itsOther \in BOOLEAN
  /\ itsAlarm \in BOOLEAN
  /\ foreign \in Gateway!Obstacles

(* The journals among themselves.                                            *)
JournalsAgree ==
  /\ root.status = "ready" => root = Gateway!Ready /\ prog.phase \in {"none", "preflight"}
  /\ root.status = "removed" => root.removed = Gateway!N
  /\ prog.phase # "complete" => prog.checked < Gateway!N
  /\ prog.phase = "complete" => root.status = "removed"
  /\ bp.phase = "complete" => bj.removed = 3
  /\ bj.removed > 0 \/ bj.pending # 0 => root.status = "removed"

(* What they list as removed is gone.                                        *)
Gone ==
  /\ \A x \in Gateway!Resources : x <= root.removed => x \notin live
  /\ \A x \in Gateway!Bridge : x <= bj.removed => x \notin bridge

Working == {"open", "step", "send", "readback", "bridge", "bridge_send", "removed"}
(* What a pass relies on.                                                    *)
PassStands ==
  /\ itsPass.at = "none" => itsPass = Gateway!NoPass
  /\ itsPass.at # "none" => itsPass.att \in Gateway!Attempts /\ req[itsPass.att].at = "done"
  /\ itsPass.at = "step" /\ root.status = "ready" => prog.att # itsPass.att
  /\ itsPass.at \in {"send", "readback"} => root.pending.att = itsPass.att /\ root.removed < Gateway!N
  /\ itsPass.at \in {"bridge", "bridge_send", "removed"} => root.status = "removed"
  /\ itsPass.at = "bridge_send" => bj.pending # 0 /\ bj.removed < 3
  /\ itsPass.at = "removed" \/ itsPass.done => bridge = {} /\ root.status = "removed"

(* A pass that may delete something before it asks the journal again.        *)
MayDelete ==
  \/ itsPass.at \in {"send", "readback", "bridge", "bridge_send"}
  \/ /\ itsPass.at \in {"open", "step"}
     /\ \/ root.removed > 0 \/ root.pending # Gateway!Nobody
        \/ prog.att = itsPass.att /\ prog.phase \notin {"none", "sharing_preflight", "preflight"}
Locking == {"applying", "gateway_removed", "recovery_required"}
(* It has the gateway for itself, whatever becomes of its action.            *)
Alone ==
  MayDelete => /\ ~itsOther
               /\ IF Gateway!Claimed \in itsExpired
                    THEN Gateway!LocksRuntime
                    ELSE Gateway!Claimed \in Gateway!Actions /\ actions[Gateway!Claimed] \in Locking

(* The browser requests, and what is in memory.                              *)
RequestsStand ==
  /\ itsPending # 0 => req[itsPending].at = "done"
  /\ \A i \in Gateway!Attempts : req[i].at \in {"new", "proved", "relay", "consent", "exchange"} =>
       itsGrant[i] = "none"
  /\ \A i \in Gateway!Attempts : req[i].at # "new" => req[i].action \in Gateway!Actions
  /\ attempt.phase = "exchanging" => attempt.id # 0

(* A grant that may be left behind is warned of, or will be.                 *)
Warned ==
  \A i \in Gateway!Attempts : itsGrant[i] \in {"held", "lost"} \/ req[i].at \in {"exchange",
    "handover"} =>
    attempt.warn \/ (attempt.id = i /\ attempt.phase = "exchanging")

Earned ==
  itsOutcome.result = "removed" =>
    /\ itsOutcome.att \in Gateway!Attempts /\ itsGrant[itsOutcome.att] = "revoked" /\ bridge = {}
    /\ root.status = "removed"

(* An obstacle that was there all along: nothing was armed.                  *)
Untouched ==
  foreign # "none" /\ itsOutside = 0 =>
    /\ root.removed = 0 /\ root.pending = Gateway!Nobody /\ root.status # "removed"
    /\ bj.removed = 0 /\ bj.pending = 0
    /\ prog.phase \in {"none", "preflight"} /\ Gateway!N \in live
    /\ foreign = "portal" => prog.phase = "none"
    /\ foreign = "bridge" => bp.att = 0 /\ itsPass.at \notin Working

TeardownInv ==
  /\ Fits /\ JournalsAgree /\ Gone /\ Gateway!DeletionsAreJournaled /\ PassStands /\ Alone
  /\ RequestsStand /\ Warned /\ Earned /\ Untouched

\* The types of the specification.
LEMMA FitsIsTypeOK == Fits => Gateway!TypeOK
  BY DEF Fits, Gateway!TypeOK, RootRecords, ActionStates, Gateway!Open, AttemptRecords, Phases,
    PassRecords, OutcomeRecords, Grants

\* A request that goes on keeps what it was started for.
LEMMA Moves ==
  ASSUME NEW r \in [Gateway!Attempts -> RequestRecords], NEW i \in Gateway!Attempts,
    NEW at \in ReqStates
  PROVE  /\ [r EXCEPT ![i].at = at] \in [Gateway!Attempts -> RequestRecords]
         /\ [r EXCEPT ![i].at = at][i].at = at
         /\ \A j \in Gateway!Attempts : [r EXCEPT ![i].at = at][j].action = r[j].action
         /\ \A j \in Gateway!Attempts \ {i} : [r EXCEPT ![i].at = at][j] = r[j]
  BY DEF RequestRecords

\* A request that goes on, with what it does to the record, the grants and the memory.
LEMMA RequestMoves ==
  ASSUME TeardownInv, NEW i \in Gateway!Attempts, NEW at \in ReqStates,
    req' = [req EXCEPT ![i].at = at], req[i].at # "done"
  PROVE  /\ req' \in [Gateway!Attempts -> RequestRecords] /\ req'[i].at = at
         /\ \A j \in Gateway!Attempts : req'[j].action = req[j].action
         /\ \A j \in Gateway!Attempts \ {i} : req'[j] = req[j]
         /\ itsPass.at # "none" => req'[itsPass.att].at = "done"
         /\ UNCHANGED itsPass => Gateway!Claimed' = Gateway!Claimed
BY Moves DEF TeardownInv, Fits, PassStands, Gateway!Claimed, Gateway!Idle
\* A prepared action drops the expired ones, and locks the runtime itself.
LEMMA GatewayPrepareHolds ==
  ASSUME TeardownInv, Gateway!Prepare
  PROVE  TeardownInv'
<1>1. /\ Fits /\ JournalsAgree /\ Gone /\ Gateway!DeletionsAreJournaled /\ PassStands /\ Alone
      /\ RequestsStand /\ Warned /\ Earned /\ Untouched
  BY DEF TeardownInv
<1>2. UNCHANGED <<live, bridge, foreign, root, prog, bj, bp, itsExpired, itsOther, attempt, req,
                  itsPending, itsGrant, itsOutcome, itsPass, itsAlarm, itsFlying, itsOutside,
                    itsFaults>>
  BY DEF Gateway!Prepare, Gateway!cloud, Gateway!journal, Gateway!ledger, Gateway!browser,
    Gateway!driver, Gateway!bounds
<1>3. /\ actions' \in [Gateway!Actions -> ActionStates]
      /\ ~itsOther
      /\ \A b \in Gateway!Actions \ itsExpired : actions[b] \in Locking => actions'[b] = actions[b]
      /\ \E a \in Gateway!Actions \ itsExpired : actions'[a] = "authorization_required"
      /\ Gateway!Claimed' = Gateway!Claimed
  BY <1>1, GatewayOrderFits, GatewayBounds DEF Gateway!Prepare, Fits, ActionStates, Gateway!Open,
    Gateway!Actions, Locking, Gateway!Claimed, Gateway!Idle, Gateway!browser
<1>4. /\ JournalsAgree' /\ Gone' /\ Gateway!DeletionsAreJournaled' /\ PassStands' /\ RequestsStand'
      /\ Warned' /\ Earned' /\ Untouched'
  BY <1>1, <1>2 DEF JournalsAgree, Gone, Gateway!DeletionsAreJournaled, PassStands, RequestsStand,
    Warned, Earned, Untouched, Gateway!Actions, Gateway!Attempts, Gateway!Bridge, Gateway!NoPass,
    Gateway!NoProgress, Gateway!Nobody, Gateway!Ready, Gateway!Resources, Working
<1>5. Fits'
  BY <1>1, <1>2, <1>3, LengthFits, GatewayBounds DEF Fits, Gateway!Actions, Gateway!Attempts
<1>6. Alone'
  BY <1>1, <1>2, <1>3, LengthFits, GatewayBounds DEF Alone, MayDelete, Locking,
    Gateway!LocksRuntime, Gateway!Actions, Gateway!Nobody, Fits
<1> QED BY <1>4, <1>5, <1>6 DEF TeardownInv

\* A start that was proved by the journal.
LEMMA GatewayStartReadHolds ==
  ASSUME TeardownInv, NEW i \in Gateway!Attempts, Gateway!StartRead(i)
  PROVE  TeardownInv'
<1>1. /\ Fits /\ JournalsAgree /\ Gone /\ Gateway!DeletionsAreJournaled /\ PassStands /\ Alone
      /\ RequestsStand /\ Warned /\ Earned /\ Untouched
  BY DEF TeardownInv
<1>2. UNCHANGED <<live, bridge, foreign, root, prog, bj, bp, actions, itsExpired, itsOther, attempt,
                  itsPending, itsGrant, itsOutcome, itsPass, itsAlarm, itsFlying, itsOutside,
                    itsFaults>>
  BY DEF Gateway!StartRead, Gateway!cloud, Gateway!journal, Gateway!ledger, Gateway!browser,
    Gateway!driver, Gateway!bounds
<1>3. /\ req' \in [Gateway!Attempts -> RequestRecords]
      /\ \A j \in Gateway!Attempts : j # i => req'[j] = req[j]
      /\ itsPass.at # "none" => req'[itsPass.att].at = "done"
      /\ Gateway!Claimed' = Gateway!Claimed
      /\ req[i].at = "new"
      /\ req'[i].at = "proved"
      /\ req'[i].action \in Gateway!Actions
  <2>1. PICK a \in Gateway!Actions : req' = [req EXCEPT ![i] = [at |-> "proved", action |-> a,
          seen |-> Gateway!Stamp]]
    BY DEF Gateway!StartRead
  <2>2. [at |-> "proved", action |-> a, seen |-> Gateway!Stamp] \in RequestRecords
    BY <1>1, GatewayBounds DEF Fits, RequestRecords, ReqStates, AttemptRecords, Gateway!Stamp,
      Gateway!Actions
  <2>3. req[i].at = "new" /\ req \in [Gateway!Attempts -> RequestRecords]
    BY <1>1 DEF Gateway!StartRead, Fits
  <2>4. req' \in [Gateway!Attempts -> RequestRecords]
    BY <2>1, <2>2, <2>3
  <2> QED BY <1>1, <1>2, <2>1, <2>3, <2>4 DEF PassStands, Gateway!Claimed, Gateway!Idle
<1>4. JournalsAgree' /\ Gone' /\ Gateway!DeletionsAreJournaled' /\ Earned' /\ Untouched'
  BY <1>1, <1>2 DEF JournalsAgree, Gone, Gateway!DeletionsAreJournaled, Earned, Untouched,
    Gateway!Attempts, Gateway!Bridge, Gateway!NoProgress, Gateway!Nobody, Gateway!Ready,
    Gateway!Resources, Working
<1>5. Fits'
  BY <1>1, <1>2, <1>3, LengthFits, GatewayBounds DEF Fits, Gateway!Actions, Gateway!Attempts
<1>6. PassStands'
  BY <1>1, <1>2, <1>3, LengthFits, GatewayBounds DEF PassStands, Gateway!NoPass, Gateway!Attempts,
    Fits
<1>7. Alone'
  BY <1>1, <1>2, <1>3, LengthFits, GatewayBounds DEF Alone, MayDelete, Locking,
    Gateway!LocksRuntime, Gateway!Actions, Gateway!Nobody, Fits
<1>8. RequestsStand'
  <2>1. (itsPending # 0 => req[itsPending].at = "done")'
    BY <1>1, <1>2, <1>3, GatewayBounds DEF RequestsStand, Gateway!Attempts, Gateway!Actions, Fits
  <2>2. \A j \in Gateway!Attempts : (req[j].at \in {"new", "proved", "relay", "consent",
          "exchange"} => itsGrant[j] = "none")'
    BY <1>1, <1>2, <1>3, GatewayBounds DEF RequestsStand, Gateway!Attempts, Gateway!Actions, Fits
  <2>3. \A j \in Gateway!Attempts : (req[j].at # "new" => req[j].action \in Gateway!Actions)'
    BY <1>1, <1>2, <1>3, GatewayBounds DEF RequestsStand, Gateway!Attempts, Gateway!Actions, Fits
  <2>4. (attempt.phase = "exchanging" => attempt.id # 0)'
    BY <1>1, <1>2, <1>3, GatewayBounds DEF RequestsStand, Gateway!Attempts, Gateway!Actions, Fits
  <2> QED BY <2>1, <2>2, <2>3, <2>4 DEF RequestsStand
<1>9. Warned'
  BY <1>1, <1>2, <1>3, LengthFits, GatewayBounds DEF Warned, Gateway!Attempts, Fits
<1> QED BY <1>4, <1>5, <1>6, <1>7, <1>8, <1>9 DEF TeardownInv

\* The attempt record of an exchanging attempt becomes a warning.
LEMMA GatewayStartWriteHolds ==
  ASSUME TeardownInv, NEW i \in Gateway!Attempts, Gateway!StartWrite(i)
  PROVE  TeardownInv'
<1>1. /\ Fits /\ JournalsAgree /\ Gone /\ Gateway!DeletionsAreJournaled /\ PassStands /\ Alone
      /\ RequestsStand /\ Warned /\ Earned /\ Untouched
  BY DEF TeardownInv
<1>2. UNCHANGED <<live, bridge, foreign, root, prog, bj, bp, actions, itsExpired, itsOther, itsPending,
                  itsGrant, itsOutcome, itsPass, itsAlarm, itsFlying, itsOutside, itsFaults>>
  BY DEF Gateway!StartWrite, Gateway!To, Gateway!cloud, Gateway!journal, Gateway!ledger,
    Gateway!browser, Gateway!driver, Gateway!bounds
<1>3. /\ req' \in [Gateway!Attempts -> RequestRecords]
      /\ \A j \in Gateway!Attempts : j # i => req'[j] = req[j]
      /\ itsPass.at # "none" => req'[itsPass.att].at = "done"
      /\ Gateway!Claimed' = Gateway!Claimed
      /\ \A j \in Gateway!Attempts : req'[j].action = req[j].action
      /\ req[i].at = "proved" /\ req'[i].at \in {"relay", "refused"}
      /\ attempt' \in AttemptRecords
      /\ \/ attempt' = attempt
         \/ attempt' = [id |-> i, action |-> req[i].action, phase |-> "authorizing",
              warn |-> Gateway!WarnPrior]
  <2>1. PICK at \in {"relay", "refused"} : req' = [req EXCEPT ![i].at = at]
    BY DEF Gateway!StartWrite, Gateway!To
  <2>2. req[i].at = "proved" /\ req[i] \in RequestRecords
    BY <1>1 DEF Gateway!StartWrite, Fits
  <2>3. [id |-> i, action |-> req[i].action, phase |-> "authorizing",
          warn |-> Gateway!WarnPrior] \in AttemptRecords
    BY <1>1, <2>2, GatewayBounds DEF Fits, RequestRecords, AttemptRecords, Phases,
      Gateway!WarnPrior, Gateway!Attempts
  <2>4. \/ attempt' = attempt
        \/ attempt' = [id |-> i, action |-> req[i].action, phase |-> "authorizing",
             warn |-> Gateway!WarnPrior]
    BY DEF Gateway!StartWrite
  <2>5. attempt' \in AttemptRecords
    BY <1>1, <2>3, <2>4 DEF Fits
  <2> QED BY <1>2, <2>1, <2>2, <2>4, <2>5, RequestMoves DEF ReqStates
<1>4. JournalsAgree' /\ Gone' /\ Gateway!DeletionsAreJournaled' /\ Earned' /\ Untouched'
  BY <1>1, <1>2 DEF JournalsAgree, Gone, Gateway!DeletionsAreJournaled, Earned, Untouched,
    Gateway!Attempts, Gateway!Bridge, Gateway!NoProgress, Gateway!Nobody, Gateway!Ready,
    Gateway!Resources, Working
<1>5. Fits'
  BY <1>1, <1>2, <1>3, LengthFits, GatewayBounds DEF Fits, Gateway!Actions, Gateway!Attempts
<1>6. PassStands'
  BY <1>1, <1>2, <1>3, LengthFits, GatewayBounds DEF PassStands, Gateway!NoPass, Gateway!Attempts,
    Fits
<1>7. Alone'
  BY <1>1, <1>2, <1>3, LengthFits, GatewayBounds DEF Alone, MayDelete, Locking,
    Gateway!LocksRuntime, Gateway!Actions, Gateway!Nobody, Fits
<1>8. RequestsStand'
  <2>1. (itsPending # 0 => req[itsPending].at = "done")'
    BY <1>1, <1>2, <1>3, GatewayBounds DEF RequestsStand, Gateway!Attempts, Gateway!Actions, Fits
  <2>2. \A j \in Gateway!Attempts : (req[j].at \in {"new", "proved", "relay", "consent",
          "exchange"} => itsGrant[j] = "none")'
    BY <1>1, <1>2, <1>3, GatewayBounds DEF RequestsStand, Gateway!Attempts, Gateway!Actions, Fits
  <2>3. \A j \in Gateway!Attempts : (req[j].at # "new" => req[j].action \in Gateway!Actions)'
    BY <1>1, <1>2, <1>3, GatewayBounds DEF RequestsStand, Gateway!Attempts, Gateway!Actions, Fits
  <2>4. (attempt.phase = "exchanging" => attempt.id # 0)'
    BY <1>1, <1>2, <1>3, GatewayBounds DEF RequestsStand, Gateway!Attempts, Gateway!Actions, Fits
  <2> QED BY <2>1, <2>2, <2>3, <2>4 DEF RequestsStand
<1>9. Warned'
  BY <1>1, <1>2, <1>3, LengthFits, GatewayBounds DEF Warned, Gateway!Attempts, Gateway!WarnPrior,
    RequestsStand, AttemptRecords, Fits
<1> QED BY <1>4, <1>5, <1>6, <1>7, <1>8, <1>9 DEF TeardownInv

\* What a settlement of the gateway's journal may change, and what it keeps.
LEMMA Settled ==
  ASSUME TeardownInv, NEW a \in Gateway!Actions, Gateway!Settles(a)
  PROVE  /\ root' \in RootRecords /\ prog' \in Gateway!Progresses
         /\ actions' \in [Gateway!Actions -> ActionStates]
         /\ root'.removed = root.removed /\ root'.pending = root.pending
         /\ root'.status = "removed" <=> root.status = "removed"
         /\ root'.status = "ready" => root' = Gateway!Ready /\ prog'.phase \in {"none", "preflight"}
         /\ root'.status = "ready" => root.status = "ready" \/ prog' = Gateway!NoProgress
         /\ prog' = prog \/ prog' = Gateway!NoProgress
         /\ UNCHANGED <<foreign, itsOutside>>
         /\ \/ root.removed > 0 \/ root.pending # Gateway!Nobody \/ root.status = "removed"
            \/ prog'.phase \notin {"none", "sharing_preflight", "preflight"}
            => \A b \in Gateway!Actions : /\ actions[b] \in Locking => actions'[b] \in Locking
                                          /\ actions'[b] = actions[b] \/ actions'[b] \in Locking
<1>1. /\ root \in RootRecords /\ prog \in Gateway!Progresses
      /\ actions \in [Gateway!Actions -> ActionStates]
      /\ root.status = "ready" => root = Gateway!Ready /\ prog.phase \in {"none", "preflight"}
  BY DEF TeardownInv, Fits, JournalsAgree
<1>2. /\ Gateway!Ready \in RootRecords /\ Gateway!NoProgress \in Gateway!Progresses
      /\ Gateway!Ready.status = "ready"
      /\ Gateway!Ready.removed = 0 /\ Gateway!Ready.pending = Gateway!Nobody
      /\ Gateway!NoProgress.phase = "none"
  BY GatewayOrderFits, GatewayBounds DEF Gateway!Ready, Gateway!Nobody, RootRecords,
    Gateway!NoProgress, Gateway!Progresses, Gateway!N
<1>3. UNCHANGED <<foreign, itsOutside>>
  BY DEF Gateway!Settles, Gateway!Fault, Gateway!bounds
<1>4. CASE UNCHANGED <<actions, root, prog>>
  BY <1>1, <1>3, <1>4
<1>5. CASE actions[a] # "none" /\ Gateway!SettleAction(a)
  BY <1>5, <1>1, <1>2, <1>3 DEF Gateway!SettleAction, Gateway!Unstarted, ActionStates, Locking
<1> QED BY <1>4, <1>5 DEF Gateway!Settles

\* After it the request or the pass still has the gateway for itself, if it may delete.
LEMMA SettledAlone ==
  ASSUME TeardownInv, NEW a \in Gateway!Actions, Gateway!Settles(a), UNCHANGED <<itsExpired, itsOther>>,
         UNCHANGED itsPass \/ itsPass'.at \in {"none", "close"}, UNCHANGED itsPass =>
           Gateway!Claimed' = Gateway!Claimed
  PROVE  Alone'
<1> SUFFICES ASSUME MayDelete', UNCHANGED itsPass
             PROVE  Alone'
  BY DEF Alone, MayDelete
<1>1. /\ Alone /\ PassStands /\ Gateway!Claimed' = Gateway!Claimed /\ root'.removed = root.removed
      /\ root'.pending = root.pending
      /\ prog' = prog \/ prog' = Gateway!NoProgress
  BY Settled DEF TeardownInv
<1>2. /\ MayDelete
      /\ \/ root.removed > 0 \/ root.pending # Gateway!Nobody \/ root.status = "removed"
         \/ prog'.phase \notin {"none", "sharing_preflight", "preflight"}
  BY <1>1 DEF MayDelete, PassStands, Gateway!NoProgress, Gateway!Nobody, Gateway!Attempts
<1>3. \A b \in Gateway!Actions : /\ actions[b] \in Locking => actions'[b] \in Locking
                                 /\ actions'[b] = actions[b] \/ actions'[b] \in Locking
  BY <1>2, Settled
<1>4. Gateway!LocksRuntime => Gateway!LocksRuntime'
  <2> SUFFICES ASSUME Gateway!LocksRuntime
               PROVE  Gateway!LocksRuntime'
    OBVIOUS
  <2>1. PICK b \in Gateway!Actions : \/ actions[b] \in Locking
                                     \/ actions[b] = "authorization_required" /\ b \notin itsExpired
    BY DEF Gateway!LocksRuntime, Locking
  <2>2. actions'[b] \in Locking \/ (actions'[b] = "authorization_required" /\ b \notin itsExpired')
    BY <1>3, <2>1
  <2> QED BY <2>2 DEF Gateway!LocksRuntime, Locking
<1> QED BY <1>1, <1>2, <1>3, <1>4 DEF Alone

\* A request settles the journal of the gateway.
LEMMA GatewaySettleCommandHolds ==
  ASSUME TeardownInv, NEW i \in Gateway!Attempts, Gateway!SettleCommand(i)
  PROVE  TeardownInv'
<1>1. /\ Fits /\ JournalsAgree /\ Gone /\ Gateway!DeletionsAreJournaled /\ PassStands /\ Alone
      /\ RequestsStand /\ Warned /\ Earned /\ Untouched
  BY DEF TeardownInv
<1>2. UNCHANGED <<live, bridge, foreign, bj, bp, itsExpired, itsOther, attempt, itsPending, itsGrant,
                  itsOutcome, itsPass, itsAlarm, itsFlying, itsOutside>>
  BY <1>1, Settled DEF Gateway!SettleCommand, RequestsStand, Gateway!cloud, Gateway!driver
<1>3. /\ req' \in [Gateway!Attempts -> RequestRecords]
      /\ \A j \in Gateway!Attempts : j # i => req'[j] = req[j]
      /\ itsPass.at # "none" => req'[itsPass.att].at = "done"
      /\ Gateway!Claimed' = Gateway!Claimed
      /\ \A j \in Gateway!Attempts : req'[j].action = req[j].action
      /\ req[i].at = "settle" /\ req'[i].at = "failed" /\ req[i].action \in Gateway!Actions
      /\ Gateway!Settles(req[i].action)
  BY <1>1, <1>2, RequestMoves DEF Gateway!SettleCommand, Gateway!To, ReqStates, RequestsStand
<1>4. Fits'
  BY <1>1, <1>2, <1>3, LengthFits, GatewayBounds, Settled DEF Fits, Gateway!Actions,
    Gateway!Attempts
<1>5. JournalsAgree'
  BY <1>1, <1>2, <1>3, LengthFits, GatewayBounds, Settled DEF JournalsAgree, Gateway!Ready,
    Gateway!NoProgress, Gateway!NoProgress, Fits
<1>6. Gone'
  BY <1>1, <1>2, <1>3, LengthFits, GatewayBounds, Settled DEF Gone, Gateway!Resources,
    Gateway!Bridge, Fits
<1>7. Gateway!DeletionsAreJournaled'
  BY <1>1, <1>2, <1>3, LengthFits, GatewayBounds, Settled DEF Gateway!DeletionsAreJournaled,
    Gateway!Resources, Gateway!Bridge, Gateway!Nobody, Fits
<1>8. PassStands'
  BY <1>1, <1>2, <1>3, LengthFits, GatewayBounds, Settled DEF PassStands, Gateway!NoPass,
    Gateway!Attempts, Gateway!NoProgress, Fits
<1>9. Alone'
  BY <1>1, <1>2, <1>3, SettledAlone
<1>10. RequestsStand'
  <2>1. (itsPending # 0 => req[itsPending].at = "done")'
    BY <1>1, <1>2, <1>3, GatewayBounds DEF RequestsStand, Gateway!Attempts, Gateway!Actions, Fits
  <2>2. \A j \in Gateway!Attempts : (req[j].at \in {"new", "proved", "relay", "consent",
          "exchange"} => itsGrant[j] = "none")'
    BY <1>1, <1>2, <1>3, GatewayBounds DEF RequestsStand, Gateway!Attempts, Gateway!Actions, Fits
  <2>3. \A j \in Gateway!Attempts : (req[j].at # "new" => req[j].action \in Gateway!Actions)'
    BY <1>1, <1>2, <1>3, GatewayBounds DEF RequestsStand, Gateway!Attempts, Gateway!Actions, Fits
  <2>4. (attempt.phase = "exchanging" => attempt.id # 0)'
    BY <1>1, <1>2, <1>3, GatewayBounds DEF RequestsStand, Gateway!Attempts, Gateway!Actions, Fits
  <2> QED BY <2>1, <2>2, <2>3, <2>4 DEF RequestsStand
<1>11. Warned'
  BY <1>1, <1>2, <1>3, LengthFits, GatewayBounds DEF Warned, Gateway!Attempts, Fits
<1>12. Earned'
  BY <1>1, <1>2, <1>3, LengthFits, GatewayBounds, Settled DEF Earned, Gateway!Attempts, Fits
<1>13. Untouched'
  BY <1>1, <1>2, <1>3, LengthFits, GatewayBounds, Settled DEF Untouched, Working, Gateway!Nobody,
    Gateway!Resources, Gateway!NoProgress, Fits
<1> QED BY <1>4, <1>5, <1>6, <1>7, <1>8, <1>9, <1>10, <1>11, <1>12, <1>13 DEF TeardownInv

\* The settlement of a request in its attempt record.
LEMMA RequestSettled ==
  ASSUME TeardownInv, NEW i \in Gateway!Attempts, NEW u \in BOOLEAN, Gateway!SettleRequest(i, u),
    req[i].at # "done"
  PROVE  /\ req' \in [Gateway!Attempts -> RequestRecords] /\ \A j \in Gateway!Attempts : j # i =>
              req'[j] = req[j]
         /\ itsPass.at # "none" => req'[itsPass.att].at = "done"
         /\ UNCHANGED itsPass => Gateway!Claimed' = Gateway!Claimed
         /\ \A j \in Gateway!Attempts : req'[j].action = req[j].action
         /\ req'[i].at \in {"settle", "failed"}
         /\ attempt' \in AttemptRecords /\ attempt'.id = attempt.id
         /\ attempt' = attempt \/ attempt'.phase = "settled"
         /\ attempt.id # i => attempt' = attempt
         /\ attempt.warn => attempt'.warn
         /\ attempt.id = i /\ attempt.phase # "settled" /\ u => attempt'.warn
<1>1. \E at \in {"settle", "failed"} : req' = [req EXCEPT ![i].at = at]
  BY DEF Gateway!SettleRequest, Gateway!To
<1>2. attempt \in AttemptRecords
  BY DEF TeardownInv, Fits
<1>3. \/ attempt' = attempt /\ ~(attempt.id = i /\ attempt.phase # "settled")
      \/ /\ attempt.id = i /\ attempt.phase # "settled"
         /\ attempt' = [attempt EXCEPT !.phase = "settled", !.warn = @ \/ u]
  BY DEF Gateway!SettleRequest, Gateway!Stamp
<1>4. /\ attempt' \in AttemptRecords /\ attempt'.id = attempt.id
      /\ attempt' = attempt \/ attempt'.phase = "settled"
      /\ attempt.id # i => attempt' = attempt
      /\ attempt.warn => attempt'.warn
      /\ attempt.id = i /\ attempt.phase # "settled" /\ u => attempt'.warn
  BY <1>2, <1>3 DEF AttemptRecords, Phases
<1> QED BY <1>1, <1>4, RequestMoves DEF ReqStates

\* The relay, or its settlement.
LEMMA GatewayRelayHolds ==
  ASSUME TeardownInv, NEW i \in Gateway!Attempts, Gateway!Relay(i)
  PROVE  TeardownInv'
<1>1. /\ Fits /\ JournalsAgree /\ Gone /\ Gateway!DeletionsAreJournaled /\ PassStands /\ Alone
      /\ RequestsStand /\ Warned /\ Earned /\ Untouched
  BY DEF TeardownInv
<1>2. UNCHANGED <<live, bridge, foreign, root, prog, bj, bp, actions, itsExpired, itsOther, itsPending,
                  itsGrant, itsOutcome, itsPass, itsAlarm, itsFlying, itsOutside>>
  BY DEF Gateway!Relay, Gateway!Fault, Gateway!cloud, Gateway!journal, Gateway!ledger,
    Gateway!browser, Gateway!driver, Gateway!bounds
<1>3. /\ req' \in [Gateway!Attempts -> RequestRecords]
      /\ \A j \in Gateway!Attempts : j # i => req'[j] = req[j]
      /\ itsPass.at # "none" => req'[itsPass.att].at = "done"
      /\ Gateway!Claimed' = Gateway!Claimed
      /\ \A j \in Gateway!Attempts : req'[j].action = req[j].action
      /\ req[i].at = "relay" /\ req'[i].at \in {"consent", "settle", "failed"}
      /\ attempt' \in AttemptRecords /\ attempt'.id = attempt.id
      /\ attempt.warn => attempt'.warn
      /\ attempt'.phase = "exchanging" => attempt' = attempt
      /\ attempt.id # i => attempt' = attempt
      /\ itsOutside' = itsOutside /\ foreign' = foreign
  BY <1>1, <1>2, RequestMoves, RequestSettled DEF Gateway!Relay, Fits, ReqStates, Gateway!To
<1>4. JournalsAgree' /\ Gone' /\ Gateway!DeletionsAreJournaled' /\ Earned' /\ Untouched'
  BY <1>1, <1>2 DEF JournalsAgree, Gone, Gateway!DeletionsAreJournaled, Earned, Untouched,
    Gateway!Attempts, Gateway!Bridge, Gateway!NoProgress, Gateway!Nobody, Gateway!Ready,
    Gateway!Resources, Working
<1>5. Fits'
  BY <1>1, <1>2, <1>3, LengthFits, GatewayBounds DEF Fits, Gateway!Actions, Gateway!Attempts
<1>6. PassStands'
  BY <1>1, <1>2, <1>3, LengthFits, GatewayBounds DEF PassStands, Gateway!NoPass, Gateway!Attempts,
    Fits
<1>7. Alone'
  BY <1>1, <1>2, <1>3, LengthFits, GatewayBounds DEF Alone, MayDelete, Locking,
    Gateway!LocksRuntime, Gateway!Actions, Gateway!Nobody, Fits
<1>8. RequestsStand'
  <2>1. (itsPending # 0 => req[itsPending].at = "done")'
    BY <1>1, <1>2, <1>3, GatewayBounds DEF RequestsStand, Gateway!Attempts, Gateway!Actions, Fits
  <2>2. \A j \in Gateway!Attempts : (req[j].at \in {"new", "proved", "relay", "consent",
          "exchange"} => itsGrant[j] = "none")'
    BY <1>1, <1>2, <1>3, GatewayBounds DEF RequestsStand, Gateway!Attempts, Gateway!Actions, Fits
  <2>3. \A j \in Gateway!Attempts : (req[j].at # "new" => req[j].action \in Gateway!Actions)'
    BY <1>1, <1>2, <1>3, GatewayBounds DEF RequestsStand, Gateway!Attempts, Gateway!Actions, Fits
  <2>4. (attempt.phase = "exchanging" => attempt.id # 0)'
    BY <1>1, <1>2, <1>3, GatewayBounds DEF RequestsStand, Gateway!Attempts, Gateway!Actions, Fits
  <2> QED BY <2>1, <2>2, <2>3, <2>4 DEF RequestsStand
<1>9. Warned'
  BY <1>1, <1>2, <1>3, LengthFits, GatewayBounds DEF Warned, Gateway!Attempts, RequestsStand, Fits
<1> QED BY <1>4, <1>5, <1>6, <1>7, <1>8, <1>9 DEF TeardownInv

\* From here on the record says that a grant may exist.
LEMMA GatewayCallbackHolds ==
  ASSUME TeardownInv, NEW i \in Gateway!Attempts, Gateway!Callback(i)
  PROVE  TeardownInv'
<1>1. /\ Fits /\ JournalsAgree /\ Gone /\ Gateway!DeletionsAreJournaled /\ PassStands /\ Alone
      /\ RequestsStand /\ Warned /\ Earned /\ Untouched
  BY DEF TeardownInv
<1>2. UNCHANGED <<live, bridge, foreign, root, prog, bj, bp, actions, itsExpired, itsOther, itsPending,
                  itsGrant, itsOutcome, itsPass, itsAlarm, itsFlying, itsOutside>>
  BY DEF Gateway!Callback, Gateway!Fault, Gateway!cloud, Gateway!journal, Gateway!ledger,
    Gateway!browser, Gateway!driver, Gateway!bounds
<1>3. /\ req' \in [Gateway!Attempts -> RequestRecords]
      /\ \A j \in Gateway!Attempts : j # i => req'[j] = req[j]
      /\ itsPass.at # "none" => req'[itsPass.att].at = "done"
      /\ Gateway!Claimed' = Gateway!Claimed
      /\ \A j \in Gateway!Attempts : req'[j].action = req[j].action
      /\ req[i].at = "consent" /\ req'[i].at \in {"exchange", "settle", "failed"}
      /\ attempt.id = i /\ attempt.phase = "authorizing"
      /\ attempt' \in AttemptRecords /\ attempt'.id = attempt.id /\ (attempt.warn => attempt'.warn)
      /\ req'[i].at = "exchange" => attempt'.phase = "exchanging"
  BY <1>1, <1>2, RequestMoves, RequestSettled DEF Gateway!Callback, Fits, Gateway!Stamp,
    AttemptRecords, Phases, ReqStates, Gateway!To
<1>4. JournalsAgree' /\ Gone' /\ Gateway!DeletionsAreJournaled' /\ Earned' /\ Untouched'
  BY <1>1, <1>2 DEF JournalsAgree, Gone, Gateway!DeletionsAreJournaled, Earned, Untouched,
    Gateway!Attempts, Gateway!Bridge, Gateway!NoProgress, Gateway!Nobody, Gateway!Ready,
    Gateway!Resources, Working
<1>5. Fits'
  BY <1>1, <1>2, <1>3, LengthFits, GatewayBounds DEF Fits, Gateway!Actions, Gateway!Attempts
<1>6. PassStands'
  BY <1>1, <1>2, <1>3, LengthFits, GatewayBounds DEF PassStands, Gateway!NoPass, Gateway!Attempts,
    Fits
<1>7. Alone'
  BY <1>1, <1>2, <1>3, LengthFits, GatewayBounds DEF Alone, MayDelete, Locking,
    Gateway!LocksRuntime, Gateway!Actions, Gateway!Nobody, Fits
<1>8. RequestsStand'
  <2>1. (itsPending # 0 => req[itsPending].at = "done")'
    BY <1>1, <1>2, <1>3, GatewayBounds DEF RequestsStand, Gateway!Attempts, Gateway!Actions, Fits
  <2>2. \A j \in Gateway!Attempts : (req[j].at \in {"new", "proved", "relay", "consent",
          "exchange"} => itsGrant[j] = "none")'
    BY <1>1, <1>2, <1>3, GatewayBounds DEF RequestsStand, Gateway!Attempts, Gateway!Actions, Fits
  <2>3. \A j \in Gateway!Attempts : (req[j].at # "new" => req[j].action \in Gateway!Actions)'
    BY <1>1, <1>2, <1>3, GatewayBounds DEF RequestsStand, Gateway!Attempts, Gateway!Actions, Fits
  <2>4. (attempt.phase = "exchanging" => attempt.id # 0)'
    BY <1>1, <1>2, <1>3, GatewayBounds DEF RequestsStand, Gateway!Attempts, Gateway!Actions, Fits
  <2> QED BY <2>1, <2>2, <2>3, <2>4 DEF RequestsStand
<1>9. Warned'
  BY <1>1, <1>2, <1>3, LengthFits, GatewayBounds DEF Warned, Gateway!Attempts, RequestsStand, Fits
<1> QED BY <1>4, <1>5, <1>6, <1>7, <1>8, <1>9 DEF TeardownInv

\* A failed exchange is warned of.
LEMMA GatewayExchangeHolds ==
  ASSUME TeardownInv, NEW i \in Gateway!Attempts, Gateway!Exchange(i)
  PROVE  TeardownInv'
<1>1. /\ Fits /\ JournalsAgree /\ Gone /\ Gateway!DeletionsAreJournaled /\ PassStands /\ Alone
      /\ RequestsStand /\ Warned /\ Earned /\ Untouched
  BY DEF TeardownInv
<1>2. UNCHANGED <<live, bridge, foreign, root, prog, bj, bp, actions, itsExpired, itsOther, itsPending,
                  itsOutcome, itsPass, itsAlarm, itsFlying, itsOutside>>
  BY DEF Gateway!Exchange, Gateway!Fault, Gateway!cloud, Gateway!journal, Gateway!ledger,
    Gateway!browser, Gateway!driver, Gateway!bounds
<1>3. /\ req' \in [Gateway!Attempts -> RequestRecords]
      /\ \A j \in Gateway!Attempts : j # i => req'[j] = req[j]
      /\ itsPass.at # "none" => req'[itsPass.att].at = "done"
      /\ Gateway!Claimed' = Gateway!Claimed
      /\ \A j \in Gateway!Attempts : req'[j].action = req[j].action
      /\ req[i].at = "exchange" /\ req'[i].at \in {"handover", "settle", "failed"}
      /\ attempt' \in AttemptRecords /\ attempt'.id = attempt.id
      /\ attempt.warn => attempt'.warn
      /\ attempt'.phase = "exchanging" => attempt' = attempt
      /\ itsGrant' \in [Gateway!Attempts -> Grants] /\ \A j \in Gateway!Attempts : j # i =>
           itsGrant'[j] = itsGrant[j]
      /\ attempt.id # i => attempt' = attempt
      /\ \/ attempt' = attempt /\ req'[i].at = "handover"
         \/ attempt'.warn /\ req'[i].at # "handover"
         \/ itsGrant'[i] = "revoked" /\ req'[i].at # "handover"
  <2>1. /\ req[i].at = "exchange" /\ attempt \in AttemptRecords
        /\ itsGrant \in [Gateway!Attempts -> Grants]
    BY <1>1 DEF Gateway!Exchange, Fits
  <2>2. attempt.warn \/ (attempt.id = i /\ attempt.phase = "exchanging")
    BY <1>1, <2>1 DEF Warned
  <2>3. CASE /\ Gateway!To(i, "handover") /\ UNCHANGED attempt
             /\ itsGrant' = [itsGrant EXCEPT ![i] = "held"]
    BY <2>1, <2>3, <1>2, RequestMoves DEF Grants, ReqStates, Gateway!To
  <2>4. CASE \E g \in {"none", "lost",
               "revoked"} : itsGrant' = [itsGrant EXCEPT ![i] = g] /\ Gateway!SettleRequest(i,
               g # "revoked")
    <3>0. PICK g \in {"none", "lost",
            "revoked"} : itsGrant' = [itsGrant EXCEPT ![i] = g] /\ Gateway!SettleRequest(i,
            g # "revoked")
      BY <2>4
    <3>1. /\ itsGrant' \in [Gateway!Attempts -> Grants]
          /\ (\A j \in Gateway!Attempts : j # i => itsGrant'[j] = itsGrant[j]) /\ itsGrant'[i] = g
      BY <2>1, <3>0 DEF Grants
    <3> QED BY <1>2, <2>1, <2>2, <3>0, <3>1, RequestSettled
  <2> QED BY <2>3, <2>4 DEF Gateway!Exchange
<1>4. JournalsAgree' /\ Gone' /\ Gateway!DeletionsAreJournaled' /\ Untouched'
  BY <1>1, <1>2 DEF JournalsAgree, Gone, Gateway!DeletionsAreJournaled, Untouched, Gateway!Bridge,
    Gateway!NoProgress, Gateway!Nobody, Gateway!Ready, Gateway!Resources, Working
<1>5. Fits'
  BY <1>1, <1>2, <1>3, LengthFits, GatewayBounds DEF Fits, Gateway!Actions, Gateway!Attempts
<1>6. PassStands'
  BY <1>1, <1>2, <1>3, LengthFits, GatewayBounds DEF PassStands, Gateway!NoPass, Gateway!Attempts,
    Fits
<1>7. Alone'
  BY <1>1, <1>2, <1>3, LengthFits, GatewayBounds DEF Alone, MayDelete, Locking,
    Gateway!LocksRuntime, Gateway!Actions, Gateway!Nobody, Fits
<1>8. RequestsStand'
  <2>1. (itsPending # 0 => req[itsPending].at = "done")'
    BY <1>1, <1>2, <1>3, GatewayBounds DEF RequestsStand, Gateway!Attempts, Gateway!Actions, Fits
  <2>2. \A j \in Gateway!Attempts : (req[j].at \in {"new", "proved", "relay", "consent",
          "exchange"} => itsGrant[j] = "none")'
    BY <1>1, <1>2, <1>3, GatewayBounds DEF RequestsStand, Gateway!Attempts, Gateway!Actions, Fits
  <2>3. \A j \in Gateway!Attempts : (req[j].at # "new" => req[j].action \in Gateway!Actions)'
    BY <1>1, <1>2, <1>3, GatewayBounds DEF RequestsStand, Gateway!Attempts, Gateway!Actions, Fits
  <2>4. (attempt.phase = "exchanging" => attempt.id # 0)'
    BY <1>1, <1>2, <1>3, GatewayBounds DEF RequestsStand, Gateway!Attempts, Gateway!Actions, Fits
  <2> QED BY <2>1, <2>2, <2>3, <2>4 DEF RequestsStand
<1>9. Warned'
  BY <1>1, <1>2, <1>3, LengthFits, GatewayBounds DEF Warned, Gateway!Attempts, RequestsStand, Fits
<1>10. Earned'
  BY <1>1, <1>2, <1>3, LengthFits, GatewayBounds DEF Earned, Gateway!Attempts, RequestsStand, Fits
<1> QED BY <1>4, <1>5, <1>6, <1>7, <1>8, <1>9, <1>10 DEF TeardownInv

\* Discarding the grant in memory loses it, if it is held.
LEMMA Forgets ==
  ASSUME TeardownInv
  PROVE  /\ Gateway!Forgotten \in [Gateway!Attempts -> Grants]
         /\ \A j \in Gateway!Attempts :
              Gateway!Forgotten[j] = itsGrant[j] \/ (itsGrant[j] = "held" /\
              Gateway!Forgotten[j] = "lost")
BY DEF TeardownInv, Fits, Gateway!Forgotten, Gateway!Lost, Grants

\* No pass.
LEMMA NoPassIsPass ==
  Gateway!NoPass \in PassRecords /\
  Gateway!NoPass.at = "none" /\ Gateway!NoPass.done = FALSE /\ Gateway!NoPass.att = 0
  BY GatewayBounds DEF Gateway!NoPass, PassRecords, PassStates

\* The grant of an earlier attempt is lost, and was warned of.
LEMMA GatewayHandOverHolds ==
  ASSUME TeardownInv, NEW i \in Gateway!Attempts, Gateway!HandOver(i)
  PROVE  TeardownInv'
<1>1. /\ Fits /\ JournalsAgree /\ Gone /\ Gateway!DeletionsAreJournaled /\ PassStands /\ Alone
      /\ RequestsStand /\ Warned /\ Earned /\ Untouched
  BY DEF TeardownInv
<1>2. UNCHANGED <<live, bridge, foreign, root, prog, bj, bp, actions, itsExpired, itsOther, attempt,
                  itsOutcome, itsPass, itsFlying, itsOutside, itsFaults>>
  BY DEF Gateway!HandOver, Gateway!To, Gateway!cloud, Gateway!journal, Gateway!ledger,
    Gateway!browser, Gateway!driver, Gateway!bounds
<1>3. /\ req' \in [Gateway!Attempts -> RequestRecords]
      /\ \A j \in Gateway!Attempts : j # i => req'[j] = req[j]
      /\ itsPass.at # "none" => req'[itsPass.att].at = "done"
      /\ Gateway!Claimed' = Gateway!Claimed
      /\ \A j \in Gateway!Attempts : req'[j].action = req[j].action
      /\ req[i].at = "handover" /\ req'[i].at = "done" /\ itsPending' = i /\ itsAlarm'
      /\ itsGrant' \in [Gateway!Attempts -> Grants]
      /\ \A j \in Gateway!Attempts :
           itsGrant'[j] = itsGrant[j] \/ (itsGrant[j] = "held" /\ itsGrant'[j] = "lost")
  BY <1>1, <1>2, RequestMoves, Forgets DEF Gateway!HandOver, Gateway!To, ReqStates
<1>4. JournalsAgree' /\ Gone' /\ Gateway!DeletionsAreJournaled' /\ Untouched'
  BY <1>1, <1>2 DEF JournalsAgree, Gone, Gateway!DeletionsAreJournaled, Untouched, Gateway!Bridge,
    Gateway!NoProgress, Gateway!Nobody, Gateway!Ready, Gateway!Resources, Working
<1>5. Fits'
  BY <1>1, <1>2, <1>3, LengthFits, GatewayBounds DEF Fits, Gateway!Actions, Gateway!Attempts
<1>6. PassStands'
  BY <1>1, <1>2, <1>3, LengthFits, GatewayBounds DEF PassStands, Gateway!NoPass, Gateway!Attempts,
    Fits
<1>7. Alone'
  BY <1>1, <1>2, <1>3, LengthFits, GatewayBounds DEF Alone, MayDelete, Locking,
    Gateway!LocksRuntime, Gateway!Actions, Gateway!Nobody, Fits
<1>8. RequestsStand'
  <2>1. (itsPending # 0 => req[itsPending].at = "done")'
    BY <1>1, <1>2, <1>3, GatewayBounds DEF RequestsStand, Gateway!Attempts, Gateway!Actions, Fits
  <2>2. \A j \in Gateway!Attempts : (req[j].at \in {"new", "proved", "relay", "consent",
          "exchange"} => itsGrant[j] = "none")'
    BY <1>1, <1>2, <1>3, GatewayBounds DEF RequestsStand, Gateway!Attempts, Gateway!Actions, Fits
  <2>3. \A j \in Gateway!Attempts : (req[j].at # "new" => req[j].action \in Gateway!Actions)'
    BY <1>1, <1>2, <1>3, GatewayBounds DEF RequestsStand, Gateway!Attempts, Gateway!Actions, Fits
  <2>4. (attempt.phase = "exchanging" => attempt.id # 0)'
    BY <1>1, <1>2, <1>3, GatewayBounds DEF RequestsStand, Gateway!Attempts, Gateway!Actions, Fits
  <2> QED BY <2>1, <2>2, <2>3, <2>4 DEF RequestsStand
<1>9. Warned'
  BY <1>1, <1>2, <1>3, LengthFits, GatewayBounds DEF Warned, Gateway!Attempts, Fits
<1>10. Earned'
  BY <1>1, <1>2, <1>3, LengthFits, GatewayBounds DEF Earned, Gateway!Attempts, Fits
<1> QED BY <1>4, <1>5, <1>6, <1>7, <1>8, <1>9, <1>10 DEF TeardownInv

\* An alarm that finds no grant reports it.
LEMMA GatewayAlarmHolds ==
  ASSUME TeardownInv, Gateway!Alarm
  PROVE  TeardownInv'
<1>1. /\ Fits /\ JournalsAgree /\ Gone /\ Gateway!DeletionsAreJournaled /\ PassStands /\ Alone
      /\ RequestsStand /\ Warned /\ Earned /\ Untouched
  BY DEF TeardownInv
<1>2. UNCHANGED <<live, bridge, foreign, root, prog, bj, bp, actions, itsExpired, itsOther, req,
                  itsFlying, itsOutside, itsFaults>>
  BY DEF Gateway!Alarm, Gateway!cloud, Gateway!journal, Gateway!ledger, Gateway!browser,
    Gateway!driver, Gateway!bounds
<1>3. /\ itsAlarm' = FALSE /\ itsPass.at = "none"
      /\ attempt' \in AttemptRecords /\ attempt'.id = attempt.id /\ itsPending' \in {0, itsPending}
      /\ itsGrant' \in [Gateway!Attempts -> Grants]
      /\ \A j \in Gateway!Attempts :
           itsGrant'[j] = itsGrant[j] \/ (itsGrant[j] = "held" /\ itsGrant'[j] = "lost")
      /\ \/ attempt' = attempt
         \/ attempt'.warn /\ attempt'.phase = "settled"
      /\ \/ itsOutcome' = itsOutcome
         \/ itsOutcome'.result = "interrupted" /\ itsOutcome' \in OutcomeRecords
      /\ \/ itsPass' = itsPass
         \/ /\ itsPass' \in PassRecords /\ itsPass'.att = itsPending
            /\ itsPending \in Gateway!Attempts
            /\ itsPass'.at \in {"end", "apply"} /\ itsPass'.done = FALSE
  <2>1. /\ attempt \in AttemptRecords /\ itsPending \in 0..GatewayAttempts
        /\ itsPass \in PassRecords /\ itsGrant \in [Gateway!Attempts -> Grants]
        /\ attempt.phase = "exchanging" => attempt.id # 0
    BY <1>1 DEF Fits, RequestsStand
  <2>2. itsAlarm' = FALSE /\ itsPass.at = "none"
    BY DEF Gateway!Alarm, Gateway!Idle
  <2>3. CASE /\ itsGrant' = Gateway!Forgotten /\ itsPending' = 0
             /\ UNCHANGED <<attempt, itsOutcome, itsPass>>
    BY <2>1, <2>2, <2>3, Forgets
  <2>4. CASE /\ itsGrant' = Gateway!Forgotten /\ itsPending' = 0
             /\ attempt' = [attempt EXCEPT !.phase = "settled", !.warn = TRUE]
             /\ itsOutcome' = [att |-> attempt.id, result |-> "interrupted"] /\ UNCHANGED itsPass
    BY <2>1, <2>4, <2>2, Forgets DEF AttemptRecords, Phases, OutcomeRecords
  <2>5. CASE /\ attempt.phase = "exchanging" /\ itsPending = attempt.id
             /\ itsPass' = [att |-> itsPending,
                  at |-> (IF attempt.action \in itsExpired THEN "end" ELSE "apply"), done |-> FALSE]
             /\ UNCHANGED <<attempt, itsPending, itsGrant, itsOutcome>>
    BY <2>1, <2>5, GatewayBounds, <2>2 DEF Gateway!Attempts, PassRecords, PassStates
  <2> QED BY <2>3, <2>4, <2>5 DEF Gateway!Alarm
<1>4. JournalsAgree' /\ Gone' /\ Gateway!DeletionsAreJournaled'
  BY <1>1, <1>2 DEF JournalsAgree, Gone, Gateway!DeletionsAreJournaled, Gateway!Bridge,
    Gateway!NoProgress, Gateway!Nobody, Gateway!Ready, Gateway!Resources
<1>5. Fits'
  <2>1. itsOutcome' \in OutcomeRecords
    BY <1>1, <1>3 DEF Fits
  <2>2. itsPass' \in PassRecords
    BY <1>1, <1>3 DEF Fits
  <2>3. itsPending' \in 0..GatewayAttempts
    BY <1>1, <1>3, GatewayBounds DEF Fits
  <2>5. itsAlarm' \in BOOLEAN
    BY <1>3
  <2>4. /\ live' \subseteq Gateway!Resources /\ bridge' \subseteq Gateway!Bridge
        /\ itsFlying' \in 0..Gateway!N
        /\ root' \in RootRecords /\ prog' \in Gateway!Progresses /\ itsOutside' \in Nat
    BY <1>1, <1>2 DEF Fits, Gateway!Resources, Gateway!Bridge
  <2> QED BY <1>1, <1>2, <1>3, <2>1, <2>2, <2>3, <2>4, <2>5 DEF Fits
<1>6. PassStands'
  BY <1>1, <1>2, <1>3, LengthFits, GatewayBounds DEF PassStands, Gateway!NoPass, Gateway!Attempts,
    RequestsStand, Fits
<1>7. Alone'
  BY <1>1, <1>2, <1>3, LengthFits, GatewayBounds DEF Alone, MayDelete, Locking,
    Gateway!LocksRuntime, Gateway!Actions, Gateway!Nobody, PassStands, Gateway!NoPass, Fits
<1>8. RequestsStand'
  <2>1. (itsPending # 0 => req[itsPending].at = "done")'
    BY <1>1, <1>2, <1>3, GatewayBounds DEF RequestsStand, Gateway!Attempts, Gateway!Actions, Fits
  <2>2. \A j \in Gateway!Attempts : (req[j].at \in {"new", "proved", "relay", "consent",
          "exchange"} => itsGrant[j] = "none")'
    BY <1>1, <1>2, <1>3, GatewayBounds DEF RequestsStand, Gateway!Attempts, Gateway!Actions, Fits
  <2>3. \A j \in Gateway!Attempts : (req[j].at # "new" => req[j].action \in Gateway!Actions)'
    BY <1>1, <1>2, <1>3, GatewayBounds DEF RequestsStand, Gateway!Attempts, Gateway!Actions, Fits
  <2>4. (attempt.phase = "exchanging" => attempt.id # 0)'
    BY <1>1, <1>2, <1>3, GatewayBounds DEF RequestsStand, Gateway!Attempts, Gateway!Actions, Fits
  <2> QED BY <2>1, <2>2, <2>3, <2>4 DEF RequestsStand
<1>9. Warned'
  BY <1>1, <1>2, <1>3, LengthFits, GatewayBounds DEF Warned, Gateway!Attempts, Fits
<1>10. Earned'
  BY <1>1, <1>2, <1>3, LengthFits, GatewayBounds DEF Earned, Gateway!Attempts, Fits
<1>11. Untouched'
  BY <1>1, <1>2, <1>3, LengthFits, GatewayBounds DEF Untouched, Working, Gateway!Nobody,
    Gateway!Resources, PassStands, Fits
<1> QED BY <1>4, <1>5, <1>6, <1>7, <1>8, <1>9, <1>10, <1>11 DEF TeardownInv

\* A pass that goes on is still that of its attempt.
LEMMA PassMoves ==
  ASSUME TeardownInv, itsPass.at # "none", req' = req, NEW at \in PassStates \ {"none"},
    Gateway!Goto(at)
  PROVE  /\ itsPass' \in PassRecords /\ itsPass'.att = itsPass.att /\ itsPass'.at = at
         /\ itsPass'.done = itsPass.done
         /\ itsPass.att \in Gateway!Attempts /\ itsPass.att # 0 /\ req[itsPass.att].at = "done"
         /\ Gateway!Claimed' = Gateway!Claimed /\ Gateway!Claimed \in Gateway!Actions
BY GatewayBounds DEF TeardownInv, Fits, PassStands, RequestsStand, Gateway!Attempts, Gateway!Goto,
  PassRecords, Gateway!Claimed, Gateway!Idle

\* A pass that pauses for the next alarm.
LEMMA PassPauses ==
  ASSUME Gateway!Pause
  PROVE  /\ itsPass' = Gateway!NoPass /\ itsPass' \in PassRecords /\ itsPass'.at = "none"
         /\ itsPass'.done = FALSE /\ itsAlarm' = TRUE
  BY NoPassIsPass DEF Gateway!Pause

\* The progress of a pass.
LEMMA ProgressFits ==
  ASSUME TeardownInv, itsPass.at \in {"step", "readback"}
  PROVE  /\ Gateway!Progress \in Gateway!Progresses /\ Gateway!Progress.att = itsPass.att
         /\ Gateway!Progress.phase # "complete" => Gateway!Progress.checked < Gateway!N
         /\ Gateway!Progress.phase = "complete" => root.status = "removed"
         /\ Gateway!Progress.phase # "sharing_preflight" => Gateway!Progress = prog
         /\ Gateway!Progress = prog =>
              prog.att = itsPass.att /\ (itsPass.at = "step" => root.status # "ready")
BY LengthFits DEF TeardownInv, Fits, JournalsAgree, PassStands, PassRecords, Gateway!Progress,
  Gateway!Progresses

\* A pass asks the journal before it does anything.
LEMMA GatewayApplyHolds ==
  ASSUME TeardownInv, Gateway!Apply
  PROVE  TeardownInv'
<1>1. /\ Fits /\ JournalsAgree /\ Gone /\ Gateway!DeletionsAreJournaled /\ PassStands /\ Alone
      /\ RequestsStand /\ Warned /\ Earned /\ Untouched
  BY DEF TeardownInv
<1>2. UNCHANGED <<live, bridge, foreign, root, prog, bj, itsExpired, itsOther, attempt, req, itsPending,
                  itsGrant, itsOutcome, itsAlarm, itsFlying, itsOutside, itsFaults>>
  BY DEF Gateway!Apply, Gateway!Fail, Gateway!Goto, Gateway!cloud, Gateway!journal, Gateway!ledger,
    Gateway!browser, Gateway!driver, Gateway!bounds
<1>3. /\ itsPass.at = "apply"
      /\ itsPass' \in PassRecords /\ itsPass'.att = itsPass.att /\ itsPass'.done = itsPass.done
      /\ Gateway!Claimed' = Gateway!Claimed
      /\ itsPass.att \in Gateway!Attempts /\ itsPass.att # 0 /\ Gateway!Claimed \in Gateway!Actions
      /\ \/ itsPass'.at = "end" /\ bp' = bp /\ actions' = actions
         \/ /\ itsPass'.at = "open" /\ ~itsOther /\ Gateway!Claimed \notin itsExpired
            /\ bp'.att = itsPass.att
            /\ bp' \in [att : 0..GatewayAttempts, phase : {"none", "preflight", "remove", "complete"}]
            /\ bp'.phase = "complete" => bp.phase = "complete"
            /\ actions' \in [Gateway!Actions -> ActionStates]
            /\ actions'[Gateway!Claimed] \in Locking
            /\ foreign = "bridge" => bp.att = itsPass.att
  BY <1>2, PassMoves, <1>1 DEF Gateway!Apply, Gateway!Fail, PassStates, Gateway!Proves,
    Gateway!Open, Fits, ActionStates, Locking, Gateway!MyBridge, PassRecords
<1>4. Gone' /\ Gateway!DeletionsAreJournaled' /\ RequestsStand' /\ Warned' /\ Earned'
  BY <1>1, <1>2 DEF Gone, Gateway!DeletionsAreJournaled, RequestsStand, Warned, Earned,
    Gateway!Actions, Gateway!Attempts, Gateway!Bridge, Gateway!Nobody, Gateway!Resources
<1>5. Fits'
  BY <1>1, <1>2, <1>3, LengthFits, GatewayBounds DEF Fits, Gateway!Actions, Gateway!Attempts
<1>6. JournalsAgree'
  BY <1>1, <1>2, <1>3, LengthFits, GatewayBounds DEF JournalsAgree, Gateway!Ready,
    Gateway!NoProgress, Fits
<1>7. PassStands'
  BY <1>1, <1>2, <1>3, LengthFits, GatewayBounds DEF PassStands, Gateway!NoPass, Gateway!Attempts,
    Fits
<1>8. Alone'
  BY <1>1, <1>2, <1>3, LengthFits, GatewayBounds DEF Alone, MayDelete, Locking,
    Gateway!LocksRuntime, Gateway!Actions, Gateway!Nobody, Fits
<1>9. Untouched'
  BY <1>1, <1>2, <1>3, LengthFits, GatewayBounds DEF Untouched, Working, Gateway!Nobody,
    Gateway!Resources, Fits
<1> QED BY <1>4, <1>5, <1>6, <1>7, <1>8, <1>9 DEF TeardownInv

\* The journal is opened.
LEMMA GatewayOpenRootHolds ==
  ASSUME TeardownInv, Gateway!OpenRoot
  PROVE  TeardownInv'
<1>1. /\ Fits /\ JournalsAgree /\ Gone /\ Gateway!DeletionsAreJournaled /\ PassStands /\ Alone
      /\ RequestsStand /\ Warned /\ Earned /\ Untouched
  BY DEF TeardownInv
<1>2. UNCHANGED <<live, bridge, foreign, prog, bj, bp, actions, itsExpired, itsOther, attempt, req,
                  itsPending, itsGrant, itsOutcome, itsAlarm, itsFlying, itsOutside, itsFaults>>
  BY DEF Gateway!OpenRoot, Gateway!cloud, Gateway!journal, Gateway!ledger, Gateway!browser,
    Gateway!driver, Gateway!bounds
<1>3. /\ itsPass.at = "open"
      /\ itsPass' \in PassRecords /\ itsPass'.att = itsPass.att /\ itsPass'.done = itsPass.done
      /\ Gateway!Claimed' = Gateway!Claimed
      /\ itsPass.att \in Gateway!Attempts /\ itsPass.att # 0 /\ Gateway!Claimed \in Gateway!Actions
      /\ itsPass'.at = "step"
      /\ root' \in RootRecords /\ root'.removed = root.removed /\ root'.pending = root.pending
      /\ root'.status # "ready" /\ (root'.status = "removed" <=> root.status = "removed")
  BY <1>1, <1>2, PassMoves DEF Gateway!OpenRoot, Fits, RootRecords, PassStates
<1>4. RequestsStand' /\ Warned'
  BY <1>1, <1>2 DEF RequestsStand, Warned, Gateway!Actions, Gateway!Attempts
<1>5. Fits'
  BY <1>1, <1>2, <1>3, LengthFits, GatewayBounds DEF Fits, Gateway!Actions, Gateway!Attempts
<1>6. JournalsAgree'
  BY <1>1, <1>2, <1>3, LengthFits, GatewayBounds DEF JournalsAgree, Gateway!Ready,
    Gateway!NoProgress, Fits
<1>7. Gone'
  BY <1>1, <1>2, <1>3, LengthFits, GatewayBounds DEF Gone, Gateway!Resources, Gateway!Bridge, Fits
<1>8. Gateway!DeletionsAreJournaled'
  BY <1>1, <1>2, <1>3, LengthFits, GatewayBounds DEF Gateway!DeletionsAreJournaled,
    Gateway!Resources, Gateway!Bridge, Gateway!Nobody, Fits
<1>9. PassStands'
  BY <1>1, <1>2, <1>3, LengthFits, GatewayBounds DEF PassStands, Gateway!NoPass, Gateway!Attempts,
    Fits
<1>10. Alone'
  BY <1>1, <1>2, <1>3, LengthFits, GatewayBounds DEF Alone, MayDelete, Locking,
    Gateway!LocksRuntime, Gateway!Actions, Gateway!Nobody, Fits
<1>11. Earned'
  BY <1>1, <1>2, <1>3, LengthFits, GatewayBounds DEF Earned, Gateway!Attempts, Fits
<1>12. Untouched'
  BY <1>1, <1>2, <1>3, LengthFits, GatewayBounds DEF Untouched, Working, Gateway!Nobody,
    Gateway!Resources, Fits
<1> QED BY <1>4, <1>5, <1>6, <1>7, <1>8, <1>9, <1>10, <1>11, <1>12 DEF TeardownInv

\* Only a removal without another Portal goes on.
LEMMA GatewaySharingHolds ==
  ASSUME TeardownInv, Gateway!Sharing
  PROVE  TeardownInv'
<1>1. /\ Fits /\ JournalsAgree /\ Gone /\ Gateway!DeletionsAreJournaled /\ PassStands /\ Alone
      /\ RequestsStand /\ Warned /\ Earned /\ Untouched
  BY DEF TeardownInv
<1>2. UNCHANGED <<live, bridge, foreign, root, bj, bp, actions, itsExpired, itsOther, attempt, req,
                  itsPending, itsGrant, itsOutcome, itsFlying, itsOutside, itsFaults>>
  BY DEF Gateway!Sharing, Gateway!Step, Gateway!cloud, Gateway!journal, Gateway!ledger,
    Gateway!browser, Gateway!driver, Gateway!bounds
<1>3. /\ itsPass.at = "step"
      /\ itsPass.att \in Gateway!Attempts /\ itsPass.att # 0
      /\ \/ /\ itsPass' \in PassRecords /\ itsPass'.att = itsPass.att
            /\ itsPass'.done = itsPass.done /\ itsPass'.at = "end"
            /\ Gateway!Claimed' = Gateway!Claimed
            /\ prog' = prog /\ itsAlarm' = itsAlarm
         \/ /\ itsPass' = Gateway!NoPass /\ itsPass' \in PassRecords /\ itsPass'.at = "none"
            /\ itsPass'.done = FALSE /\ itsAlarm' = TRUE
            /\ foreign # "portal"
            /\ prog' \in Gateway!Progresses /\ prog'.phase \in {"preflight", "delete"}
            /\ prog'.checked < Gateway!N
            /\ prog'.phase = "delete" => prog.phase = "sharing_delete" /\ root.status # "ready"
  <2>1. /\ itsPass.at = "step" /\ Gateway!Progress.phase \in {"sharing_preflight", "sharing_delete"}
        /\ itsPass.att \in Gateway!Attempts
        /\ itsPass.att # 0
    BY <1>1, GatewayBounds DEF Gateway!Sharing, Gateway!Step, PassStands, Gateway!Attempts
  <2>2. CASE Gateway!Fail /\ UNCHANGED prog
    BY <1>2, <2>1, <2>2, PassMoves DEF Gateway!Fail, PassStates
  <2>3. CASE /\ foreign # "portal" /\ Gateway!Pause
             /\ prog' = [Gateway!Progress EXCEPT !.phase = IF @ = "sharing_preflight"
                  THEN "preflight" ELSE "delete"]
    BY <2>1, <2>3, ProgressFits, PassPauses DEF Gateway!Progresses
  <2> QED BY <2>2, <2>3 DEF Gateway!Sharing
<1>4. Gone' /\ Gateway!DeletionsAreJournaled' /\ RequestsStand' /\ Warned' /\ Earned'
  BY <1>1, <1>2 DEF Gone, Gateway!DeletionsAreJournaled, RequestsStand, Warned, Earned,
    Gateway!Actions, Gateway!Attempts, Gateway!Bridge, Gateway!Nobody, Gateway!Resources
<1>5. Fits'
  BY <1>1, <1>2, <1>3, LengthFits, GatewayBounds DEF Fits, Gateway!Actions, Gateway!Attempts
<1>6. JournalsAgree'
  BY <1>1, <1>2, <1>3, LengthFits, GatewayBounds DEF JournalsAgree, Gateway!Ready,
    Gateway!NoProgress, Fits
<1>7. PassStands'
  BY <1>1, <1>2, <1>3, LengthFits, GatewayBounds DEF PassStands, Gateway!NoPass, Gateway!Attempts,
    Fits
<1>8. Alone'
  BY <1>1, <1>2, <1>3, LengthFits, GatewayBounds DEF Alone, MayDelete, Locking,
    Gateway!LocksRuntime, Gateway!Actions, Gateway!Nobody, Fits
<1>9. Untouched'
  BY <1>1, <1>2, <1>3, LengthFits, GatewayBounds DEF Untouched, Working, Gateway!Nobody,
    Gateway!Resources, Fits
<1> QED BY <1>4, <1>5, <1>6, <1>7, <1>8, <1>9 DEF TeardownInv

\* What a step writes can be read.
LEMMA RootSet ==
  ASSUME NEW r \in RootRecords, NEW n \in 0..Gateway!N
  PROVE  /\ [r EXCEPT !.removed = n, !.pending = Gateway!Nobody] \in RootRecords
         /\ [r EXCEPT !.removed = n, !.pending = Gateway!Nobody].removed = n
         /\ [r EXCEPT !.removed = n, !.pending = Gateway!Nobody].pending = Gateway!Nobody
         /\ [r EXCEPT !.removed = n, !.pending = Gateway!Nobody].status = r.status
<1>1. Gateway!Nobody \in [att : 0..GatewayAttempts, phase : {"none", "send_armed", "submitted",
        "not_applied"}]
  BY GatewayBounds DEF Gateway!Nobody
<1> QED BY <1>1 DEF RootRecords

\* One resource is proved; the last one ends the preflight or the removal.
LEMMA GatewayProofHolds ==
  ASSUME TeardownInv, Gateway!Proof
  PROVE  TeardownInv'
<1>1. /\ Fits /\ JournalsAgree /\ Gone /\ Gateway!DeletionsAreJournaled /\ PassStands /\ Alone
      /\ RequestsStand /\ Warned /\ Earned /\ Untouched
  BY DEF TeardownInv
<1>2. UNCHANGED <<live, bridge, foreign, bj, bp, actions, itsExpired, itsOther, attempt, req,
        itsPending,
                  itsGrant, itsOutcome, itsFlying, itsOutside, itsFaults>>
  BY DEF Gateway!Proof, Gateway!Step, Gateway!cloud, Gateway!journal, Gateway!ledger,
    Gateway!browser, Gateway!driver, Gateway!bounds
<1>3. /\ itsPass.at = "step"
      /\ itsPass.att \in Gateway!Attempts /\ itsPass.att # 0
      /\ prog.att = itsPass.att /\ prog.phase \in {"preflight", "verify"} /\ root.status # "ready"
      /\ root \in RootRecords
      /\ Gateway!Claimed \in Gateway!Actions
      /\ \/ /\ itsPass' \in PassRecords /\ itsPass'.att = itsPass.att
            /\ itsPass'.done = itsPass.done /\ itsPass'.at = "end"
            /\ Gateway!Claimed' = Gateway!Claimed
            /\ prog' = prog /\ root' = root /\ itsAlarm' = itsAlarm
         \/ /\ itsPass' = Gateway!NoPass /\ itsPass' \in PassRecords /\ itsPass'.at = "none"
            /\ itsPass'.done = FALSE /\ itsAlarm' = TRUE
            /\ prog' \in Gateway!Progresses /\ prog'.att = prog.att /\ prog'.phase = prog.phase
            /\ prog'.checked < Gateway!N /\ root' = root
         \/ /\ itsPass' \in PassRecords /\ itsPass'.att = itsPass.att
            /\ itsPass'.done = itsPass.done /\ itsPass'.at = "bridge"
            /\ Gateway!Claimed' = Gateway!Claimed
            /\ itsAlarm' = itsAlarm
            /\ root.removed = Gateway!N /\ root' \in RootRecords /\ root'.removed = Gateway!N
            /\ root'.pending = root.pending /\ root'.status = "removed"
            /\ prog' \in Gateway!Progresses /\ prog'.phase = "complete"
         \/ /\ itsPass' = Gateway!NoPass /\ itsPass' \in PassRecords /\ itsPass'.at = "none"
            /\ itsPass'.done = FALSE /\ itsAlarm' = TRUE
            /\ prog' \in Gateway!Progresses /\ prog'.phase = "remove" /\ prog'.checked < Gateway!N
            /\ root' = root
            /\ ~(foreign = "resource" /\ Gateway!N \in live)
  <2>1. /\ itsPass.at = "step" /\ Gateway!Progress.phase \in {"preflight", "verify"}
        /\ itsPass.att \in Gateway!Attempts /\ itsPass.att # 0
    BY <1>1, GatewayBounds DEF Gateway!Proof, Gateway!Step, PassStands, Gateway!Attempts
  <2>2. /\ Gateway!Progress = prog /\ prog.att = itsPass.att /\ root.status # "ready"
        /\ prog \in Gateway!Progresses /\ prog.checked < Gateway!N
        /\ root \in RootRecords /\ prog.phase \in {"preflight", "verify"}
    BY <1>1, <2>1, ProgressFits DEF Fits
  <2>3. Gateway!Claimed \in Gateway!Actions
    BY <1>1, <2>1 DEF Gateway!Claimed, Gateway!Idle, PassStands, RequestsStand
  <2>4. CASE Gateway!Fail /\ UNCHANGED <<root, prog>>
    BY <1>2, <2>1, <2>2, <2>4, PassMoves DEF Gateway!Fail, PassStates
  <2>5. CASE /\ prog.checked + 1 < Gateway!N /\ Gateway!Pause
             /\ prog' = [prog EXCEPT !.checked = prog.checked + 1] /\ UNCHANGED root
    <3>1. /\ prog' \in Gateway!Progresses /\ prog'.att = prog.att /\ prog'.phase = prog.phase
          /\ prog'.checked < Gateway!N
      BY <2>2, <2>5, LengthFits DEF Gateway!Progresses
    <3> QED BY <2>1, <2>2, <2>3, <2>5, <3>1, PassPauses
  <2>6. CASE /\ ~(prog.checked + 1 < Gateway!N) /\ root.removed = Gateway!N
             /\ root' = [root EXCEPT !.status = "removed"]
             /\ prog' = [prog EXCEPT !.phase = "complete", !.checked = prog.checked + 1]
             /\ Gateway!Goto("bridge") /\ UNCHANGED itsAlarm
    <3>0. prog.checked + 1 \in 0..Gateway!N
      BY <2>2, <2>6, LengthFits DEF Gateway!Progresses
    <3>1. prog' \in Gateway!Progresses /\ prog'.phase = "complete"
      <4>1. /\ prog \in Gateway!Progresses
            /\ prog' = [prog EXCEPT !.phase = "complete", !.checked = prog.checked + 1]
        BY <2>2, <2>6
      <4> QED BY ONLY <3>0, <4>1 DEF Gateway!Progresses
    <3>2. /\ root' \in RootRecords /\ root'.removed = Gateway!N /\ root'.pending = root.pending
          /\ root'.status = "removed"
      BY <2>2, <2>6 DEF RootRecords
    <3> QED BY <1>2, <2>1, <2>2, <2>3, <2>6, <3>1, <3>2, PassMoves DEF PassStates
  <2>7. CASE /\ ~(prog.checked + 1 < Gateway!N) /\ Gateway!Agrees(prog.checked + 1) /\ Gateway!Pause
             /\ prog' = Gateway!AfterPreflight /\ UNCHANGED root
    <3>1. prog' \in Gateway!Progresses /\ prog'.phase = "remove" /\ prog'.checked < Gateway!N
      <4>1. /\ prog \in Gateway!Progresses
            /\ prog' = [prog EXCEPT !.phase = "remove", !.checked = 0]
            /\ 0 \in 0..Gateway!N /\ 0 < Gateway!N
        BY <2>2, <2>7, LengthFits DEF Gateway!AfterPreflight
      <4>2. prog'.checked = 0
        BY ONLY <4>1 DEF Gateway!Progresses
      <4>3. prog' \in Gateway!Progresses /\ prog'.phase = "remove"
        BY ONLY <4>1 DEF Gateway!Progresses
      <4> QED BY <4>1, <4>2, <4>3
    <3>2. prog.checked + 1 = Gateway!N
      BY <2>2, <2>7, LengthFits DEF Gateway!Progresses
    <3>3. ~(foreign = "resource" /\ Gateway!N \in live)
      BY <2>7, <3>2 DEF Gateway!Agrees, Gateway!Altered
    <3> QED BY <2>1, <2>2, <2>3, <2>7, <3>1, <3>3, PassPauses
  <2> QED BY <2>2, <2>4, <2>5, <2>6, <2>7 DEF Gateway!Proof
<1>4. RequestsStand' /\ Warned'
  BY <1>1, <1>2 DEF RequestsStand, Warned, Gateway!Actions, Gateway!Attempts
<1>5. Fits'
  BY <1>1, <1>2, <1>3, LengthFits, GatewayBounds DEF Fits, Gateway!Actions, Gateway!Attempts
<1>6. JournalsAgree'
  BY <1>1, <1>2, <1>3, LengthFits, GatewayBounds DEF JournalsAgree, Gateway!Ready,
    Gateway!NoProgress, Fits
<1>7. Gone'
  BY <1>1, <1>2, <1>3, LengthFits, GatewayBounds DEF Gone, Gateway!Resources, Gateway!Bridge, Fits
<1>8. Gateway!DeletionsAreJournaled'
  BY <1>1, <1>2, <1>3, LengthFits, GatewayBounds DEF Gateway!DeletionsAreJournaled,
    Gateway!Resources, Gateway!Bridge, Gateway!Nobody, Fits
<1>9. PassStands'
  BY <1>1, <1>2, <1>3, LengthFits, GatewayBounds DEF PassStands, Gateway!NoPass, Gateway!Attempts,
    Fits
<1>10. Alone'
  BY <1>1, <1>2, <1>3, LengthFits, GatewayBounds DEF Alone, MayDelete, Locking,
    Gateway!LocksRuntime, Gateway!Actions, Gateway!Nobody, Fits
<1>11. Earned'
  BY <1>1, <1>2, <1>3, LengthFits, GatewayBounds DEF Earned, Gateway!Attempts, Fits
<1>12. Untouched'
  BY <1>3, <1>1, LengthFits, <1>2 DEF Untouched, Working, Fits, Gateway!Obstacles
<1> QED BY <1>4, <1>5, <1>6, <1>7, <1>8, <1>9, <1>10, <1>11, <1>12 DEF TeardownInv

\* A deletion is armed by the pass that sends it.
LEMMA GatewayRemoveHolds ==
  ASSUME TeardownInv, Gateway!Remove
  PROVE  TeardownInv'
<1>1. /\ Fits /\ JournalsAgree /\ Gone /\ Gateway!DeletionsAreJournaled /\ PassStands /\ Alone
      /\ RequestsStand /\ Warned /\ Earned /\ Untouched
  BY DEF TeardownInv
<1>2. UNCHANGED <<live, bridge, foreign, bj, bp, actions, itsExpired, itsOther, attempt, req,
        itsPending,
                  itsGrant, itsOutcome, itsFlying, itsOutside, itsFaults>>
  BY DEF Gateway!Remove, Gateway!Turn, Gateway!cloud, Gateway!journal, Gateway!ledger,
    Gateway!browser, Gateway!driver, Gateway!bounds
<1>3. /\ itsPass.at = "step"
      /\ itsPass.att \in Gateway!Attempts /\ itsPass.att # 0
      /\ prog.att = itsPass.att /\ prog.phase \in {"remove", "delete"} /\ root.status # "ready"
      /\ root \in RootRecords
      /\ Gateway!Claimed \in Gateway!Actions
      /\ \/ /\ itsPass' \in PassRecords /\ itsPass'.att = itsPass.att
            /\ itsPass'.done = itsPass.done /\ itsPass'.at = "end"
            /\ Gateway!Claimed' = Gateway!Claimed
            /\ prog' = prog /\ root' = root /\ itsAlarm' = itsAlarm
         \/ /\ itsPass' = Gateway!NoPass /\ itsPass' \in PassRecords /\ itsPass'.at = "none"
            /\ itsPass'.done = FALSE /\ itsAlarm' = TRUE
            /\ prog' \in Gateway!Progresses /\ prog'.phase \in {"verify", "sharing_delete"}
            /\ prog'.checked < Gateway!N /\ root' = root
         \/ /\ itsPass' = Gateway!NoPass /\ itsPass' \in PassRecords /\ itsPass'.at = "none"
            /\ itsPass'.done = FALSE /\ itsAlarm' = TRUE
            /\ root.removed < Gateway!N /\ root.removed + 1 \notin live
            /\ root' \in RootRecords /\ root'.removed = root.removed + 1
            /\ root'.pending = Gateway!Nobody /\ root'.status = root.status
            /\ prog' \in Gateway!Progresses /\ prog'.phase = "remove" /\ prog'.checked < Gateway!N
         \/ /\ itsPass' \in PassRecords /\ itsPass'.att = itsPass.att
            /\ itsPass'.done = itsPass.done /\ itsPass'.at = "send"
            /\ Gateway!Claimed' = Gateway!Claimed
            /\ itsAlarm' = itsAlarm /\ prog' = prog /\ root.removed < Gateway!N
            /\ root' \in RootRecords /\ root'.removed = root.removed
            /\ root'.pending.att = itsPass.att /\ root'.status = root.status
  <2>1. /\ itsPass.at = "step" /\ Gateway!Progress.phase \in {"remove", "delete"}
        /\ itsPass.att \in Gateway!Attempts /\ itsPass.att # 0
    BY <1>1, GatewayBounds DEF Gateway!Remove, Gateway!Turn, PassStands, Gateway!Attempts
  <2>2. /\ Gateway!Progress = prog /\ prog.att = itsPass.att /\ root.status # "ready"
        /\ prog \in Gateway!Progresses /\ prog.checked < Gateway!N
        /\ root \in RootRecords /\ prog.phase \in {"remove", "delete"}
        /\ root.removed \in 0..Gateway!N
    BY <1>1, <2>1, ProgressFits DEF Fits, RootRecords
  <2>3. Gateway!Claimed \in Gateway!Actions
    BY <1>1, <2>1 DEF Gateway!Claimed, Gateway!Idle, PassStands, RequestsStand
  <2>4. CASE Gateway!Fail /\ UNCHANGED <<root, prog>>
    BY <1>2, <2>1, <2>2, <2>3, <2>4, PassMoves DEF Gateway!Fail, PassStates
  <2>5. CASE /\ Gateway!Pause /\ prog' = [prog EXCEPT !.phase = "verify", !.checked = 0]
             /\ UNCHANGED root
    <3>1. /\ prog' \in Gateway!Progresses /\ prog'.phase \in {"verify", "sharing_delete"}
          /\ prog'.checked < Gateway!N
      <4>1. /\ prog \in Gateway!Progresses
            /\ prog' = [prog EXCEPT !.phase = "verify", !.checked = 0]
            /\ 0 \in 0..Gateway!N /\ 0 < Gateway!N
        BY <2>2, <2>5, LengthFits
      <4>2. prog'.checked = 0
        BY ONLY <4>1 DEF Gateway!Progresses
      <4>3. prog' \in Gateway!Progresses /\ prog'.phase = "verify"
        BY ONLY <4>1 DEF Gateway!Progresses
      <4> QED BY <4>1, <4>2, <4>3
    <3> QED BY <2>1, <2>2, <2>3, <2>5, <3>1, PassPauses
  <2>6. CASE Gateway!Pause /\ prog' = [prog EXCEPT !.phase = "sharing_delete"] /\ UNCHANGED root
    BY <2>2, <2>6, LengthFits, <2>1, <2>3, PassPauses DEF Gateway!Progresses
  <2>7. CASE /\ root.removed # Gateway!N /\ root.removed + 1 \notin live /\ Gateway!Pause
             /\ root' = Gateway!Removed
             /\ prog' = [prog EXCEPT !.phase = "remove"]
    <3>1. prog' \in Gateway!Progresses /\ prog'.phase = "remove" /\ prog'.checked < Gateway!N
      BY <2>2, <2>7, LengthFits DEF Gateway!Progresses
    <3>2. /\ root' \in RootRecords /\ root'.removed = root.removed + 1
          /\ root'.pending = Gateway!Nobody /\ root'.status = root.status
      <4>1. root.removed + 1 \in 0..Gateway!N
        BY <2>2, <2>7, LengthFits
      <4> QED BY <2>2, <2>7, <4>1, RootSet DEF Gateway!Removed
    <3>3. root.removed < Gateway!N
      BY <2>2, <2>7, LengthFits
    <3> QED BY <2>1, <2>2, <2>3, <2>7, <3>1, <3>2, <3>3, PassPauses
  <2>8. CASE /\ root.removed # Gateway!N
             /\ root' = [root EXCEPT !.pending = [att |-> itsPass.att, phase |-> "send_armed"]]
             /\ Gateway!Goto("send") /\ UNCHANGED <<prog, itsAlarm>>
    BY <2>1, <2>2, <2>8, <1>2, <2>3, LengthFits, PassMoves DEF RootRecords, Gateway!Attempts,
      PassStates
  <2> QED BY <2>2, <2>4, <2>5, <2>6, <2>7, <2>8 DEF Gateway!Remove
<1>4. RequestsStand' /\ Warned'
  BY <1>1, <1>2 DEF RequestsStand, Warned, Gateway!Actions, Gateway!Attempts
<1>5. Fits'
  BY <1>1, <1>2, <1>3, LengthFits, GatewayBounds DEF Fits, Gateway!Actions, Gateway!Attempts
<1>6. JournalsAgree'
  BY <1>1, <1>2, <1>3, LengthFits, GatewayBounds DEF JournalsAgree, Gateway!Ready,
    Gateway!NoProgress, Fits
<1>7. Gone'
  BY <1>1, <1>3, <1>2 DEF Fits, RootRecords, Gone, Gateway!Resources, Gateway!Bridge
<1>8. Gateway!DeletionsAreJournaled'
  BY <1>1, <1>3, <1>2 DEF Fits, RootRecords, Gateway!Nobody, Gateway!DeletionsAreJournaled,
    Gateway!Resources
<1>9. PassStands'
  BY <1>1, <1>2, <1>3, LengthFits, GatewayBounds DEF PassStands, Gateway!NoPass, Gateway!Attempts,
    Fits
<1>10. Alone'
  BY <1>1, <1>2, <1>3, LengthFits, GatewayBounds DEF Alone, MayDelete, Locking,
    Gateway!LocksRuntime, Gateway!Actions, Gateway!Nobody, Fits
<1>11. Earned'
  BY <1>1, <1>2, <1>3, LengthFits, GatewayBounds DEF Earned, Gateway!Attempts, Fits
<1>12. Untouched'
  BY <1>1, <1>2, <1>3, LengthFits, GatewayBounds DEF Untouched, Working, Gateway!Nobody,
    Gateway!Resources, Fits
<1> QED BY <1>4, <1>5, <1>6, <1>7, <1>8, <1>9, <1>10, <1>11, <1>12 DEF TeardownInv

\* Whatever becomes of a DELETE, it is the armed one.
LEMMA GatewaySendHolds ==
  ASSUME TeardownInv, Gateway!Send
  PROVE  TeardownInv'
<1>1. /\ Fits /\ JournalsAgree /\ Gone /\ Gateway!DeletionsAreJournaled /\ PassStands /\ Alone
      /\ RequestsStand /\ Warned /\ Earned /\ Untouched
  BY DEF TeardownInv
<1>2. UNCHANGED <<bridge, foreign, prog, bj, bp, actions, itsExpired, itsOther, attempt, req,
        itsPending,
                  itsGrant, itsOutcome, itsAlarm, itsOutside>>
  BY DEF Gateway!Send, Gateway!Fault, Gateway!Fail, Gateway!Goto, Gateway!bounds, Gateway!driver,
    Gateway!ledger, Gateway!cloud, Gateway!browser
<1>3. /\ itsPass.at = "send"
      /\ itsPass' \in PassRecords /\ itsPass'.att = itsPass.att /\ itsPass'.done = itsPass.done
      /\ Gateway!Claimed' = Gateway!Claimed
      /\ itsPass.att \in Gateway!Attempts /\ itsPass.att # 0 /\ Gateway!Claimed \in Gateway!Actions
      /\ itsPass'.at \in {"end", "readback"}
      /\ root' \in RootRecords /\ root'.removed = root.removed /\ root'.status = root.status
      /\ root'.pending.att = root.pending.att /\ root.pending.att = itsPass.att
      /\ root.removed < Gateway!N /\ root.removed \in 0..Gateway!N /\ root.status # "ready"
      /\ live' \in {live, live \ {root.removed + 1}} /\ itsFlying' \in {itsFlying, root.removed + 1}
  <2>1. /\ itsPass.at = "send" /\ root.pending.att = itsPass.att /\ root.removed < Gateway!N
        /\ root.removed \in 0..Gateway!N /\ root \in RootRecords
        /\ root.status # "ready"
    BY <1>1, GatewayBounds DEF Gateway!Send, PassStands, Fits, RootRecords, JournalsAgree,
      Gateway!Ready, Gateway!Nobody, Gateway!Attempts
  <2>2. /\ \/ root' = root
           \/ \E ph \in {"submitted", "not_applied"} : root' = [root EXCEPT !.pending.phase = ph]
        /\ live' \in {live, live \ {root.removed + 1}}
        /\ itsFlying' \in {itsFlying, root.removed + 1}
        /\ Gateway!Goto("end") \/ Gateway!Goto("readback")
    BY DEF Gateway!Send, Gateway!Fail, Gateway!Fault, Gateway!cloud
  <2>3. /\ root' \in RootRecords /\ root'.removed = root.removed /\ root'.status = root.status
        /\ root'.pending.att = root.pending.att
    BY ONLY <2>1, <2>2 DEF RootRecords
  <2>4. CASE Gateway!Goto("end")
    BY <1>2, <2>1, <2>2, <2>3, <2>4, PassMoves DEF PassStates
  <2>5. CASE Gateway!Goto("readback")
    BY <1>2, <2>1, <2>2, <2>3, <2>5, PassMoves DEF PassStates
  <2> QED BY <2>2, <2>4, <2>5
<1>4. RequestsStand' /\ Warned'
  BY <1>1, <1>2 DEF RequestsStand, Warned, Gateway!Actions, Gateway!Attempts
<1>5. Fits'
  BY <1>1, <1>2, <1>3, LengthFits, GatewayBounds DEF Fits, Gateway!Actions, Gateway!Attempts
<1>6. JournalsAgree'
  BY <1>1, <1>2, <1>3, LengthFits, GatewayBounds DEF JournalsAgree, Gateway!Ready,
    Gateway!NoProgress, Fits
<1>7. Gone'
  BY <1>1, <1>2, <1>3, LengthFits, GatewayBounds DEF Gone, Gateway!Resources, Gateway!Bridge, Fits
<1>8. Gateway!DeletionsAreJournaled'
  BY <1>1, <1>2, <1>3, LengthFits, GatewayBounds DEF Gateway!DeletionsAreJournaled,
    Gateway!Resources, Gateway!Bridge, Gateway!Nobody, Fits
<1>9. PassStands'
  BY <1>1, <1>2, <1>3, LengthFits, GatewayBounds DEF PassStands, Gateway!NoPass, Gateway!Attempts,
    Fits
<1>10. Alone'
  BY <1>1, <1>2, <1>3, LengthFits, GatewayBounds DEF Alone, MayDelete, Locking,
    Gateway!LocksRuntime, Gateway!Actions, Gateway!Nobody, Fits
<1>11. Earned'
  BY <1>1, <1>2, <1>3, LengthFits, GatewayBounds DEF Earned, Gateway!Attempts, Fits
<1>12. Untouched'
  BY <1>1, <1>2, <1>3, LengthFits, GatewayBounds DEF Untouched, Working, Gateway!Nobody,
    Gateway!Resources, Fits
<1> QED BY <1>4, <1>5, <1>6, <1>7, <1>8, <1>9, <1>10, <1>11, <1>12 DEF TeardownInv

\* What was read to be absent is counted.
LEMMA GatewayReadbackHolds ==
  ASSUME TeardownInv, Gateway!Readback
  PROVE  TeardownInv'
<1>1. /\ Fits /\ JournalsAgree /\ Gone /\ Gateway!DeletionsAreJournaled /\ PassStands /\ Alone
      /\ RequestsStand /\ Warned /\ Earned /\ Untouched
  BY DEF TeardownInv
<1>2. UNCHANGED <<live, bridge, foreign, bj, bp, actions, itsExpired, itsOther, attempt, req,
        itsPending,
                  itsGrant, itsOutcome, itsFlying, itsOutside, itsFaults>>
  BY DEF Gateway!Readback, Gateway!cloud, Gateway!journal, Gateway!ledger, Gateway!browser,
    Gateway!driver, Gateway!bounds
<1>3. /\ itsPass.at = "readback" /\ root.pending.att = itsPass.att
      /\ itsPass.att \in Gateway!Attempts /\ itsPass.att # 0
      /\ \/ /\ itsPass' \in PassRecords /\ itsPass'.att = itsPass.att
            /\ itsPass'.done = itsPass.done /\ itsPass'.at = "end"
            /\ Gateway!Claimed' = Gateway!Claimed
            /\ prog' = prog /\ root' = root /\ itsAlarm' = itsAlarm
         \/ /\ itsPass' = Gateway!NoPass /\ itsPass' \in PassRecords /\ itsPass'.at = "none"
            /\ itsPass'.done = FALSE /\ itsAlarm' = TRUE
            /\ root.removed < Gateway!N /\ root.removed + 1 \notin live
            /\ root' \in RootRecords /\ root'.removed = root.removed + 1
            /\ root'.pending = Gateway!Nobody /\ root'.status = root.status
            /\ prog' \in Gateway!Progresses /\ prog'.phase = "remove" /\ prog'.checked < Gateway!N
            /\ root.status # "ready"
  <2>1. /\ itsPass.at = "readback" /\ root.pending.att = itsPass.att /\ root.removed < Gateway!N
        /\ root.removed \in 0..Gateway!N
        /\ root \in RootRecords /\ itsPass.att \in Gateway!Attempts /\ itsPass.att # 0
        /\ root.status \notin {"ready", "removed"}
    BY <1>1, GatewayBounds DEF Gateway!Readback, PassStands, Fits, RootRecords, Gateway!Attempts,
      JournalsAgree, Gateway!Ready, Gateway!Nobody
  <2>2. CASE Gateway!Fail /\ UNCHANGED <<root, prog>>
    BY <1>2, <2>1, <2>2, PassMoves DEF Gateway!Fail, PassStates
  <2>3. CASE /\ root.removed + 1 \notin live /\ root' = Gateway!Removed
             /\ prog' = [Gateway!Progress EXCEPT !.phase = "remove"] /\ Gateway!Pause
    <3>1. Gateway!Progress \in Gateway!Progresses /\ Gateway!Progress.checked < Gateway!N
      BY <2>1, ProgressFits
    <3>2. prog' \in Gateway!Progresses /\ prog'.phase = "remove" /\ prog'.checked < Gateway!N
      BY <2>3, <3>1 DEF Gateway!Progresses
    <3>3. /\ root' \in RootRecords /\ root'.removed = root.removed + 1
          /\ root'.pending = Gateway!Nobody /\ root'.status = root.status
      <4>1. root.removed + 1 \in 0..Gateway!N
        BY <2>1, LengthFits
      <4> QED BY <2>1, <2>3, <4>1, RootSet DEF Gateway!Removed
    <3> QED BY <2>1, <2>3, <3>2, <3>3, PassPauses
  <2> QED BY <2>2, <2>3 DEF Gateway!Readback
<1>4. RequestsStand' /\ Warned'
  BY <1>1, <1>2 DEF RequestsStand, Warned, Gateway!Actions, Gateway!Attempts
<1>5. Fits'
  BY <1>1, <1>2, <1>3, LengthFits, GatewayBounds DEF Fits, Gateway!Actions, Gateway!Attempts
<1>6. JournalsAgree'
  BY <1>1, <1>2, <1>3, LengthFits, GatewayBounds DEF JournalsAgree, Gateway!Ready,
    Gateway!NoProgress, Fits
<1>7. Gone'
  BY <1>1, <1>3, <1>2 DEF Fits, RootRecords, Gone, Gateway!Resources, Gateway!Bridge
<1>8. Gateway!DeletionsAreJournaled'
  BY <1>1, <1>3, <1>2 DEF Fits, RootRecords, Gateway!Nobody, Gateway!DeletionsAreJournaled,
    Gateway!Resources
<1>9. PassStands'
  BY <1>1, <1>2, <1>3, LengthFits, GatewayBounds DEF PassStands, Gateway!NoPass, Gateway!Attempts,
    Fits
<1>10. Alone'
  BY <1>1, <1>2, <1>3, LengthFits, GatewayBounds DEF Alone, MayDelete, Locking,
    Gateway!LocksRuntime, Gateway!Actions, Gateway!Nobody, Fits
<1>11. Earned'
  BY <1>1, <1>2, <1>3, LengthFits, GatewayBounds DEF Earned, Gateway!Attempts, Fits
<1>12. Untouched'
  BY <1>1, <1>2, <1>3, LengthFits, GatewayBounds DEF Untouched, Working, Gateway!Nobody,
    Gateway!Resources, Gateway!Attempts, Fits
<1> QED BY <1>4, <1>5, <1>6, <1>7, <1>8, <1>9, <1>10, <1>11, <1>12 DEF TeardownInv

\* An expired action does nothing more.
LEMMA GatewayStepExpiredHolds ==
  ASSUME TeardownInv, Gateway!StepExpired
  PROVE  TeardownInv'
<1>1. /\ Fits /\ JournalsAgree /\ Gone /\ Gateway!DeletionsAreJournaled /\ PassStands /\ Alone
      /\ RequestsStand /\ Warned /\ Earned /\ Untouched
  BY DEF TeardownInv
<1>2. UNCHANGED <<live, bridge, foreign, root, prog, bj, bp, actions, itsExpired, itsOther, attempt,
                  req, itsPending, itsGrant, itsOutcome, itsAlarm, itsFlying, itsOutside, itsFaults>>
  BY DEF Gateway!StepExpired, Gateway!Fail, Gateway!cloud, Gateway!journal, Gateway!ledger,
    Gateway!browser, Gateway!driver, Gateway!bounds
<1>3. /\ itsPass.at = "step"
      /\ itsPass' \in PassRecords /\ itsPass'.att = itsPass.att /\ itsPass'.done = itsPass.done
      /\ Gateway!Claimed' = Gateway!Claimed
      /\ itsPass.att \in Gateway!Attempts /\ itsPass.att # 0 /\ Gateway!Claimed \in Gateway!Actions
      /\ itsPass'.at = "end"
  BY <1>1, <1>2, PassMoves DEF Gateway!StepExpired, Gateway!Fail, PassStates
<1>4. /\ JournalsAgree' /\ Gone' /\ Gateway!DeletionsAreJournaled' /\ RequestsStand' /\ Warned'
      /\ Earned'
  BY <1>1, <1>2 DEF JournalsAgree, Gone, Gateway!DeletionsAreJournaled, RequestsStand, Warned,
    Earned, Gateway!Actions, Gateway!Attempts, Gateway!Bridge, Gateway!NoProgress, Gateway!Nobody,
    Gateway!Ready, Gateway!Resources
<1>5. Fits'
  BY <1>1, <1>2, <1>3, LengthFits, GatewayBounds DEF Fits, Gateway!Actions, Gateway!Attempts
<1>6. PassStands'
  BY <1>1, <1>2, <1>3, LengthFits, GatewayBounds DEF PassStands, Gateway!NoPass, Gateway!Attempts,
    Fits
<1>7. Alone'
  BY <1>1, <1>2, <1>3, LengthFits, GatewayBounds DEF Alone, MayDelete, Locking,
    Gateway!LocksRuntime, Gateway!Actions, Gateway!Nobody, Fits
<1>8. Untouched'
  BY <1>1, <1>2, <1>3, LengthFits, GatewayBounds DEF Untouched, Working, Gateway!Nobody,
    Gateway!Resources, Fits
<1> QED BY <1>4, <1>5, <1>6, <1>7, <1>8 DEF TeardownInv

\* A later pass goes on with the bridge.
LEMMA GatewayRootCompleteHolds ==
  ASSUME TeardownInv, Gateway!RootComplete
  PROVE  TeardownInv'
<1>1. /\ Fits /\ JournalsAgree /\ Gone /\ Gateway!DeletionsAreJournaled /\ PassStands /\ Alone
      /\ RequestsStand /\ Warned /\ Earned /\ Untouched
  BY DEF TeardownInv
<1>2. UNCHANGED <<live, bridge, foreign, root, prog, bj, bp, actions, itsExpired, itsOther, attempt,
                  req, itsPending, itsGrant, itsOutcome, itsAlarm, itsFlying, itsOutside, itsFaults>>
  BY DEF Gateway!RootComplete, Gateway!Fail, Gateway!cloud, Gateway!journal, Gateway!ledger,
    Gateway!browser, Gateway!driver, Gateway!bounds
<1>3. /\ itsPass.at = "step"
      /\ itsPass' \in PassRecords /\ itsPass'.att = itsPass.att /\ itsPass'.done = itsPass.done
      /\ Gateway!Claimed' = Gateway!Claimed
      /\ itsPass.att \in Gateway!Attempts /\ itsPass.att # 0 /\ Gateway!Claimed \in Gateway!Actions
      /\ itsPass'.at \in {"end", "bridge"}
      /\ prog.att = itsPass.att /\ prog.phase = "complete" /\ root.status = "removed"
  BY <1>1, ProgressFits, <1>2, PassMoves DEF Gateway!RootComplete, Gateway!Step, Gateway!Fail,
    PassStates
<1>4. /\ JournalsAgree' /\ Gone' /\ Gateway!DeletionsAreJournaled' /\ RequestsStand' /\ Warned'
      /\ Earned'
  BY <1>1, <1>2 DEF JournalsAgree, Gone, Gateway!DeletionsAreJournaled, RequestsStand, Warned,
    Earned, Gateway!Actions, Gateway!Attempts, Gateway!Bridge, Gateway!NoProgress, Gateway!Nobody,
    Gateway!Ready, Gateway!Resources
<1>5. Fits'
  BY <1>1, <1>2, <1>3, LengthFits, GatewayBounds DEF Fits, Gateway!Actions, Gateway!Attempts
<1>6. PassStands'
  BY <1>1, <1>2, <1>3, LengthFits, GatewayBounds DEF PassStands, Gateway!NoPass, Gateway!Attempts,
    Fits
<1>7. Alone'
  BY <1>1, <1>2, <1>3, LengthFits, GatewayBounds DEF Alone, MayDelete, Locking,
    Gateway!LocksRuntime, Gateway!Actions, Gateway!Nobody, Fits
<1>8. Untouched'
  BY <1>1, <1>2, <1>3, LengthFits, GatewayBounds DEF Untouched, Working, Gateway!Nobody,
    Gateway!Resources, Fits
<1> QED BY <1>4, <1>5, <1>6, <1>7, <1>8 DEF TeardownInv

\* The bridge, after the receipt.
LEMMA GatewayBridgeStepHolds ==
  ASSUME TeardownInv, Gateway!BridgeStep
  PROVE  TeardownInv'
<1>1. /\ Fits /\ JournalsAgree /\ Gone /\ Gateway!DeletionsAreJournaled /\ PassStands /\ Alone
      /\ RequestsStand /\ Warned /\ Earned /\ Untouched
  BY DEF TeardownInv
<1>2. UNCHANGED <<live, bridge, foreign, root, prog, actions, itsExpired, itsOther, attempt, req,
                  itsPending, itsGrant, itsOutcome, itsFlying, itsOutside, itsFaults>>
  BY DEF Gateway!BridgeStep, Gateway!cloud, Gateway!journal, Gateway!ledger, Gateway!browser,
    Gateway!driver, Gateway!bounds
<1>3. /\ itsPass.at = "bridge" /\ bj.removed \in 0..3 /\ root.status = "removed"
      /\ itsPass.att \in Gateway!Attempts /\ itsPass.att # 0
      /\ \/ /\ itsPass' \in PassRecords /\ itsPass'.att = itsPass.att
            /\ itsPass'.done = itsPass.done /\ Gateway!Claimed' = Gateway!Claimed
            /\ itsAlarm' = itsAlarm
            /\ itsPass'.at = "end" /\ bj' = bj /\ bp' = bp
         \/ /\ itsPass' \in PassRecords /\ itsPass'.att = itsPass.att
            /\ itsPass'.done = itsPass.done /\ Gateway!Claimed' = Gateway!Claimed
            /\ itsAlarm' = itsAlarm
            /\ itsPass'.at = "removed" /\ bj' = bj /\ bj.removed = 3
            /\ bp' \in [att : 0..GatewayAttempts, phase : {"none", "preflight", "remove", "complete"}]
         \/ /\ itsPass' = Gateway!NoPass /\ itsPass' \in PassRecords /\ itsPass'.at = "none"
            /\ itsPass'.done = FALSE /\ itsAlarm' = TRUE
            /\ bp' = bp
            /\ bj' \in [removed : 0..3, pending : 0..GatewayAttempts]
            /\ bj'.removed = bj.removed + 1
            /\ bj'.pending = 0 /\ bj.removed < 3 /\ bj.removed + 1 \notin bridge
         \/ /\ itsPass' \in PassRecords /\ itsPass'.att = itsPass.att
            /\ itsPass'.done = itsPass.done /\ Gateway!Claimed' = Gateway!Claimed
            /\ itsAlarm' = itsAlarm
            /\ itsPass'.at = "bridge_send" /\ bp' = bp
            /\ bj' \in [removed : 0..3, pending : 0..GatewayAttempts] /\ bj'.removed = bj.removed
            /\ bj'.pending # 0 /\ bj.removed < 3
  <2>1. /\ itsPass.at = "bridge" /\ bj.removed \in 0..3 /\ root.status = "removed"
        /\ bj \in [removed : 0..3, pending : 0..GatewayAttempts]
        /\ bp \in [att : 0..GatewayAttempts, phase : {"none", "preflight", "remove", "complete"}]
        /\ itsPass.att \in Gateway!Attempts /\ itsPass.att # 0
        /\ bp.phase = "complete" => bj.removed = 3
    BY <1>1, GatewayBounds DEF Gateway!BridgeStep, PassStands, Fits, Gateway!Attempts, JournalsAgree
  <2>2. CASE Gateway!Fail /\ UNCHANGED <<bj, bp>>
    BY <1>2, <2>1, <2>2, PassMoves DEF Gateway!Fail, PassStates
  <2>3. CASE /\ Gateway!MyBridge = "complete" /\ Gateway!Goto("removed")
             /\ UNCHANGED <<bj, bp, itsAlarm>>
    BY <2>1, <2>3, <1>2, PassMoves DEF Gateway!MyBridge, PassStates
  <2>4. CASE /\ bj.removed = 3 /\ Gateway!Goto("removed") /\ bp' = [bp EXCEPT !.phase = "complete"]
             /\ UNCHANGED <<bj, itsAlarm>>
    BY <2>1, <2>4, <1>2, PassMoves DEF PassStates
  <2>5. CASE /\ bj.removed # 3 /\ bj.removed + 1 \notin bridge /\ Gateway!Pause
             /\ bj' = [removed |-> bj.removed + 1, pending |-> 0] /\ UNCHANGED bp
    <3>1. /\ bj.removed < 3 /\ bj' \in [removed : 0..3, pending : 0..GatewayAttempts]
          /\ bj'.removed = bj.removed + 1 /\ bj'.pending = 0
      BY <2>1, <2>5, GatewayBounds
    <3> QED BY <2>1, <2>5, <3>1, PassPauses
  <2>6. CASE /\ bj.removed # 3 /\ bj' = [bj EXCEPT !.pending = itsPass.att]
             /\ Gateway!Goto("bridge_send") /\ UNCHANGED <<bp, itsAlarm>>
    BY <2>1, <2>6, GatewayBounds, <1>2, PassMoves DEF Gateway!Attempts, PassStates
  <2> QED BY <2>2, <2>3, <2>4, <2>5, <2>6 DEF Gateway!BridgeStep
<1>4. RequestsStand' /\ Warned' /\ Earned'
  BY <1>1, <1>2 DEF RequestsStand, Warned, Earned, Gateway!Actions, Gateway!Attempts
<1>5. Fits'
  BY <1>1, <1>2, <1>3, LengthFits, GatewayBounds DEF Fits, Gateway!Actions, Gateway!Attempts
<1>6. JournalsAgree'
  BY <1>1, <1>2, <1>3, LengthFits, GatewayBounds DEF JournalsAgree, Gateway!Ready,
    Gateway!NoProgress, Fits
<1>7. Gone'
  BY <1>1, <1>2, <1>3, LengthFits, GatewayBounds DEF Gone, Gateway!Resources, Gateway!Bridge, Fits
<1>8. Gateway!DeletionsAreJournaled'
  BY <1>1, <1>2, <1>3, LengthFits, GatewayBounds DEF Gateway!DeletionsAreJournaled,
    Gateway!Resources, Gateway!Bridge, Gateway!Nobody, Fits
<1>9. PassStands'
  BY <1>1, <1>2, <1>3, LengthFits, GatewayBounds DEF PassStands, Gateway!NoPass, Gateway!Attempts,
    Gone, Gateway!Bridge, Fits
<1>10. Alone'
  BY <1>1, <1>2, <1>3, LengthFits, GatewayBounds DEF Alone, MayDelete, Locking,
    Gateway!LocksRuntime, Gateway!Actions, Gateway!Nobody, Fits
<1>11. Untouched'
  BY <1>1, <1>2, <1>3, LengthFits, GatewayBounds DEF Untouched, Working, Gateway!Nobody,
    Gateway!Resources, Fits
<1> QED BY <1>4, <1>5, <1>6, <1>7, <1>8, <1>9, <1>10, <1>11 DEF TeardownInv

\* The DELETE of a bridge resource.
LEMMA GatewayBridgeSendHolds ==
  ASSUME TeardownInv, Gateway!BridgeSend
  PROVE  TeardownInv'
<1>1. /\ Fits /\ JournalsAgree /\ Gone /\ Gateway!DeletionsAreJournaled /\ PassStands /\ Alone
      /\ RequestsStand /\ Warned /\ Earned /\ Untouched
  BY DEF TeardownInv
<1>2. UNCHANGED <<live, foreign, root, prog, bp, actions, itsExpired, itsOther, attempt, req,
        itsPending,
                  itsGrant, itsOutcome, itsFlying, itsOutside>>
  BY DEF Gateway!BridgeSend, Gateway!Fault, Gateway!cloud, Gateway!journal, Gateway!ledger,
    Gateway!browser, Gateway!driver, Gateway!bounds
<1>3. /\ itsPass.at = "bridge_send" /\ bj.removed \in 0..2 /\ bj.pending # 0
      /\ root.status = "removed"
      /\ itsPass.att \in Gateway!Attempts /\ itsPass.att # 0
      /\ bridge' \in {bridge, bridge \ {bj.removed + 1}}
      /\ \/ /\ itsPass' \in PassRecords /\ itsPass'.att = itsPass.att
            /\ itsPass'.done = itsPass.done /\ Gateway!Claimed' = Gateway!Claimed
            /\ itsAlarm' = itsAlarm
            /\ itsPass'.at = "end" /\ bj' = bj
         \/ /\ itsPass' = Gateway!NoPass /\ itsPass' \in PassRecords /\ itsPass'.at = "none"
            /\ itsPass'.done = FALSE /\ itsAlarm' = TRUE
            /\ bj' \in [removed : 0..3, pending : 0..GatewayAttempts]
            /\ bj'.removed = bj.removed + 1
            /\ bridge' = bridge \ {bj.removed + 1}
  <2>1. /\ itsPass.at = "bridge_send" /\ bj.removed \in 0..2 /\ bj.pending # 0
        /\ root.status = "removed"
        /\ itsPass.att \in Gateway!Attempts /\ itsPass.att # 0
    BY <1>1, GatewayBounds DEF Gateway!BridgeSend, PassStands, Fits, Gateway!Attempts
  <2>2. CASE Gateway!Fail /\ bj' = bj /\ bridge' \in {bridge, bridge \ {bj.removed + 1}}
    BY <1>2, <2>1, <2>2, PassMoves DEF Gateway!Fail, PassStates
  <2>3. CASE /\ Gateway!Pause /\ bj' = [removed |-> bj.removed + 1, pending |-> 0]
             /\ bridge' = bridge \ {bj.removed + 1}
    <3>1. bj' \in [removed : 0..3, pending : 0..GatewayAttempts] /\ bj'.removed = bj.removed + 1
      BY <2>1, <2>3, GatewayBounds
    <3> QED BY <2>1, <2>3, <3>1, PassPauses
  <2> QED BY <2>2, <2>3 DEF Gateway!BridgeSend
<1>4. RequestsStand' /\ Warned'
  BY <1>1, <1>2 DEF RequestsStand, Warned, Gateway!Actions, Gateway!Attempts
<1>5. Fits'
  BY <1>1, <1>2, <1>3, LengthFits, GatewayBounds DEF Fits, Gateway!Actions, Gateway!Attempts
<1>6. JournalsAgree'
  BY <1>1, <1>2, <1>3, LengthFits, GatewayBounds DEF JournalsAgree, Gateway!Ready,
    Gateway!NoProgress, Fits
<1>7. Gone'
  BY <1>1, <1>2, <1>3, LengthFits, GatewayBounds DEF Gone, Gateway!Resources, Gateway!Bridge, Fits
<1>8. Gateway!DeletionsAreJournaled'
  BY <1>1, <1>2, <1>3, LengthFits, GatewayBounds DEF Gateway!DeletionsAreJournaled,
    Gateway!Resources, Gateway!Bridge, Gateway!Nobody, Fits
<1>9. PassStands'
  BY <1>1, <1>2, <1>3, LengthFits, GatewayBounds DEF PassStands, Gateway!NoPass, Gateway!Attempts,
    Fits
<1>10. Alone'
  BY <1>1, <1>2, <1>3, LengthFits, GatewayBounds DEF Alone, MayDelete, Locking,
    Gateway!LocksRuntime, Gateway!Actions, Gateway!Nobody, Fits
<1>11. Earned'
  BY <1>1, <1>2, <1>3, LengthFits, GatewayBounds DEF Earned, Gateway!Attempts, Fits
<1>12. Untouched'
  BY <1>1, <1>2, <1>3, LengthFits, GatewayBounds DEF Untouched, Working, Gateway!Nobody,
    Gateway!Resources, Fits
<1> QED BY <1>4, <1>5, <1>6, <1>7, <1>8, <1>9, <1>10, <1>11, <1>12 DEF TeardownInv

\* Everything is gone.
LEMMA GatewayGatewayRemovedHolds ==
  ASSUME TeardownInv, Gateway!GatewayRemoved
  PROVE  TeardownInv'
<1>1. /\ Fits /\ JournalsAgree /\ Gone /\ Gateway!DeletionsAreJournaled /\ PassStands /\ Alone
      /\ RequestsStand /\ Warned /\ Earned /\ Untouched
  BY DEF TeardownInv
<1>2. UNCHANGED <<live, bridge, foreign, root, prog, bj, bp, itsExpired, itsOther, attempt, req,
                  itsPending, itsGrant, itsOutcome, itsAlarm, itsFlying, itsOutside, itsFaults>>
  BY DEF Gateway!GatewayRemoved, Gateway!cloud, Gateway!journal, Gateway!ledger, Gateway!browser,
    Gateway!driver, Gateway!bounds
<1>3. /\ itsPass.at = "removed"
      /\ actions' \in [Gateway!Actions -> ActionStates]
      /\ itsPass' \in PassRecords /\ itsPass'.att = itsPass.att /\ itsPass'.at = "end"
  <2>1. /\ itsPass.at = "removed" /\ itsPass' = [itsPass EXCEPT !.at = "end", !.done = TRUE]
        /\ itsPass \in PassRecords
        /\ actions' = [actions EXCEPT ![Gateway!Claimed] = IF @ = "none" THEN @ ELSE "gateway_removed"]
        /\ actions \in [Gateway!Actions -> ActionStates]
    BY <1>1 DEF Gateway!GatewayRemoved, Fits
  <2>2. actions' \in [Gateway!Actions -> ActionStates]
    BY ONLY <2>1 DEF ActionStates
  <2>3. itsPass' \in PassRecords /\ itsPass'.att = itsPass.att /\ itsPass'.at = "end"
    BY ONLY <2>1 DEF PassRecords, PassStates
  <2> QED BY <2>1, <2>2, <2>3
<1>4. /\ JournalsAgree' /\ Gone' /\ Gateway!DeletionsAreJournaled' /\ RequestsStand' /\ Warned'
      /\ Earned'
  BY <1>1, <1>2 DEF JournalsAgree, Gone, Gateway!DeletionsAreJournaled, RequestsStand, Warned,
    Earned, Gateway!Actions, Gateway!Attempts, Gateway!Bridge, Gateway!NoProgress, Gateway!Nobody,
    Gateway!Ready, Gateway!Resources
<1>5. Fits'
  BY <1>1, <1>2, <1>3, LengthFits, GatewayBounds DEF Fits, Gateway!Actions, Gateway!Attempts
<1>6. PassStands'
  BY <1>1, <1>2, <1>3, LengthFits, GatewayBounds DEF PassStands, Gateway!NoPass, Gateway!Attempts,
    Fits
<1>7. Alone'
  BY <1>1, <1>2, <1>3, LengthFits, GatewayBounds DEF Alone, MayDelete, Locking,
    Gateway!LocksRuntime, Gateway!Actions, Gateway!Nobody, Fits
<1>8. Untouched'
  BY <1>1, <1>2, <1>3, LengthFits, GatewayBounds DEF Untouched, Working, Gateway!Nobody,
    Gateway!Resources, Fits
<1> QED BY <1>4, <1>5, <1>6, <1>7, <1>8 DEF TeardownInv

\* The end: the grant.
LEMMA GatewayRevokeHolds ==
  ASSUME TeardownInv, Gateway!Revoke
  PROVE  TeardownInv'
<1>1. /\ Fits /\ JournalsAgree /\ Gone /\ Gateway!DeletionsAreJournaled /\ PassStands /\ Alone
      /\ RequestsStand /\ Warned /\ Earned /\ Untouched
  BY DEF TeardownInv
<1>2. UNCHANGED <<live, bridge, foreign, root, prog, bj, bp, actions, itsExpired, itsOther, attempt,
                  req, itsPending, itsOutcome, itsAlarm, itsFlying, itsOutside>>
  BY DEF Gateway!Revoke, Gateway!Fault, Gateway!cloud, Gateway!journal, Gateway!ledger,
    Gateway!browser, Gateway!driver, Gateway!bounds
<1>3. /\ itsPass.at = "end"
      /\ itsPass' \in PassRecords /\ itsPass'.att = itsPass.att /\ itsPass'.done = itsPass.done
      /\ Gateway!Claimed' = Gateway!Claimed
      /\ itsPass.att \in Gateway!Attempts /\ itsPass.att # 0 /\ Gateway!Claimed \in Gateway!Actions
      /\ itsPass'.at = "settle"
      /\ itsGrant' \in [Gateway!Attempts -> Grants]
      /\ \A j \in Gateway!Attempts :
           itsGrant'[j] = itsGrant[j] \/ (itsGrant[j] = "held" /\ itsGrant'[j] \in {"lost", "revoked"})
  BY <1>1, <1>2, PassMoves DEF Gateway!Revoke, Fits, Gateway!Lost, Grants, PassStates
<1>4. JournalsAgree' /\ Gone' /\ Gateway!DeletionsAreJournaled'
  BY <1>1, <1>2 DEF JournalsAgree, Gone, Gateway!DeletionsAreJournaled, Gateway!Bridge,
    Gateway!NoProgress, Gateway!Nobody, Gateway!Ready, Gateway!Resources
<1>5. Fits'
  BY <1>1, <1>2, <1>3, LengthFits, GatewayBounds DEF Fits, Gateway!Actions, Gateway!Attempts
<1>6. PassStands'
  BY <1>1, <1>2, <1>3, LengthFits, GatewayBounds DEF PassStands, Gateway!NoPass, Gateway!Attempts,
    Fits
<1>7. Alone'
  BY <1>1, <1>2, <1>3, LengthFits, GatewayBounds DEF Alone, MayDelete, Locking,
    Gateway!LocksRuntime, Gateway!Actions, Gateway!Nobody, Fits
<1>8. RequestsStand'
  <2>1. (itsPending # 0 => req[itsPending].at = "done")'
    BY <1>1, <1>2, <1>3, GatewayBounds DEF RequestsStand, Gateway!Attempts, Gateway!Actions, Fits
  <2>2. \A j \in Gateway!Attempts : (req[j].at \in {"new", "proved", "relay", "consent",
          "exchange"} => itsGrant[j] = "none")'
    BY <1>1, <1>2, <1>3, GatewayBounds DEF RequestsStand, Gateway!Attempts, Gateway!Actions, Fits
  <2>3. \A j \in Gateway!Attempts : (req[j].at # "new" => req[j].action \in Gateway!Actions)'
    BY <1>1, <1>2, <1>3, GatewayBounds DEF RequestsStand, Gateway!Attempts, Gateway!Actions, Fits
  <2>4. (attempt.phase = "exchanging" => attempt.id # 0)'
    BY <1>1, <1>2, <1>3, GatewayBounds DEF RequestsStand, Gateway!Attempts, Gateway!Actions, Fits
  <2> QED BY <2>1, <2>2, <2>3, <2>4 DEF RequestsStand
<1>9. Warned'
  BY <1>1, <1>2, <1>3, LengthFits, GatewayBounds DEF Warned, Gateway!Attempts, Fits
<1>10. Earned'
  BY <1>1, <1>2, <1>3, LengthFits, GatewayBounds DEF Earned, Gateway!Attempts, Fits
<1>11. Untouched'
  BY <1>1, <1>2, <1>3, LengthFits, GatewayBounds DEF Untouched, Working, Gateway!Nobody,
    Gateway!Resources, Fits
<1> QED BY <1>4, <1>5, <1>6, <1>7, <1>8, <1>9, <1>10, <1>11 DEF TeardownInv

\* The record warns of a grant that was not revoked.
LEMMA GatewaySettleRecordHolds ==
  ASSUME TeardownInv, Gateway!SettleRecord
  PROVE  TeardownInv'
<1>1. /\ Fits /\ JournalsAgree /\ Gone /\ Gateway!DeletionsAreJournaled /\ PassStands /\ Alone
      /\ RequestsStand /\ Warned /\ Earned /\ Untouched
  BY DEF TeardownInv
<1>2. UNCHANGED <<live, bridge, foreign, root, prog, bj, bp, actions, itsExpired, itsOther, req,
                  itsPending, itsGrant, itsOutcome, itsAlarm, itsFlying, itsOutside, itsFaults>>
  BY DEF Gateway!SettleRecord, Gateway!cloud, Gateway!journal, Gateway!ledger, Gateway!browser,
    Gateway!driver, Gateway!bounds
<1>3. /\ itsPass.at = "settle"
      /\ itsPass' \in PassRecords /\ itsPass'.att = itsPass.att
      /\ itsPass'.at \in {"command", "close"} /\ (itsPass'.done => itsPass.done)
      /\ itsPass.att \in Gateway!Attempts
      /\ attempt' \in AttemptRecords /\ attempt'.id = attempt.id
      /\ \/ attempt' = attempt
         \/ /\ attempt.id = itsPass.att /\ attempt'.phase = "settled"
            /\ attempt.warn \/ itsGrant[itsPass.att] # "revoked" => attempt'.warn
  <2>1. /\ itsPass.at = "settle" /\ itsPass \in PassRecords /\ attempt \in AttemptRecords
        /\ itsPass.att \in Gateway!Attempts
    BY <1>1 DEF Gateway!SettleRecord, Fits, PassStands
  <2>2. CASE /\ attempt.id = itsPass.att /\ itsPass' = [itsPass EXCEPT !.at = "command"]
             /\ attempt' = [attempt EXCEPT !.phase = "settled",
                  !.warn = @ \/ itsGrant[itsPass.att] # "revoked"]
    BY <2>1, <2>2 DEF PassRecords, PassStates, AttemptRecords, Phases
  <2>3. CASE itsPass' = [itsPass EXCEPT !.at = "close", !.done = FALSE] /\ UNCHANGED attempt
    BY <2>1, <2>3 DEF PassRecords, PassStates
  <2> QED BY <2>2, <2>3 DEF Gateway!SettleRecord, Gateway!Stamp, Gateway!Goto
<1>4. JournalsAgree' /\ Gone' /\ Gateway!DeletionsAreJournaled' /\ Earned'
  BY <1>1, <1>2 DEF JournalsAgree, Gone, Gateway!DeletionsAreJournaled, Earned, Gateway!Attempts,
    Gateway!Bridge, Gateway!NoProgress, Gateway!Nobody, Gateway!Ready, Gateway!Resources
<1>5. Fits'
  BY <1>1, <1>2, <1>3, LengthFits, GatewayBounds DEF Fits, Gateway!Actions, Gateway!Attempts
<1>6. PassStands'
  BY <1>1, <1>2, <1>3, LengthFits, GatewayBounds DEF PassStands, Gateway!NoPass, Gateway!Attempts,
    Fits
<1>7. Alone'
  BY <1>1, <1>2, <1>3, LengthFits, GatewayBounds DEF Alone, MayDelete, Locking,
    Gateway!LocksRuntime, Gateway!Actions, Gateway!Nobody, Fits
<1>8. RequestsStand'
  <2>1. (itsPending # 0 => req[itsPending].at = "done")'
    BY <1>1, <1>2, <1>3, GatewayBounds DEF RequestsStand, Gateway!Attempts, Gateway!Actions, Fits
  <2>2. \A j \in Gateway!Attempts : (req[j].at \in {"new", "proved", "relay", "consent",
          "exchange"} => itsGrant[j] = "none")'
    BY <1>1, <1>2, <1>3, GatewayBounds DEF RequestsStand, Gateway!Attempts, Gateway!Actions, Fits
  <2>3. \A j \in Gateway!Attempts : (req[j].at # "new" => req[j].action \in Gateway!Actions)'
    BY <1>1, <1>2, <1>3, GatewayBounds DEF RequestsStand, Gateway!Attempts, Gateway!Actions, Fits
  <2>4. (attempt.phase = "exchanging" => attempt.id # 0)'
    BY <1>1, <1>2, <1>3, GatewayBounds DEF RequestsStand, Gateway!Attempts, Gateway!Actions, Fits
  <2> QED BY <2>1, <2>2, <2>3, <2>4 DEF RequestsStand
<1>9. Warned'
  BY <1>1, <1>2, <1>3, LengthFits, GatewayBounds DEF Warned, Gateway!Attempts, RequestsStand,
    PassStands, Fits
<1>10. Untouched'
  BY <1>1, <1>2, <1>3, LengthFits, GatewayBounds DEF Untouched, Working, Gateway!Nobody,
    Gateway!Resources, Fits
<1> QED BY <1>4, <1>5, <1>6, <1>7, <1>8, <1>9, <1>10 DEF TeardownInv

\* The pass settles the journal.
LEMMA GatewaySettleGatewayHolds ==
  ASSUME TeardownInv, Gateway!SettleGateway
  PROVE  TeardownInv'
<1>1. /\ Fits /\ JournalsAgree /\ Gone /\ Gateway!DeletionsAreJournaled /\ PassStands /\ Alone
      /\ RequestsStand /\ Warned /\ Earned /\ Untouched
  BY DEF TeardownInv
<1>2. UNCHANGED <<live, bridge, foreign, bj, bp, itsExpired, itsOther, attempt, req, itsPending,
        itsGrant,
                  itsOutcome, itsAlarm, itsFlying, itsOutside>>
  BY <1>1, Settled DEF Gateway!SettleGateway, RequestsStand, PassStands, Gateway!Claimed,
    Gateway!Idle, Gateway!cloud, Gateway!browser, Gateway!driver
<1>3. /\ itsPass.at = "command" /\ Gateway!Claimed \in Gateway!Actions
      /\ Gateway!Settles(Gateway!Claimed)
      /\ itsPass' \in PassRecords /\ itsPass'.att = itsPass.att /\ itsPass'.at = "close"
      /\ (itsPass'.done => itsPass.done)
  BY <1>1 DEF Gateway!SettleGateway, RequestsStand, PassStands, Gateway!Claimed, Gateway!Idle, Fits,
    PassRecords, PassStates
<1>4. RequestsStand' /\ Warned'
  BY <1>1, <1>2 DEF RequestsStand, Warned, Gateway!Actions, Gateway!Attempts
<1>5. Fits'
  BY <1>1, <1>2, <1>3, LengthFits, GatewayBounds, Settled DEF Fits, Gateway!Actions,
    Gateway!Attempts
<1>6. JournalsAgree'
  BY <1>1, <1>2, <1>3, LengthFits, GatewayBounds, Settled DEF JournalsAgree, Gateway!Ready,
    Gateway!NoProgress, Gateway!NoProgress, Fits
<1>7. Gone'
  BY <1>1, <1>2, <1>3, LengthFits, GatewayBounds, Settled DEF Gone, Gateway!Resources,
    Gateway!Bridge, Fits
<1>8. Gateway!DeletionsAreJournaled'
  BY <1>1, <1>2, <1>3, LengthFits, GatewayBounds, Settled DEF Gateway!DeletionsAreJournaled,
    Gateway!Resources, Gateway!Bridge, Gateway!Nobody, Fits
<1>9. PassStands'
  BY <1>1, <1>2, <1>3, LengthFits, GatewayBounds, Settled DEF PassStands, Gateway!NoPass,
    Gateway!Attempts, Gateway!NoProgress, Fits
<1>10. Alone'
  BY <1>1, <1>2, <1>3, SettledAlone
<1>11. Earned'
  BY <1>1, <1>2, <1>3, LengthFits, GatewayBounds, Settled DEF Earned, Gateway!Attempts, Fits
<1>12. Untouched'
  BY <1>1, <1>2, <1>3, LengthFits, GatewayBounds, Settled DEF Untouched, Working, Gateway!Nobody,
    Gateway!Resources, Gateway!NoProgress, Fits
<1> QED BY <1>4, <1>5, <1>6, <1>7, <1>8, <1>9, <1>10, <1>11, <1>12 DEF TeardownInv

\* Only a completed removal is handed off.
LEMMA GatewayCloseHolds ==
  ASSUME TeardownInv, Gateway!Close
  PROVE  TeardownInv'
<1>1. /\ Fits /\ JournalsAgree /\ Gone /\ Gateway!DeletionsAreJournaled /\ PassStands /\ Alone
      /\ RequestsStand /\ Warned /\ Earned /\ Untouched
  BY DEF TeardownInv
<1>2. UNCHANGED <<live, bridge, foreign, root, prog, bj, bp, actions, itsExpired, itsOther, attempt,
                  req, itsAlarm, itsFlying, itsOutside, itsFaults>>
  BY DEF Gateway!Close, Gateway!cloud, Gateway!journal, Gateway!ledger, Gateway!browser,
    Gateway!driver, Gateway!bounds
<1>3. /\ itsPass.at = "close" /\ itsPass.att \in Gateway!Attempts
      /\ itsPass' = Gateway!NoPass /\ itsPass' \in PassRecords /\ itsPass'.at = "none"
      /\ itsPass'.done = FALSE
      /\ itsPending' = 0
      /\ itsGrant' \in [Gateway!Attempts -> Grants]
      /\ \A j \in Gateway!Attempts :
           itsGrant'[j] = itsGrant[j] \/ (itsGrant[j] = "held" /\ itsGrant'[j] = "lost")
      /\ itsOutcome' \in OutcomeRecords /\ itsOutcome'.att = itsPass.att
      /\ itsOutcome'.result = "removed" => itsPass.done /\ itsGrant[itsPass.att] = "revoked"
  BY <1>1, NoPassIsPass, Forgets DEF Gateway!Close, PassStands, Fits, PassRecords, OutcomeRecords,
    Gateway!HandsOff
<1>4. JournalsAgree' /\ Gone' /\ Gateway!DeletionsAreJournaled'
  BY <1>1, <1>2 DEF JournalsAgree, Gone, Gateway!DeletionsAreJournaled, Gateway!Bridge,
    Gateway!NoProgress, Gateway!Nobody, Gateway!Ready, Gateway!Resources
<1>5. Fits'
  BY <1>1, <1>2, <1>3, LengthFits, GatewayBounds DEF Fits, Gateway!Actions, Gateway!Attempts
<1>6. PassStands'
  BY <1>1, <1>2, <1>3, LengthFits, GatewayBounds DEF PassStands, Gateway!NoPass, Gateway!Attempts,
    Fits
<1>7. Alone'
  BY <1>1, <1>2, <1>3, LengthFits, GatewayBounds DEF Alone, MayDelete, Locking,
    Gateway!LocksRuntime, Gateway!Actions, Gateway!Nobody, Fits
<1>8. RequestsStand'
  <2>1. (itsPending # 0 => req[itsPending].at = "done")'
    BY <1>1, <1>2, <1>3, GatewayBounds DEF RequestsStand, Gateway!Attempts, Gateway!Actions, Fits
  <2>2. \A j \in Gateway!Attempts : (req[j].at \in {"new", "proved", "relay", "consent",
          "exchange"} => itsGrant[j] = "none")'
    BY <1>1, <1>2, <1>3, GatewayBounds DEF RequestsStand, Gateway!Attempts, Gateway!Actions, Fits
  <2>3. \A j \in Gateway!Attempts : (req[j].at # "new" => req[j].action \in Gateway!Actions)'
    BY <1>1, <1>2, <1>3, GatewayBounds DEF RequestsStand, Gateway!Attempts, Gateway!Actions, Fits
  <2>4. (attempt.phase = "exchanging" => attempt.id # 0)'
    BY <1>1, <1>2, <1>3, GatewayBounds DEF RequestsStand, Gateway!Attempts, Gateway!Actions, Fits
  <2> QED BY <2>1, <2>2, <2>3, <2>4 DEF RequestsStand
<1>9. Warned'
  BY <1>1, <1>2, <1>3, LengthFits, GatewayBounds DEF Warned, Gateway!Attempts, Fits
<1>10. Earned'
  BY <1>1, <1>2, <1>3, LengthFits, GatewayBounds DEF Earned, Gateway!Attempts, PassStands, Fits
<1>11. Untouched'
  BY <1>1, <1>2, <1>3, LengthFits, GatewayBounds DEF Untouched, Working, Gateway!Nobody,
    Gateway!Resources, Fits
<1> QED BY <1>4, <1>5, <1>6, <1>7, <1>8, <1>9, <1>10, <1>11 DEF TeardownInv

\* A pass whose action expires keeps its lock.
LEMMA GatewayExpireHolds ==
  ASSUME TeardownInv, NEW a \in Gateway!Actions, Gateway!Expire(a)
  PROVE  TeardownInv'
<1>1. /\ Fits /\ JournalsAgree /\ Gone /\ Gateway!DeletionsAreJournaled /\ PassStands /\ Alone
      /\ RequestsStand /\ Warned /\ Earned /\ Untouched
  BY DEF TeardownInv
<1>2. UNCHANGED <<live, bridge, foreign, root, prog, bj, bp, actions, itsOther, attempt, req,
                  itsPending, itsGrant, itsOutcome, itsPass, itsAlarm, itsFlying, itsOutside,
                    itsFaults>>
  BY DEF Gateway!Expire, Gateway!cloud, Gateway!journal, Gateway!ledger, Gateway!browser,
    Gateway!driver, Gateway!bounds
<1>3. /\ itsExpired' = itsExpired \cup {a} /\ itsExpired \subseteq Gateway!Actions
      /\ Gateway!Claimed \notin itsExpired
      /\ Gateway!Claimed' = Gateway!Claimed
  BY <1>1, <1>2 DEF Gateway!Expire, Fits, Gateway!Claimed, Gateway!Idle
<1>4. /\ JournalsAgree' /\ Gone' /\ Gateway!DeletionsAreJournaled' /\ PassStands' /\ RequestsStand'
      /\ Warned' /\ Earned' /\ Untouched'
  BY <1>1, <1>2 DEF JournalsAgree, Gone, Gateway!DeletionsAreJournaled, PassStands, RequestsStand,
    Warned, Earned, Untouched, Gateway!Actions, Gateway!Attempts, Gateway!Bridge, Gateway!NoPass,
    Gateway!NoProgress, Gateway!Nobody, Gateway!Ready, Gateway!Resources, Working
<1>5. Fits'
  BY <1>1, <1>2, <1>3, LengthFits, GatewayBounds DEF Fits, Gateway!Actions, Gateway!Attempts
<1>6. Alone'
  BY <1>1, <1>2, <1>3, LengthFits, GatewayBounds DEF Alone, MayDelete, Locking,
    Gateway!LocksRuntime, Gateway!Actions, Gateway!Nobody, Fits
<1> QED BY <1>4, <1>5, <1>6 DEF TeardownInv

\* Memory is lost, records stay.
LEMMA GatewayRestartHolds ==
  ASSUME TeardownInv, Gateway!Restart
  PROVE  TeardownInv'
<1>1. /\ Fits /\ JournalsAgree /\ Gone /\ Gateway!DeletionsAreJournaled /\ PassStands /\ Alone
      /\ RequestsStand /\ Warned /\ Earned /\ Untouched
  BY DEF TeardownInv
<1>2. UNCHANGED <<live, bridge, foreign, root, prog, bj, bp, actions, itsExpired, itsOther, attempt,
                  itsOutcome, itsFlying, itsOutside>>
  BY DEF Gateway!Restart, Gateway!Fault, Gateway!cloud, Gateway!journal, Gateway!ledger,
    Gateway!browser, Gateway!driver, Gateway!bounds
<1>3. /\ itsPass' = Gateway!NoPass /\ itsPass' \in PassRecords /\ itsPass'.at = "none"
      /\ itsPass'.done = FALSE
      /\ itsPending' = 0
      /\ itsGrant' \in [Gateway!Attempts -> Grants]
      /\ \A j \in Gateway!Attempts :
           itsGrant'[j] = itsGrant[j] \/ (itsGrant[j] = "held" /\ itsGrant'[j] = "lost")
      /\ itsAlarm' \in BOOLEAN
      /\ req' \in [Gateway!Attempts -> RequestRecords]
      /\ \A j \in Gateway!Attempts : /\ req'[j].action = req[j].action
                                     /\ req'[j] = req[j] \/ req'[j].at = "failed"
      /\ \A j \in Gateway!Attempts : req'[j].at # "new" => req[j].at # "new"
  BY <1>1, NoPassIsPass DEF Fits, Gateway!Restart, Grants, RequestRecords, ReqStates
<1>4. JournalsAgree' /\ Gone' /\ Gateway!DeletionsAreJournaled'
  BY <1>1, <1>2 DEF JournalsAgree, Gone, Gateway!DeletionsAreJournaled, Gateway!Bridge,
    Gateway!NoProgress, Gateway!Nobody, Gateway!Ready, Gateway!Resources
<1>5. Fits'
  BY <1>1, <1>2, <1>3, LengthFits, GatewayBounds DEF Fits, Gateway!Actions, Gateway!Attempts
<1>6. PassStands'
  BY <1>1, <1>2, <1>3, LengthFits, GatewayBounds DEF PassStands, Gateway!NoPass, Gateway!Attempts,
    Fits
<1>7. Alone'
  BY <1>1, <1>2, <1>3, LengthFits, GatewayBounds DEF Alone, MayDelete, Locking,
    Gateway!LocksRuntime, Gateway!Actions, Gateway!Nobody, Fits
<1>8. RequestsStand'
  <2>1. (itsPending # 0 => req[itsPending].at = "done")'
    BY <1>1, <1>2, <1>3, GatewayBounds DEF RequestsStand, Gateway!Attempts, Gateway!Actions, Fits
  <2>2. \A j \in Gateway!Attempts : (req[j].at \in {"new", "proved", "relay", "consent",
          "exchange"} => itsGrant[j] = "none")'
    BY <1>1, <1>2, <1>3, GatewayBounds DEF RequestsStand, Gateway!Attempts, Gateway!Actions, Fits
  <2>3. \A j \in Gateway!Attempts : (req[j].at # "new" => req[j].action \in Gateway!Actions)'
    BY <1>1, <1>2, <1>3, GatewayBounds DEF RequestsStand, Gateway!Attempts, Gateway!Actions, Fits
  <2>4. (attempt.phase = "exchanging" => attempt.id # 0)'
    BY <1>1, <1>2, <1>3, GatewayBounds DEF RequestsStand, Gateway!Attempts, Gateway!Actions, Fits
  <2> QED BY <2>1, <2>2, <2>3, <2>4 DEF RequestsStand
<1>9. Warned'
  BY <1>1, <1>2, <1>3, LengthFits, GatewayBounds DEF Warned, Gateway!Attempts, Fits
<1>10. Earned'
  BY <1>1, <1>2, <1>3, LengthFits, GatewayBounds DEF Earned, Gateway!Attempts, Fits
<1>11. Untouched'
  BY <1>1, <1>2, <1>3, LengthFits, GatewayBounds DEF Untouched, Working, Gateway!Nobody,
    Gateway!Resources, Fits
<1> QED BY <1>4, <1>5, <1>6, <1>7, <1>8, <1>9, <1>10, <1>11 DEF TeardownInv

\* A deletion that was accepted takes place.
LEMMA GatewayLandHolds ==
  ASSUME TeardownInv, Gateway!Land
  PROVE  TeardownInv'
<1>1. /\ Fits /\ JournalsAgree /\ Gone /\ Gateway!DeletionsAreJournaled /\ PassStands /\ Alone
      /\ RequestsStand /\ Warned /\ Earned /\ Untouched
  BY DEF TeardownInv
<1>2. UNCHANGED <<bridge, foreign, root, prog, bj, bp, actions, itsExpired, itsOther, attempt, req,
                  itsPending, itsGrant, itsOutcome, itsPass, itsAlarm, itsOutside, itsFaults>>
  BY DEF Gateway!Land, Gateway!cloud, Gateway!journal, Gateway!ledger, Gateway!browser,
    Gateway!driver, Gateway!bounds
<1>3. /\ live' = live \ {itsFlying} /\ itsFlying' = 0 /\ itsFlying \in 0..Gateway!N /\ itsFlying # 0
      /\ Gateway!Claimed' = Gateway!Claimed
      /\ root.removed \in 0..Gateway!N
  BY <1>1, <1>2, LengthFits DEF Gateway!Land, Fits, Gateway!Claimed, Gateway!Idle, RootRecords
<1>4. JournalsAgree' /\ PassStands' /\ Alone' /\ RequestsStand' /\ Warned' /\ Earned'
  BY <1>1, <1>2 DEF JournalsAgree, PassStands, Alone, RequestsStand, Warned, Earned,
    Gateway!Actions, Gateway!Attempts, Gateway!Claimed, Gateway!Idle, Locking,
    Gateway!LocksRuntime, MayDelete, Gateway!NoPass, Gateway!NoProgress, Gateway!Nobody,
    Gateway!Ready
<1>5. Fits'
  BY <1>1, <1>2, <1>3, LengthFits, GatewayBounds DEF Fits, Gateway!Actions, Gateway!Attempts
<1>6. Gone'
  BY <1>1, <1>2, <1>3, LengthFits, GatewayBounds DEF Gone, Gateway!Resources, Gateway!Bridge, Fits
<1>7. Gateway!DeletionsAreJournaled'
  BY <1>1, <1>2, <1>3, LengthFits, GatewayBounds DEF Gateway!DeletionsAreJournaled,
    Gateway!Resources, Gateway!Bridge, Gateway!Nobody, Fits
<1>8. Untouched'
  BY <1>1, <1>2, <1>3, LengthFits, GatewayBounds DEF Untouched, Working, Gateway!Nobody,
    Gateway!Resources, Gateway!DeletionsAreJournaled, Fits
<1> QED BY <1>4, <1>5, <1>6, <1>7, <1>8 DEF TeardownInv

\* The obstacle changes.
LEMMA GatewayShareHolds ==
  ASSUME TeardownInv, Gateway!Share
  PROVE  TeardownInv'
<1>1. /\ Fits /\ JournalsAgree /\ Gone /\ Gateway!DeletionsAreJournaled /\ PassStands /\ Alone
      /\ RequestsStand /\ Warned /\ Earned /\ Untouched
  BY DEF TeardownInv
<1>2. UNCHANGED <<live, bridge, root, prog, bj, bp, actions, itsExpired, itsOther, attempt, req,
                  itsPending, itsGrant, itsOutcome, itsPass, itsAlarm, itsFlying, itsFaults>>
  BY DEF Gateway!Share, Gateway!cloud, Gateway!journal, Gateway!ledger, Gateway!browser,
    Gateway!driver, Gateway!bounds
<1>3. /\ foreign' \in Gateway!Obstacles /\ itsOutside' = itsOutside + 1 /\ itsOutside \in Nat
  BY <1>1 DEF Gateway!Share, Fits
<1>4. /\ JournalsAgree' /\ Gone' /\ Gateway!DeletionsAreJournaled' /\ PassStands' /\ Alone'
      /\ RequestsStand' /\ Warned' /\ Earned'
  BY <1>1, <1>2 DEF JournalsAgree, Gone, Gateway!DeletionsAreJournaled, PassStands, Alone,
    RequestsStand, Warned, Earned, Gateway!Actions, Gateway!Attempts, Gateway!Bridge,
    Gateway!Claimed, Gateway!Idle, Locking, Gateway!LocksRuntime, MayDelete, Gateway!NoPass,
    Gateway!NoProgress, Gateway!Nobody, Gateway!Ready, Gateway!Resources
<1>5. Fits'
  BY <1>1, <1>2, <1>3, LengthFits, GatewayBounds DEF Fits, Gateway!Actions, Gateway!Attempts
<1>6. Untouched'
  BY <1>1, <1>2, <1>3, LengthFits, GatewayBounds DEF Untouched, Working, Gateway!Nobody,
    Gateway!Resources, Fits
<1> QED BY <1>4, <1>5, <1>6 DEF TeardownInv

\* Nothing begins while the journal locks the runtime.
LEMMA GatewayOtherBeginsHolds ==
  ASSUME TeardownInv, Gateway!OtherBegins
  PROVE  TeardownInv'
<1>1. /\ Fits /\ JournalsAgree /\ Gone /\ Gateway!DeletionsAreJournaled /\ PassStands /\ Alone
      /\ RequestsStand /\ Warned /\ Earned /\ Untouched
  BY DEF TeardownInv
<1>2. UNCHANGED <<live, bridge, foreign, root, prog, bj, bp, actions, itsExpired, attempt, req,
                  itsPending, itsGrant, itsOutcome, itsPass, itsAlarm, itsFlying, itsOutside,
                    itsFaults>>
  BY DEF Gateway!OtherBegins, Gateway!cloud, Gateway!journal, Gateway!ledger, Gateway!browser,
    Gateway!driver, Gateway!bounds
<1>3. /\ itsOther' \in BOOLEAN
      /\ ~Gateway!LocksRuntime
      /\ Gateway!Claimed' = Gateway!Claimed
  BY <1>1, <1>2 DEF Gateway!OtherBegins, Gateway!Claimed, Gateway!Idle
<1>4. /\ JournalsAgree' /\ Gone' /\ Gateway!DeletionsAreJournaled' /\ PassStands' /\ RequestsStand'
      /\ Warned' /\ Earned' /\ Untouched'
  BY <1>1, <1>2 DEF JournalsAgree, Gone, Gateway!DeletionsAreJournaled, PassStands, RequestsStand,
    Warned, Earned, Untouched, Gateway!Actions, Gateway!Attempts, Gateway!Bridge, Gateway!NoPass,
    Gateway!NoProgress, Gateway!Nobody, Gateway!Ready, Gateway!Resources, Working
<1>5. Fits'
  BY <1>1, <1>2, <1>3, LengthFits, GatewayBounds DEF Fits, Gateway!Actions, Gateway!Attempts
<1>6. Alone'
  BY <1>1, <1>2, <1>3, LengthFits, GatewayBounds DEF Alone, MayDelete, Locking,
    Gateway!LocksRuntime, Gateway!Actions, Gateway!Nobody, Fits
<1> QED BY <1>4, <1>5, <1>6 DEF TeardownInv

\* Another change ends.
LEMMA GatewayOtherEndsHolds ==
  ASSUME TeardownInv, Gateway!OtherEnds
  PROVE  TeardownInv'
<1>1. /\ Fits /\ JournalsAgree /\ Gone /\ Gateway!DeletionsAreJournaled /\ PassStands /\ Alone
      /\ RequestsStand /\ Warned /\ Earned /\ Untouched
  BY DEF TeardownInv
<1>2. UNCHANGED <<live, bridge, foreign, root, prog, bj, bp, actions, itsExpired, attempt, req,
                  itsPending, itsGrant, itsOutcome, itsPass, itsAlarm, itsFlying, itsOutside,
                    itsFaults>>
  BY DEF Gateway!OtherEnds, Gateway!cloud, Gateway!journal, Gateway!ledger, Gateway!browser,
    Gateway!driver, Gateway!bounds
<1>3. /\ itsOther' = FALSE
      /\ Gateway!Claimed' = Gateway!Claimed
  BY <1>1, <1>2 DEF Gateway!OtherEnds, Gateway!Claimed, Gateway!Idle
<1>4. /\ JournalsAgree' /\ Gone' /\ Gateway!DeletionsAreJournaled' /\ PassStands' /\ RequestsStand'
      /\ Warned' /\ Earned' /\ Untouched'
  BY <1>1, <1>2 DEF JournalsAgree, Gone, Gateway!DeletionsAreJournaled, PassStands, RequestsStand,
    Warned, Earned, Untouched, Gateway!Actions, Gateway!Attempts, Gateway!Bridge, Gateway!NoPass,
    Gateway!NoProgress, Gateway!Nobody, Gateway!Ready, Gateway!Resources, Working
<1>5. Fits'
  BY <1>1, <1>2, <1>3, LengthFits, GatewayBounds DEF Fits, Gateway!Actions, Gateway!Attempts
<1>6. Alone'
  BY <1>1, <1>2, <1>3, LengthFits, GatewayBounds DEF Alone, MayDelete, Locking,
    Gateway!LocksRuntime, Gateway!Actions, Gateway!Nobody, Fits
<1> QED BY <1>4, <1>5, <1>6 DEF TeardownInv

\* Nothing was started.
LEMMA GatewayInitHolds == Gateway!Init => TeardownInv
<1> SUFFICES ASSUME Gateway!Init
             PROVE  TeardownInv
  OBVIOUS
<1>1. /\ root = Gateway!Ready /\ prog = Gateway!NoProgress /\ bj = [removed |-> 0, pending |-> 0]
      /\ bp = [att |-> 0, phase |-> "none"]
      /\ itsPass = Gateway!NoPass /\ itsPending = 0 /\ itsOutcome = [att |-> 0, result |-> "none"]
      /\ attempt = Gateway!NoAttempt
      /\ bridge = Gateway!Bridge /\ itsFlying = 0 /\ foreign \in Gateway!Obstacles
      /\ itsGrant = [i \in Gateway!Attempts |-> "none"] /\ itsExpired = {} /\ itsOther = FALSE
      /\ actions = [a \in Gateway!Actions |-> "none"]
      /\ req = [i \in Gateway!Attempts |-> [at |-> "new", action |-> 0, seen |-> <<0, "settled">>]]
      /\ itsOutside = 0 /\ itsAlarm = FALSE
  BY DEF Gateway!Init, Gateway!Obstacles
<1>2. live \subseteq Gateway!Resources /\ Gateway!Resources \ GatewayOptional \subseteq live
  BY DEF Gateway!Init
<1>3. /\ root.status = "ready" /\ root.removed = 0 /\ root.pending = Gateway!Nobody
      /\ root \in RootRecords
  BY <1>1, LengthFits, GatewayBounds DEF Gateway!Ready, Gateway!Nobody, RootRecords
<1>4. prog.phase = "none" /\ prog.checked = 0 /\ prog.att = 0 /\ prog \in Gateway!Progresses
  BY <1>1, LengthFits, GatewayBounds DEF Gateway!NoProgress, Gateway!Progresses
<1>5. /\ attempt \in AttemptRecords /\ attempt.phase = "settled" /\ itsOutcome \in OutcomeRecords
      /\ itsPass \in PassRecords /\ itsPass.at = "none" /\ itsPass.done = FALSE
  BY <1>1, NoPassIsPass, GatewayBounds DEF Gateway!NoAttempt, AttemptRecords, Phases, OutcomeRecords
<1>6. req \in [Gateway!Attempts -> RequestRecords] /\ \A j \in Gateway!Attempts : req[j].at = "new"
  BY <1>1, GatewayBounds DEF RequestRecords, Phases, ReqStates
<1>7. /\ bj \in [removed : 0..3, pending : 0..GatewayAttempts]
      /\ bp \in [att : 0..GatewayAttempts, phase : {"none", "preflight", "remove", "complete"}]
      /\ actions \in [Gateway!Actions -> ActionStates] /\ itsGrant \in [Gateway!Attempts -> Grants]
  BY <1>1, GatewayBounds DEF ActionStates, Grants
<1>8. Fits
  <2>1. /\ bridge \subseteq Gateway!Bridge /\ itsFlying \in 0..Gateway!N
        /\ itsPending \in 0..GatewayAttempts /\ itsOutside \in Nat
        /\ itsExpired \subseteq Gateway!Actions
    BY <1>1, LengthFits, GatewayBounds
  <2>2. itsOther \in BOOLEAN /\ itsAlarm \in BOOLEAN
    BY <1>1
  <2> QED BY <1>1, <1>2, <1>3, <1>4, <1>5, <1>6, <1>7, <2>1, <2>2 DEF Fits
<1>9. JournalsAgree
  BY <1>1, <1>3, <1>4, LengthFits DEF JournalsAgree
<1>10. Gone /\ Gateway!DeletionsAreJournaled
  BY <1>1, <1>2, <1>3, LengthFits DEF Gone, Gateway!DeletionsAreJournaled, Gateway!Bridge
<1>11. PassStands /\ Alone
  BY <1>1, <1>3, <1>5 DEF PassStands, Alone, MayDelete
<1>12. RequestsStand /\ Warned /\ Earned
  BY <1>1, <1>5, <1>6 DEF RequestsStand, Warned, Earned
<1>13. Untouched
  <2>1. Gateway!N \in live
    BY <1>2, LengthFits, GatewayOrderFits DEF Gateway!N, Gateway!Resources
  <2> QED BY <1>1, <1>3, <1>4, <1>5, <2>1 DEF Untouched, Working
<1> QED BY <1>8, <1>9, <1>10, <1>11, <1>12, <1>13 DEF TeardownInv

\* Every step keeps the invariant.
LEMMA GatewayStepHolds == TeardownInv /\ [Gateway!Next]_(Gateway!vars) => TeardownInv'
<1> SUFFICES ASSUME TeardownInv, [Gateway!Next]_(Gateway!vars)
             PROVE  TeardownInv'
  OBVIOUS
<1>1. CASE Gateway!Prepare \/
             Gateway!Alarm \/
             Gateway!Restart \/
             Gateway!Land \/ Gateway!Share \/ Gateway!OtherBegins \/ Gateway!OtherEnds
  BY <1>1, GatewayPrepareHolds, GatewayAlarmHolds, GatewayRestartHolds, GatewayLandHolds,
    GatewayShareHolds, GatewayOtherBeginsHolds, GatewayOtherEndsHolds
<1>2. CASE Gateway!RootStep
  BY <1>2, GatewayOpenRootHolds, GatewaySharingHolds, GatewayProofHolds, GatewayRemoveHolds,
    GatewaySendHolds, GatewayReadbackHolds, GatewayStepExpiredHolds, GatewayRootCompleteHolds DEF
    Gateway!RootStep
<1>3. CASE Gateway!EndStep
  BY <1>3, GatewayRevokeHolds, GatewaySettleRecordHolds, GatewaySettleGatewayHolds,
    GatewayCloseHolds DEF Gateway!EndStep
<1>4. CASE Gateway!Apply \/ Gateway!BridgeStep \/ Gateway!BridgeSend \/ Gateway!GatewayRemoved
  BY <1>4, GatewayApplyHolds, GatewayBridgeStepHolds, GatewayBridgeSendHolds,
    GatewayGatewayRemovedHolds
<1>5. CASE \E i \in Gateway!Attempts :
             Gateway!StartRead(i) \/ Gateway!Callback(i) \/ Gateway!RequestStep(i)
  BY <1>5, GatewayStartReadHolds, GatewayCallbackHolds, GatewayStartWriteHolds,
    GatewaySettleCommandHolds, GatewayRelayHolds, GatewayExchangeHolds, GatewayHandOverHolds DEF
    Gateway!RequestStep
<1>6. CASE \E a \in Gateway!Actions : Gateway!Expire(a)
  BY <1>6, GatewayExpireHolds
<1>7. CASE UNCHANGED Gateway!vars
  BY <1>7 DEF Gateway!vars, Gateway!Claimed, Gateway!Idle, TeardownInv, Fits, JournalsAgree, Gone,
    Gateway!DeletionsAreJournaled, PassStands, Alone, MayDelete, Gateway!LocksRuntime,
    RequestsStand, Warned, Earned, Untouched
<1> QED BY <1>1, <1>2, <1>3, <1>4, <1>5, <1>6, <1>7 DEF Gateway!Next, Gateway!PassStep

\* And it gives the properties.
LEMMA TeardownInvIsSafe == TeardownInv => Gateway!Safe
<1> SUFFICES ASSUME TeardownInv
             PROVE  Gateway!Safe
  OBVIOUS
<1>1. /\ Fits /\ JournalsAgree /\ Gone /\ Gateway!DeletionsAreJournaled /\ PassStands /\ Alone
      /\ RequestsStand /\ Warned /\ Earned /\ Untouched
  BY DEF TeardownInv
<1>2. Gateway!TypeOK
  BY <1>1, FitsIsTypeOK
<1>3. /\ bj.removed \in 0..3 /\ root.removed \in 0..Gateway!N /\ live \subseteq 1..Gateway!N
      /\ bridge \subseteq 1..3
  BY <1>1, LengthFits DEF Fits, RootRecords, Gateway!Bridge
<1>4. root.status = "removed" => live = {}
  BY <1>1, <1>3, LengthFits DEF JournalsAgree, Gone
<1>5. Gateway!RemovedInOrder
  <2>1. \A x \in Gateway!Resources \ (live \cup GatewayOptional) : \A y \in live : x < y
    <3> SUFFICES ASSUME NEW x \in Gateway!Resources, x \notin live, x \notin GatewayOptional,
      NEW y \in live
                 PROVE  x < y
      OBVIOUS
    <3>1. x <= root.removed + 1 /\ ~(y <= root.removed) /\ x # y
      BY <1>1, <1>3, LengthFits DEF Gateway!DeletionsAreJournaled, Gone
    <3> QED BY <1>3, <3>1, LengthFits
  <2>2. bridge # Gateway!Bridge => live = {}
    <3> SUFFICES ASSUME bridge # Gateway!Bridge
                 PROVE  live = {}
      OBVIOUS
    <3>1. PICK x \in Gateway!Bridge : x \notin bridge
      BY <1>3 DEF Gateway!Bridge
    <3>2. bj.removed > 0 \/ bj.pending # 0
      BY <1>1, <1>3, <3>1 DEF Gateway!DeletionsAreJournaled, Gateway!Bridge
    <3> QED BY <1>1, <1>4, <3>2 DEF JournalsAgree
  <2>3. bridge \cap {1, 2} # {} => 3 \in bridge
    BY <1>1, <1>3 DEF Gateway!DeletionsAreJournaled, Gone, Gateway!Bridge
  <2> QED BY <2>1, <2>2, <2>3 DEF Gateway!RemovedInOrder
<1>6. Gateway!HandoffIsEarned
  BY <1>1, <1>4 DEF Earned, Gateway!HandoffIsEarned
<1>7. Gateway!RevocationIsHonest
  BY <1>1 DEF Warned, Gateway!RevocationIsHonest
<1>8. Gateway!ForeignStops
  <2> SUFFICES ASSUME foreign # "none", itsOutside = 0
               PROVE  Gateway!Resources \ GatewayOptional \subseteq live /\ bridge = Gateway!Bridge
    BY DEF Gateway!ForeignStops
  <2>1. root.removed = 0 /\ root.pending = Gateway!Nobody /\ bj.removed = 0 /\ bj.pending = 0
    BY <1>1 DEF Untouched
  <2>2. \A x \in Gateway!Resources \ GatewayOptional : x \in live
    BY <1>1, <2>1, LengthFits DEF Gateway!DeletionsAreJournaled
  <2>3. \A x \in Gateway!Bridge : x \in bridge
    BY <1>1, <2>1 DEF Gateway!DeletionsAreJournaled, Gateway!Bridge
  <2> QED BY <1>3, <2>2, <2>3 DEF Gateway!Bridge
<1>9. Gateway!RemovalIsAlone
  BY <1>1 DEF Alone, MayDelete, Gateway!RemovalIsAlone
<1> QED BY <1>1, <1>2, <1>5, <1>6, <1>7, <1>8, <1>9 DEF Gateway!Safe

\* Teardown: whatever is gone or may still go is in the journal and went in the order of removal, the
\* installer is handed a completed removal only, a lost grant is warned of, what stood in the way all
\* along stops the first deletion, and nothing else changes the gateway meanwhile: for every receipt
\* and every number of actions, consents and faults.
THEOREM TeardownSafety == Gateway!Spec => []Gateway!Safe
<1>1. Gateway!Init => TeardownInv
  BY GatewayInitHolds
<1>2. TeardownInv /\ [Gateway!Next]_(Gateway!vars) => TeardownInv'
  BY GatewayStepHolds
<1>3. TeardownInv => Gateway!Safe
  BY TeardownInvIsSafe
<1> QED BY <1>1, <1>2, <1>3, PTL DEF Gateway!Spec

\* The same in the run: the behaviours of parts "teardown" and "meddled" are those of Teardown.
THEOREM TeardownInRun == AnySpec => []TeardownIsSafe
<1> DEFINE Inv == part \in {"teardown", "meddled"} => TeardownInv
<1>1. AnyInit => Inv
  BY GatewayInitHolds DEF AnyInit, UpdateInit, UpdatesInit, GatewayInit, MeddledInit, RootInit,
     CleanupInit, PlainInit, ReplayInit
<1>2. Inv /\ [AnyNext]_allVars => Inv'
  <2> SUFFICES ASSUME Inv, [AnyNext]_allVars, part' \in {"teardown", "meddled"}
               PROVE  TeardownInv'
    OBVIOUS
  <2>1. CASE GatewayNext \/ MeddledNext
    BY <2>1, GatewayStepHolds DEF GatewayNext, MeddledNext
  <2>2. CASE UNCHANGED allVars
    BY <2>2, GatewayStepHolds DEF allVars, Gateway!vars
  <2>3. ~(UpdateNext \/ UpdatesNext \/ RootNext \/ CleanupNext \/ PlainNext \/ ReplayNext)
    BY DEF UpdateNext, UpdatesNext, RootNext, CleanupNext, PlainNext, ReplayNext
  <2> QED BY <2>1, <2>2, <2>3 DEF AnyNext
<1>3. Inv => TeardownIsSafe
  BY TeardownInvIsSafe DEF TeardownIsSafe
<1> QED BY <1>1, <1>2, <1>3, PTL DEF AnySpec

-------------------------------------------------------------------------------
\* The types of CleanupWorker.
JournalRecords ==
  [status : {"no_control", "none", "ready", "uninstalling", "removed"}, source : BOOLEAN, removed : Nat,
   pending : {None} \cup [req : CleanupRequests, phase : {"send_armed", "submitted", "not_applied"}]]
PortalSteps == {"portal", "portalSend", "portalVerify"}
ObjectSteps == {"look", "arm", "send", "verify"}
CleanupPasses ==
  [at : {"idle", "sources", "between", "root", "ended"}, step : {"none"} \cup PortalSteps \cup ObjectSteps,
   answer : {None, "removed", "repair", "retry", "fresh", "blocked"}]

CleanupTyped ==
  /\ live \in [Cleanup!Resources -> {"ours", "foreign", "gone"}]
  /\ portal \in {"not_started", "send_armed", "submitted", "complete"}
  /\ itsJournal \in [Cleanup!Objects -> JournalRecords]
  /\ itsPass \in [CleanupRequests -> CleanupPasses]
  /\ used \in [faults : Nat, hands : Nat]
  /\ kept \subseteq Cleanup!Resources
  /\ \A o \in Cleanup!Objects : Cleanup!StoredState(o)

\* A pass has its object for itself, and relies on what it did before its step.
PassFits(r, p) ==
  /\ p.step \in PortalSteps => p.at = "sources"
  /\ p.step # "none" => p.at \in Cleanup!Objects
  /\ p.at \in Cleanup!Objects => p.step # "none"
  /\ p.at \in Cleanup!Objects => itsJournal[p.at].status = "uninstalling"
  /\ p.at = "sources" /\ p.step \in ObjectSteps => portal = "complete"
  /\ p.step = "portalSend" => portal # "complete"
  /\ p.step \in {"arm", "send", "verify"} =>
       /\ itsJournal[p.at].removed < Len(Cleanup!Entries(p.at))
       /\ \A u \in unknown : u[2] # Cleanup!NextEntry(p.at)
  /\ p.step = "send" => itsJournal[p.at].pending = [req |-> r, phase |-> "send_armed"]
  /\ p.step = "verify" => itsJournal[p.at].pending # None
  /\ p.at \in {"between", "root"} /\ Cleanup!HasControl => itsJournal["sources"].status = "removed"
  /\ p.answer = "removed" => itsJournal["root"].status = "removed"
CleanersStand == \A r \in CleanupRequests : PassFits(r, itsPass[r])
CleanersApart ==
  \A r, s \in CleanupRequests : r # s /\ itsPass[r].at \in Cleanup!Objects => itsPass[s].at # itsPass[r].at

\* What a journal lists is gone; what somebody took over is nobody's to delete.
RemovedGone ==
  \A o \in Cleanup!Objects : \A i \in 1..itsJournal[o].removed : live[Cleanup!Entries(o)[i]] = "gone"
KeptStand == \A e \in kept \ {Cleanup!Portal} : live[e] = "foreign" /\ ~Cleanup!Deleting(e)

\* While the Portal offers added sources none is deleted or about to be.
Added == {e \in Cleanup!Resources : e[1] # 0}
MappedStand ==
  \/ mapped = Cleanup!RootOnly
  \/ /\ mapped = Cleanup!RootOnly \cup Cleanup!Extras /\ portal # "complete"
     /\ \A e \in Added : e \notin wire /\ (used.hands = 0 => live[e] # "gone")
PortalDone == portal = "complete" => mapped = Cleanup!RootOnly

\* A deletion without an answer took effect, or the journal still waits for that request's.
UnknownStand ==
  \A u \in unknown :
    /\ u[2] \in Cleanup!Resources
    /\ \/ live[u[2]] = "gone"
       \/ \E o \in Cleanup!Objects :
            /\ itsJournal[o].removed < Len(Cleanup!Entries(o)) /\ u[2] = Cleanup!NextEntry(o)
            /\ itsJournal[o].pending = [req |-> u[1], phase |-> "send_armed"]

CleanupInv ==
  /\ CleanupTyped /\ CleanersStand /\ CleanersApart /\ RemovedGone /\ KeptStand /\ MappedStand /\ PortalDone
  /\ Cleanup!SourcesFirst /\ UnknownStand /\ ~replayed

\* The sources come one by one from the highest on, and no source is the root's.
LEMMA EntriesFit ==
  /\ Len(Cleanup!SourceEntries) = 3 * CleanupExtras
  /\ \A i \in 1..Len(Cleanup!SourceEntries) :
       Cleanup!SourceEntries[i] \in Cleanup!Resources /\ Cleanup!SourceEntries[i][1] \in Cleanup!Extras
  /\ \A e \in Added : \E i \in 1..Len(Cleanup!SourceEntries) : e = Cleanup!SourceEntries[i]
  /\ \A s \in Cleanup!Extras : <<s, "server">> \in Added
<1>1. CleanupExtras \in Nat
  BY CleanupFits
<1>2. Len(Cleanup!SourceEntries) = 3 * CleanupExtras
  BY <1>1 DEF Cleanup!SourceEntries
<1>3. ASSUME NEW i \in 1..(3 * CleanupExtras)
      PROVE  /\ Cleanup!SourceEntries[i] \in Cleanup!Resources
             /\ Cleanup!SourceEntries[i][1] \in Cleanup!Extras /\ Cleanup!SourceEntries[i][1] # 0
  <2>1. Cleanup!SourceEntries[i] = <<CleanupExtras - ((i - 1) \div 3), Cleanup!SourceKinds[1 + ((i - 1) % 3)]>>
    BY DEF Cleanup!SourceEntries
  <2>2. (i - 1) \div 3 \in 0..(CleanupExtras - 1)
    BY <1>1
  <2>3. Cleanup!SourceEntries[i] \in Cleanup!Resources
    BY <1>2 DEF Cleanup!Resources
  <2> QED BY <1>1, <2>1, <2>2, <2>3 DEF Cleanup!Extras
<1>4. \A e \in Added : \E i \in 1..Len(Cleanup!SourceEntries) : e = Cleanup!SourceEntries[i]
  BY DEF Added, Cleanup!Resources
<1>5. ASSUME NEW s \in Cleanup!Extras PROVE <<s, "server">> \in Added
  <2> DEFINE i == 3 * (CleanupExtras - s) + 3
  <2>1. i \in 1..(3 * CleanupExtras) /\ (i - 1) \div 3 = CleanupExtras - s /\ (i - 1) % 3 = 2
    BY <1>1 DEF Cleanup!Extras
  <2>2. Cleanup!SourceEntries[i] = <<s, "server">>
    BY <1>1, <2>1 DEF Cleanup!SourceEntries, Cleanup!SourceKinds, Cleanup!Extras
  <2> QED BY <1>3, <2>1, <2>2 DEF Added
<1> QED BY <1>2, <1>3, <1>4, <1>5

\* The root receipt names resources of the root only, with a source or without one.
LEMMA RootEntriesFit ==
  ASSUME Cleanup!RootSource \in BOOLEAN
  PROVE  /\ Len(Cleanup!RootEntries) \in Nat
         /\ \A i \in 1..Len(Cleanup!RootEntries) :
              Cleanup!RootEntries[i] \in Cleanup!Resources /\ Cleanup!RootEntries[i][1] = 0
<1> DEFINE K == {"dns", "portalPolicy", "portalApplication", "portal", "policy", "application", "server"}
<1>1. \A k \in K : <<0, k>> \in Cleanup!Resources
  BY DEF Cleanup!PortalKinds, Cleanup!SourceKinds, Cleanup!Resources
<1>2. Cleanup!RootSource =>
        Len(Cleanup!RootKinds) = 7 /\ \A i \in 1..7 : Cleanup!RootKinds[i] \in K
  BY DEF Cleanup!RootKinds, Cleanup!PortalKinds, Cleanup!SourceKinds
<1>3. ~Cleanup!RootSource =>
        Len(Cleanup!RootKinds) = 4 /\ \A i \in 1..4 : Cleanup!RootKinds[i] \in K
  BY DEF Cleanup!RootKinds, Cleanup!PortalKinds, Cleanup!SourceKinds
<1> HIDE DEF K
<1>4. Len(Cleanup!RootKinds) \in Nat /\ \A i \in 1..Len(Cleanup!RootKinds) : Cleanup!RootKinds[i] \in K
  BY <1>2, <1>3
<1> QED BY <1>1, <1>4 DEF Cleanup!RootEntries

\* What an object removes, in its order.
LEMMA NextFits ==
  ASSUME CleanupTyped, NEW o \in Cleanup!Objects
  PROVE  /\ Len(Cleanup!Entries(o)) \in Nat
         /\ \A i \in 1..Len(Cleanup!Entries(o)) :
              /\ Cleanup!Entries(o)[i] \in Cleanup!Resources
              /\ Cleanup!Entries(o)[i] \in Added <=> o = "sources"
         /\ itsJournal[o].removed < Len(Cleanup!Entries(o)) =>
              /\ Cleanup!NextEntry(o) \in Cleanup!Resources
              /\ Cleanup!NextEntry(o) \in Added <=> o = "sources"
<1>1. itsJournal[o] \in JournalRecords /\ Cleanup!RootSource \in BOOLEAN
  BY DEF CleanupTyped, JournalRecords, Cleanup!RootSource, Cleanup!Objects
<1>2. /\ Len(Cleanup!Entries(o)) \in Nat
      /\ \A i \in 1..Len(Cleanup!Entries(o)) :
           Cleanup!Entries(o)[i] \in Cleanup!Resources /\ (Cleanup!Entries(o)[i] \in Added <=> o = "sources")
  BY <1>1, EntriesFit, RootEntriesFit, CleanupFits DEF Cleanup!Entries, Cleanup!Objects, Added, Cleanup!Extras
<1> QED BY <1>1, <1>2 DEF Cleanup!NextEntry, JournalRecords

\* One request moves: it works in an object nobody else is in, and leaves the other object alone.
Mine(r, o) == itsPass[r].at = o \/ Cleanup!Free(o)
Turn(r) ==
  /\ itsPass' \in [CleanupRequests -> CleanupPasses]
  /\ \A s \in CleanupRequests \ {r} : itsPass'[s] = itsPass[s]
  /\ itsPass'[r].at \in Cleanup!Objects => Mine(r, itsPass'[r].at)
  /\ itsJournal' \in [Cleanup!Objects -> JournalRecords]
  /\ itsJournal'["root"].source = itsJournal["root"].source
  /\ (itsJournal'["sources"].status = "no_control") = (itsJournal["sources"].status = "no_control")
  /\ \A o \in Cleanup!Objects :
       \/ itsJournal'[o] = itsJournal[o]
       \/ Mine(r, o) /\ Cleanup!StoredState(o)' /\ itsJournal[o].status # "removed"
  /\ portal' \in {"not_started", "send_armed", "submitted", "complete"}
  /\ portal = "complete" => portal' = "complete"
  /\ portal' = portal \/ Mine(r, "sources")
  /\ \A u \in unknown' : u \in unknown \/ \E o \in Cleanup!Objects :
       Mine(r, o) /\ itsJournal[o].removed < Len(Cleanup!Entries(o)) /\ u[2] = Cleanup!NextEntry(o)
  /\ live' \in [Cleanup!Resources -> {"ours", "foreign", "gone"}]
  /\ used' \in [faults : Nat, hands : Nat] /\ kept' = kept
  /\ PassFits(r, itsPass[r])'

\* What an object removes depends on the receipt alone.
LEMMA EntriesStay ==
  ASSUME itsJournal'["root"].source = itsJournal["root"].source
  PROVE  (\A o : Cleanup!Entries(o)' = Cleanup!Entries(o)) /\ Cleanup!RootOnly' = Cleanup!RootOnly
BY DEF Cleanup!Entries, Cleanup!RootEntries, Cleanup!RootKinds, Cleanup!RootSource, Cleanup!RootOnly

\* The passes of others do not notice a step.
LEMMA TurnHolds ==
  ASSUME CleanupInv, NEW r \in CleanupRequests, Turn(r)
  PROVE  CleanupTyped' /\ CleanersStand' /\ CleanersApart'
<1>1. /\ CleanupTyped /\ CleanersStand /\ CleanersApart
      /\ \A o : Cleanup!Entries(o)' = Cleanup!Entries(o)
  BY EntriesStay DEF CleanupInv, Turn
<1>2. CleanupTyped'
  BY <1>1 DEF CleanupTyped, Turn, Cleanup!StoredState
<1>3. CleanersApart'
  BY <1>1 DEF CleanersApart, Turn, Mine, Cleanup!Free
<1>4. ASSUME NEW s \in CleanupRequests, s # r PROVE PassFits(s, itsPass[s])'
  <2> DEFINE q == itsPass[s]
  <2>1. /\ PassFits(s, q) /\ q \in CleanupPasses /\ itsPass'[s] = q
        /\ \A o \in Cleanup!Objects : q.at = o => ~Mine(r, o)
    BY <1>1, <1>4 DEF CleanersStand, CleanersApart, CleanupTyped, Turn, Mine, Cleanup!Free
  <2>2. q.at \in Cleanup!Objects => itsJournal'[q.at] = itsJournal[q.at]
    BY <2>1 DEF Turn
  <2>3. \A o \in Cleanup!Objects : itsJournal[o].status = "removed" => itsJournal'[o] = itsJournal[o]
    BY DEF Turn
  <2>4. q.at \in Cleanup!Objects => Cleanup!NextEntry(q.at)' = Cleanup!NextEntry(q.at)
    BY <1>1, <2>1, <2>2 DEF Cleanup!NextEntry
  <2>5. ASSUME q.step \in {"arm", "send", "verify"}, NEW u \in unknown' PROVE u[2] # Cleanup!NextEntry(q.at)
    BY <2>1, <2>5, <1>1, NextFits DEF PassFits, Cleanup!Objects, Turn
  <2>6. "sources" \in Cleanup!Objects /\ "root" \in Cleanup!Objects
    BY DEF Cleanup!Objects
  <2>7. Cleanup!HasControl' = Cleanup!HasControl
    BY DEF Turn, Cleanup!HasControl
  <2>8. /\ q.step \in PortalSteps => q.at = "sources"
        /\ q.step # "none" => q.at \in Cleanup!Objects
        /\ q.at \in Cleanup!Objects => q.step # "none"
        /\ q.at \in Cleanup!Objects => itsJournal'[q.at].status = "uninstalling"
        /\ q.at = "sources" /\ q.step \in ObjectSteps => portal' = "complete"
        /\ q.step = "portalSend" => portal' # "complete"
    BY <2>1, <2>2, <2>6 DEF PassFits, Turn, PortalSteps
  <2>9. /\ q.step \in {"arm", "send", "verify"} =>
             /\ itsJournal'[q.at].removed < Len(Cleanup!Entries(q.at))
             /\ \A u \in unknown' : u[2] # Cleanup!NextEntry(q.at)
        /\ q.step = "send" => itsJournal'[q.at].pending = [req |-> s, phase |-> "send_armed"]
        /\ q.step = "verify" => itsJournal'[q.at].pending # None
    BY <2>1, <2>2, <2>5, <2>8 DEF PassFits
  <2>10. /\ q.at \in {"between", "root"} /\ Cleanup!HasControl => itsJournal'["sources"].status = "removed"
         /\ q.answer = "removed" => itsJournal'["root"].status = "removed"
    BY <2>1, <2>3, <2>6 DEF PassFits
  <2> QED BY <1>1, <2>1, <2>4, <2>7, <2>8, <2>9, <2>10 DEF PassFits
<1> QED BY <1>2, <1>3, <1>4 DEF CleanersStand, Turn

\* A step that changes nothing at Cloudflare.
Rests(r) ==
  /\ UNCHANGED <<live, mapped, wire, kept, replayed>> /\ used'.hands = used.hands
  /\ \A o \in Cleanup!Objects :
       \/ itsJournal'[o].removed = itsJournal[o].removed
       \/ /\ itsJournal'[o].removed = itsJournal[o].removed + 1
          /\ live[Cleanup!NextEntry(o)] = "gone"
  /\ itsPass'[r].step \in {"arm", "send"} =>
       /\ itsPass[r].at = itsPass'[r].at
       /\ itsJournal'[itsPass[r].at].removed = itsJournal[itsPass[r].at].removed
       /\ itsPass[r].step \in {"arm", "send"} \/ live[Cleanup!NextEntry(itsPass[r].at)] = "ours"
  /\ portal' = "complete" => portal = "complete" \/ mapped = Cleanup!RootOnly
  /\ itsJournal'["root"].status = "ready" \/ itsJournal["root"].status # "ready" \/ itsPass[r].at = "between"

\* What is removed by an object whose journal is closed is gone.
LEMMA ClosedIsGone ==
  ASSUME CleanupTyped, RemovedGone, itsJournal["sources"].status = "removed"
  PROVE  \A i \in 1..Len(Cleanup!SourceEntries) : live[Cleanup!SourceEntries[i]] = "gone"
BY DEF CleanupTyped, RemovedGone, Cleanup!StoredState, Cleanup!Entries, Cleanup!Objects

\* Neither does anything at Cloudflare.
LEMMA RestsHold ==
  ASSUME CleanupInv, NEW r \in CleanupRequests, Turn(r), Rests(r), UnknownStand'
  PROVE  CleanupInv'
<1>1. /\ CleanupTyped /\ CleanersStand /\ RemovedGone /\ KeptStand /\ MappedStand /\ PortalDone
      /\ Cleanup!SourcesFirst /\ ~replayed /\ CleanersApart
      /\ \A o : Cleanup!Entries(o)' = Cleanup!Entries(o)
      /\ Cleanup!RootOnly' = Cleanup!RootOnly
  BY EntriesStay DEF CleanupInv, Turn
<1>2. CleanupTyped' /\ CleanersStand' /\ CleanersApart'
  BY TurnHolds
<1>3. RemovedGone'
  <2> SUFFICES ASSUME NEW o \in Cleanup!Objects, NEW i \in 1..itsJournal'[o].removed
               PROVE  live[Cleanup!Entries(o)[i]] = "gone"
    BY <1>1 DEF RemovedGone, Rests
  <2>1. itsJournal[o].removed \in Nat
    BY <1>1 DEF CleanupTyped, JournalRecords
  <2>2. i \in 1..itsJournal[o].removed \/ (i = itsJournal[o].removed + 1 /\ live[Cleanup!NextEntry(o)] = "gone")
    BY <2>1 DEF Rests
  <2> QED BY <1>1, <2>2 DEF RemovedGone, Cleanup!NextEntry
<1>4. KeptStand'
  <2> SUFFICES ASSUME NEW e \in kept \ {Cleanup!Portal}, Cleanup!Deleting(e)'
               PROVE  FALSE
    BY <1>1 DEF KeptStand, Rests
  <2>1. live[e] = "foreign" /\ ~Cleanup!Deleting(e)
    BY <1>1 DEF KeptStand
  <2>2. PICK s \in CleanupRequests : itsPass'[s].step \in {"arm", "send"} /\ Cleanup!NextEntry(itsPass[s].at)' = e
    BY <2>1 DEF Cleanup!Deleting, Rests
  <2>3. CASE s = r
    BY <1>1, <2>2, <2>3, <2>1 DEF Cleanup!NextEntry, Rests, Cleanup!Deleting
  <2>4. CASE s # r
    <3>1. itsPass'[s] = itsPass[s] /\ PassFits(s, itsPass[s])
      BY <1>1, <2>4 DEF Turn, CleanersStand
    <3>2. itsPass[s].at \in Cleanup!Objects
      BY <2>2, <3>1 DEF PassFits
    <3>3. itsJournal'[itsPass[s].at] = itsJournal[itsPass[s].at]
      BY <1>1, <2>4, <3>2 DEF Turn, Mine, CleanersApart, Cleanup!Free
    <3>4. Cleanup!NextEntry(itsPass[s].at)' = Cleanup!NextEntry(itsPass[s].at)
      BY <1>1, <3>1, <3>3 DEF Cleanup!NextEntry
    <3> QED BY <2>1, <2>2, <3>1, <3>4 DEF Cleanup!Deleting
  <2> QED BY <2>3, <2>4
<1>5. MappedStand' /\ PortalDone'
  BY <1>1 DEF MappedStand, PortalDone, Rests
<1>6. Cleanup!SourcesFirst'
  BY <1>1, ClosedIsGone DEF Turn, Cleanup!HasControl, CleanersStand, PassFits, Cleanup!SourcesFirst,
    Rests
<1> QED BY <1>1, <1>2, <1>3, <1>4, <1>5, <1>6 DEF CleanupInv, Rests

\* A deletion without an answer stays accounted for while its journal is left alone.
LEMMA UnknownKept ==
  ASSUME CleanupInv, itsJournal'["root"].source = itsJournal["root"].source, unknown' \subseteq unknown,
         \A e \in Cleanup!Resources : live[e] = "gone" => live'[e] = "gone",
         \A o \in Cleanup!Objects :
           \/ itsJournal'[o].pending = itsJournal[o].pending /\ itsJournal'[o].removed = itsJournal[o].removed
           \/ \A u \in unknown' : u[2] = Cleanup!NextEntry(o) => live[u[2]] = "gone"
  PROVE  UnknownStand'
<1>1. UnknownStand /\ \A o : Cleanup!Entries(o)' = Cleanup!Entries(o)
  BY EntriesStay DEF CleanupInv
<1> SUFFICES ASSUME NEW u \in unknown', live'[u[2]] # "gone"
             PROVE  /\ u[2] \in Cleanup!Resources
                    /\ \E o \in Cleanup!Objects :
                         /\ itsJournal'[o].removed < Len(Cleanup!Entries(o)')
                         /\ u[2] = Cleanup!NextEntry(o)'
                         /\ itsJournal'[o].pending = [req |-> u[1], phase |-> "send_armed"]
  BY <1>1 DEF UnknownStand
<1>2. u[2] \in Cleanup!Resources /\ live[u[2]] # "gone"
  BY <1>1 DEF UnknownStand
<1>3. PICK o \in Cleanup!Objects :
        /\ itsJournal[o].removed < Len(Cleanup!Entries(o)) /\ u[2] = Cleanup!NextEntry(o)
        /\ itsJournal[o].pending = [req |-> u[1], phase |-> "send_armed"]
  BY <1>1, <1>2 DEF UnknownStand
<1>4. itsJournal'[o].pending = itsJournal[o].pending /\ itsJournal'[o].removed = itsJournal[o].removed
  BY <1>2, <1>3
<1> QED BY <1>1, <1>2, <1>3, <1>4 DEF Cleanup!NextEntry

\* What a pass knows of itself.
LEMMA AtWorkHere ==
  ASSUME CleanupInv, NEW r \in CleanupRequests
  PROVE  /\ itsPass \in [CleanupRequests -> CleanupPasses] /\ itsPass[r] \in CleanupPasses
         /\ PassFits(r, itsPass[r])
         /\ itsPass[r].at \in Cleanup!Objects => Mine(r, itsPass[r].at)
         /\ itsJournal \in [Cleanup!Objects -> JournalRecords]
         /\ \A o \in Cleanup!Objects : itsJournal[o] \in JournalRecords /\ Cleanup!StoredState(o)
         /\ Cleanup!Objects = {"sources", "root"}
         /\ portal \in {"not_started", "send_armed", "submitted", "complete"}
         /\ portal = "complete" => mapped = Cleanup!RootOnly
         /\ live \in [Cleanup!Resources -> {"ours", "foreign", "gone"}]
         /\ used \in [faults : Nat, hands : Nat]
         /\ UnknownStand /\ ~replayed
BY DEF CleanupInv, CleanupTyped, CleanersStand, Mine, Cleanup!Objects, PortalDone

\* A pass begins with the sources.
LEMMA CleanupEnterHolds ==
  ASSUME CleanupInv, NEW r \in CleanupRequests, Cleanup!Enter(r) PROVE CleanupInv'
<1>1. /\ itsPass' \in [CleanupRequests -> CleanupPasses]
      /\ \A s \in CleanupRequests \ {r} : itsPass'[s] = itsPass[s]
  BY AtWorkHere DEF Cleanup!Enter, CleanupPasses, Cleanup!End, PortalSteps, ObjectSteps
<1>2. /\ itsJournal' \in [Cleanup!Objects -> JournalRecords]
      /\ itsJournal'["root"] = itsJournal["root"]
      /\ \/ itsJournal' = itsJournal
         \/ /\ itsJournal["sources"].status = "none"
            /\ itsJournal'["sources"] = [itsJournal["sources"] EXCEPT !.status = "uninstalling"]
  BY AtWorkHere DEF Cleanup!Enter, JournalRecords
<1>3. /\ itsPass[r].at = "idle" /\ Mine(r, "sources") /\ itsPass[r].step = "none"
      /\ \/ /\ itsPass'[r].at = "between" /\ itsPass'[r].step = "none" /\ itsPass'[r].answer = itsPass[r].answer
            /\ ~Cleanup!HasControl \/ itsJournal["sources"].status = "removed"
            /\ itsJournal' = itsJournal
         \/ /\ itsPass'[r].at = "sources" /\ itsPass'[r].step = "portal" /\ itsPass'[r].answer = itsPass[r].answer
            /\ itsJournal'["sources"].status = "uninstalling"
         \/ itsPass'[r].at = "ended" /\ itsPass'[r].step = "none" /\ itsPass'[r].answer = "repair"
  <2>1. itsPass[r].at = "idle" /\ Cleanup!Free("sources") /\ itsPass[r].step = "none"
    BY AtWorkHere DEF Cleanup!Enter, PassFits, PortalSteps, CleanupPasses
  <2> QED
    BY AtWorkHere, <2>1 DEF Cleanup!Enter, CleanupPasses, JournalRecords, Cleanup!End, Cleanup!HasControl, Cleanup!StoredState, Mine
<1>4. PassFits(r, itsPass[r])'
  BY <1>2, <1>3, AtWorkHere DEF PassFits, Cleanup!HasControl, PortalSteps, ObjectSteps
<1>5. Turn(r)
  <2>1. itsJournal' # itsJournal => Cleanup!StoredState("sources")'
    BY <1>2, AtWorkHere DEF Cleanup!StoredState, Cleanup!Entries, JournalRecords
  <2> QED BY <1>1, <1>2, <1>3, <1>4, <2>1, AtWorkHere DEF Turn, Cleanup!Enter, JournalRecords
<1>6. Rests(r)
  BY <1>2, <1>3, AtWorkHere DEF Cleanup!Enter, Rests, JournalRecords
<1>7. UnknownStand'
  BY <1>2, UnknownKept, AtWorkHere DEF Cleanup!Enter, JournalRecords
<1> QED BY <1>5, <1>6, <1>7, RestsHold

\* A pass goes on to the root.
LEMMA CleanupEnterRootHolds ==
  ASSUME CleanupInv, NEW r \in CleanupRequests, Cleanup!EnterRoot(r) PROVE CleanupInv'
<1>1. /\ itsPass' \in [CleanupRequests -> CleanupPasses]
      /\ \A s \in CleanupRequests \ {r} : itsPass'[s] = itsPass[s]
  BY AtWorkHere DEF Cleanup!EnterRoot, CleanupPasses, Cleanup!End, PortalSteps, ObjectSteps
<1>2. /\ itsJournal' \in [Cleanup!Objects -> JournalRecords]
      /\ itsJournal'["sources"] = itsJournal["sources"]
      /\ \/ itsJournal' = itsJournal
         \/ /\ itsJournal["root"].status # "removed"
            /\ itsJournal'["root"] = [itsJournal["root"] EXCEPT !.status = "uninstalling"]
  BY AtWorkHere DEF Cleanup!EnterRoot, JournalRecords
<1>3. /\ itsPass[r].at = "between" /\ Mine(r, "root") /\ itsPass[r].step = "none"
      /\ \/ /\ itsPass'[r].at = "ended" /\ itsPass'[r].step = "none" /\ itsPass'[r].answer = "removed"
            /\ itsJournal' = itsJournal /\ itsJournal["root"].status = "removed"
         \/ /\ itsPass'[r].at = "root" /\ itsPass'[r].step = "look" /\ itsPass'[r].answer = itsPass[r].answer
            /\ itsJournal'["root"] = [itsJournal["root"] EXCEPT !.status = "uninstalling"]
            /\ itsJournal["root"].status # "removed"
  <2>1. itsPass[r].at = "between" /\ Cleanup!Free("root") /\ itsPass[r].step = "none"
    BY AtWorkHere DEF Cleanup!EnterRoot, PassFits, PortalSteps, CleanupPasses
  <2> QED
    BY AtWorkHere, <2>1 DEF Cleanup!EnterRoot, CleanupPasses, JournalRecords, Cleanup!End, Mine
<1>4. PassFits(r, itsPass[r])'
  BY <1>2, <1>3, AtWorkHere DEF PassFits, Cleanup!HasControl, PortalSteps, ObjectSteps, JournalRecords
<1>5. Turn(r)
  <2>1. itsJournal' # itsJournal => Cleanup!StoredState("root")'
    BY <1>2, EntriesStay, AtWorkHere DEF Cleanup!StoredState, JournalRecords
  <2> QED BY <1>1, <1>2, <1>3, <1>4, <2>1, AtWorkHere DEF Turn, Cleanup!EnterRoot, JournalRecords
<1>6. Rests(r)
  BY <1>2, <1>3, AtWorkHere DEF Cleanup!EnterRoot, Rests, JournalRecords
<1>7. UnknownStand'
  <2>1. \A o \in Cleanup!Objects :
          itsJournal'[o].pending = itsJournal[o].pending /\ itsJournal'[o].removed = itsJournal[o].removed
    BY <1>2, AtWorkHere DEF JournalRecords
  <2> QED BY <1>5, <2>1, UnknownKept DEF Cleanup!EnterRoot, Turn
<1> QED BY <1>5, <1>6, <1>7, RestsHold

\* A step that leaves the journals alone.
LEMMA PassOnly ==
  ASSUME CleanupInv, NEW r \in CleanupRequests, NEW p \in CleanupPasses, itsPass' = [itsPass EXCEPT ![r] = p],
         UNCHANGED <<live, mapped, wire, kept, unknown, replayed, itsJournal>>,
         used' \in [faults : Nat, hands : Nat], used'.hands = used.hands,
         portal' \in {"not_started", "send_armed", "submitted", "complete"},
         portal = "complete" => portal' = "complete",
         portal' = "complete" => portal = "complete" \/ mapped = Cleanup!RootOnly,
         portal' = portal \/ itsPass[r].at = "sources",
         p.at = itsPass[r].at \/ p.at \notin Cleanup!Objects,
         p.step \in {"arm", "send", "verify"} => FALSE,
         PassFits(r, itsPass[r])'
  PROVE  CleanupInv'
BY AtWorkHere, RestsHold, UnknownKept DEF Turn, Rests

\* A pass that a failed read or an eviction ends, and a request that is sent again.
LEMMA CleanupEndsHolds ==
  ASSUME CleanupInv, NEW r \in CleanupRequests, Cleanup!ReadFails(r) \/ Cleanup!Stop(r) \/ Cleanup!Again(r)
  PROVE  CleanupInv'
<1>1. PICK p \in CleanupPasses :
        /\ itsPass' = [itsPass EXCEPT ![r] = p]
        /\ p.at \in {"ended", "idle"} /\ p.step = "none" /\ p.answer # "removed"
  <2> DEFINE I == [at |-> "idle", step |-> "none", answer |-> None]
             E(a) == [at |-> "ended", step |-> "none", answer |-> a]
  <2>1. CASE Cleanup!Again(r)
    <3>1. I \in CleanupPasses
      BY DEF CleanupPasses
    <3>2. itsPass' = [itsPass EXCEPT ![r] = I]
      BY <2>1 DEF Cleanup!Again, Cleanup!Claim
    <3> QED BY <3>1, <3>2, CleanupFits
  <2>2. CASE \E a \in {"retry", "fresh"} : Cleanup!End(r, a)
    <3>1. PICK a \in {"retry", "fresh"} : itsPass' = [itsPass EXCEPT ![r] = E(a)]
      BY <2>2 DEF Cleanup!End
    <3>2. E(a) \in CleanupPasses
      BY DEF CleanupPasses
    <3> QED BY <3>1, <3>2
  <2> QED BY <2>1, <2>2 DEF Cleanup!ReadFails, Cleanup!Stop
<1>2. itsPass'[r] = p
  BY <1>1, AtWorkHere
<1>3. PassFits(r, itsPass[r])'
  BY <1>1, <1>2, AtWorkHere DEF PassFits, PortalSteps, ObjectSteps
<1>4. /\ UNCHANGED <<live, mapped, itsJournal, portal, wire, kept, unknown, replayed>>
      /\ used' \in [faults : Nat, hands : Nat] /\ used'.hands = used.hands
  BY AtWorkHere DEF Cleanup!ReadFails, Cleanup!Stop, Cleanup!Again, Cleanup!Fault
<1> QED BY <1>1, <1>3, <1>4, AtWorkHere, PassOnly

\* Where a step leads: on in the object, or to an answer.
LEMMA CleanupMoves ==
  ASSUME CleanupInv, NEW r \in CleanupRequests
  PROVE  /\ \A s \in {"none"} \cup PortalSteps \cup ObjectSteps : Cleanup!Goto(r, s) =>
              \E p \in CleanupPasses :
                /\ itsPass' = [itsPass EXCEPT ![r] = p]
                /\ p.at = itsPass[r].at /\ p.step = s /\ p.answer = itsPass[r].answer
         /\ \A a \in {None, "removed", "repair", "retry", "fresh", "blocked"} : Cleanup!End(r, a) =>
              \E p \in CleanupPasses :
                /\ itsPass' = [itsPass EXCEPT ![r] = p]
                /\ p.at = "ended" /\ p.step = "none" /\ p.answer = a
<1>1. ASSUME NEW s \in {"none"} \cup PortalSteps \cup ObjectSteps, Cleanup!Goto(r, s)
      PROVE  \E p \in CleanupPasses :
                /\ itsPass' = [itsPass EXCEPT ![r] = p]
                /\ p.at = itsPass[r].at /\ p.step = s /\ p.answer = itsPass[r].answer
  <2> DEFINE p == [itsPass[r] EXCEPT !.step = s]
  <2>1. p \in CleanupPasses /\ p.at = itsPass[r].at /\ p.step = s /\ p.answer = itsPass[r].answer
    BY AtWorkHere DEF CleanupPasses
  <2>2. itsPass' = [itsPass EXCEPT ![r] = p]
    BY <1>1 DEF Cleanup!Goto
  <2> QED BY <2>1, <2>2
<1>2. ASSUME NEW a \in {None, "removed", "repair", "retry", "fresh", "blocked"}, Cleanup!End(r, a)
      PROVE  \E p \in CleanupPasses :
                /\ itsPass' = [itsPass EXCEPT ![r] = p]
                /\ p.at = "ended" /\ p.step = "none" /\ p.answer = a
  <2> DEFINE p == [at |-> "ended", step |-> "none", answer |-> a]
  <2>1. p \in CleanupPasses
    BY DEF CleanupPasses
  <2>2. itsPass' = [itsPass EXCEPT ![r] = p]
    BY <1>2 DEF Cleanup!End
  <2> QED BY <2>1, <2>2
<1> QED BY <1>1, <1>2

\* The Portal's steps other than its update.
LEMMA CleanupPortalHolds ==
  ASSUME CleanupInv, NEW r \in CleanupRequests, Cleanup!PortalRead(r) \/ Cleanup!PortalVerify(r)
  PROVE  CleanupInv'
<1>1. /\ UNCHANGED <<live, mapped, itsJournal, wire, kept, unknown, replayed, used>>
      /\ itsPass[r].step \in {"portal", "portalVerify"}
      /\ portal' \in {"not_started", "send_armed", "submitted", "complete"}
      /\ portal = "complete" => portal' = "complete"
      /\ portal' = "complete" => portal = "complete" \/ mapped = Cleanup!RootOnly
  BY AtWorkHere DEF Cleanup!PortalRead, Cleanup!PortalVerify
<1>2. \/ Cleanup!Goto(r, "look") /\ portal' = "complete"
      \/ Cleanup!Goto(r, "portalSend") /\ portal' # "complete"
      \/ \E a \in {"blocked", "retry"} : Cleanup!End(r, a)
  BY DEF Cleanup!PortalRead, Cleanup!PortalVerify
<1>3. PICK p \in CleanupPasses :
        /\ itsPass' = [itsPass EXCEPT ![r] = p]
        /\ \/ p.at = itsPass[r].at /\ p.step = "look" /\ portal' = "complete" /\ p.answer = itsPass[r].answer
           \/ p.at = itsPass[r].at /\ p.step = "portalSend" /\ portal' # "complete" /\ p.answer = itsPass[r].answer
           \/ p.at = "ended" /\ p.step = "none" /\ p.answer # "removed"
  BY <1>2, CleanupMoves DEF ObjectSteps, PortalSteps
<1>4. itsPass'[r] = p
  BY <1>3, AtWorkHere
<1>5. itsPass[r].at = "sources"
  BY <1>1, AtWorkHere DEF PassFits, PortalSteps
<1>6. PassFits(r, itsPass[r])'
  BY <1>1, <1>3, <1>4, <1>5, AtWorkHere DEF Cleanup!HasControl, PassFits, PortalSteps, ObjectSteps
<1> QED BY <1>1, <1>3, <1>5, <1>6, AtWorkHere, PassOnly

\* A step in an object, which leaves the journal j and the pass p.
Works(r, p, j) ==
  /\ itsPass[r].step \in ObjectSteps
  /\ p \in CleanupPasses /\ itsPass' = [itsPass EXCEPT ![r] = p]
  /\ j \in JournalRecords /\ itsJournal' = [itsJournal EXCEPT ![itsPass[r].at] = j]
  /\ j.source = itsJournal[itsPass[r].at].source /\ j.removed <= Len(Cleanup!Entries(itsPass[r].at))
  /\ \/ j.status = "uninstalling" /\ (j.pending # None => j.removed < Len(Cleanup!Entries(itsPass[r].at)))
     \/ j.status = "removed" /\ j.removed = Len(Cleanup!Entries(itsPass[r].at)) /\ j.pending = None
  /\ \/ p.at = itsPass[r].at /\ p.step \in ObjectSteps /\ j.status = "uninstalling" /\ p.answer = itsPass[r].answer
     \/ p.at = "between" /\ p.step = "none" /\ p.answer = itsPass[r].answer
        /\ itsPass[r].at = "sources" /\ j.status = "removed"
     \/ p.at = "ended" /\ p.step = "none"
        /\ (p.answer = "removed" => itsPass[r].at = "root" /\ j.status = "removed")
  /\ p.step \in {"arm", "send", "verify"} =>
       /\ j.removed < Len(Cleanup!Entries(itsPass[r].at))
       /\ \A u \in unknown' : u[2] # Cleanup!Entries(itsPass[r].at)[j.removed + 1]
  /\ p.step = "send" => j.pending = [req |-> r, phase |-> "send_armed"]
  /\ p.step = "verify" => j.pending # None
  /\ UNCHANGED <<portal, kept>> /\ live' \in [Cleanup!Resources -> {"ours", "foreign", "gone"}]
  /\ used' \in [faults : Nat, hands : Nat]
  /\ \A u \in unknown' : u \in unknown \/
       (itsJournal[itsPass[r].at].removed < Len(Cleanup!Entries(itsPass[r].at))
        /\ u[2] = Cleanup!NextEntry(itsPass[r].at))

\* Such a step is a step of one pass.
LEMMA WorkTurns ==
  ASSUME CleanupInv, NEW r \in CleanupRequests, NEW p, NEW j, Works(r, p, j) PROVE Turn(r)
<1> DEFINE o == itsPass[r].at
<1>1. /\ o \in Cleanup!Objects /\ Mine(r, o) /\ itsPass'[r] = p /\ itsJournal[o].status = "uninstalling"
      /\ itsPass' \in [CleanupRequests -> CleanupPasses]
      /\ \A s \in CleanupRequests \ {r} : itsPass'[s] = itsPass[s]
      /\ (o = "sources" => portal = "complete")
  BY AtWorkHere DEF Works, PassFits, ObjectSteps
<1>2. /\ itsJournal' \in [Cleanup!Objects -> JournalRecords] /\ itsJournal'[o] = j
      /\ \A q \in Cleanup!Objects \ {o} : itsJournal'[q] = itsJournal[q]
  BY <1>1, AtWorkHere DEF Works
<1>3. "root" \in Cleanup!Objects /\ "sources" \in Cleanup!Objects
  BY DEF Cleanup!Objects
<1>4. itsJournal'["root"].source = itsJournal["root"].source
  BY <1>1, <1>2, <1>3 DEF Works
<1>5. \A q : Cleanup!Entries(q)' = Cleanup!Entries(q)
  BY <1>4, EntriesStay
<1>6. Cleanup!HasControl' = Cleanup!HasControl /\ (o = "sources" => Cleanup!HasControl)
  BY <1>1, <1>2, <1>3 DEF Cleanup!HasControl, Works
<1>7. ASSUME NEW q \in Cleanup!Objects, q = o PROVE Cleanup!StoredState(q)'
  BY <1>1, <1>2, <1>5, <1>7, AtWorkHere DEF Cleanup!StoredState, Works, JournalRecords
<1>8. PassFits(r, itsPass[r])'
  BY <1>2, <1>5, AtWorkHere, <1>1, <1>3, <1>6 DEF Cleanup!NextEntry, Works, ObjectSteps,
    PortalSteps, PassFits, Cleanup!Objects
<1> QED BY <1>1, <1>2, <1>3, <1>4, <1>6, <1>7, <1>8, AtWorkHere DEF Turn, Works, Cleanup!HasControl

\* The deletion is written down before it is sent.
LEMMA CleanupArmHolds ==
  ASSUME CleanupInv, NEW r \in CleanupRequests, Cleanup!Arm(r) PROVE CleanupInv'
<1> DEFINE o == itsPass[r].at
           j == [itsJournal[o] EXCEPT !.pending = [req |-> r, phase |-> "send_armed"]]
<1>1. /\ o \in Cleanup!Objects /\ itsJournal[o] \in JournalRecords /\ itsJournal[o].status = "uninstalling"
      /\ itsJournal[o].removed < Len(Cleanup!Entries(o)) /\ itsPass[r].step = "arm"
      /\ \A u \in unknown : u[2] # Cleanup!NextEntry(o)
  BY AtWorkHere DEF Cleanup!Arm, PassFits
<1>2. j \in JournalRecords
  BY <1>1 DEF JournalRecords
<1>3. itsJournal' = [itsJournal EXCEPT ![o] = j]
  BY <1>1 DEF Cleanup!Arm
<1>4. PICK p \in CleanupPasses :
        itsPass' = [itsPass EXCEPT ![r] = p] /\ p.at = o /\ p.step = "send" /\ p.answer = itsPass[r].answer
  BY CleanupMoves DEF Cleanup!Arm, ObjectSteps
<1>5. Works(r, p, j)
  BY <1>1, <1>2, <1>3, <1>4, AtWorkHere, NextFits DEF Works, ObjectSteps, Cleanup!Arm, Cleanup!NextEntry, JournalRecords
<1>6. Turn(r)
  BY <1>5, WorkTurns
<1>7. Rests(r)
  BY <1>1, <1>3, <1>4, AtWorkHere DEF Rests, Cleanup!Arm, JournalRecords
<1>8. UnknownStand'
  BY <1>1, <1>3, <1>6, UnknownKept, AtWorkHere DEF Cleanup!Arm, Turn, JournalRecords
<1> QED BY <1>6, <1>7, <1>8, RestsHold

\* A step of an object that changes nothing at Cloudflare and forgets only what is settled.
LEMMA WorkHolds ==
  ASSUME CleanupInv, NEW r \in CleanupRequests, NEW p, NEW j, Works(r, p, j),
         UNCHANGED <<live, mapped, wire, replayed, used>>, unknown' \subseteq unknown,
         p.step \in {"arm", "send"} => live[Cleanup!NextEntry(itsPass[r].at)] = "ours",
         j.removed # itsJournal[itsPass[r].at].removed =>
           /\ j.removed = itsJournal[itsPass[r].at].removed + 1 /\ p.step \notin {"arm", "send"}
           /\ live[Cleanup!NextEntry(itsPass[r].at)] = "gone",
         \/ j.pending = itsJournal[itsPass[r].at].pending /\ j.removed = itsJournal[itsPass[r].at].removed
         \/ \A u \in unknown' : u[2] = Cleanup!NextEntry(itsPass[r].at) => live[u[2]] = "gone"
  PROVE  CleanupInv'
<1> DEFINE o == itsPass[r].at
<1>1. Turn(r)
  BY WorkTurns
<1>2. /\ o \in Cleanup!Objects /\ itsPass'[r] = p /\ itsJournal[o].status = "uninstalling"
      /\ itsJournal'[o] = j /\ \A q \in Cleanup!Objects \ {o} : itsJournal'[q] = itsJournal[q]
      /\ (p.step \in {"arm", "send"} => p.at = o)
  BY AtWorkHere DEF Works, PassFits, ObjectSteps
<1>3. Rests(r)
  BY <1>2, AtWorkHere DEF Rests, Works
<1>4. UnknownStand'
  BY <1>1, <1>2, UnknownKept DEF Turn
<1> QED BY <1>1, <1>3, <1>4, RestsHold

\* What a committed deletion, and a pending one of another phase, leave in a journal.
LEMMA RecordsFit ==
  ASSUME NEW j \in JournalRecords
  PROVE  /\ LET k == [j EXCEPT !.removed = @ + 1, !.pending = None] IN
              /\ k \in JournalRecords /\ k.removed = j.removed + 1 /\ k.pending = None
              /\ k.status = j.status /\ k.source = j.source
         /\ \A f \in {"send_armed", "submitted", "not_applied"} : j.pending # None =>
              LET k == [j EXCEPT !.pending.phase = f] IN
              /\ k \in JournalRecords /\ k.removed = j.removed /\ k.pending # None
              /\ k.status = j.status /\ k.source = j.source
<1>1. ASSUME NEW k, k = [j EXCEPT !.removed = @ + 1]
      PROVE  k \in JournalRecords /\ k.removed = j.removed + 1 /\ k.status = j.status /\ k.source = j.source
  BY <1>1 DEF JournalRecords
<1>2. \A k \in JournalRecords :
        /\ [k EXCEPT !.pending = None] \in JournalRecords
        /\ [k EXCEPT !.pending = None].removed = k.removed /\ [k EXCEPT !.pending = None].pending = None
        /\ [k EXCEPT !.pending = None].status = k.status /\ [k EXCEPT !.pending = None].source = k.source
  BY DEF JournalRecords
<1>3. ASSUME NEW f \in {"send_armed", "submitted", "not_applied"}, j.pending # None,
             NEW k, k = [j EXCEPT !.pending.phase = f]
      PROVE  /\ k \in JournalRecords /\ k.removed = j.removed /\ k.pending # None
             /\ k.status = j.status /\ k.source = j.source
  BY <1>3, CleanupFits DEF JournalRecords
<1> DEFINE J == [j EXCEPT !.removed = @ + 1]
<1>4. /\ J \in JournalRecords /\ J.removed = j.removed + 1 /\ J.status = j.status /\ J.source = j.source
  BY <1>1
<1>5. [j EXCEPT !.removed = @ + 1, !.pending = None] = [J EXCEPT !.pending = None]
  OBVIOUS
<1> HIDE DEF J
<1>6. LET k == [J EXCEPT !.pending = None] IN
        /\ k \in JournalRecords /\ k.removed = j.removed + 1 /\ k.pending = None
        /\ k.status = j.status /\ k.source = j.source
  BY <1>2, <1>4
<1> QED BY <1>3, <1>5, <1>6

\* The next resource is gone, not the gateway's, waited for, or to be deleted.
LEMMA CleanupLookHolds ==
  ASSUME CleanupInv, NEW r \in CleanupRequests, Cleanup!Look(r) PROVE CleanupInv'
<1> DEFINE o == itsPass[r].at
           e == Cleanup!NextEntry(o)
           C == [itsJournal[o] EXCEPT !.removed = @ + 1, !.pending = None]
           D == [itsJournal[o] EXCEPT !.pending.phase = "not_applied"]
<1>1. /\ o \in Cleanup!Objects /\ itsJournal[o] \in JournalRecords /\ itsJournal[o].status = "uninstalling"
      /\ itsJournal[o].removed < Len(Cleanup!Entries(o)) /\ itsPass[r].step = "look"
      /\ e \in Cleanup!Resources /\ Len(Cleanup!Entries(o)) \in Nat /\ itsJournal[o].removed \in Nat
      /\ itsJournal[o].pending \in {None} \cup [req : CleanupRequests, phase : {"send_armed", "submitted", "not_applied"}]
      /\ e = Cleanup!Entries(o)[itsJournal[o].removed + 1]
      /\ itsPass[r] \in CleanupPasses /\ itsPass = [itsPass EXCEPT ![r] = itsPass[r]]
      /\ itsJournal = [itsJournal EXCEPT ![o] = itsJournal[o]]
  BY AtWorkHere, NextFits DEF CleanupInv, Cleanup!Look, PassFits, ObjectSteps, JournalRecords,
    Cleanup!NextEntry
<1>2. /\ UNCHANGED <<live, mapped, portal, wire, kept, replayed, used>>
      /\ unknown' = {u \in unknown : itsPass'[r].step = "arm" /\ u[2] = e => u[1] = r}
  BY DEF Cleanup!Look
<1>3. C \in JournalRecords /\ C.removed = itsJournal[o].removed + 1 /\ C.pending = None
      /\ C.status = "uninstalling" /\ C.source = itsJournal[o].source
  BY <1>1, RecordsFit, AtWorkHere DEF JournalRecords
<1>4. CASE live[e] = "gone"
  <2>1. itsJournal' = [itsJournal EXCEPT ![o] = C] /\ itsPass' = itsPass
    BY <1>1, <1>4 DEF Cleanup!Look, Cleanup!Observed, Cleanup!Committed
  <2>2. Works(r, itsPass[r], C)
    BY <1>1, <1>2, <1>3, <2>1, AtWorkHere DEF Works, ObjectSteps
  <2> QED BY <1>1, <1>2, <1>3, <1>4, <2>2, WorkHolds
<1>5. CASE itsJournal' = itsJournal /\ \E a \in {"repair", "retry", "fresh"} : Cleanup!End(r, a)
  <2>1. PICK p \in CleanupPasses :
          itsPass' = [itsPass EXCEPT ![r] = p] /\ p.at = "ended" /\ p.step = "none" /\ p.answer # "removed"
    BY <1>5, CleanupMoves
  <2>2. itsJournal' = [itsJournal EXCEPT ![o] = itsJournal[o]]
    BY <1>5, AtWorkHere
  <2>3. Works(r, p, itsJournal[o])
    BY <1>1, <1>2, <2>1, <2>2, AtWorkHere DEF Works, ObjectSteps
  <2> QED BY <1>1, <1>2, <2>1, <2>3, WorkHolds
<1>6. ASSUME live[e] = "ours", Cleanup!Goto(r, "arm"),
             \/ itsJournal[o].pending = None /\ itsJournal' = itsJournal
             \/ /\ itsJournal[o].pending # None /\ ~Cleanup!Waits(itsJournal[o].pending, r)
                /\ itsJournal' = [itsJournal EXCEPT ![o] = D]
      PROVE  CleanupInv'
  <2>1. PICK p \in CleanupPasses :
          itsPass' = [itsPass EXCEPT ![r] = p] /\ p.at = o /\ p.step = "arm" /\ p.answer = itsPass[r].answer
    BY <1>6, CleanupMoves DEF ObjectSteps
  <2>2. itsPass'[r] = p
    BY <2>1, AtWorkHere
  <2>3. \A u \in unknown' : u[2] # e
    <3> SUFFICES ASSUME NEW u \in unknown, u[1] = r, u[2] = e PROVE FALSE
      BY <1>2, <2>1, <2>2
    <3>1. PICK q \in Cleanup!Objects :
            /\ itsJournal[q].removed < Len(Cleanup!Entries(q)) /\ e = Cleanup!NextEntry(q)
            /\ itsJournal[q].pending = [req |-> r, phase |-> "send_armed"]
      BY <1>6, AtWorkHere DEF UnknownStand
    <3>2. q = o
      BY <1>1, <3>1, NextFits, AtWorkHere DEF CleanupInv
    <3> QED BY <1>6, <3>1, <3>2, CleanupFits DEF Cleanup!Waits
  <2>4. PICK j : /\ itsJournal' = [itsJournal EXCEPT ![o] = j]
                 /\ j = itsJournal[o] \/ (j = D /\ itsJournal[o].pending # None)
    BY <1>1, <1>6
  <2>6. /\ j \in JournalRecords /\ j.removed = itsJournal[o].removed /\ j.status = "uninstalling"
        /\ j.source = itsJournal[o].source
    <3>1. CASE j = itsJournal[o]
      BY <1>1, <3>1, AtWorkHere
    <3>2. CASE j = D /\ itsJournal[o].pending # None
      BY <1>1, AtWorkHere, <3>2, RecordsFit
    <3> QED BY <2>4, <3>1, <3>2
  <2>7. Works(r, p, j)
    <3>1. \A u \in unknown' : u[2] # Cleanup!Entries(o)[j.removed + 1] /\ u \in unknown
      BY <1>1, <1>2, <2>3, <2>6
    <3>2. j.removed < Len(Cleanup!Entries(o)) /\ j.removed <= Len(Cleanup!Entries(o))
      BY <1>1, <2>6
    <3>3. /\ UNCHANGED <<portal, kept>> /\ live' \in [Cleanup!Resources -> {"ours", "foreign", "gone"}]
          /\ used' \in [faults : Nat, hands : Nat]
      BY <1>2, AtWorkHere
    <3> QED BY <1>1, <2>1, <2>4, <2>6, <3>1, <3>2, <3>3 DEF Works, ObjectSteps
  <2> QED BY <1>1, <1>2, <1>6, <2>1, <2>3, <2>6, <2>7, WorkHolds
<1>7. live[e] \in {"ours", "foreign", "gone"}
  BY <1>1, AtWorkHere
<1>8. CASE live[e] = "foreign"
  BY <1>5, <1>8 DEF Cleanup!Look, Cleanup!Observed
<1>9. CASE live[e] = "ours" /\ itsJournal[o].pending = None
  BY <1>6, <1>9 DEF Cleanup!Look, Cleanup!Observed
<1>10. CASE live[e] = "ours" /\ itsJournal[o].pending # None
  BY <1>5, <1>6, <1>10 DEF Cleanup!Look, Cleanup!Observed
<1> QED BY <1>4, <1>7, <1>8, <1>9, <1>10

\* A deletion is believed when the resource reads as gone.
LEMMA CleanupVerifyHolds ==
  ASSUME CleanupInv, NEW r \in CleanupRequests, Cleanup!Verify(r) PROVE CleanupInv'
<1> DEFINE o == itsPass[r].at
           e == Cleanup!NextEntry(o)
           C == [itsJournal[o] EXCEPT !.removed = @ + 1, !.pending = None]
           D == [itsJournal[o] EXCEPT !.pending.phase = "not_applied"]
<1>1. /\ o \in Cleanup!Objects /\ itsJournal[o] \in JournalRecords /\ itsJournal[o].status = "uninstalling"
      /\ itsJournal[o].removed < Len(Cleanup!Entries(o)) /\ itsPass[r].step = "verify"
      /\ e \in Cleanup!Resources /\ Len(Cleanup!Entries(o)) \in Nat /\ itsJournal[o].removed \in Nat
      /\ itsJournal[o].pending # None /\ \A u \in unknown : u[2] # e
      /\ itsJournal = [itsJournal EXCEPT ![o] = itsJournal[o]]
  BY AtWorkHere, NextFits DEF CleanupInv, Cleanup!Verify, PassFits, ObjectSteps, JournalRecords
<1>2. /\ UNCHANGED <<live, mapped, portal, wire, kept, unknown, replayed, used>>
      /\ live' \in [Cleanup!Resources -> {"ours", "foreign", "gone"}] /\ used' \in [faults : Nat, hands : Nat]
  BY AtWorkHere DEF Cleanup!Verify
<1>3. CASE live[e] = "gone"
  <2>1. itsJournal' = [itsJournal EXCEPT ![o] = C] /\ Cleanup!Goto(r, "look")
    BY <1>1, <1>3 DEF Cleanup!Verify, Cleanup!Observed, Cleanup!Committed
  <2>2. PICK p \in CleanupPasses :
          itsPass' = [itsPass EXCEPT ![r] = p] /\ p.at = o /\ p.step = "look" /\ p.answer = itsPass[r].answer
    BY <2>1, CleanupMoves DEF ObjectSteps
  <2>3. /\ C \in JournalRecords /\ C.removed = itsJournal[o].removed + 1 /\ C.pending = None
        /\ C.status = "uninstalling" /\ C.source = itsJournal[o].source
    BY <1>1, RecordsFit
  <2>4. Works(r, p, C)
    BY <1>1, <1>2, <2>1, <2>2, <2>3 DEF Works, ObjectSteps
  <2> QED BY <1>1, <1>2, <1>3, <2>2, <2>3, <2>4, WorkHolds
<1>4. ASSUME NEW j \in JournalRecords, itsJournal' = [itsJournal EXCEPT ![o] = j],
             j.removed = itsJournal[o].removed, j.status = "uninstalling", j.source = itsJournal[o].source,
             \E a \in {"repair", "fresh"} : Cleanup!End(r, a)
      PROVE  CleanupInv'
  <2>1. PICK p \in CleanupPasses :
          itsPass' = [itsPass EXCEPT ![r] = p] /\ p.at = "ended" /\ p.step = "none" /\ p.answer # "removed"
    BY <1>4, CleanupMoves
  <2>2. Works(r, p, j)
    BY <1>1, <1>2, <1>4, <2>1 DEF Works, ObjectSteps
  <2> QED BY <1>1, <1>2, <1>4, <2>1, <2>2, WorkHolds
<1>5. D \in JournalRecords /\ D.removed = itsJournal[o].removed /\ D.status = "uninstalling" /\ D.source = itsJournal[o].source
  BY <1>1, RecordsFit
<1>6. live[e] \in {"ours", "foreign", "gone"}
  BY <1>1, AtWorkHere
<1>7. CASE live[e] = "foreign"
  BY <1>1, <1>4, <1>7 DEF Cleanup!Verify, Cleanup!Observed
<1>8. CASE live[e] = "ours"
  BY <1>1, <1>8, <1>4, <1>5 DEF Cleanup!Verify, Cleanup!Observed
<1> QED BY <1>3, <1>6, <1>7, <1>8

\* The journal closes when all of it is gone.
LEMMA CleanupFinishHolds ==
  ASSUME CleanupInv, NEW r \in CleanupRequests, Cleanup!Finish(r) PROVE CleanupInv'
<1> DEFINE o == itsPass[r].at
           j == [itsJournal[o] EXCEPT !.status = "removed", !.pending = None]
<1>1. /\ o \in Cleanup!Objects /\ itsJournal[o] \in JournalRecords /\ itsJournal[o].pending = None
      /\ itsJournal[o].removed = Len(Cleanup!Entries(o)) /\ itsPass[r].step = "look"
      /\ Len(Cleanup!Entries(o)) \in Nat
  <2>1. CleanupTyped
    BY DEF CleanupInv
  <2>2. itsPass[r].step = "look" /\ o \in Cleanup!Objects /\ itsJournal[o].removed = Len(Cleanup!Entries(o))
    BY AtWorkHere DEF Cleanup!Finish, PassFits, ObjectSteps
  <2>3. itsJournal[o] \in JournalRecords /\ Cleanup!StoredState(o) /\ Len(Cleanup!Entries(o)) \in Nat
    BY <2>1, <2>2, AtWorkHere, NextFits
  <2>4. itsJournal[o].pending = None
    BY <2>2, <2>3 DEF Cleanup!StoredState
  <2> QED BY <2>2, <2>3, <2>4
<1>2. /\ UNCHANGED <<live, mapped, portal, wire, kept, unknown, replayed, used>>
      /\ live' \in [Cleanup!Resources -> {"ours", "foreign", "gone"}] /\ used' \in [faults : Nat, hands : Nat]
      /\ itsJournal' = [itsJournal EXCEPT ![o] = j]
  BY <1>1, AtWorkHere DEF Cleanup!Finish
<1>3. /\ j \in JournalRecords /\ j.status = "removed" /\ j.pending = None /\ j.source = itsJournal[o].source
      /\ j.removed = itsJournal[o].removed
  BY <1>1 DEF JournalRecords
<1>4. \E p \in CleanupPasses :
        /\ itsPass' = [itsPass EXCEPT ![r] = p]
        /\ \/ p.at = "between" /\ p.step = "none" /\ p.answer = itsPass[r].answer /\ o = "sources"
           \/ p.at = "ended" /\ p.step = "none" /\ o = "root"
  <2>1. CASE o = "sources"
    <3> DEFINE p == [itsPass[r] EXCEPT !.at = "between", !.step = "none"]
    <3>1. p \in CleanupPasses /\ p.at = "between" /\ p.step = "none" /\ p.answer = itsPass[r].answer
      BY AtWorkHere DEF CleanupPasses
    <3>2. itsPass' = [itsPass EXCEPT ![r] = p]
      BY <2>1 DEF Cleanup!Finish
    <3> QED BY <2>1, <3>1, <3>2
  <2>2. CASE o # "sources"
    BY <1>1, <2>2, CleanupMoves DEF Cleanup!Finish, Cleanup!Objects
  <2> QED BY <2>1, <2>2
<1>5. PICK p \in CleanupPasses :
        /\ itsPass' = [itsPass EXCEPT ![r] = p]
        /\ \/ p.at = "between" /\ p.step = "none" /\ p.answer = itsPass[r].answer /\ o = "sources"
           \/ p.at = "ended" /\ p.step = "none" /\ o = "root"
  BY <1>4
<1>6. Works(r, p, j)
  BY <1>1, <1>2, <1>3, <1>5 DEF Works, ObjectSteps
<1> QED BY <1>1, <1>2, <1>3, <1>5, <1>6, WorkHolds

\* What is gone stays gone, whatever else a step changes.
LEMMA GoneHolds ==
  ASSUME CleanupInv, itsJournal'["root"].source = itsJournal["root"].source,
         Cleanup!HasControl' = Cleanup!HasControl,
         \A e \in Cleanup!Resources : live[e] = "gone" => live'[e] = "gone",
         \A o \in Cleanup!Objects :
           \/ itsJournal'[o].removed = itsJournal[o].removed
           \/ /\ itsJournal'[o].removed = itsJournal[o].removed + 1
              /\ itsJournal[o].removed < Len(Cleanup!Entries(o)) /\ live[Cleanup!NextEntry(o)] = "gone",
         itsJournal["root"].status = "ready" => itsJournal'["root"].status = "ready"
  PROVE  RemovedGone' /\ Cleanup!SourcesFirst'
<1>1. CleanupTyped /\ RemovedGone /\ Cleanup!SourcesFirst /\ \A o : Cleanup!Entries(o)' = Cleanup!Entries(o)
  BY EntriesStay DEF CleanupInv
<1>2. RemovedGone'
  <2> SUFFICES ASSUME NEW o \in Cleanup!Objects, NEW i \in 1..itsJournal'[o].removed
               PROVE  live'[Cleanup!Entries(o)[i]] = "gone"
    BY <1>1 DEF RemovedGone
  <2>1. itsJournal[o].removed \in Nat /\ itsJournal[o].removed <= Len(Cleanup!Entries(o)) /\ Len(Cleanup!Entries(o)) \in Nat
    BY <1>1, NextFits DEF CleanupTyped, JournalRecords, Cleanup!StoredState
  <2>2. i \in 1..itsJournal[o].removed \/ (i = itsJournal[o].removed + 1 /\ i <= Len(Cleanup!Entries(o)) /\ live[Cleanup!NextEntry(o)] = "gone")
    BY <2>1
  <2>3. i \in 1..Len(Cleanup!Entries(o))
    BY <2>1, <2>2
  <2> QED BY <1>1, <2>2, <2>3, NextFits DEF RemovedGone, Cleanup!NextEntry
<1>3. Cleanup!SourcesFirst'
  BY <1>1, EntriesFit DEF Cleanup!SourcesFirst
<1> QED BY <1>2, <1>3

\* The DELETE: only the resource of the step is touched, and its answer may be missing.
LEMMA CleanupSendHolds ==
  ASSUME CleanupInv, NEW r \in CleanupRequests, Cleanup!Send(r) PROVE CleanupInv'
<1> DEFINE o == itsPass[r].at
           e == Cleanup!NextEntry(o)
           C == [itsJournal[o] EXCEPT !.removed = @ + 1, !.pending = None]
           D(f) == [itsJournal[o] EXCEPT !.pending.phase = f]
<1>1. /\ o \in Cleanup!Objects /\ itsJournal[o] \in JournalRecords /\ itsJournal[o].status = "uninstalling"
      /\ itsJournal[o].removed < Len(Cleanup!Entries(o)) /\ itsPass[r].step = "send"
      /\ e \in Cleanup!Resources /\ Len(Cleanup!Entries(o)) \in Nat /\ itsJournal[o].removed \in Nat
      /\ itsJournal[o].pending = [req |-> r, phase |-> "send_armed"] /\ itsJournal[o].pending # None
      /\ \A u \in unknown : u[2] # e
      /\ itsJournal = [itsJournal EXCEPT ![o] = itsJournal[o]]
      /\ (e \in Added => portal = "complete")
  BY AtWorkHere, CleanupFits, NextFits DEF CleanupInv, Cleanup!Send, PassFits, ObjectSteps,
    JournalRecords
<1>2. UNCHANGED <<mapped, portal, kept>> /\ ~replayed'
  BY <1>1, AtWorkHere DEF Cleanup!Send
<1>3. /\ live' \in [Cleanup!Resources -> {"ours", "foreign", "gone"}] /\ used' \in [faults : Nat, hands : Nat]
      /\ used'.hands = used.hands
      /\ live' = live \/ live' = [live EXCEPT ![e] = "gone"]
      /\ wire' = wire \/ wire' = wire \cup {e}
      /\ unknown' = unknown \/ (unknown' = unknown \cup {<<r, e>>} /\ itsJournal' = itsJournal)
  BY <1>1, AtWorkHere DEF Cleanup!Send, Cleanup!Deleted, Cleanup!Fault
<1>4. PICK p \in CleanupPasses :
        /\ itsPass' = [itsPass EXCEPT ![r] = p]
        /\ \/ p.at = o /\ p.step = "verify" /\ p.answer = itsPass[r].answer
              /\ unknown' = unknown /\ itsJournal' = [itsJournal EXCEPT ![o] = D("submitted")]
           \/ p.at = o /\ p.step = "look" /\ p.answer = itsPass[r].answer
              /\ itsJournal' = [itsJournal EXCEPT ![o] = C] /\ live[e] = "gone"
              /\ unknown' = unknown
           \/ p.at = "ended" /\ p.step = "none" /\ p.answer # "removed"
              /\ (itsJournal' = itsJournal \/ (itsJournal' = [itsJournal EXCEPT ![o] = D("not_applied")] /\ unknown' = unknown))
  <2>1. \/ Cleanup!Goto(r, "verify") /\ unknown' = unknown /\ itsJournal' = [itsJournal EXCEPT ![o] = D("submitted")]
        \/ Cleanup!Goto(r, "look") /\ itsJournal' = [itsJournal EXCEPT ![o] = C] /\ live[e] = "gone" /\ unknown' = unknown
        \/ /\ \E a \in {"fresh", "blocked", "retry"} : Cleanup!End(r, a)
           /\ itsJournal' = itsJournal \/ (itsJournal' = [itsJournal EXCEPT ![o] = D("not_applied")] /\ unknown' = unknown)
    BY <1>1 DEF Cleanup!Send, Cleanup!Committed
  <2> QED BY <2>1, CleanupMoves DEF ObjectSteps
<1>5. PICK j \in JournalRecords :
        /\ itsJournal' = [itsJournal EXCEPT ![o] = j] /\ j.status = "uninstalling" /\ j.source = itsJournal[o].source
        /\ \/ j.removed = itsJournal[o].removed /\ j.pending # None /\ (itsJournal' = itsJournal => j = itsJournal[o])
           \/ j.removed = itsJournal[o].removed + 1 /\ j.pending = None /\ live[e] = "gone" /\ p.step = "look"
        /\ p.step = "look" => j.pending = None
        /\ unknown' = unknown \/ j = itsJournal[o]
  <2>1. CASE itsJournal' = [itsJournal EXCEPT ![o] = C] /\ live[e] = "gone" /\ unknown' = unknown /\ p.step = "look"
    <3>1. /\ C \in JournalRecords /\ C.removed = itsJournal[o].removed + 1 /\ C.pending = None
          /\ C.status = "uninstalling" /\ C.source = itsJournal[o].source
      BY <1>1, RecordsFit
    <3> QED BY <2>1, <3>1
  <2>2. CASE \E f \in {"submitted", "not_applied"} : itsJournal' = [itsJournal EXCEPT ![o] = D(f)] /\ unknown' = unknown /\ p.step # "look"
    <3>1. PICK f \in {"submitted", "not_applied"} : itsJournal' = [itsJournal EXCEPT ![o] = D(f)]
      BY <2>2
    <3>2. /\ D(f) \in JournalRecords /\ D(f).removed = itsJournal[o].removed /\ D(f).pending # None
          /\ D(f).status = "uninstalling" /\ D(f).source = itsJournal[o].source
      <4>1. itsJournal[o] \in JournalRecords /\ itsJournal[o].pending # None /\ f \in {"send_armed", "submitted", "not_applied"}
        BY <1>1
      <4> QED BY <1>1, <4>1, RecordsFit
    <3>3. itsJournal'[o] = D(f)
      BY <1>1, <3>1, AtWorkHere
    <3> QED BY <1>1, <2>2, <3>1, <3>2, <3>3
  <2>3. CASE itsJournal' = itsJournal /\ p.step # "look"
    BY <1>1, <2>3
  <2> QED BY <1>4, <2>1, <2>2, <2>3
<1>6. Works(r, p, j)
  <2>1. \A u \in unknown' : u \in unknown \/ u[2] = e
    BY <1>3
  <2>2. p.step \in {"arm", "send", "verify"} =>
          /\ j.removed < Len(Cleanup!Entries(o)) /\ j.pending # None
          /\ \A u \in unknown' : u[2] # Cleanup!Entries(o)[j.removed + 1]
    BY <1>1, <1>4, <1>5 DEF Cleanup!NextEntry
  <2>3. /\ p.step # "send" /\ j.removed <= Len(Cleanup!Entries(o))
        /\ (j.pending # None => j.removed < Len(Cleanup!Entries(o)))
    BY <1>1, <1>4, <1>5
  <2> QED BY <1>1, <1>2, <1>3, <1>4, <1>5, <2>1, <2>2, <2>3 DEF Works, ObjectSteps
<1>7. Turn(r) /\ itsPass'[r] = p
  BY <1>4, <1>6, WorkTurns, AtWorkHere
<1>8. CleanupTyped' /\ CleanersStand' /\ CleanersApart'
  BY <1>7, TurnHolds
<1>9. /\ itsJournal'[o] = j /\ \A q \in Cleanup!Objects \ {o} : itsJournal'[q] = itsJournal[q]
      /\ itsJournal'["root"].source = itsJournal["root"].source
      /\ \A q : Cleanup!Entries(q)' = Cleanup!Entries(q)
  BY <1>1, <1>5, <1>7, AtWorkHere, EntriesStay DEF Turn
<1>10. RemovedGone' /\ Cleanup!SourcesFirst'
  BY <1>7, <1>1, <1>9, AtWorkHere, <1>3, <1>5, GoneHolds DEF Turn, Cleanup!HasControl
<1>11. KeptStand'
  <2> SUFFICES ASSUME NEW x \in kept \ {Cleanup!Portal}
               PROVE  live'[x] = "foreign" /\ ~Cleanup!Deleting(x)'
    BY <1>2 DEF KeptStand
  <2>1. live[x] = "foreign" /\ ~Cleanup!Deleting(x) /\ x \in Cleanup!Resources
    BY DEF CleanupInv, KeptStand, CleanupTyped
  <2>2. x # e
    BY <1>1, <2>1 DEF Cleanup!Deleting
  <2>3. ASSUME NEW s \in CleanupRequests, itsPass'[s].step \in {"arm", "send"}, Cleanup!NextEntry(itsPass[s].at)' = x PROVE FALSE
    <3>1. s # r /\ itsPass'[s] = itsPass[s]
      BY <1>4, <1>7, <2>3, AtWorkHere
    <3>2. itsPass[s].at \in Cleanup!Objects /\ itsPass[s].at # o
      BY <1>1, <2>3, <3>1, AtWorkHere DEF PassFits, CleanupInv, CleanersApart
    <3>3. Cleanup!NextEntry(itsPass[s].at)' = Cleanup!NextEntry(itsPass[s].at)
      BY <1>9, <3>1, <3>2 DEF Cleanup!NextEntry
    <3> QED BY <2>1, <2>3, <3>1, <3>3 DEF Cleanup!Deleting
  <2> QED BY <1>3, <2>1, <2>2, <2>3, AtWorkHere DEF Cleanup!Deleting
<1>12. MappedStand' /\ PortalDone'
  BY <1>9, EntriesStay, <1>1, <1>3, AtWorkHere, <1>2 DEF CleanupInv, Added, MappedStand, PortalDone
<1>13. UnknownStand'
  <2> SUFFICES ASSUME NEW u \in unknown'
               PROVE  /\ u[2] \in Cleanup!Resources
                      /\ \/ live'[u[2]] = "gone"
                         \/ \E q \in Cleanup!Objects :
                              /\ itsJournal'[q].removed < Len(Cleanup!Entries(q)') /\ u[2] = Cleanup!NextEntry(q)'
                              /\ itsJournal'[q].pending = [req |-> u[1], phase |-> "send_armed"]
    BY DEF UnknownStand
  <2>1. CASE u \in unknown
    <3>1. u[2] \in Cleanup!Resources /\ u[2] # e
      BY <1>1, <2>1, AtWorkHere DEF UnknownStand
    <3>2. CASE live[u[2]] = "gone"
      BY <1>3, <3>1, <3>2, AtWorkHere
    <3>3. CASE \E q \in Cleanup!Objects :
                 /\ itsJournal[q].removed < Len(Cleanup!Entries(q)) /\ u[2] = Cleanup!NextEntry(q)
                 /\ itsJournal[q].pending = [req |-> u[1], phase |-> "send_armed"]
      BY <1>9, <3>1, <3>3 DEF Cleanup!NextEntry
    <3> QED BY <2>1, <3>1, <3>2, <3>3, AtWorkHere DEF UnknownStand
  <2>2. CASE u = <<r, e>> /\ itsJournal' = itsJournal
    BY <1>1, <1>9, <2>2 DEF Cleanup!NextEntry
  <2> QED BY <1>3, <2>1, <2>2
<1> QED BY <1>2, <1>8, <1>10, <1>11, <1>12, <1>13, AtWorkHere DEF CleanupInv

\* The Portal and its update among the resources.
LEMMA PortalApart ==
  /\ Cleanup!Portal \in Cleanup!Resources /\ Cleanup!Portal \notin Added
  /\ Cleanup!Update \notin Cleanup!Resources /\ Cleanup!Update \notin Added
BY EntriesFit, CleanupFits DEF Cleanup!Portal, Cleanup!Resources, Cleanup!PortalKinds,
  Cleanup!Update, Cleanup!Extras, Cleanup!SourceKinds, Added

\* A step at Cloudflare that leaves the journals alone.
LEMMA WorldHolds ==
  ASSUME CleanupInv, UNCHANGED <<itsJournal, unknown, replayed>>,
         CleanupTyped', CleanersStand', CleanersApart', KeptStand', MappedStand', PortalDone',
         \A e \in Cleanup!Resources : live[e] = "gone" => live'[e] = "gone"
  PROVE  CleanupInv'
BY GoneHolds, UnknownKept DEF Cleanup!HasControl, CleanupInv

\* The update of the Portal, applied at once, later or never.
LEMMA CleanupPortalSendHolds ==
  ASSUME CleanupInv, NEW r \in CleanupRequests, Cleanup!PortalSend(r) PROVE CleanupInv'
<1>1. /\ UNCHANGED <<itsJournal, kept, unknown, replayed>>
      /\ used' \in [faults : Nat, hands : Nat] /\ used'.hands = used.hands
      /\ itsPass[r].step = "portalSend" /\ itsPass[r].at = "sources" /\ portal # "complete"
      /\ itsJournal["sources"].status = "uninstalling"
  <2>1. itsPass[r].step = "portalSend" /\ UNCHANGED <<itsJournal, kept, unknown, replayed>>
    BY DEF Cleanup!PortalSend
  <2>2. used' = used \/ Cleanup!Fault
    BY DEF Cleanup!PortalSend
  <2>3. used' \in [faults : Nat, hands : Nat] /\ used'.hands = used.hands
    BY <2>2, AtWorkHere DEF Cleanup!Fault
  <2> QED BY <2>1, <2>3, AtWorkHere DEF PassFits, PortalSteps
<1>2. /\ live' = live \/ (live[Cleanup!Portal] # "gone" /\ live' = [live EXCEPT ![Cleanup!Portal] = "ours"])
      /\ mapped' \in {mapped, Cleanup!RootOnly}
      /\ wire' \subseteq wire \cup {Cleanup!Update}
      /\ portal' \in {"not_started", "send_armed", "submitted", "complete"} /\ portal' # "complete"
      /\ live' # live => mapped' = Cleanup!RootOnly
  BY <1>1, AtWorkHere DEF Cleanup!PortalSend, Cleanup!Updated
<1>3. PICK p \in CleanupPasses :
        /\ itsPass' = [itsPass EXCEPT ![r] = p]
        /\ \/ p.at = "sources" /\ p.step = "portalVerify" /\ p.answer = itsPass[r].answer
           \/ p.at = "ended" /\ p.step = "none" /\ p.answer # "removed"
  BY <1>1, CleanupMoves DEF Cleanup!PortalSend, PortalSteps
<1>4. itsPass'[r] = p /\ itsPass' \in [CleanupRequests -> CleanupPasses]
      /\ \A s \in CleanupRequests \ {r} : itsPass'[s] = itsPass[s]
  BY <1>3, AtWorkHere
<1>5. PassFits(r, itsPass[r])'
  BY <1>1, <1>3, <1>4, AtWorkHere DEF Cleanup!HasControl, PassFits, PortalSteps, ObjectSteps
<1>6. /\ live' \in [Cleanup!Resources -> {"ours", "foreign", "gone"}]
      /\ \A e \in Cleanup!Resources : live[e] = "gone" => live'[e] = "gone"
      /\ \A e \in Cleanup!Resources \ {Cleanup!Portal} : live'[e] = live[e]
  BY <1>2, AtWorkHere, PortalApart
<1>7. Turn(r)
  BY <1>1, <1>2, <1>3, <1>4, <1>5, <1>6, AtWorkHere DEF Turn, Mine
<1>8. KeptStand'
  <2>1. \A s \in CleanupRequests : itsPass'[s].step \in {"arm", "send"} => itsPass'[s] = itsPass[s]
    BY <1>3, <1>4
  <2>2. \A o : Cleanup!NextEntry(o)' = Cleanup!NextEntry(o)
    BY <1>1 DEF Cleanup!NextEntry, Cleanup!Entries, Cleanup!RootEntries, Cleanup!RootKinds, Cleanup!RootSource
  <2>3. \A e \in Cleanup!Resources : Cleanup!Deleting(e)' => Cleanup!Deleting(e)
    BY <1>2, <2>1, <2>2, PortalApart DEF Cleanup!Deleting
  <2> QED BY <1>1, <1>6, <2>3 DEF KeptStand, CleanupInv, CleanupTyped
<1>9. MappedStand' /\ PortalDone'
  BY <1>1, <1>2, <1>6, PortalApart DEF CleanupInv, Cleanup!RootOnly, Cleanup!RootSource, Added,
    MappedStand, PortalDone
<1> QED BY <1>1, <1>6, <1>7, <1>8, <1>9, TurnHolds, WorldHolds

\* What is accepted takes effect, or somebody changes a resource.
LEMMA CleanupWorldHolds ==
  ASSUME CleanupInv,
         \/ \E x \in Cleanup!Resources \cup {Cleanup!Update} : Cleanup!Land(x)
         \/ \E e \in Cleanup!Resources : Cleanup!Hand(e)
  PROVE  CleanupInv'
<1>1. /\ CleanupTyped /\ CleanersStand /\ CleanersApart /\ KeptStand /\ MappedStand /\ PortalDone
      /\ UNCHANGED <<itsJournal, itsPass, portal, unknown, replayed>>
  BY DEF CleanupInv, Cleanup!Land, Cleanup!Hand
<1>2. \A o : /\ Cleanup!NextEntry(o)' = Cleanup!NextEntry(o) /\ Cleanup!Entries(o)' = Cleanup!Entries(o)
  BY <1>1 DEF Cleanup!NextEntry, Cleanup!Entries, Cleanup!RootEntries, Cleanup!RootKinds, Cleanup!RootSource
<1>3. CleanersStand' /\ CleanersApart'
  BY <1>1, <1>2 DEF CleanersStand, CleanersApart, PassFits, Cleanup!HasControl
<1>4. Cleanup!RootOnly' = Cleanup!RootOnly
  BY <1>1 DEF Cleanup!RootOnly, Cleanup!RootSource
<1>5. ASSUME live' \in [Cleanup!Resources -> {"ours", "foreign", "gone"}],
             used' \in [faults : Nat, hands : Nat], kept' \subseteq Cleanup!Resources
      PROVE  CleanupTyped'
  BY <1>1, <1>2, <1>5 DEF CleanupTyped, Cleanup!StoredState
<1>6. ASSUME NEW x \in Cleanup!Resources \cup {Cleanup!Update}, Cleanup!Land(x) PROVE CleanupInv'
  BY <1>6, <1>1, PortalApart, <1>2, <1>4, <1>3, <1>5, WorldHolds DEF Cleanup!Land, Cleanup!Updated,
    Cleanup!Deleted, CleanupTyped, Cleanup!Deleting, KeptStand, MappedStand, PortalDone, Added
<1>7. ASSUME NEW e \in Cleanup!Resources, Cleanup!Hand(e) PROVE CleanupInv'
  <2>1. PICK how \in {"foreign", "gone"} :
          /\ live' = [live EXCEPT ![e] = how]
          /\ kept' = IF how = "foreign" /\ ~Cleanup!Deleting(e) THEN kept \cup {e} ELSE kept
    BY <1>7 DEF Cleanup!Hand
  <2>2. /\ live[e] = "ours" /\ UNCHANGED <<mapped, wire>>
        /\ used' \in [faults : Nat, hands : Nat] /\ used'.hands # 0
    BY <1>1, <1>7 DEF Cleanup!Hand, CleanupTyped
  <2>3. /\ live' \in [Cleanup!Resources -> {"ours", "foreign", "gone"}] /\ kept' \subseteq Cleanup!Resources
        /\ \A x \in Cleanup!Resources : live[x] = "gone" => live'[x] = "gone"
    BY <1>1, <2>1, <2>2 DEF CleanupTyped
  <2>4. KeptStand'
    BY <1>1, <1>2, <2>2, <2>1, <2>3 DEF Cleanup!Deleting, KeptStand, CleanupTyped
  <2>5. MappedStand' /\ PortalDone'
    BY <1>1, <1>4, <2>2 DEF MappedStand, PortalDone
  <2> QED BY <1>1, <1>3, <1>5, <2>2, <2>3, <2>4, <2>5, WorldHolds
<1> QED BY <1>6, <1>7

\* The invariant holds initially, is preserved, and implies the safety.
LEMMA CleanupInitHolds == Cleanup!Init => CleanupInv
<1> SUFFICES ASSUME Cleanup!Init PROVE CleanupInv
  OBVIOUS
<1>1. PICK control \in BOOLEAN, source \in BOOLEAN :
        /\ live = [e \in Cleanup!Resources |->
              IF (e[1] # 0 /\ ~control)
                 \/ (e[1] = 0 /\ ~source /\ \E i \in 1..3 : e[2] = Cleanup!SourceKinds[i])
              THEN "gone" ELSE "ours"]
        /\ mapped = (IF source THEN {0} ELSE {}) \cup (IF control THEN Cleanup!Extras ELSE {})
        /\ itsJournal = [o \in Cleanup!Objects |->
              [status |-> IF o = "root" THEN "ready" ELSE IF control THEN "none" ELSE "no_control",
               source |-> source, removed |-> 0, pending |-> None]]
  BY DEF Cleanup!Init
<1>2. /\ itsPass = [r \in CleanupRequests |-> [at |-> "idle", step |-> "none", answer |-> None]]
      /\ portal = "not_started" /\ wire = {} /\ kept = {} /\ unknown = {} /\ ~replayed
      /\ used = [faults |-> 0, hands |-> 0]
  BY DEF Cleanup!Init, Cleanup!Claim
<1>3. /\ \A o \in Cleanup!Objects : itsJournal[o].removed = 0 /\ itsJournal[o].pending = None
      /\ itsJournal["root"].status = "ready" /\ itsJournal["root"].source = source
      /\ (itsJournal["sources"].status = "no_control") = ~control /\ itsJournal["sources"].status \in {"no_control", "none"}
      /\ itsJournal \in [Cleanup!Objects -> JournalRecords]
  BY <1>1 DEF Cleanup!Objects, JournalRecords
<1>4. CleanupTyped
  BY <1>1, <1>2, <1>3, EntriesFit, RootEntriesFit, CleanupFits DEF CleanupPasses, Cleanup!Entries,
    Cleanup!Objects, Cleanup!RootSource, Cleanup!StoredState, CleanupTyped
<1>5. CleanersStand /\ CleanersApart
  BY <1>2, CleanupFits DEF CleanersStand, CleanersApart, PassFits, PortalSteps, ObjectSteps, Cleanup!Objects
<1>6. MappedStand
  BY <1>3, <1>1, <1>2 DEF Cleanup!RootOnly, Cleanup!RootSource, MappedStand, Added
<1>7. RemovedGone /\ Cleanup!SourcesFirst
  BY <1>3 DEF RemovedGone, Cleanup!SourcesFirst
<1> QED BY <1>2, <1>4, <1>5, <1>6, <1>7 DEF CleanupInv, KeptStand, PortalDone, UnknownStand

LEMMA CleanupStepHolds == CleanupInv /\ [Cleanup!Next]_(Cleanup!vars) => CleanupInv'
<1> SUFFICES ASSUME CleanupInv, [Cleanup!Next]_(Cleanup!vars) PROVE CleanupInv'
  OBVIOUS
<1>1. ASSUME NEW r \in CleanupRequests,
             Cleanup!Enter(r) \/ Cleanup!EnterRoot(r) \/ Cleanup!Step(r) \/ Cleanup!Stop(r) \/ Cleanup!Again(r)
      PROVE  CleanupInv'
  BY <1>1, CleanupEnterHolds, CleanupEnterRootHolds, CleanupEndsHolds, CleanupPortalHolds, CleanupPortalSendHolds,
     CleanupLookHolds, CleanupArmHolds, CleanupSendHolds, CleanupVerifyHolds, CleanupFinishHolds DEF Cleanup!Step
<1>2. CASE UNCHANGED Cleanup!vars
  <2>1. UNCHANGED <<live, mapped, itsJournal, portal, itsPass, wire, kept, unknown, replayed, used>>
    BY <1>2 DEF Cleanup!vars
  <2>2. \A o : Cleanup!NextEntry(o)' = Cleanup!NextEntry(o) /\ Cleanup!Entries(o)' = Cleanup!Entries(o)
    BY <2>1 DEF Cleanup!NextEntry, Cleanup!Entries, Cleanup!RootEntries, Cleanup!RootKinds, Cleanup!RootSource
  <2>3. CleanupTyped' /\ CleanersStand' /\ CleanersApart'
    BY <2>1, <2>2 DEF CleanupInv, CleanupTyped, CleanersStand, CleanersApart, PassFits, Cleanup!HasControl, Cleanup!StoredState
  <2>4. KeptStand' /\ MappedStand' /\ PortalDone'
    BY <2>1, <2>2 DEF CleanupInv, KeptStand, MappedStand, PortalDone, Cleanup!Deleting, Cleanup!RootOnly, Cleanup!RootSource
  <2> QED BY <2>1, <2>3, <2>4, WorldHolds
<1> QED BY <1>1, <1>2, CleanupWorldHolds DEF Cleanup!Next

LEMMA CleanupInvIsSafe == CleanupInv => Cleanup!Safe
<1> SUFFICES ASSUME CleanupInv PROVE Cleanup!Safe
  OBVIOUS
<1>1. /\ CleanupTyped /\ CleanersStand /\ RemovedGone /\ KeptStand /\ MappedStand /\ Cleanup!SourcesFirst /\ ~replayed
  BY DEF CleanupInv
<1>2. Cleanup!TypeOK /\ Cleanup!ForeignKept /\ Cleanup!UnknownNotReplayed
  BY <1>1 DEF CleanupTyped, KeptStand, Cleanup!TypeOK, Cleanup!ForeignKept, Cleanup!UnknownNotReplayed
<1>3. Cleanup!RemovedIsGone
  BY <1>1 DEF Cleanup!Objects, Cleanup!Entries, CleanupTyped, Cleanup!StoredState,
    Cleanup!RemovedIsGone, RemovedGone, CleanersStand, PassFits
<1>4. Cleanup!MappedIsPresent
  BY <1>1, EntriesFit DEF Cleanup!MappedIsPresent, MappedStand, Cleanup!RootOnly
<1> QED BY <1>1, <1>2, <1>3, <1>4 DEF Cleanup!Safe

\* What a journal lists as removed is gone and a request answered "removed" left nothing, what
\* somebody took over is kept, the Portal offers no deleted source, the root waits for every
\* source, and no request repeats a deletion it got no answer for: uninstallJournal of both objects
\* of the cleanup Worker, for any number of requests, sources, faults and changes by hand.
THEOREM CleanupSafety == Cleanup!Spec => []Cleanup!Safe
<1>1. Cleanup!Init => CleanupInv
  BY CleanupInitHolds
<1>2. CleanupInv /\ [Cleanup!Next]_(Cleanup!vars) => CleanupInv'
  BY CleanupStepHolds
<1>3. CleanupInv => Cleanup!Safe
  BY CleanupInvIsSafe
<1> QED BY <1>1, <1>2, <1>3, PTL DEF Cleanup!Spec

\* The same in the run: the behaviours of its three parts are those of CleanupWorker.
THEOREM CleanupInRun == AnySpec => []CleanupIsSafe
<1> DEFINE Inv == part \in {"cleanup", "plain", "replay"} => CleanupInv
<1>1. AnyInit => Inv
  BY CleanupInitHolds DEF AnyInit, UpdateInit, UpdatesInit, GatewayInit, MeddledInit, RootInit,
     CleanupInit, PlainInit, ReplayInit
<1>2. Inv /\ [AnyNext]_allVars => Inv'
  <2> SUFFICES ASSUME Inv, [AnyNext]_allVars, part' \in {"cleanup", "plain", "replay"}
               PROVE  CleanupInv'
    OBVIOUS
  <2>1. CASE CleanupNext \/ PlainNext \/ ReplayNext
    BY <2>1, CleanupStepHolds DEF CleanupNext, PlainNext, ReplayNext
  <2>2. CASE UNCHANGED allVars
    BY <2>2, CleanupStepHolds DEF allVars, Cleanup!vars
  <2>3. ~(UpdateNext \/ UpdatesNext \/ GatewayNext \/ MeddledNext \/ RootNext)
    BY DEF UpdateNext, UpdatesNext, GatewayNext, MeddledNext, RootNext
  <2> QED BY <2>1, <2>2, <2>3 DEF AnyNext
<1>3. Inv => CleanupIsSafe
  BY CleanupInvIsSafe DEF CleanupIsSafe
<1> QED BY <1>1, <1>2, <1>3, PTL DEF AnySpec

===============================================================================
