--------------------------- MODULE RuntimeUpdate ---------------------------
(***************************************************************************)
(* A gateway replaces its own Worker (customer-operation-router.ts,        *)
(* customer-update-driver.ts, customer-runtime-update.ts, the handover in  *)
(* customer-gateway-entrypoint.ts, and the update journal of               *)
(* payload/worker/index.js).                                               *)
(*                                                                         *)
(* An administrator prepares an action in the journal and approves it in   *)
(* the browser, or the management token does; the driver keeps the grant   *)
(* in memory and runs one pass in an alarm: read the running version, load *)
(* the target, upload its assets, store a handover, upload the script.     *)
(* The upload replaces the code that runs: the object restarts on the      *)
(* target and its alarm finishes the journal from the handover.  A release *)
(* is a number, its digest included; time is the set of expired actions.   *)
(* The object may restart between any two steps, an answer may be lost and *)
(* a script upload without an answer may still land later.                 *)
(***************************************************************************)
EXTENDS Naturals, FiniteSets

CONSTANTS MaxRelease,   \* releases are 1 .. MaxRelease
          MaxActions,   \* bound on prepared actions
          MaxAttempts,  \* bound on approvals that were started
          MaxOutside,   \* bound on deployments made outside the gateway
          MaxFaults     \* bound on restarts and on requests that fail

(* There is a release to begin with.                                         *)
ASSUME BoundsAssumption ==
  /\ MaxRelease \in Nat \ {0}
  /\ MaxActions \in Nat /\ MaxAttempts \in Nat /\ MaxOutside \in Nat /\ MaxFaults \in Nat

VARIABLES
  served,   \* the release Cloudflare has active for the Worker
  running,  \* the release the management object runs
  journal,  \* UPDATES_KEY
  expired,  \* actions whose expiresAt is past
  floor,    \* minimumRuntimeRelease of the Team record, 0 for null
  other,    \* another lifecycle change that is open: "team", or an "edit" of a source, credential or teardown
  slot,     \* the operation attempt record: [id, phase], id 0 for none
  att,      \* the approvals: where each request is and what it approves
  pending,  \* the driver's #pending, in memory: an approval or 0
  grant,    \* the consent grant of each approval
  outcome,  \* the driver's outcome record
  pass,     \* the driver's pass: [att, at]
  armed,    \* uploadArmed, in memory
  handover, \* RUNTIME_HANDOVER_KEY
  alarm,    \* an alarm is set
  flying,   \* a script upload without an answer, still on its way: its target or 0
  sent,     \* actions whose script was sent
  outside, faults

store  == <<journal, floor, other>>
router == <<slot, att>>
driver == <<pending, grant, outcome>>
cloud  == <<served, flying>>
bounds == <<outside, faults>>
vars   == <<served, running, journal, expired, floor, other, slot, att, pending, grant, outcome, pass,
            armed, handover, alarm, flying, sent, outside, faults>>

Releases == 1..MaxRelease
Actions  == 1..MaxActions
Attempts == 1..MaxAttempts
NoAction   == [op |-> "none", from |-> 0, to |-> 0, status |-> "none", stage |-> "none", failure |-> "none"]
NoSlot     == [id |-> 0, phase |-> "none"]
NoOutcome  == [att |-> 0, status |-> "none", result |-> "none", target |-> 0]
NoPass     == [att |-> 0, at |-> "none"]
NoHandover == [action |-> 0, target |-> 0, late |-> FALSE]

Ended == {"none", "succeeded", "failed"}
ActionOf(i) == att[i].action

Init ==
  /\ served = 1 /\ running = 1 /\ floor = 0 /\ other = "none"
  /\ journal = [current |-> 1, previous |-> 0, actions |-> [a \in Actions |-> NoAction]]
  /\ expired = {} /\ slot = NoSlot /\ att = [i \in Attempts |-> [at |-> "new", action |-> 0, to |-> 0]]
  /\ pending = 0 /\ grant = [i \in Attempts |-> "none"] /\ outcome = NoOutcome /\ pass = NoPass
  /\ armed = FALSE /\ handover = NoHandover /\ alarm = FALSE /\ flying = 0 /\ sent = {}
  /\ outside = 0 /\ faults = 0

Fault == faults < MaxFaults /\ faults' = faults + 1 /\ UNCHANGED outside

-----------------------------------------------------------------------------
(* The journal                                                              *)

Known(j) == {a \in Actions : j.actions[a].status # "none"}
Unfinished(j) == {a \in Actions : j.actions[a].status \notin Ended}

(* The upload of an action was sent and nothing confirmed it yet.            *)
Unconfirmed(act) ==
  \/ act.status = "recovery_required" /\ act.failure = "runtime_update_unconfirmed"
  \/ act.status = "applying" /\ act.stage \notin {"authorized", "current_verified"}

(* The latest action, when the running release proves its handover.          *)
Proven(j) ==
  {a \in Known(j) : /\ \A b \in Known(j) : b <= a
                    /\ Unconfirmed(j.actions[a]) /\ j.actions[a].to = running
                    /\ j.current \in {running, j.actions[a].from}}

Succeed(j, a) ==
  LET act == j.actions[a]
  IN  [current |-> act.to, previous |-> act.from,
       actions |-> [j.actions EXCEPT ![a] = [act EXCEPT !.status = "succeeded", !.stage = "health_verified",
                                                         !.failure = "none"]]]

(* followRunningRelease: the running release proves the latest unconfirmed   *)
(* handover; else, with no unexpired action, the journal follows it.         *)
FollowRunningRelease(j) ==
  IF Proven(j) # {} THEN Succeed(j, CHOOSE a \in Proven(j) : TRUE)
  ELSE IF j.current = running \/ Unfinished(j) \ expired # {} THEN j
       ELSE [j EXCEPT !.current = running, !.previous = j.current]

\* Mutant of RuntimeReleaseAllowed: a release check that looks only whether a minimum was ever recorded.
AnyReleaseAllowed(r) == floor = 0 \/ r \in Releases
(* teamRuntimeReleaseAllowed                                                 *)
RuntimeReleaseAllowed(r) == floor = 0 \/ r >= floor

(* prepareRuntimeAction                                                      *)
Prepare(op, to) ==
  LET j == FollowRunningRelease(journal)
  IN  \E a \in Actions :
        /\ \A b \in Actions : b < a <=> (j.actions[b].status # "none" \/ b \in expired)
        /\ other = "none" /\ RuntimeReleaseAllowed(to) /\ j.current = running
        /\ \/ op = "update" /\ to > j.current
           \/ op = "rollback" /\ to = j.previous
        /\ Unfinished(j) \subseteq expired
        /\ journal' = [j EXCEPT !.actions =
             [b \in Actions |->
                IF b = a THEN [op |-> op, from |-> j.current, to |-> to, status |-> "authorization_required",
                               stage |-> "none", failure |-> "none"]
                ELSE IF b \in expired THEN NoAction ELSE @[b]]]
  /\ UNCHANGED <<running, expired, floor, other, router, driver, pass, armed, handover, alarm, cloud, sent, bounds>>

(* Any read of the update routes.                                            *)
Read ==
  /\ journal' = FollowRunningRelease(journal)
  /\ UNCHANGED <<running, expired, floor, other, router, driver, pass, armed, handover, alarm, cloud, sent, bounds>>

(* processRuntimeActionControl: what each command needs of the action ...    *)
Accepts(a, cmd) ==
  LET act == FollowRunningRelease(journal).actions[a]
  IN  /\ other # "team" /\ RuntimeReleaseAllowed(act.to)
      /\ act.status # "none" /\ a \notin expired
      /\ CASE cmd = "begin" -> act.status = "authorization_required"
           [] cmd = "finalize" -> act.status \in {"applying", "succeeded"} /\ running = act.to
           [] OTHER -> act.status = "applying"
(* ... and what it makes of it.                                              *)
Controlled(a, cmd) ==
  LET j == FollowRunningRelease(journal)
  IN  IF ~Accepts(a, cmd) THEN j
      ELSE CASE cmd = "begin" ->
                  [j EXCEPT !.actions[a] = [@ EXCEPT !.status = "applying", !.stage = "authorized"]]
             [] cmd \in {"current_verified", "assets_uploaded"} ->
                  [j EXCEPT !.actions[a] = [@ EXCEPT !.stage = cmd]]
             [] cmd = "finalize" -> IF j.actions[a].status = "succeeded" THEN j ELSE Succeed(j, a)
             [] cmd = "fail" ->
                  [j EXCEPT !.actions[a] = [@ EXCEPT !.status = "failed", !.failure = "runtime"]]
             [] cmd = "unconfirmed" ->
                  [j EXCEPT !.actions[a] = [@ EXCEPT !.status = "recovery_required",
                                                     !.failure = "runtime_update_unconfirmed"]]

-----------------------------------------------------------------------------
(* The router: one attempt at a time, in a slot that every end clears        *)

Fresh(i) == att[i].at = "new" /\ \A k \in Attempts : k < i => att[k].at # "new"
SlotLive == slot.id # 0 /\ ActionOf(slot.id) \notin expired
Offered(j, a) == j.actions[a].status = "authorization_required" /\ a \notin expired /\ j.actions[a].from = running

(* start: another approval of the same action takes the slot over.           *)
Start(i, a) ==
  LET j == FollowRunningRelease(journal)
  IN  /\ Fresh(i) /\ Offered(j, a)
      /\ SlotLive => /\ slot.phase # "exchanging"
                     /\ ActionOf(slot.id) # a => j.actions[ActionOf(slot.id)].status = "failed"
      /\ slot' = [id |-> i, phase |-> "authorizing"]
      /\ att' = [att EXCEPT ![i] = [at |-> "relay", action |-> a, to |-> j.actions[a].to]]
      /\ journal' = j
  /\ UNCHANGED <<running, expired, floor, other, driver, pass, armed, handover, alarm, cloud, sent, bounds>>
Relay(i) ==
  /\ att[i].at = "relay"
  /\ \/ att' = [att EXCEPT ![i].at = "consent"] /\ UNCHANGED <<slot, bounds>>
     \/ att' = [att EXCEPT ![i].at = "over"] /\ slot' = NoSlot /\ Fault
  /\ UNCHANGED <<running, expired, store, driver, pass, armed, handover, alarm, cloud, sent>>

(* callback: declined, or the attempt is spent before the exchange.          *)
Callback(i) ==
  /\ att[i].at = "consent" /\ SlotLive /\ slot = [id |-> i, phase |-> "authorizing"]
  /\ \/ att' = [att EXCEPT ![i].at = "over"] /\ slot' = NoSlot /\ Fault
     \/ /\ att' = [att EXCEPT ![i].at = "exchange"] /\ slot' = [slot EXCEPT !.phase = "exchanging"]
        /\ UNCHANGED bounds
  /\ UNCHANGED <<running, expired, store, driver, pass, armed, handover, alarm, cloud, sent>>

(* startUnattended: the management token stands in for the consent.          *)
StartUnattended(i, a) ==
  LET j == FollowRunningRelease(journal)
  IN  /\ Fresh(i) /\ Offered(j, a) /\ ~SlotLive
      /\ slot' = [id |-> i, phase |-> "exchanging"]
      /\ att' = [att EXCEPT ![i] = [at |-> "check", action |-> a, to |-> j.actions[a].to]]
      /\ journal' = j
  /\ UNCHANGED <<running, expired, floor, other, driver, pass, armed, handover, alarm, cloud, sent, bounds>>

(* forget of the driver: what it holds is discarded.                         *)
Forgotten(g) == IF pending # 0 /\ g[pending] = "held" THEN [g EXCEPT ![pending] = "dropped"] ELSE g

(* The exchange or the check ends: the slot is cleared, and the driver takes *)
(* the credential unless the account was refused.                            *)
HandOver(i) ==
  /\ att[i].at \in {"exchange", "check"}
  /\ slot' = NoSlot
  /\ \/ /\ att' = [att EXCEPT ![i].at = "over"] /\ Fault
        /\ grant' = IF att[i].at = "exchange" THEN [grant EXCEPT ![i] = "revoked"] ELSE grant
        /\ UNCHANGED <<pending, outcome, alarm>>
     \/ /\ att' = [att EXCEPT ![i].at = "handed"]
        /\ grant' = [Forgotten(grant) EXCEPT ![i] = IF att[i].at = "exchange" THEN "held" ELSE "none"]
        /\ pending' = i /\ alarm' = TRUE
        /\ outcome' = [att |-> i, status |-> "running", result |-> "none", target |-> att[i].to]
        /\ UNCHANGED bounds
  /\ UNCHANGED <<running, expired, store, pass, armed, handover, cloud, sent>>

-----------------------------------------------------------------------------
(* finishCustomerRuntimeHandover                                             *)

HandoverCommand == IF running = handover.target THEN "finalize" ELSE "unconfirmed"
HandoverWaits   == running # handover.target /\ ~handover.late
FinishHandover ==
  IF handover = NoHandover THEN UNCHANGED <<journal, handover>> /\ alarm' = FALSE
  ELSE IF handover.action \in expired THEN handover' = NoHandover /\ UNCHANGED journal /\ alarm' = FALSE
  ELSE IF HandoverWaits THEN UNCHANGED <<journal, handover>> /\ alarm' = TRUE
  ELSE /\ journal' = Controlled(handover.action, HandoverCommand)
       /\ handover' = IF Accepts(handover.action, HandoverCommand) THEN NoHandover ELSE handover
       /\ alarm' = TRUE

(* alarm: the handover first, then the driver's pass if it holds one.        *)
Alarm ==
  /\ alarm /\ pass = NoPass /\ FinishHandover
  /\ pass' = IF pending = 0 THEN NoPass ELSE [att |-> pending, at |-> "begin"]
  /\ UNCHANGED <<running, expired, floor, other, router, driver, armed, cloud, sent, bounds>>

-----------------------------------------------------------------------------
(* runCustomerRuntimeUpdate                                                  *)

Passing == ActionOf(pass.att)
Go(at)  == pass' = [pass EXCEPT !.at = at]
(* A failure before the upload fails the action, if the journal accepts it.  *)
GiveUp  == journal' = Controlled(Passing, "fail") /\ Go("failed")
(* One command of the pass; a refused one ends it.                           *)
Require(cmd, then) ==
  IF Accepts(Passing, cmd) THEN journal' = Controlled(Passing, cmd) /\ Go(then) ELSE GiveUp

Begin ==
  /\ pass.at = "begin"
  /\ journal' = Controlled(Passing, "begin")
  /\ Go(IF Accepts(Passing, "begin") THEN "read" ELSE "failed")
  /\ UNCHANGED <<running, expired, floor, other, router, driver, armed, handover, alarm, cloud, sent, bounds>>
(* readCurrentRuntime: the active version must not be the target already.    *)
ReadCurrent ==
  /\ pass.at = "read"
  /\ \/ served # att[pass.att].to /\ Require("current_verified", "load") /\ UNCHANGED bounds
     \/ served = att[pass.att].to /\ GiveUp /\ UNCHANGED bounds
     \/ GiveUp /\ Fault
  /\ UNCHANGED <<running, expired, floor, other, router, driver, armed, handover, alarm, cloud, sent>>
(* loadTargetBundle, prepareVerifiedWorkerRelease and uploadAssets.          *)
LoadTarget ==
  /\ pass.at = "load"
  /\ \/ Require("assets_uploaded", "arm") /\ UNCHANGED bounds
     \/ GiveUp /\ Fault
  /\ UNCHANGED <<running, expired, floor, other, router, driver, armed, handover, alarm, cloud, sent>>
(* armHandover: the record, then the alarm.                                  *)
ArmHandover ==
  /\ pass.at = "arm"
  /\ handover' = [action |-> Passing, target |-> att[pass.att].to, late |-> FALSE]
  /\ alarm' = TRUE /\ armed' = TRUE /\ Go("upload")
  /\ UNCHANGED <<running, expired, store, router, driver, cloud, sent, bounds>>

\* Mutant of UploadScript: a pass that fails the action when the upload was not confirmed.
UploadScriptOrFail ==
  /\ pass.at = "upload" /\ flying = 0 /\ sent' = sent \cup {Passing}
  /\ \/ served' = att[pass.att].to /\ Go("uploaded") /\ UNCHANGED <<flying, bounds, journal>>
     \/ GiveUp /\ Fault /\ UNCHANGED <<served, flying>>
     \/ GiveUp /\ Fault /\ flying' = att[pass.att].to /\ UNCHANGED served
  /\ UNCHANGED <<running, expired, floor, other, router, driver, armed, handover, alarm>>
(* uploadScript: activated, refused, or without an answer.                   *)
UploadScript ==
  /\ pass.at = "upload" /\ flying = 0 /\ sent' = sent \cup {Passing}
  /\ \/ served' = att[pass.att].to /\ Go("uploaded") /\ UNCHANGED <<flying, bounds>>
     \/ Go("failed") /\ Fault /\ UNCHANGED cloud
     \/ Go("failed") /\ Fault /\ flying' = att[pass.att].to /\ UNCHANGED served
  /\ UNCHANGED <<running, expired, store, router, driver, armed, handover, alarm>>

(* A restart of the object: its memory and its requests are gone, an alarm   *)
(* that was running is run again, and the active release is loaded.          *)
Reload(wake) ==
  /\ running' = served /\ pending' = 0 /\ pass' = NoPass /\ armed' = FALSE /\ alarm' = wake
  /\ att' = [i \in Attempts |-> IF att[i].at \in {"relay", "exchange", "check"}
                                THEN [att[i] EXCEPT !.at = "over"] ELSE att[i]]

(* end, then restartOnActiveVersion when the handover was armed.  The write  *)
(* of the outcome may be refused by the version that runs by then.           *)
End ==
  /\ pass.at \in {"uploaded", "failed"}
  /\ \E revoked \in {"applied", "revocation_unconfirmed"}, written \in BOOLEAN :
       LET result == IF pass.at = "failed" THEN "failed"
                     ELSE IF grant[pass.att] = "dropped" THEN "revocation_unconfirmed" ELSE revoked
       IN  /\ written \/ armed
           /\ revoked = "applied" \/ (pass.at = "uploaded" /\ grant[pass.att] = "held")
           /\ outcome' = IF written THEN [att |-> pass.att, status |-> "settled", result |-> result,
                                          target |-> att[pass.att].to]
                         ELSE outcome
  /\ LET ended == IF grant[pass.att] = "held" THEN [grant EXCEPT ![pass.att] = "revoked"] ELSE grant
     IN  grant' = Forgotten(ended)
  /\ IF armed THEN Reload(TRUE)
     ELSE pending' = 0 /\ pass' = NoPass /\ UNCHANGED <<running, armed, alarm, att>>
  /\ UNCHANGED <<expired, store, slot, handover, cloud, sent, bounds>>

-----------------------------------------------------------------------------
(* Everybody else                                                            *)

Lose(g) == [i \in Attempts |-> IF g[i] = "held" THEN "gone" ELSE g[i]]
(* An eviction, or Cloudflare's rollout of the active version.               *)
Restart ==
  /\ \/ served # running /\ UNCHANGED bounds
     \/ Fault
  /\ Reload(alarm \/ pass # NoPass) /\ grant' = Lose(grant)
  /\ UNCHANGED <<expired, store, slot, outcome, handover, cloud, sent>>
(* The script of an unanswered upload becomes active.                        *)
Land ==
  /\ flying # 0 /\ served' = flying /\ flying' = 0
  /\ UNCHANGED <<running, expired, store, router, driver, pass, armed, handover, alarm, sent, bounds>>
(* An operator deploys another release, or rolls back in Cloudflare.         *)
DeployOutside(r) ==
  /\ outside < MaxOutside /\ outside' = outside + 1 /\ r # served /\ served' = r
  /\ UNCHANGED <<running, expired, store, router, driver, pass, armed, handover, alarm, flying, sent, faults>>
(* Ten minutes pass.  A pass and its upload have deadlines of their own and  *)
(* do not outlive an action prepared after theirs expired.                   *)
Expire(a) ==
  /\ journal.actions[a].status # "none" /\ a \notin expired
  /\ pass # NoPass => Passing = a \/ Passing \notin expired
  /\ flying # 0 => sent \cap expired = {}
  /\ expired' = expired \cup {a}
  /\ UNCHANGED <<running, store, router, driver, pass, armed, handover, alarm, cloud, sent, bounds>>
(* Five minutes pass after the handover was armed.                           *)
Deadline ==
  /\ handover # NoHandover /\ ~handover.late /\ handover' = [handover EXCEPT !.late = TRUE]
  /\ UNCHANGED <<running, expired, store, router, driver, pass, armed, alarm, cloud, sent, bounds>>

(* recordedLifecycleBlocks, for the update journal.                          *)
LifecycleBlocks ==
  \E a \in Actions : LET act == journal.actions[a] IN
    /\ act.status \notin Ended
    /\ act.status # "authorization_required" \/ a \notin expired \/ act.stage # "none"
(* A Team save or another change begins; some of them raise the floor to the  *)
(* running release (armSourceCompatibility).                                  *)
OtherBegins(k) ==
  /\ other = "none" /\ ~LifecycleBlocks /\ other' = k
  /\ floor' = IF k = "team" /\ floor < running THEN running ELSE floor
  /\ UNCHANGED <<running, journal, expired, router, driver, pass, armed, handover, alarm, cloud, sent, bounds>>
OtherEnds ==
  /\ other # "none" /\ other' = "none"
  /\ UNCHANGED <<running, journal, floor, expired, router, driver, pass, armed, handover, alarm, cloud, sent, bounds>>

PassStep == Begin \/ ReadCurrent \/ LoadTarget \/ ArmHandover \/ UploadScript \/ End
Next ==
  \/ \E op \in {"update", "rollback"}, to \in Releases : Prepare(op, to)
  \/ Read
  \/ \E i \in Attempts, a \in Actions : Start(i, a) \/ StartUnattended(i, a)
  \/ \E i \in Attempts : Relay(i) \/ Callback(i) \/ HandOver(i)
  \/ Alarm \/ PassStep \/ Restart \/ Land \/ Deadline
  \/ \E r \in Releases : DeployOutside(r)
  \/ \E a \in Actions : Expire(a)
  \/ \E k \in {"team", "edit"} : OtherBegins(k)
  \/ OtherEnds

(* Alarms fire and are retried, a pass ends by its deadlines, time passes,    *)
(* Cloudflare rolls an active version out to the object, and somebody reads   *)
(* the updates page.                                                          *)
Fairness ==
  /\ WF_vars(Alarm) /\ WF_vars(PassStep) /\ WF_vars(Land) /\ WF_vars(Read)
  /\ WF_vars(served # running /\ Restart)
  /\ \A a \in Actions : WF_vars(Expire(a))
Spec == Init /\ [][Next]_vars
FairSpec == Spec /\ Fairness

-----------------------------------------------------------------------------
ActionRecord == [op : {"none", "update", "rollback"}, from : 0..MaxRelease, to : 0..MaxRelease,
                 status : Ended \cup {"authorization_required", "applying", "recovery_required"},
                 stage : {"none", "authorized", "current_verified", "assets_uploaded", "health_verified"},
                 failure : {"none", "runtime", "runtime_update_unconfirmed"}]
TypeOK ==
  /\ served \in Releases /\ running \in Releases /\ floor \in 0..MaxRelease
  /\ journal \in [current : Releases, previous : 0..MaxRelease, actions : [Actions -> ActionRecord]]
  /\ expired \subseteq Actions /\ other \in {"none", "team", "edit"} /\ sent \subseteq Actions
  /\ slot \in [id : Attempts \cup {0}, phase : {"none", "authorizing", "exchanging"}]
  /\ pending \in Attempts \cup {0} /\ flying \in 0..MaxRelease /\ alarm \in BOOLEAN /\ armed \in BOOLEAN
  /\ grant \in [Attempts -> {"none", "held", "revoked", "dropped", "gone"}]
  /\ handover \in [action : 0..MaxActions, target : 0..MaxRelease, late : BOOLEAN]

(* An action that the journal calls failed never sent its script: what fails   *)
(* before the upload leaves the running version untouched, and an upload       *)
(* without an answer is never called a failure.                                *)
FailedIsUnsent == \A a \in sent : journal.actions[a].status # "failed"

(* A rollback always leads to another release than the one that runs.          *)
RollbackIsElsewhere == journal.previous # journal.current

(* A stored handover is always looked at again: by an alarm that is set or by  *)
(* one that is running and would be retried.                                   *)
HandoverIsTended == handover # NoHandover => alarm \/ pass # NoPass

(* No Team save, source edit or credential change is open while the journal    *)
(* holds an update that began and was not settled, expired or not: the two     *)
(* sides check each other at different moments.                                *)
UploadIsAlone ==
  (\E a \in Actions : journal.actions[a].status \in {"applying", "recovery_required"}) => other = "none"

(* The gateway never uploads a release below the minimum that an installed     *)
(* source or a Team save requires.                                             *)
UploadAboveFloor ==
  (\E a \in Actions : sent' = sent \cup {a} /\ a \notin sent) => served' = served \/ served' >= floor

UploadsKeepFloor == [][UploadAboveFloor]_vars

(* What fails before the upload fails the action in the journal: no pass ends   *)
(* before it sent the script and leaves the action applying.                   *)
FailedIsRecorded ==
  pass.at = "failed" /\ Passing \notin sent => journal.actions[Passing].status # "applying"

(* The consent grant of an update that started is revoked when the update ends; *)
(* only a restart may lose it.                                                  *)
GrantIsRevoked == \A i \in Attempts : grant[i] # "dropped"

(* An unattended start holds the one attempt slot while its token is checked.   *)
UnattendedHoldsSlot == \A i \in Attempts : att[i].at = "check" => slot.id = i

(* Whatever was interrupted, expired or deployed outside, the journal ends up  *)
(* naming the release that is active, and a handover, which holds the sealed   *)
(* action key, does not stay.                                                  *)
Due  == journal.current # served \/ handover # NoHandover
Done == journal.current = served /\ handover = NoHandover
UpdateSettles == Due ~> Done

(* The safety of updates: an action called failed never sent its script, a     *)
(* rollback leads elsewhere, a stored handover is always looked at again, and  *)
(* no other change is open while an update is unsettled.                       *)
UpdateIsSafe ==
  /\ TypeOK /\ FailedIsUnsent /\ RollbackIsElsewhere /\ HandoverIsTended /\ UploadIsAlone
=============================================================================
