------------------------ MODULE RuntimeUpdateProofs -------------------------
(***************************************************************************)
(* Proofs about RuntimeUpdate: its safety, and that no upload goes below   *)
(* the minimum release, for every number of releases, actions, approvals,  *)
(* outside deployments and faults.                                         *)
(*                                                                         *)
(* An action's number is never used again once it expired, so an approval  *)
(* keeps meaning one target.  A pass that has not sent its script runs for *)
(* an action whose script was not sent.  While a pass is about to upload,  *)
(* the floor cannot rise above its target: the action is applying, or the  *)
(* running release is its target already, or the action expired and the    *)
(* one that replaced it in the journal waits for its approval.             *)
(***************************************************************************)
EXTENDS RuntimeUpdate, TLAPS

StatusOf(a) == journal.actions[a].status
Approvals == [at : {"new", "relay", "consent", "exchange", "check", "handed", "over"},
              action : 0..MaxActions, to : 0..MaxRelease]
Passes == [att : 0..MaxAttempts,
           at : {"none", "begin", "read", "load", "arm", "upload", "uploaded", "failed"}]

(* What TypeOK leaves out.                                                  *)
MoreTypes ==
  /\ att \in [Attempts -> Approvals] /\ pass \in Passes
  /\ sent \subseteq Actions /\ pending \in 0..MaxAttempts

(* A prepared action leads from one release to another.                     *)
ActionsLead ==
  \A a \in Actions : StatusOf(a) # "none" =>
    LET act == journal.actions[a] IN
      act.from \in Releases /\ act.to \in Releases /\ act.from # act.to

(* An approval that was started means one action and one target.            *)
Means(approval) ==
  approval.at # "new" =>
    LET a == approval.action IN
      /\ a \in Actions /\ approval.to \in Releases
      /\ a \in expired \/ StatusOf(a) # "none"
      /\ StatusOf(a) # "none" => journal.actions[a].to = approval.to
ApprovalsMean == \A i \in Attempts : Means(att[i])

(* What the driver holds and what its pass runs for was started.            *)
PassRuns ==
  /\ pending # 0 => att[pending].at = "handed"
  /\ pass = NoPass \/ (pass.att # 0 /\ pass.at # "none" /\ att[pass.att].at = "handed")

(* A script is sent for an action that began, and once.                     *)
Began(a) ==
  StatusOf(a) # "failed" /\ (a \in expired \/ StatusOf(a) \notin {"none", "authorization_required"})
SentBegan ==
  /\ \A a \in sent : Began(a)
  /\ pass.at \in {"read", "load", "arm", "upload"} => Passing \notin sent /\ Began(Passing)

(* What may raise the floor is kept away from an action under way.          *)
ChangesWait ==
  \A a \in Actions :
    \/ StatusOf(a) \in {"applying", "recovery_required"}
    \/ StatusOf(a) = "authorization_required" /\ a \notin expired
    => other = "none"

(* The floor stays at or below the target of a pass that is about to upload. *)
FloorStays ==
  pass.at \in {"arm", "upload"} =>
    /\ floor = 0 \/ att[pass.att].to >= floor
    /\ \/ StatusOf(Passing) = "applying"
       \/ running = att[pass.att].to
       \/ /\ Passing \in expired
          /\ \E a \in Actions : StatusOf(a) = "authorization_required" /\ a \notin expired

HandoverStands == handover # NoHandover => alarm /\ handover.action \in Actions

UpdateInv ==
  /\ TypeOK /\ MoreTypes /\ ActionsLead /\ ApprovalsMean /\ PassRuns /\ SentBegan /\ ChangesWait
  /\ FloorStays /\ RollbackIsElsewhere /\ HandoverStands

(* -------------------------- what a command may do ------------------------ *)

Journals == [current : Releases, previous : 0..MaxRelease, actions : [Actions -> ActionRecord]]

(* What becomes of one action in the journal, short of being prepared.      *)
Moved(a, act, new) ==
  \/ new = act
  \/ /\ new.from = act.from /\ new.to = act.to
     /\ \/ act.status \in {"applying", "recovery_required"} /\ new.status = "succeeded"
        \/ act.status = "authorization_required" /\ new.status = "applying" /\ a \notin expired
        \/ act.status = "applying" /\ new.status \in {"applying", "recovery_required"}
        \/ act.status = "applying" /\ new.status = "failed" /\ a \notin sent

(* A journal that commands made of the present one.                         *)
Follows(j) ==
  /\ j \in Journals /\ j.previous # j.current
  /\ \A a \in Actions : Moved(a, journal.actions[a], j.actions[a])

LEMMA SucceedFacts ==
  ASSUME NEW j \in Journals, NEW a \in Actions,
         j.actions[a].from \in Releases, j.actions[a].to \in Releases
  PROVE  /\ Succeed(j, a) \in Journals
         /\ Succeed(j, a).current = j.actions[a].to /\ Succeed(j, a).previous = j.actions[a].from
         /\ \A b \in Actions : b # a => Succeed(j, a).actions[b] = j.actions[b]
         /\ Succeed(j, a).actions[a].status = "succeeded"
         /\ Succeed(j, a).actions[a].from = j.actions[a].from
         /\ Succeed(j, a).actions[a].to = j.actions[a].to
<1> DEFINE act == j.actions[a]
           new == [act EXCEPT !.status = "succeeded", !.stage = "health_verified", !.failure = "none"]
<1>1. act \in ActionRecord /\ j.actions \in [Actions -> ActionRecord]
  BY DEF Journals
<1>2. /\ new \in ActionRecord /\ new.status = "succeeded"
      /\ new.from = act.from /\ new.to = act.to
  BY <1>1 DEF ActionRecord, Ended
<1>3. Succeed(j, a) = [current |-> act.to, previous |-> act.from,
                       actions |-> [j.actions EXCEPT ![a] = new]]
  BY DEF Succeed
<1> HIDE DEF act, new
<1>4. act.from \in 0..MaxRelease /\ act.to \in Releases
  BY <1>1 DEF act, Releases
<1> QED BY <1>1, <1>2, <1>3, <1>4 DEF Journals, act

LEMMA ReplaceFacts ==
  ASSUME NEW j \in Journals, NEW a \in Actions, NEW new \in ActionRecord
  PROVE  LET k == [j EXCEPT !.actions[a] = new] IN
         /\ k \in Journals /\ k.current = j.current /\ k.previous = j.previous
         /\ k.actions[a] = new /\ \A b \in Actions : b # a => k.actions[b] = j.actions[b]
BY DEF Journals

LEMMA FollowFacts ==
  ASSUME UpdateInv
  PROVE  LET j == FollowRunningRelease(journal) IN
         /\ j \in Journals /\ j.previous # j.current
         /\ \A a \in Actions :
              \/ j.actions[a] = journal.actions[a]
              \/ /\ journal.actions[a].status \in {"applying", "recovery_required"}
                 /\ j.actions[a].status = "succeeded" /\ j.actions[a].to = running
                 /\ j.actions[a].from = journal.actions[a].from
                 /\ j.actions[a].to = journal.actions[a].to
<1> DEFINE j == FollowRunningRelease(journal)
<1>1. journal \in Journals /\ running \in Releases /\ journal.previous # journal.current
  BY DEF UpdateInv, TypeOK, Journals, RollbackIsElsewhere
<1>2. CASE Proven(journal) # {}
  <2>1. PICK a \in Proven(journal) : j = Succeed(journal, a)
    BY <1>2 DEF FollowRunningRelease
  <2>2. /\ a \in Actions /\ journal.actions[a].status \in {"applying", "recovery_required"}
        /\ journal.actions[a].to = running
    BY <2>1 DEF Proven, Known, Unconfirmed
  <2>3. /\ journal.actions[a].from \in Releases /\ journal.actions[a].to \in Releases
        /\ journal.actions[a].from # journal.actions[a].to
    BY <2>2 DEF UpdateInv, ActionsLead, StatusOf
  <2> QED BY <1>1, <2>1, <2>2, <2>3, SucceedFacts
<1>3. CASE Proven(journal) = {} /\ j = journal
  BY <1>1, <1>3
<1>4. CASE j = [journal EXCEPT !.current = running, !.previous = journal.current]
           /\ journal.current # running
  <2>1. journal.current \in 0..MaxRelease
    BY <1>1 DEF Journals, Releases
  <2>2. /\ j \in Journals /\ j.current = running /\ j.previous = journal.current
        /\ j.actions = journal.actions
    BY <1>1, <1>4, <2>1 DEF Journals
  <2> QED BY <1>4, <2>2
<1> QED BY <1>2, <1>3, <1>4 DEF FollowRunningRelease

LEMMA FollowFollows == UpdateInv => Follows(FollowRunningRelease(journal))
BY FollowFacts DEF Follows, Moved

Commands == {"begin", "current_verified", "assets_uploaded", "finalize", "fail", "unconfirmed"}

LEMMA ControlFacts ==
  ASSUME UpdateInv, NEW a \in Actions, NEW cmd \in Commands, cmd = "fail" => a \notin sent
  PROVE  /\ Follows(Controlled(a, cmd))
         /\ Accepts(a, cmd) => RuntimeReleaseAllowed(journal.actions[a].to)
         /\ cmd = "begin" /\ Accepts(a, cmd) => a \notin expired /\ StatusOf(a) = "authorization_required"
         /\ cmd \in {"begin", "current_verified", "assets_uploaded"} /\ Accepts(a, cmd) =>
              Controlled(a, cmd).actions[a].status = "applying"
<1> DEFINE j == FollowRunningRelease(journal)
           k == Controlled(a, cmd)
           act == j.actions[a]
<1>1. /\ j \in Journals /\ j.previous # j.current
      /\ \A b \in Actions : Moved(b, journal.actions[b], j.actions[b])
      /\ \/ act = journal.actions[a]
         \/ act.status = "succeeded" /\ act.to = journal.actions[a].to /\ act.from = journal.actions[a].from
  BY FollowFacts, FollowFollows DEF Follows
<1>2. CASE ~ Accepts(a, cmd)
  <2>1. k = j
    BY <1>2 DEF Controlled
  <2> QED BY <1>1, <1>2, <2>1 DEF Follows
<1>3. CASE Accepts(a, cmd)
  <2> HIDE DEF j
  <2>1. /\ a \notin expired /\ act.status # "none" /\ RuntimeReleaseAllowed(act.to)
        /\ CASE cmd = "begin" -> act.status = "authorization_required"
             [] cmd = "finalize" -> act.status \in {"applying", "succeeded"}
             [] OTHER -> act.status = "applying"
    BY <1>3 DEF Accepts, j
  <2>2. act.to = journal.actions[a].to
    BY <1>1
  <2>3. act \in ActionRecord /\ j.actions \in [Actions -> ActionRecord]
    BY <1>1 DEF Journals
  <2>4. cmd # "finalize" => act = journal.actions[a]
    BY <1>1, <2>1 DEF Commands
  <2>5. CASE cmd = "begin"
    <3> DEFINE new == [act EXCEPT !.status = "applying", !.stage = "authorized"]
    <3>1. k = [j EXCEPT !.actions[a] = new]
      BY <1>1, <1>3, <2>3, <2>5 DEF Controlled, j, Journals
    <3>2. new \in ActionRecord /\ new.from = act.from /\ new.to = act.to /\ new.status = "applying"
      BY <2>3, <2>5 DEF ActionRecord, Ended
    <3> HIDE DEF new
    <3>3. /\ k \in Journals /\ k.current = j.current /\ k.previous = j.previous
          /\ k.actions[a] = new /\ \A b \in Actions : b # a => k.actions[b] = j.actions[b]
      BY <1>1, <3>1, <3>2, ReplaceFacts
    <3> QED BY <1>1, <2>1, <2>2, <2>4, <2>5, <3>2, <3>3 DEF Follows, Moved, StatusOf
  <2>6. CASE cmd \in {"current_verified", "assets_uploaded"}
    <3> DEFINE new == [act EXCEPT !.stage = cmd]
    <3>1. k = [j EXCEPT !.actions[a] = new]
      BY <1>1, <1>3, <2>3, <2>6 DEF Controlled, j, Journals
    <3>2. new \in ActionRecord /\ new.from = act.from /\ new.to = act.to /\ new.status = act.status
      BY <2>3, <2>6 DEF ActionRecord, Ended
    <3> HIDE DEF new
    <3>3. /\ k \in Journals /\ k.current = j.current /\ k.previous = j.previous
          /\ k.actions[a] = new /\ \A b \in Actions : b # a => k.actions[b] = j.actions[b]
      BY <1>1, <3>1, <3>2, ReplaceFacts
    <3> QED BY <1>1, <2>1, <2>2, <2>4, <2>6, <3>2, <3>3 DEF Follows, Moved
  <2>7. CASE cmd = "fail"
    <3> DEFINE new == [act EXCEPT !.status = "failed", !.failure = "runtime"]
    <3>1. k = [j EXCEPT !.actions[a] = new]
      BY <1>1, <1>3, <2>3, <2>7 DEF Controlled, j, Journals
    <3>2. new \in ActionRecord /\ new.from = act.from /\ new.to = act.to /\ new.status = "failed"
      BY <2>3, <2>7 DEF ActionRecord, Ended
    <3> HIDE DEF new
    <3>3. /\ k \in Journals /\ k.current = j.current /\ k.previous = j.previous
          /\ k.actions[a] = new /\ \A b \in Actions : b # a => k.actions[b] = j.actions[b]
      BY <1>1, <3>1, <3>2, ReplaceFacts
    <3> QED BY <1>1, <2>1, <2>2, <2>4, <2>7, <3>2, <3>3 DEF Follows, Moved
  <2>8. CASE cmd = "unconfirmed"
    <3> DEFINE new == [act EXCEPT !.status = "recovery_required", !.failure = "runtime_update_unconfirmed"]
    <3>1. k = [j EXCEPT !.actions[a] = new]
      BY <1>1, <1>3, <2>3, <2>8 DEF Controlled, j, Journals
    <3>2. new \in ActionRecord /\ new.from = act.from /\ new.to = act.to /\ new.status = "recovery_required"
      BY <2>3, <2>8 DEF ActionRecord, Ended
    <3> HIDE DEF new
    <3>3. /\ k \in Journals /\ k.current = j.current /\ k.previous = j.previous
          /\ k.actions[a] = new /\ \A b \in Actions : b # a => k.actions[b] = j.actions[b]
      BY <1>1, <3>1, <3>2, ReplaceFacts
    <3> QED BY <1>1, <2>1, <2>2, <2>4, <2>8, <3>2, <3>3 DEF Follows, Moved
  <2>9. CASE cmd = "finalize" /\ act.status = "succeeded"
    <3>1. k = j
      BY <1>3, <2>9 DEF Controlled, j
    <3> QED BY <1>1, <2>1, <2>2, <2>9, <3>1 DEF Follows
  <2>10. CASE cmd = "finalize" /\ act.status = "applying"
    <3>1. k = Succeed(j, a)
      BY <1>3, <2>10 DEF Controlled, j
    <3>2. act = journal.actions[a]
      BY <1>1, <2>10
    <3>3. act.from \in Releases /\ act.to \in Releases /\ act.from # act.to
      BY <2>10, <3>2 DEF UpdateInv, ActionsLead, StatusOf
    <3>4. /\ k \in Journals /\ k.current = act.to /\ k.previous = act.from
          /\ \A b \in Actions : b # a => k.actions[b] = j.actions[b]
          /\ k.actions[a].status = "succeeded"
          /\ k.actions[a].from = act.from /\ k.actions[a].to = act.to
      BY <1>1, <3>1, <3>3, SucceedFacts
    <3> QED BY <1>1, <2>1, <2>2, <2>10, <3>2, <3>3, <3>4 DEF Follows, Moved
  <2> QED BY <2>1, <2>5, <2>6, <2>7, <2>8, <2>9, <2>10 DEF Commands
<1> QED BY <1>2, <1>3

(* ------------------------- what a step leaves alone ---------------------- *)

LEMMA JournalKept ==
  ASSUME UpdateInv, Follows(journal'), UNCHANGED <<expired, other, sent>>
  PROVE  /\ journal' \in Journals /\ ActionsLead' /\ RollbackIsElsewhere' /\ ChangesWait'
         /\ \A a \in sent : Began(a)'
         /\ \A r \in Approvals : Means(r) => Means(r)'
<1>1. /\ journal' \in Journals /\ RollbackIsElsewhere'
      /\ \A a \in Actions : Moved(a, journal.actions[a], journal'.actions[a])
  BY DEF Follows, RollbackIsElsewhere
<1>2. ActionsLead'
  BY <1>1 DEF UpdateInv, ActionsLead, StatusOf, Moved
<1>3. ChangesWait'
  BY <1>1 DEF UpdateInv, ChangesWait, StatusOf, Moved
<1>4. \A a \in sent : Began(a)'
  <2>1. sent \subseteq Actions
    BY DEF UpdateInv, MoreTypes
  <2> QED BY <1>1, <2>1 DEF UpdateInv, SentBegan, Began, StatusOf, Moved
<1>5. \A r \in Approvals : Means(r) => Means(r)'
  BY <1>1 DEF Means, StatusOf, Moved
<1> QED BY <1>1, <1>2, <1>3, <1>4, <1>5

LEMMA JournalFollows == UpdateInv => Follows(journal) /\ Follows(FollowRunningRelease(journal))
<1> SUFFICES ASSUME UpdateInv PROVE Follows(journal)
  BY FollowFollows
<1> QED BY DEF UpdateInv, TypeOK, RollbackIsElsewhere, Follows, Moved, Journals

(* A pass that is about to upload, while somebody reads the journal.        *)
LEMMA PassKept ==
  ASSUME UpdateInv, UNCHANGED <<pass, running, floor, expired, sent>>,
         pass # NoPass => att'[pass.att] = att[pass.att],
         journal' \in {journal, FollowRunningRelease(journal)}
  PROVE  /\ FloorStays'
         /\ pass.at \in {"read", "load", "arm", "upload"} =>
              Passing' \notin sent /\ Began(Passing)'
<1>1. CASE pass.at \notin {"read", "load", "arm", "upload"}
  BY <1>1 DEF FloorStays
<1>2. CASE pass.at \in {"read", "load", "arm", "upload"}
  <2>1. /\ pass.att \in Attempts /\ att[pass.att].at = "handed" /\ att'[pass.att] = att[pass.att]
        /\ Passing' = Passing
    BY <1>2 DEF UpdateInv, MoreTypes, Passes, PassRuns, NoPass, Passing, ActionOf, Attempts
  <2>2. Passing \in Actions /\ Means(att[pass.att])
    BY <2>1 DEF UpdateInv, ApprovalsMean, Means, Passing, ActionOf
  <2>3. \A a \in Actions :
          \/ journal'.actions[a] = journal.actions[a]
          \/ /\ journal.actions[a].status \in {"applying", "recovery_required"}
             /\ journal'.actions[a].status = "succeeded" /\ journal'.actions[a].to = running
             /\ journal'.actions[a].to = journal.actions[a].to
    BY FollowFacts
  <2>4. Passing \notin sent /\ Began(Passing)
    BY <1>2 DEF UpdateInv, SentBegan
  <2>5. Began(Passing)'
    BY <2>1, <2>2, <2>3, <2>4 DEF Began, StatusOf
  <2>6. ASSUME pass.at \in {"arm", "upload"} PROVE FloorStays'
    <3>1. floor = 0 \/ att[pass.att].to >= floor
      BY <2>6 DEF UpdateInv, FloorStays
    <3>2. CASE StatusOf(Passing) = "applying"
      <4>1. \/ journal'.actions[Passing].status = "applying"
            \/ running = journal.actions[Passing].to
        BY <2>2, <2>3, <3>2 DEF StatusOf
      <4>2. journal.actions[Passing].to = att[pass.att].to
        BY <2>1, <2>2, <3>2 DEF Means, StatusOf, Passing, ActionOf
      <4> QED BY <2>1, <3>1, <4>1, <4>2 DEF FloorStays, StatusOf
    <3>3. CASE running = att[pass.att].to
      BY <2>1, <3>1, <3>3 DEF FloorStays
    <3>4. CASE Passing \in expired
               /\ \E a \in Actions : StatusOf(a) = "authorization_required" /\ a \notin expired
      <4>1. PICK a \in Actions : StatusOf(a) = "authorization_required" /\ a \notin expired
        BY <3>4
      <4>2. StatusOf(a)' = "authorization_required"
        BY <2>3, <4>1 DEF StatusOf
      <4> QED BY <2>1, <3>1, <3>4, <4>1, <4>2 DEF FloorStays
    <3> QED BY <2>6, <3>2, <3>3, <3>4 DEF UpdateInv, FloorStays
  <2>7. pass.at \notin {"arm", "upload"} => FloorStays'
    BY DEF FloorStays
  <2> QED BY <2>1, <2>4, <2>5, <2>6, <2>7
<1> QED BY <1>1, <1>2

LEMMA ApprovalsKept ==
  ASSUME UpdateInv, \A r \in Approvals : Means(r) => Means(r)',
         \A i \in Attempts : att'[i] = att[i] \/ Means(att[i])'
  PROVE  ApprovalsMean'
<1> SUFFICES ASSUME NEW i \in Attempts, att'[i] = att[i] PROVE Means(att[i])'
  BY DEF ApprovalsMean
<1>1. PICK r \in Approvals : r = att[i]
  BY DEF UpdateInv, MoreTypes
<1>2. Means(r)
  BY <1>1 DEF UpdateInv, ApprovalsMean
<1>3. Means(r)'
  BY <1>2
<1> QED BY <1>1, <1>3 DEF Means, StatusOf

(* A step outside the pass, which may read the journal.                     *)
LEMMA OutsidePass ==
  ASSUME UpdateInv, UNCHANGED <<pass, running, floor, expired, sent, other>>,
         pass # NoPass => att'[pass.att] = att[pass.att],
         journal' \in {journal, FollowRunningRelease(journal)},
         MoreTypes', \A i \in Attempts : att'[i] = att[i] \/ Means(att[i])',
         pending' # 0 => att'[pending'].at = "handed",
         slot' \in [id : Attempts \cup {0}, phase : {"none", "authorizing", "exchanging"}],
         served' \in Releases, flying' \in 0..MaxRelease, alarm' \in BOOLEAN, armed' \in BOOLEAN,
         grant' \in [Attempts -> {"none", "held", "revoked", "dropped", "gone"}],
         handover' \in [action : 0..MaxActions, target : 0..MaxRelease, late : BOOLEAN],
         HandoverStands'
  PROVE  UpdateInv'
<1>1. Follows(journal')
  BY JournalFollows
<1>2. /\ journal' \in Journals /\ ActionsLead' /\ RollbackIsElsewhere' /\ ChangesWait'
      /\ \A a \in sent : Began(a)'
      /\ \A r \in Approvals : Means(r) => Means(r)'
  BY <1>1, JournalKept
<1>3. ApprovalsMean'
  BY <1>2, ApprovalsKept
<1>4. FloorStays' /\ SentBegan'
  BY <1>2, PassKept DEF SentBegan
<1>5. PassRuns'
  BY DEF UpdateInv, PassRuns
<1>6. TypeOK'
  BY <1>2 DEF UpdateInv, TypeOK, MoreTypes, Journals, Attempts
<1> QED BY <1>2, <1>3, <1>4, <1>5, <1>6 DEF UpdateInv

LEMMA ReadStands ==
  ASSUME UpdateInv, Read
  PROVE  UpdateInv'
<1>1. /\ UNCHANGED <<served, flying, running, expired, floor, other, slot, att, pending, grant, outcome>>
      /\ UNCHANGED <<pass, armed, handover, alarm, sent>>
  BY DEF Read, cloud, router, driver
<1>2. MoreTypes' /\ HandoverStands'
  BY <1>1 DEF UpdateInv, MoreTypes, HandoverStands
<1>3. pending' # 0 => att'[pending'].at = "handed"
  BY <1>1 DEF UpdateInv, PassRuns
<1> QED BY <1>1, <1>2, <1>3, OutsidePass DEF Read, UpdateInv, TypeOK

(* An offered action: what an approval of it means.                         *)
LEMMA OfferMeans ==
  ASSUME UpdateInv, NEW a \in Actions, Offered(FollowRunningRelease(journal), a),
         journal' = FollowRunningRelease(journal), NEW at \in {"relay", "check"},
         NEW r, r = [at |-> at, action |-> a, to |-> FollowRunningRelease(journal).actions[a].to]
  PROVE  r \in Approvals /\ r.at # "new" /\ r.at # "handed" /\ Means(r)'
<1>1. journal'.actions[a] = journal.actions[a] /\ StatusOf(a) = "authorization_required"
  BY FollowFacts DEF Offered, StatusOf
<1>2. journal.actions[a].to \in Releases
  BY <1>1 DEF UpdateInv, ActionsLead
<1>3. r \in Approvals
  BY <1>1, <1>2 DEF Approvals, Actions, Releases
<1> QED BY <1>1, <1>2, <1>3 DEF Means, StatusOf

LEMMA StartsStand ==
  ASSUME UpdateInv, NEW i \in Attempts, NEW a \in Actions, Start(i, a) \/ StartUnattended(i, a)
  PROVE  UpdateInv'
<1>1. /\ UNCHANGED <<served, flying, running, expired, floor, other, pending, grant, outcome>>
      /\ UNCHANGED <<pass, armed, handover, alarm, sent>>
      /\ journal' = FollowRunningRelease(journal) /\ att[i].at = "new"
      /\ Offered(FollowRunningRelease(journal), a)
      /\ slot' \in [id : Attempts \cup {0}, phase : {"none", "authorizing", "exchanging"}]
  BY DEF Start, StartUnattended, cloud, driver, Fresh
<1>2. PICK at \in {"relay", "check"} :
        att' = [att EXCEPT ![i] = [at |-> at, action |-> a, to |-> FollowRunningRelease(journal).actions[a].to]]
  BY DEF Start, StartUnattended
<1>r. PICK r : r = [at |-> at, action |-> a, to |-> FollowRunningRelease(journal).actions[a].to]
  OBVIOUS
<1>3. r \in Approvals /\ r.at # "new" /\ r.at # "handed" /\ Means(r)'
  BY <1>1, <1>r, OfferMeans
<1>4. att \in [Attempts -> Approvals] /\ att' = [att EXCEPT ![i] = r]
  BY <1>2, <1>r DEF UpdateInv, MoreTypes
<1>5. MoreTypes' /\ HandoverStands'
  BY <1>1, <1>3, <1>4 DEF UpdateInv, MoreTypes, HandoverStands
<1>6. \A k \in Attempts : att'[k] = att[k] \/ Means(att[k])'
  <2> SUFFICES Means(att[i])'
    BY <1>4
  <2> QED BY <1>3, <1>4 DEF Means, StatusOf
<1>7. /\ pending # 0 => pending \in Attempts /\ att[pending].at = "handed"
      /\ pass # NoPass => pass.att \in Attempts /\ att[pass.att].at = "handed"
  BY DEF UpdateInv, PassRuns, MoreTypes, Passes, Attempts
<1>8. /\ pending' # 0 => att'[pending'].at = "handed"
      /\ pass # NoPass => att'[pass.att] = att[pass.att]
  BY <1>1, <1>4, <1>7
<1> QED BY <1>1, <1>5, <1>6, <1>8, OutsidePass DEF UpdateInv, TypeOK

(* An approval on its way to the driver changes its place only.             *)
LEMMA RequestsStand ==
  ASSUME UpdateInv, NEW i \in Attempts, Relay(i) \/ Callback(i) \/ HandOver(i)
  PROVE  UpdateInv'
<1>1. /\ UNCHANGED <<served, flying, running, expired, floor, other, journal, pass, armed, handover, sent>>
      /\ att[i].at \in {"relay", "consent", "exchange", "check"}
  BY DEF Relay, Callback, HandOver, cloud, store
<1>2. PICK at \in {"consent", "exchange", "handed", "over"} : att' = [att EXCEPT ![i].at = at]
  BY DEF Relay, Callback, HandOver
<1>3. /\ att \in [Attempts -> Approvals] /\ i \in 0..MaxAttempts /\ pending \in 0..MaxAttempts
      /\ grant \in [Attempts -> {"none", "held", "revoked", "dropped", "gone"}]
      /\ slot \in [id : Attempts \cup {0}, phase : {"none", "authorizing", "exchanging"}]
      /\ alarm \in BOOLEAN
  BY DEF UpdateInv, MoreTypes, TypeOK, Attempts
<1>4. PICK r \in Approvals : r = [att[i] EXCEPT !.at = at]
  <2>1. att[i] \in Approvals
    BY <1>3
  <2> QED BY <2>1 DEF Approvals
<1>5. /\ att' = [att EXCEPT ![i] = r] /\ r.action = att[i].action /\ r.to = att[i].to /\ r.at = at
      /\ r.at # "new"
  <2>1. att[i] \in Approvals
    BY <1>3
  <2> QED BY <1>2, <1>3, <1>4, <2>1 DEF Approvals
<1>6. Means(att[i])'
  <2>1. Means(att[i])
    BY DEF UpdateInv, ApprovalsMean
  <2> QED BY <1>1, <1>3, <1>5, <2>1 DEF Means, StatusOf
<1>7. /\ slot' \in [id : Attempts \cup {0}, phase : {"none", "authorizing", "exchanging"}]
      /\ pending' \in {pending, i}
      /\ pending' = i => att'[i].at = "handed" \/ pending = i
  <2>1. CASE Relay(i)
    BY <1>3, <2>1 DEF Relay, NoSlot, driver
  <2>2. CASE Callback(i)
    BY <1>3, <2>2 DEF Callback, NoSlot, driver
  <2>3. CASE HandOver(i)
    <3>1. slot' = NoSlot /\ (pending' = pending \/ (pending' = i /\ att' = [att EXCEPT ![i].at = "handed"]))
      BY <2>3 DEF HandOver
    <3>2. att' = [att EXCEPT ![i].at = "handed"] => att'[i].at = "handed"
      <4>1. att[i] \in Approvals
        BY <1>3
      <4> QED BY <1>3, <4>1 DEF Approvals
    <3>3. NoSlot \in [id : Attempts \cup {0}, phase : {"none", "authorizing", "exchanging"}]
      BY DEF NoSlot
    <3> QED BY <3>1, <3>2, <3>3
  <2> QED BY <2>1, <2>2, <2>3
<1>8. alarm' \in BOOLEAN /\ (alarm => alarm')
  BY <1>3 DEF Relay, Callback, HandOver
<1>9. grant' \in [Attempts -> {"none", "held", "revoked", "dropped", "gone"}]
  <2>1. Forgotten(grant) \in [Attempts -> {"none", "held", "revoked", "dropped", "gone"}]
    BY <1>3 DEF Forgotten
  <2> QED BY <1>3, <2>1 DEF Relay, Callback, HandOver, driver
<1>10. /\ pending # 0 => pending \in Attempts /\ att[pending].at = "handed"
       /\ pass # NoPass => pass.att \in Attempts /\ att[pass.att].at = "handed"
  BY DEF UpdateInv, PassRuns, MoreTypes, Passes, Attempts
<1>11. /\ pending' # 0 => att'[pending'].at = "handed"
       /\ pass # NoPass => att'[pass.att] = att[pass.att]
  <2>1. pending # i /\ i # 0
    BY <1>1, <1>10 DEF Attempts
  <2> QED BY <1>1, <1>3, <1>5, <1>7, <1>10, <2>1
<1>12. MoreTypes' /\ HandoverStands'
  BY <1>1, <1>3, <1>4, <1>5, <1>7, <1>8 DEF UpdateInv, MoreTypes, HandoverStands
<1>13. \A k \in Attempts : att'[k] = att[k] \/ Means(att[k])'
  BY <1>3, <1>5, <1>6
<1> QED BY <1>1, <1>7, <1>8, <1>9, <1>11, <1>12, <1>13, OutsidePass DEF UpdateInv, TypeOK

LEMMA CloudStands ==
  ASSUME UpdateInv, Deadline \/ Land \/ \E r \in Releases : DeployOutside(r)
  PROVE  UpdateInv'
<1>1. /\ UNCHANGED <<running, expired, floor, other, journal, slot, att, pending, grant, outcome>>
      /\ UNCHANGED <<pass, armed, alarm, sent>>
  BY DEF Deadline, Land, DeployOutside, store, router, driver
<1>2. /\ served \in Releases /\ flying \in 0..MaxRelease
      /\ handover \in [action : 0..MaxActions, target : 0..MaxRelease, late : BOOLEAN]
  BY DEF UpdateInv, TypeOK
<1>3. /\ served' \in Releases /\ flying' \in 0..MaxRelease
      /\ handover' \in [action : 0..MaxActions, target : 0..MaxRelease, late : BOOLEAN]
      /\ handover'.action = handover.action /\ (handover' # NoHandover => handover # NoHandover)
  <2>1. CASE Deadline
    BY <1>2, <2>1 DEF Deadline, cloud
  <2>2. CASE Land
    <3>1. flying \in 1..MaxRelease /\ 0 \in 0..MaxRelease
      BY <1>2, <2>2, BoundsAssumption DEF Land
    <3> QED BY <1>2, <2>2, <3>1 DEF Land, Releases
  <2>3. CASE \E r \in Releases : DeployOutside(r)
    BY <1>2, <2>3 DEF DeployOutside
  <2> QED BY <2>1, <2>2, <2>3
<1>4. MoreTypes' /\ HandoverStands'
  BY <1>1, <1>3 DEF UpdateInv, MoreTypes, HandoverStands
<1>5. pending' # 0 => att'[pending'].at = "handed"
  BY <1>1 DEF UpdateInv, PassRuns
<1> QED BY <1>1, <1>3, <1>4, <1>5, OutsidePass DEF UpdateInv, TypeOK

(* -------------------------- time and other changes ----------------------- *)

(* The time of an action ends.  It cannot be the action that took the place *)
(* of an expired one whose pass is still about to upload.                   *)
LEMMA ExpireStands ==
  ASSUME UpdateInv, NEW e \in Actions, Expire(e)
  PROVE  UpdateInv'
<1>1. /\ UNCHANGED <<served, flying, running, floor, other, journal, slot, att, pending, grant>>
      /\ UNCHANGED <<pass, armed, handover, alarm, sent>>
      /\ expired' = expired \cup {e} /\ StatusOf(e) # "none"
      /\ pass # NoPass => Passing = e \/ Passing \notin expired
  BY DEF Expire, cloud, store, router, driver, StatusOf
<1>2. TypeOK'
  BY <1>1 DEF UpdateInv, TypeOK
<1>3. MoreTypes' /\ ActionsLead' /\ PassRuns' /\ RollbackIsElsewhere' /\ HandoverStands'
  BY <1>1 DEF UpdateInv, MoreTypes, ActionsLead, PassRuns, RollbackIsElsewhere, HandoverStands, StatusOf
<1>4. ChangesWait'
  BY <1>1 DEF UpdateInv, ChangesWait, StatusOf
<1>5. ApprovalsMean'
  <2>1. \A r \in Approvals : Means(r) => Means(r)'
    BY <1>1 DEF Means, StatusOf
  <2> QED BY <1>1, <2>1, ApprovalsKept
<1>6. SentBegan'
  BY <1>1 DEF UpdateInv, SentBegan, Began, StatusOf, Passing, ActionOf
<1>7. FloorStays'
  <2> SUFFICES ASSUME pass.at \in {"arm", "upload"}
               PROVE  /\ floor = 0 \/ att[pass.att].to >= floor
                      /\ StatusOf(Passing) = "applying" \/ running = att[pass.att].to
    BY <1>1 DEF FloorStays, Passing, ActionOf, StatusOf
  <2>1. pass # NoPass
    BY DEF NoPass
  <2>2. Passing \in expired => Passing = e
    BY <1>1, <2>1
  <2>3. e \notin expired
    BY DEF Expire
  <2> QED BY <2>2, <2>3 DEF UpdateInv, FloorStays
<1> QED BY <1>2, <1>3, <1>4, <1>5, <1>6, <1>7 DEF UpdateInv

(* Another change begins only while no action waits or is under way.  It    *)
(* raises the floor to the running release, which is the target of a pass   *)
(* that is still about to upload.                                           *)
LEMMA OtherStands ==
  ASSUME UpdateInv, OtherEnds \/ \E k \in {"team", "edit"} : OtherBegins(k)
  PROVE  UpdateInv'
<1>1. /\ UNCHANGED <<served, flying, running, expired, journal, slot, att, pending, grant>>
      /\ UNCHANGED <<pass, armed, handover, alarm, sent>>
  BY DEF OtherEnds, OtherBegins, cloud, router, driver
<1>2. /\ floor \in 0..MaxRelease /\ running \in Releases
      /\ other' \in {"none", "team", "edit"} /\ floor' \in {floor, running}
      /\ other' = "none" \/ ~LifecycleBlocks
      /\ floor' = floor \/ ~LifecycleBlocks
  BY DEF UpdateInv, TypeOK, OtherEnds, OtherBegins
<1>3. ~LifecycleBlocks =>
        /\ \A a \in Actions : StatusOf(a) \notin {"applying", "recovery_required"}
        /\ \A a \in Actions : StatusOf(a) = "authorization_required" => a \in expired
  BY DEF LifecycleBlocks, Ended, StatusOf
<1>4. TypeOK'
  BY <1>1, <1>2 DEF UpdateInv, TypeOK, Releases
<1>5. MoreTypes' /\ ActionsLead' /\ PassRuns' /\ RollbackIsElsewhere' /\ HandoverStands'
  BY <1>1 DEF UpdateInv, MoreTypes, ActionsLead, PassRuns, RollbackIsElsewhere, HandoverStands, StatusOf
<1>6. ApprovalsMean' /\ SentBegan'
  BY <1>1 DEF UpdateInv, ApprovalsMean, Means, SentBegan, Began, StatusOf, Passing, ActionOf
<1>7. ChangesWait'
  BY <1>1, <1>2, <1>3 DEF UpdateInv, ChangesWait, StatusOf
<1>8. FloorStays'
  <2>1. CASE floor' = floor
    BY <1>1, <2>1 DEF UpdateInv, FloorStays, Passing, ActionOf, StatusOf
  <2>2. CASE floor' = running /\ ~LifecycleBlocks
    <3> SUFFICES ASSUME pass.at \in {"arm", "upload"} PROVE running = att[pass.att].to
      BY <1>1, <1>2, <2>2 DEF FloorStays, Releases
    <3>1. Passing \in Actions
      BY DEF UpdateInv, MoreTypes, Passes, PassRuns, NoPass, Passing, ActionOf, Attempts, ApprovalsMean, Means
    <3> QED BY <1>3, <2>2, <3>1 DEF UpdateInv, FloorStays
  <2> QED BY <1>2, <2>1, <2>2
<1> QED BY <1>4, <1>5, <1>6, <1>7, <1>8 DEF UpdateInv

(* ------------------------------- preparing ------------------------------- *)

(* An action takes a number that no approval names and no script was sent   *)
(* for; what expired leaves the journal, everything else is settled.        *)
LEMMA PrepareStands ==
  ASSUME UpdateInv, NEW op \in {"update", "rollback"}, NEW to \in Releases, Prepare(op, to)
  PROVE  UpdateInv'
<1> DEFINE j == FollowRunningRelease(journal)
<1>1. /\ UNCHANGED <<served, flying, running, expired, floor, other, slot, att, pending, grant>>
      /\ UNCHANGED <<pass, armed, handover, alarm, sent>> /\ other = "none"
  BY DEF Prepare, cloud, router, driver
<1>2. j \in Journals
  BY FollowFacts
<1>3. PICK n \in Actions :
        /\ \A b \in Actions : b < n <=> (j.actions[b].status # "none" \/ b \in expired)
        /\ (op = "update" /\ to > j.current) \/ (op = "rollback" /\ to = j.previous)
        /\ Unfinished(j) \subseteq expired
        /\ journal' = [j EXCEPT !.actions =
             [b \in Actions |->
                IF b = n THEN [op |-> op, from |-> j.current, to |-> to, status |-> "authorization_required",
                               stage |-> "none", failure |-> "none"]
                ELSE IF b \in expired THEN NoAction ELSE @[b]]]
  BY DEF Prepare
<1>4. /\ j.previous # j.current /\ j.current \in Releases /\ j.previous \in 0..MaxRelease
      /\ j.actions \in [Actions -> ActionRecord]
      /\ \A b \in Actions :
            \/ j.actions[b] = journal.actions[b]
            \/ /\ journal.actions[b].status \in {"applying", "recovery_required"}
               /\ j.actions[b].status = "succeeded" /\ j.actions[b].to = running
               /\ j.actions[b].from = journal.actions[b].from
               /\ j.actions[b].to = journal.actions[b].to
  BY FollowFacts DEF Journals
<1> HIDE DEF j
<1> DEFINE new == [op |-> op, from |-> j.current, to |-> to, status |-> "authorization_required",
                   stage |-> "none", failure |-> "none"]
<1>5. /\ new \in ActionRecord /\ NoAction \in ActionRecord
      /\ new.status = "authorization_required" /\ new.from = j.current /\ new.to = to
      /\ NoAction.status = "none"
  BY <1>4, BoundsAssumption DEF ActionRecord, NoAction, Releases, Ended
<1>6. to # j.current
  BY <1>3, <1>4 DEF Releases
<1>7. /\ journal'.current = j.current /\ journal'.previous = j.previous
      /\ journal'.actions = [b \in Actions |-> IF b = n THEN new
                                              ELSE IF b \in expired THEN NoAction ELSE j.actions[b]]
      /\ DOMAIN journal' = DOMAIN j
  BY <1>2, <1>3 DEF Journals
<1> HIDE DEF new
<1>8. /\ journal'.actions[n] = new
      /\ \A b \in Actions \ {n} : journal'.actions[b] = IF b \in expired THEN NoAction ELSE j.actions[b]
  BY <1>7
<1>9. /\ n \notin expired /\ StatusOf(n) = "none"
      /\ \A b \in Actions : j.actions[b].status \notin Ended => b \in expired
  <2>1. ~(n < n)
    BY DEF Actions
  <2> QED BY <1>3, <1>4, <2>1 DEF StatusOf, Unfinished
<1>10. n \notin sent
  BY <1>9 DEF UpdateInv, SentBegan, Began
<1>11. \A i \in Attempts : att[i].at # "new" => att[i].action # n
  BY <1>9 DEF UpdateInv, ApprovalsMean, Means
<1>12. journal' \in Journals
  <2>1. journal'.actions \in [Actions -> ActionRecord]
    BY <1>4, <1>5, <1>7
  <2>2. journal' = [j EXCEPT !.actions = journal'.actions]
    BY <1>2, <1>3 DEF Journals
  <2> QED BY <1>2, <2>1, <2>2 DEF Journals
<1>13. TypeOK'
  BY <1>1, <1>12 DEF UpdateInv, TypeOK, Journals
<1>14. MoreTypes' /\ PassRuns' /\ HandoverStands' /\ RollbackIsElsewhere' /\ ChangesWait'
  BY <1>1, <1>4, <1>7 DEF UpdateInv, MoreTypes, PassRuns, HandoverStands, RollbackIsElsewhere, ChangesWait
<1>15. ActionsLead'
  <2> SUFFICES ASSUME NEW b \in Actions, journal'.actions[b].status # "none"
               PROVE  /\ journal'.actions[b].from \in Releases /\ journal'.actions[b].to \in Releases
                      /\ journal'.actions[b].from # journal'.actions[b].to
    BY DEF ActionsLead, StatusOf
  <2>1. CASE b = n
    BY <1>4, <1>5, <1>6, <1>8, <2>1
  <2>2. CASE b # n
    <3>1. journal'.actions[b] = j.actions[b] /\ j.actions[b].status # "none"
      BY <1>5, <1>8, <2>2
    <3>2. journal.actions[b].status # "none"
      BY <1>4, <3>1
    <3> QED BY <1>4, <3>1, <3>2 DEF UpdateInv, ActionsLead, StatusOf
  <2> QED BY <2>1, <2>2
<1>16. ApprovalsMean'
  <2> SUFFICES ASSUME NEW i \in Attempts, att[i].at # "new"
               PROVE  Means(att[i])'
    BY <1>1 DEF ApprovalsMean, Means
  <2>1. /\ att[i].action \in Actions /\ att[i].action # n /\ att[i].to \in Releases
        /\ att[i].action \in expired \/ StatusOf(att[i].action) # "none"
        /\ StatusOf(att[i].action) # "none" => journal.actions[att[i].action].to = att[i].to
    BY <1>11 DEF UpdateInv, ApprovalsMean, Means
  <2> QED BY <1>1, <1>4, <1>5, <1>8, <2>1 DEF Means, StatusOf
<1>17. ASSUME NEW b \in Actions, b # n, Began(b)
       PROVE  /\ b \in expired \/ journal'.actions[b].status \notin {"none", "authorization_required"}
              /\ journal'.actions[b].status # "failed"
  BY <1>4, <1>5, <1>8, <1>17 DEF Began, StatusOf
<1>18. ASSUME pass.at \in {"read", "load", "arm", "upload"}
       PROVE  /\ pass.att \in Attempts /\ Passing \in Actions /\ Passing # n
              /\ StatusOf(Passing) # "none" => journal.actions[Passing].to = att[pass.att].to
  <2>1. pass.att \in Attempts /\ att[pass.att].at = "handed"
    BY <1>18 DEF UpdateInv, MoreTypes, Passes, PassRuns, NoPass, Attempts
  <2> QED BY <1>11, <2>1 DEF UpdateInv, ApprovalsMean, Means, Passing, ActionOf
<1>19. SentBegan'
  <2>1. \A b \in sent : Began(b)'
    <3> SUFFICES ASSUME NEW b \in sent PROVE Began(b)'
      OBVIOUS
    <3>1. b \in Actions /\ b # n /\ Began(b)
      BY <1>10 DEF UpdateInv, MoreTypes, SentBegan
    <3> QED BY <1>1, <1>17, <3>1 DEF Began, StatusOf
  <2>2. ASSUME pass.at \in {"read", "load", "arm", "upload"} PROVE Passing' \notin sent /\ Began(Passing)'
    <3>1. Passing' = Passing /\ Passing \in Actions /\ Passing # n
      BY <1>1, <1>18, <2>2 DEF Passing, ActionOf
    <3>2. Passing \notin sent /\ Began(Passing)
      BY <2>2 DEF UpdateInv, SentBegan
    <3> QED BY <1>1, <1>17, <3>1, <3>2 DEF Began, StatusOf
  <2> QED BY <1>1, <2>1, <2>2 DEF SentBegan
<1>20. FloorStays'
  <2> SUFFICES ASSUME pass.at \in {"arm", "upload"}
               PROVE  /\ floor = 0 \/ att[pass.att].to >= floor
                      /\ Passing \in expired \/ running = att[pass.att].to
    BY <1>1, <1>5, <1>8, <1>9 DEF FloorStays, Passing, ActionOf, StatusOf
  <2>1. /\ floor = 0 \/ att[pass.att].to >= floor
        /\ StatusOf(Passing) = "applying" \/ running = att[pass.att].to \/ Passing \in expired
    BY DEF UpdateInv, FloorStays
  <2>2. CASE StatusOf(Passing) = "applying"
    <3>1. \/ j.actions[Passing].status = "applying"
          \/ running = journal.actions[Passing].to
      BY <1>4, <1>18, <2>2 DEF StatusOf
    <3> QED BY <1>9, <1>18, <2>1, <2>2, <3>1 DEF Ended
  <2> QED BY <2>1, <2>2
<1> QED BY <1>13, <1>14, <1>15, <1>16, <1>19, <1>20 DEF UpdateInv

(* -------------------------------- the driver ----------------------------- *)

(* A step of the pass, or the beginning of one, and what it must establish. *)
LEMMA InsidePass ==
  ASSUME UpdateInv, UNCHANGED <<running, expired, floor, other, sent, slot, att, pending, served, flying, grant>>,
         Follows(journal'), pass' \in Passes, PassRuns', HandoverStands', FloorStays',
         handover' \in [action : 0..MaxActions, target : 0..MaxRelease, late : BOOLEAN],
         alarm' \in BOOLEAN, armed' \in BOOLEAN,
         pass'.at \in {"read", "load", "arm", "upload"} => Passing' \notin sent /\ Began(Passing)'
  PROVE  UpdateInv'
<1>1. /\ journal' \in Journals /\ ActionsLead' /\ RollbackIsElsewhere' /\ ChangesWait'
      /\ \A a \in sent : Began(a)'
      /\ \A r \in Approvals : Means(r) => Means(r)'
  BY JournalKept
<1>2. ApprovalsMean'
  BY <1>1, ApprovalsKept
<1>3. SentBegan'
  BY <1>1 DEF SentBegan
<1>4. MoreTypes'
  BY DEF UpdateInv, MoreTypes
<1>5. TypeOK'
  BY <1>1 DEF UpdateInv, TypeOK, Journals
<1> QED BY <1>1, <1>2, <1>3, <1>4, <1>5 DEF UpdateInv

(* What a pass under way runs for.                                          *)
LEMMA PassFacts ==
  ASSUME UpdateInv, pass # NoPass
  PROVE  /\ pass \in Passes /\ pass.att \in Attempts /\ att[pass.att].at = "handed" /\ pass.at # "none"
         /\ Passing \in Actions /\ att[pass.att].to \in Releases
         /\ StatusOf(Passing) # "none" => journal.actions[Passing].to = att[pass.att].to
BY DEF UpdateInv, MoreTypes, Passes, PassRuns, ApprovalsMean, Means, Passing, ActionOf, Attempts

(* The pass goes on to another of its steps.                                *)
LEMMA GoFacts ==
  ASSUME UpdateInv, pass # NoPass, UNCHANGED <<att, pending>>,
         NEW at \in {"begin", "read", "load", "arm", "upload", "uploaded", "failed"}, Go(at)
  PROVE  /\ pass' \in Passes /\ PassRuns' /\ Passing' = Passing
         /\ pass'.at = at /\ pass'.att = pass.att /\ pass' # NoPass
<1>1. pass \in Passes /\ pass.att \in Attempts /\ att[pass.att].at = "handed"
  BY PassFacts
<1>2. pass' \in Passes /\ pass'.at = at /\ pass'.att = pass.att
  BY <1>1 DEF Passes, Go
<1>3. pass' # NoPass
  BY <1>2 DEF NoPass
<1> QED BY <1>1, <1>2, <1>3 DEF UpdateInv, PassRuns, Passing, ActionOf, Attempts

(* A command of the pass that the journal accepts or refuses.               *)
LEMMA CommandFacts ==
  ASSUME UpdateInv, pass # NoPass, NEW cmd \in {"begin", "current_verified", "assets_uploaded"},
         Accepts(Passing, cmd), journal' = Controlled(Passing, cmd), UNCHANGED <<expired, sent>>,
         cmd = "begin" \/ (Passing \notin sent /\ Began(Passing))
  PROVE  /\ Follows(journal') /\ Passing \notin sent
         /\ StatusOf(Passing) # "none" /\ journal'.actions[Passing].status = "applying"
         /\ floor = 0 \/ att[pass.att].to >= floor
<1>1. /\ Passing \in Actions
      /\ StatusOf(Passing) # "none" => journal.actions[Passing].to = att[pass.att].to
  BY PassFacts
<1>2. cmd \in Commands /\ cmd # "fail"
  BY DEF Commands
<1>3. /\ Follows(journal') /\ RuntimeReleaseAllowed(journal.actions[Passing].to)
      /\ cmd = "begin" => Passing \notin expired /\ StatusOf(Passing) = "authorization_required"
      /\ journal'.actions[Passing].status = "applying"
  BY <1>1, <1>2, ControlFacts
<1>4. StatusOf(Passing) # "none"
  BY <1>1, <1>3 DEF Follows, Moved, StatusOf
<1>5. Passing \notin sent
  BY <1>3 DEF UpdateInv, SentBegan, Began
<1> QED BY <1>1, <1>3, <1>4, <1>5 DEF RuntimeReleaseAllowed

LEMMA GiveUpFacts ==
  ASSUME UpdateInv, pass # NoPass, Passing \notin sent, GiveUp
  PROVE  Follows(journal') /\ Go("failed")
<1>1. Passing \in Actions /\ "fail" \in Commands
  BY PassFacts DEF Commands
<1> QED BY <1>1, ControlFacts DEF GiveUp

LEMMA BeginStands ==
  ASSUME UpdateInv, Begin
  PROVE  UpdateInv'
<1>1. /\ UNCHANGED <<running, expired, floor, other, sent, slot, att, pending, served, flying, grant>>
      /\ UNCHANGED <<armed, handover, alarm>> /\ pass # NoPass
      /\ journal' = Controlled(Passing, "begin")
  BY DEF Begin, router, driver, cloud, NoPass
<1>2. Passing \in Actions
  BY <1>1, PassFacts
<1>3. Follows(journal')
  BY <1>1, <1>2, ControlFacts DEF Commands
<1>4. PICK at \in {"read", "failed"} : Go(at) /\ (at = "read" => Accepts(Passing, "begin"))
  BY DEF Begin
<1>5. /\ pass' \in Passes /\ PassRuns' /\ Passing' = Passing /\ pass'.at = at
  BY <1>1, <1>4, GoFacts
<1>6. HandoverStands' /\ FloorStays'
  BY <1>1, <1>5 DEF UpdateInv, HandoverStands, FloorStays
<1>7. at = "read" => Passing' \notin sent /\ Began(Passing)'
  <2> SUFFICES ASSUME at = "read" PROVE Passing' \notin sent /\ Began(Passing)'
    OBVIOUS
  <2>1. Passing \notin sent /\ journal'.actions[Passing].status = "applying"
    BY <1>1, <1>4, CommandFacts
  <2> QED BY <1>5, <2>1 DEF Began, StatusOf
<1> QED BY <1>1, <1>3, <1>5, <1>6, <1>7, InsidePass DEF UpdateInv, TypeOK

(* Reading the current version, and loading the target and its assets.      *)
LEMMA WorkStands ==
  ASSUME UpdateInv, ReadCurrent \/ LoadTarget
  PROVE  UpdateInv'
<1>1. /\ UNCHANGED <<running, expired, floor, other, sent, slot, att, pending, served, flying, grant>>
      /\ UNCHANGED <<armed, handover, alarm>> /\ pass # NoPass /\ pass.at \in {"read", "load"}
  BY DEF ReadCurrent, LoadTarget, router, driver, cloud, NoPass
<1>2. Passing \in Actions /\ Passing \notin sent /\ Began(Passing)
  BY <1>1, PassFacts DEF UpdateInv, SentBegan
<1>3. \/ GiveUp
      \/ \E cmd \in {"current_verified", "assets_uploaded"}, at \in {"load", "arm"} :
            Accepts(Passing, cmd) /\ journal' = Controlled(Passing, cmd) /\ Go(at)
  BY DEF ReadCurrent, LoadTarget, Require
<1>4. CASE GiveUp
  <2>1. Follows(journal') /\ Go("failed")
    BY <1>1, <1>2, <1>4, GiveUpFacts
  <2>2. /\ pass' \in Passes /\ PassRuns' /\ Passing' = Passing /\ pass'.at = "failed"
    BY <1>1, <2>1, GoFacts
  <2>3. HandoverStands' /\ FloorStays'
    BY <1>1, <2>2 DEF UpdateInv, HandoverStands, FloorStays
  <2> QED BY <1>1, <2>1, <2>2, <2>3, InsidePass DEF UpdateInv, TypeOK
<1>5. CASE \E cmd \in {"current_verified", "assets_uploaded"}, at \in {"load", "arm"} :
             Accepts(Passing, cmd) /\ journal' = Controlled(Passing, cmd) /\ Go(at)
  <2>1. PICK cmd \in {"current_verified", "assets_uploaded"}, at \in {"load", "arm"} :
          Accepts(Passing, cmd) /\ journal' = Controlled(Passing, cmd) /\ Go(at)
    BY <1>5
  <2>2. /\ Follows(journal') /\ journal'.actions[Passing].status = "applying"
        /\ floor = 0 \/ att[pass.att].to >= floor
    BY <1>1, <1>2, <2>1, CommandFacts
  <2>3. /\ pass' \in Passes /\ PassRuns' /\ Passing' = Passing /\ pass'.at = at /\ pass'.att = pass.att
    BY <1>1, <2>1, GoFacts
  <2>4. Passing' \notin sent /\ Began(Passing)'
    BY <1>2, <2>2, <2>3 DEF Began, StatusOf
  <2>5. FloorStays'
    BY <1>1, <2>2, <2>3 DEF FloorStays, StatusOf
  <2>6. HandoverStands'
    BY <1>1 DEF UpdateInv, HandoverStands
  <2> QED BY <1>1, <2>2, <2>3, <2>4, <2>5, <2>6, InsidePass DEF UpdateInv, TypeOK
<1> QED BY <1>3, <1>4, <1>5

LEMMA ArmStands ==
  ASSUME UpdateInv, ArmHandover
  PROVE  UpdateInv'
<1>1. /\ UNCHANGED <<running, expired, floor, other, sent, slot, att, pending, served, flying, grant, journal>>
      /\ pass.at = "arm" /\ pass # NoPass /\ Go("upload") /\ alarm' = TRUE /\ armed' = TRUE
      /\ handover' = [action |-> Passing, target |-> att[pass.att].to, late |-> FALSE]
  BY DEF ArmHandover, router, driver, cloud, store, NoPass
<1>2. Passing \in Actions /\ Passing \notin sent /\ Began(Passing) /\ att[pass.att].to \in Releases
  BY <1>1, PassFacts DEF UpdateInv, SentBegan
<1>3. /\ pass' \in Passes /\ PassRuns' /\ Passing' = Passing /\ pass'.at = "upload" /\ pass'.att = pass.att
  BY <1>1, GoFacts
<1>4. /\ handover' \in [action : 0..MaxActions, target : 0..MaxRelease, late : BOOLEAN]
      /\ handover'.action \in Actions
  BY <1>1, <1>2 DEF Actions, Releases
<1>5. HandoverStands'
  BY <1>1, <1>4 DEF HandoverStands
<1>6. FloorStays'
  BY <1>1, <1>3 DEF UpdateInv, FloorStays, StatusOf
<1>7. Passing' \notin sent /\ Began(Passing)'
  BY <1>1, <1>2, <1>3 DEF Began, StatusOf
<1>8. Follows(journal')
  BY <1>1, JournalFollows
<1> QED BY <1>1, <1>3, <1>4, <1>5, <1>6, <1>7, <1>8, InsidePass

(* The script is sent for an action that began, once.                       *)
LEMMA UploadStands ==
  ASSUME UpdateInv, UploadScript
  PROVE  UpdateInv' /\ UploadAboveFloor
<1>1. /\ UNCHANGED <<running, expired, floor, other, slot, att, pending, grant, journal, armed, handover, alarm>>
      /\ pass.at = "upload" /\ pass # NoPass /\ sent' = sent \cup {Passing}
      /\ served' \in {served, att[pass.att].to} /\ flying' \in {flying, att[pass.att].to}
  BY DEF UploadScript, router, driver, cloud, store, NoPass
<1>2. /\ Passing \in Actions /\ Passing \notin sent /\ Began(Passing) /\ att[pass.att].to \in Releases
      /\ floor = 0 \/ att[pass.att].to >= floor
  BY <1>1, PassFacts DEF UpdateInv, SentBegan, FloorStays
<1>3. PICK at \in {"uploaded", "failed"} : Go(at)
  BY DEF UploadScript
<1>4. /\ pass' \in Passes /\ PassRuns' /\ pass'.at = at
  BY <1>1, <1>3, GoFacts
<1>5. TypeOK' /\ MoreTypes'
  BY <1>1, <1>2, <1>4 DEF UpdateInv, TypeOK, MoreTypes, Releases
<1>6. SentBegan'
  BY <1>1, <1>2, <1>4 DEF UpdateInv, SentBegan, Began, StatusOf
<1>7. ActionsLead' /\ ApprovalsMean' /\ ChangesWait' /\ RollbackIsElsewhere' /\ HandoverStands' /\ FloorStays'
  BY <1>1, <1>4 DEF UpdateInv, ActionsLead, ApprovalsMean, Means, ChangesWait, RollbackIsElsewhere,
                    HandoverStands, FloorStays, StatusOf
<1>8. UploadAboveFloor
  <2>1. floor \in 0..MaxRelease
    BY DEF UpdateInv, TypeOK
  <2> QED BY <1>1, <1>2, <2>1 DEF UploadAboveFloor, Releases
<1> QED BY <1>4, <1>5, <1>6, <1>7, <1>8 DEF UpdateInv

(* A step that leaves no pass under way, and ends the requests it must.     *)
LEMMA NoPassStands ==
  ASSUME UpdateInv, UNCHANGED <<expired, floor, other, sent, slot, served, flying, journal, handover>>,
         att' = att \/ att' = [i \in Attempts |-> IF att[i].at \in {"relay", "exchange", "check"}
                                                 THEN [att[i] EXCEPT !.at = "over"] ELSE att[i]],
         running' \in {running, served}, pending' = 0, pass' = NoPass, armed' \in BOOLEAN,
         alarm' \in BOOLEAN, alarm => alarm',
         grant' \in [Attempts -> {"none", "held", "revoked", "dropped", "gone"}]
  PROVE  UpdateInv'
<1>1. att' \in [Attempts -> Approvals]
  <2>1. att \in [Attempts -> Approvals]
    BY DEF UpdateInv, MoreTypes
  <2> QED BY <2>1 DEF Approvals
<1>2. \A i \in Attempts : /\ att'[i].action = att[i].action /\ att'[i].to = att[i].to
                          /\ att[i].at = "new" => att'[i].at = "new"
  <2>1. att \in [Attempts -> Approvals]
    BY DEF UpdateInv, MoreTypes
  <2> QED BY <2>1 DEF Approvals
<1>3. MoreTypes' /\ PassRuns' /\ pass' \in Passes
  BY <1>1, BoundsAssumption DEF UpdateInv, MoreTypes, PassRuns, Passes, NoPass
<1>4. TypeOK'
  BY DEF UpdateInv, TypeOK
<1>5. ApprovalsMean'
  BY <1>2 DEF UpdateInv, ApprovalsMean, Means, StatusOf
<1>6. SentBegan' /\ FloorStays'
  BY DEF UpdateInv, SentBegan, FloorStays, Began, StatusOf, NoPass
<1>7. ActionsLead' /\ ChangesWait' /\ RollbackIsElsewhere' /\ HandoverStands'
  BY DEF UpdateInv, ActionsLead, ChangesWait, RollbackIsElsewhere, HandoverStands, StatusOf
<1> QED BY <1>3, <1>4, <1>5, <1>6, <1>7 DEF UpdateInv

LEMMA EndsStand ==
  ASSUME UpdateInv, End \/ Restart
  PROVE  UpdateInv'
<1> DEFINE Grants == {"none", "held", "revoked", "dropped", "gone"}
<1>1. /\ UNCHANGED <<expired, floor, other, sent, slot, served, flying, journal, handover>>
      /\ pending' = 0 /\ pass' = NoPass /\ running' \in {running, served}
      /\ att' = att \/ att' = [i \in Attempts |-> IF att[i].at \in {"relay", "exchange", "check"}
                                                  THEN [att[i] EXCEPT !.at = "over"] ELSE att[i]]
  BY DEF End, Restart, Reload, store, cloud
<1>2. grant \in [Attempts -> Grants] /\ alarm \in BOOLEAN /\ armed \in BOOLEAN
  BY DEF UpdateInv, TypeOK
<1>3. armed' \in BOOLEAN /\ alarm' \in BOOLEAN /\ (alarm => alarm')
  BY <1>2 DEF End, Restart, Reload
<1>4. grant' \in [Attempts -> Grants]
  <2>1. \A g \in [Attempts -> Grants] : Forgotten(g) \in [Attempts -> Grants] /\ Lose(g) \in [Attempts -> Grants]
    BY DEF Forgotten, Lose
  <2>2. [grant EXCEPT ![pass.att] = "revoked"] \in [Attempts -> Grants]
    BY <1>2
  <2> QED BY <1>2, <2>1, <2>2 DEF End, Restart
<1> QED BY <1>1, <1>3, <1>4, NoPassStands

(* The alarm looks at the handover, then a pass begins if the driver holds  *)
(* an approval.                                                             *)
LEMMA AlarmStands ==
  ASSUME UpdateInv, Alarm
  PROVE  UpdateInv'
<1>1. /\ UNCHANGED <<running, expired, floor, other, sent, slot, att, pending, served, flying, grant, armed>>
      /\ pass' = IF pending = 0 THEN NoPass ELSE [att |-> pending, at |-> "begin"]
      /\ FinishHandover
  BY DEF Alarm, router, driver, cloud
<1>2. Follows(journal')
  <2>1. CASE journal' = journal
    BY <2>1, JournalFollows
  <2>2. CASE handover # NoHandover /\ journal' = Controlled(handover.action, HandoverCommand)
    <3>1. handover.action \in Actions
      BY <2>2 DEF UpdateInv, HandoverStands
    <3>2. HandoverCommand \in Commands /\ HandoverCommand # "fail"
      BY DEF HandoverCommand, Commands
    <3> QED BY <2>2, <3>1, <3>2, ControlFacts
  <2> QED BY <1>1, <2>1, <2>2 DEF FinishHandover
<1>3. /\ handover' \in {handover, NoHandover} /\ alarm' \in BOOLEAN
      /\ handover' = NoHandover \/ alarm'
  BY <1>1 DEF FinishHandover
<1>4. /\ handover' \in [action : 0..MaxActions, target : 0..MaxRelease, late : BOOLEAN]
      /\ HandoverStands'
  <2>1. NoHandover \in [action : 0..MaxActions, target : 0..MaxRelease, late : BOOLEAN]
    BY BoundsAssumption DEF NoHandover
  <2>2. handover \in [action : 0..MaxActions, target : 0..MaxRelease, late : BOOLEAN]
    BY DEF UpdateInv, TypeOK
  <2>3. HandoverStands
    BY DEF UpdateInv
  <2>4. NoHandover' = NoHandover
    BY DEF NoHandover
  <2> QED BY <1>3, <2>1, <2>2, <2>3, <2>4 DEF HandoverStands
<1>5. /\ pass' \in Passes /\ PassRuns' /\ pass'.at \in {"none", "begin"}
  BY <1>1, BoundsAssumption DEF UpdateInv, MoreTypes, PassRuns, Passes, NoPass
<1>6. FloorStays'
  BY <1>5 DEF FloorStays
<1> QED BY <1>1, <1>2, <1>3, <1>4, <1>5, <1>6, InsidePass DEF UpdateInv, TypeOK

(* ------------------------------ the theorems ----------------------------- *)

LEMMA InitHolds == Init => UpdateInv
<1> SUFFICES ASSUME Init PROVE UpdateInv
  OBVIOUS
<1>1. /\ NoAction \in ActionRecord /\ NoAction.status = "none"
      /\ NoSlot \in [id : Attempts \cup {0}, phase : {"none", "authorizing", "exchanging"}]
      /\ NoPass \in Passes /\ NoPass.at = "none"
      /\ NoHandover \in [action : 0..MaxActions, target : 0..MaxRelease, late : BOOLEAN]
  BY BoundsAssumption DEF NoAction, NoSlot, NoPass, NoHandover, ActionRecord, Passes, Ended
<1>2. /\ 1 \in Releases /\ journal.previous = 0 /\ journal.current = 1
      /\ journal \in Journals /\ \A a \in Actions : journal.actions[a] = NoAction
  BY <1>1, BoundsAssumption DEF Init, Releases, Journals
<1>3. TypeOK
  BY <1>1, <1>2, BoundsAssumption DEF Init, TypeOK, Journals
<1>4. att \in [Attempts -> Approvals] /\ \A i \in Attempts : att[i].at = "new"
  BY BoundsAssumption DEF Init, Approvals
<1>5. MoreTypes /\ ApprovalsMean /\ PassRuns
  BY <1>1, <1>4, BoundsAssumption DEF Init, MoreTypes, ApprovalsMean, Means, PassRuns
<1>6. ActionsLead /\ SentBegan /\ ChangesWait /\ FloorStays /\ RollbackIsElsewhere /\ HandoverStands
  BY <1>1, <1>2 DEF Init, ActionsLead, SentBegan, ChangesWait, FloorStays, RollbackIsElsewhere, HandoverStands,
                    StatusOf
<1> QED BY <1>3, <1>5, <1>6 DEF UpdateInv

LEMMA NextHolds == UpdateInv /\ [Next]_vars => UpdateInv'
<1> SUFFICES ASSUME UpdateInv, [Next]_vars PROVE UpdateInv'
  OBVIOUS
<1>1. CASE \E op \in {"update", "rollback"}, to \in Releases : Prepare(op, to)
  BY <1>1, PrepareStands
<1>2. CASE Read
  BY <1>2, ReadStands
<1>3. CASE \E i \in Attempts, a \in Actions : Start(i, a) \/ StartUnattended(i, a)
  BY <1>3, StartsStand
<1>4. CASE \E i \in Attempts : Relay(i) \/ Callback(i) \/ HandOver(i)
  BY <1>4, RequestsStand
<1>5. CASE Alarm
  BY <1>5, AlarmStands
<1>6. CASE PassStep
  BY <1>6, BeginStands, WorkStands, ArmStands, UploadStands, EndsStand DEF PassStep
<1>7. CASE Restart
  BY <1>7, EndsStand
<1>8. CASE Deadline \/ Land \/ \E r \in Releases : DeployOutside(r)
  BY <1>8, CloudStands
<1>9. CASE \E a \in Actions : Expire(a)
  BY <1>9, ExpireStands
<1>10. CASE OtherEnds \/ \E k \in {"team", "edit"} : OtherBegins(k)
  BY <1>10, OtherStands
<1>11. CASE UNCHANGED vars
  BY <1>11 DEF UpdateInv, TypeOK, MoreTypes, ActionsLead, ApprovalsMean, Means, PassRuns, SentBegan, Began,
               ChangesWait, FloorStays, RollbackIsElsewhere, HandoverStands, StatusOf, Passing, ActionOf, vars
<1> QED BY <1>1, <1>2, <1>3, <1>4, <1>5, <1>6, <1>7, <1>8, <1>9, <1>10, <1>11 DEF Next

LEMMA InvIsSafe == UpdateInv => UpdateIsSafe
<1> SUFFICES ASSUME UpdateInv PROVE UpdateIsSafe
  OBVIOUS
<1>1. FailedIsUnsent
  BY DEF UpdateInv, SentBegan, Began, FailedIsUnsent, StatusOf
<1>2. HandoverIsTended
  BY DEF UpdateInv, HandoverStands, HandoverIsTended
<1>3. UploadIsAlone
  BY DEF UpdateInv, ChangesWait, UploadIsAlone, StatusOf
<1> QED BY <1>1, <1>2, <1>3 DEF UpdateInv, UpdateIsSafe

(* The safety of updates (customer-update-driver.ts run and armHandover,     *)
(* finishCustomerRuntimeHandover): an action the journal calls failed never  *)
(* sent its script, a rollback leads elsewhere, a stored handover is always  *)
(* looked at again, and no other change is open while an update is           *)
(* unsettled, whatever restarts, expires or is deployed outside.             *)
THEOREM UpdateSafety == Spec => []UpdateIsSafe
<1>1. Spec => []UpdateInv
  BY InitHolds, NextHolds, PTL DEF Spec
<1> QED BY <1>1, InvIsSafe, PTL

(* The upload of a release stays at or above the minimum of an installed     *)
(* source or of a Team save (uploadScript after teamRuntimeReleaseAllowed),  *)
(* although the minimum was read before the journal, the assets and the      *)
(* handover, and may have been raised since.                                 *)
THEOREM UploadsAboveFloor == Spec => UploadsKeepFloor
<1>1. Spec => []UpdateInv
  BY InitHolds, NextHolds, PTL DEF Spec
<1>2. UpdateInv /\ [Next]_vars => [UploadAboveFloor]_vars
  <2> SUFFICES ASSUME UpdateInv, [Next]_vars, sent' # sent PROVE UploadAboveFloor
    BY DEF UploadAboveFloor
  <2>1. UploadScript
    BY DEF Next, PassStep, vars, Prepare, Read, Start, StartUnattended, Relay, Callback, HandOver, Alarm,
           Begin, ReadCurrent, LoadTarget, ArmHandover, End, Restart, Deadline, Land, DeployOutside, Expire,
           OtherEnds, OtherBegins
  <2> QED BY <2>1, UploadStands
<1>3. Spec => [][UploadAboveFloor]_vars
  BY <1>1, <1>2, PTL DEF Spec
<1> QED BY <1>3 DEF UploadsKeepFloor

=============================================================================
