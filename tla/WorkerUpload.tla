--------------------------- MODULE WorkerUpload ---------------------------
(***************************************************************************)
(* The direct upload of a verified Worker release                          *)
(* (cloudflare-worker-direct-upload.ts): the Worker, its assets, its       *)
(* version and its deployment, each by one request that is never repeated, *)
(* and the recovery reads a caller makes after a failure.                  *)
(*                                                                         *)
(* Every function answers or fails with a stage, an outcome and the        *)
(* submissions made so far.  A request without a usable answer took        *)
(* effect, was dropped, or takes effect later: the caller may begin        *)
(* recovery before that is decided, and the request may still land then.   *)
(* Outside actors own the same account: they may take the name, upload     *)
(* versions and deploy them.                                               *)
(***************************************************************************)
EXTENDS Naturals, Sequences, FiniteSets

CONSTANTS MaxBuckets, MaxFaults, MaxOutside \* bounds: asset buckets, failed requests, outside changes

VARIABLES
  worker,            \* the Worker of that name: none, ours (its tags are exact), other
  versions,          \* its versions, oldest first: TRUE where the tag is this release's
  deployments,       \* its deployments, oldest first: TRUE where the tag is this release's
  stored,            \* asset buckets the provider holds for the present session
  wire,              \* mutations of this call sent, unanswered, not yet decided
  late,              \* how many of each kind earlier calls left undecided
  pc, subs, error,   \* the present call: its step, its submissions, how the last one failed
  buckets, bucket,   \* of the asset session: how many buckets, how many uploaded
  list,              \* the paged read of the versions
  made,              \* what requests of this call created
  overtaken,         \* history: kinds sent anew while an earlier request was undecided, or had landed
                     \* since the call looked
  faults, outside

provider == <<worker, versions, deployments>>
assets   == <<stored, buckets, bucket>>
vars == <<worker, versions, deployments, stored, wire, late, pc, subs, error, buckets, bucket, list, made,
          overtaken, faults, outside>>

Mutations == {"worker", "version", "deployment"}
Steps == {"lookup", "worker", "verifyWorker", "session", "bucket", "version", "verifyVersion", "deployment",
          "verifyDeployment", "versions", "deployments", "findWorker", "failed", "done"}
Outcomes == {"not_sent", "rejected", "unknown", "submitted"}
(* What the answers of the provider and of a failed call may say.            *)
WorkerStates    == {"none", "ours", "other"}
VersionResults  == Seq(BOOLEAN)
DeploymentLists == Seq(BOOLEAN)
AssetSessions   == 0..MaxBuckets
Submissions     == SUBSET Mutations
Errors          == [stage : Steps, outcome : Outcomes, subs : Submissions]
NoList == [page |-> 1, pages |-> 1, total |-> 0, seen |-> {}, matches |-> {}]

TypeOK ==
  /\ worker \in WorkerStates /\ versions \in VersionResults /\ deployments \in DeploymentLists
  /\ wire \subseteq Mutations /\ pc \in Steps /\ subs \in Submissions /\ made \subseteq Mutations
  /\ error \in Errors
  /\ {stored, buckets, bucket} \subseteq AssetSessions
  /\ late \in [Mutations -> Nat] /\ overtaken \subseteq Mutations
  /\ list.page \in Nat /\ list.seen \subseteq Nat /\ list.matches \subseteq list.seen

Init ==
  /\ worker \in {"none", "other"} /\ versions = <<>> /\ deployments = <<>> /\ stored = 0 /\ wire = {}
  /\ late = [k \in Mutations |-> 0] /\ overtaken = {}
  /\ pc = "lookup" /\ subs = {} /\ error = [stage |-> "lookup", outcome |-> "not_sent", subs |-> {}]
  /\ buckets = 0 /\ bucket = 0 /\ list = NoList /\ made = {} /\ faults = 0 /\ outside = 0

Fault == faults < MaxFaults /\ faults' = faults + 1

-----------------------------------------------------------------------------
(* Answers                                                                  *)

Rethrow(stage, outcome, more) ==
  pc' = "failed" /\ error' = [stage |-> stage, outcome |-> outcome, subs |-> more \cup subs] /\ UNCHANGED subs

Exists(k) == k = "worker" /\ worker # "none"
Apply(k) ==
  /\ worker' = IF k = "worker" THEN "ours" ELSE worker
  /\ versions' = IF k = "version" THEN Append(versions, TRUE) ELSE versions
  /\ deployments' = IF k = "deployment" THEN Append(deployments, TRUE) ELSE deployments

OutcomeOf(k) == IF k = "answered" THEN "rejected" ELSE "unknown"

(* 200 or 201 with the identifier.                                          *)
Make(k) == ~Exists(k) /\ Apply(k) /\ made' = made \cup {k}
Submitted(k, next) ==
  /\ Make(k) /\ subs' = subs \cup {k} /\ pc' = next
  /\ UNCHANGED <<error, wire, faults>>
(* Another 2xx, or a malformed envelope, with the identifier.               *)
SubmittedOddly(k) == Fault /\ Make(k) /\ Rethrow(k, "submitted", {k}) /\ UNCHANGED wire
(* 4xx with an error envelope.                                              *)
Rejected(k) ==
  /\ IF Exists(k) THEN UNCHANGED faults ELSE Fault
  /\ Rethrow(k, OutcomeOf("answered"), {}) /\ UNCHANGED <<provider, made, wire>>
(* An intent or a record that does not match what is to be sent.            *)
NotSent(k) == Fault /\ Rethrow(k, "not_sent", {}) /\ UNCHANGED <<provider, made, wire>>
(* A timeout, a redirect, a 5xx, an unreadable or identifier-less answer.   *)
Unanswered(k) ==
  /\ Fault /\ Rethrow(k, OutcomeOf("silent"), {})
  /\ \/ Make(k) /\ UNCHANGED wire
     \/ wire' = wire \cup {k} /\ UNCHANGED <<provider, made>>
(* What was sent lands, or never does: of this call, or of an earlier one,  *)
(* which the present one may have looked for in vain.                       *)
Lands(k) == \/ ~Exists(k) /\ Apply(k)
            \/ UNCHANGED provider
Land == \E k \in wire :
  /\ wire' = wire \ {k} /\ Lands(k)
  /\ made' = IF provider' = provider THEN made ELSE made \cup {k}
  /\ UNCHANGED <<assets, late, pc, subs, error, list, overtaken, faults, outside>>

HasLooked(k) ==
  \/ k = "version" /\ (pc \in {"session", "bucket", "version"} \/ (pc = "versions" /\ list.page > list.pages))
  \/ k = "deployment" /\ pc = "deployment"
LandLate == \E k \in Mutations :
  /\ late[k] > 0 /\ late' = [late EXCEPT ![k] = @ - 1] /\ Lands(k)
  /\ overtaken' = IF HasLooked(k) THEN overtaken \cup {k} ELSE overtaken
  /\ UNCHANGED <<assets, wire, pc, subs, error, list, made, faults, outside>>

Submit(k, next) ==
  /\ pc = k
  /\ Submitted(k, next) \/ SubmittedOddly(k) \/ Rejected(k) \/ NotSent(k) \/ Unanswered(k)
  /\ overtaken' = IF late[k] > 0 THEN overtaken \cup {k} ELSE overtaken
  /\ UNCHANGED <<assets, late, list, outside>>
SubmitWorkerMutation     == Submit("worker", "verifyWorker")
SubmitWorkerVersion      == Submit("version", "verifyVersion")
SubmitWorkerDeployment   == Submit("deployment", "verifyDeployment")

-----------------------------------------------------------------------------
(* The steps of one deployment                                              *)

quiet == <<provider, wire, late, made, overtaken, outside>>

ExactWorkerState == worker = "ours" /\ deployments = <<>>

(* The Worker must not exist; even an exact one is a collision here.        *)
LookupWorker ==
  /\ pc = "lookup"
  /\ \/ worker = "none" /\ pc' = "worker" /\ UNCHANGED <<subs, error, faults>>
     \/ worker # "none" /\ Rethrow("lookup", "rejected", {}) /\ UNCHANGED faults
     \/ Fault /\ Rethrow("lookup", "unknown", {})
  /\ UNCHANGED <<quiet, assets, list>>

(* A read-back that fails or differs reports the object as submitted.       *)
Verify(k, at, exact, next) ==
  /\ pc = at
  /\ \/ exact /\ pc' = next /\ UNCHANGED <<subs, error, faults>>
     \/ ~exact /\ Rethrow(at, "submitted", {k}) /\ UNCHANGED faults
     \/ Fault /\ Rethrow(at, "submitted", {k})
  /\ UNCHANGED <<quiet, assets, list>>
VerifyWorkerSubmission     == Verify("worker", "verifyWorker", ExactWorkerState, "session")
VerifyWorkerVersion        == Verify("version", "verifyVersion", \E i \in DOMAIN versions : versions[i], "deployment")
VerifyWorkerDeployment     == Verify("deployment", "verifyDeployment", \E i \in DOMAIN deployments : deployments[i], "done")

(* A session names the buckets the provider lacks; none means its own token *)
(* completes the assets.                                                    *)
AssetUploadSession ==
  /\ pc = "session"
  /\ \/ \E n \in AssetSessions :
          /\ buckets' = n /\ bucket' = 0 /\ stored' = 0
          /\ pc' = (IF n = 0 THEN "version" ELSE "bucket") /\ UNCHANGED <<subs, error, faults>>
     \/ \E kind \in {"answered", "silent"} : Fault /\ Rethrow("session", OutcomeOf(kind), {}) /\ UNCHANGED assets
  /\ UNCHANGED <<quiet, list>>

IsFinal(i)      == i = buckets - 1
UploadBucket ==
  /\ pc = "bucket"
  /\ \/ /\ stored' = stored + 1 /\ bucket' = bucket + 1
        /\ pc' = (IF IsFinal(bucket) THEN "version" ELSE "bucket") /\ UNCHANGED <<buckets, subs, error, faults>>
     \/ /\ Fault /\ \E kind \in {"answered", "silent"} : Rethrow("bucket", OutcomeOf(kind), {})
        /\ UNCHANGED assets
  /\ UNCHANGED <<quiet, list>>
UploadAssets == AssetUploadSession \/ UploadBucket

-----------------------------------------------------------------------------
(* Recovery                                                                 *)

(* The caller looks for the first thing the failed call does not report.    *)
Recover ==
  /\ pc = "failed" /\ error.stage # "lookup"
  /\ late' = [k \in Mutations |-> IF k \in wire THEN late[k] + 1 ELSE late[k]] /\ wire' = {}
  /\ subs' = error.subs /\ made' = {} /\ list' = NoList
  /\ pc' = IF "deployment" \in error.subs THEN "verifyDeployment"
           ELSE IF "version" \in error.subs THEN "deployments"
           ELSE IF "worker" \in error.subs THEN "versions"
           ELSE "findWorker"
  /\ UNCHANGED <<provider, assets, error, overtaken, faults, outside>>

InspectWorkerRecovery ==
  /\ pc = "findWorker"
  /\ \/ worker = "none" /\ pc' = "worker" /\ UNCHANGED <<subs, error, faults>>
     \/ ExactWorkerState /\ subs' = {"worker"} /\ pc' = "versions" /\ UNCHANGED <<error, faults>>
     \/ worker # "none" /\ ~ExactWorkerState /\ Rethrow("findWorker", "rejected", {}) /\ UNCHANGED faults
     \/ Fault /\ Rethrow("findWorker", "unknown", {})
  /\ UNCHANGED <<quiet, assets, list>>

(* Pages of one version, newest first.  Every page must report the totals   *)
(* of the first one and a version not seen before.                          *)
PageItems == IF list.page <= Len(versions) THEN {Len(versions) + 1 - list.page} ELSE {}
\* Mutant of PageAgrees: only the first page's totals are looked at.
PageIsNew(items) == TRUE
PageAgrees(items) == (list.page > 1 => Len(versions) = list.total) /\ items \cap list.seen = {}
Pages == IF list.page = 1 THEN Len(versions) ELSE list.pages
ReadPage ==
  /\ list.page <= list.pages /\ PageAgrees(PageItems)
  /\ list' = [page |-> list.page + 1, pages |-> Pages, total |-> Len(versions), seen |-> list.seen \cup PageItems,
              matches |-> list.matches \cup {i \in PageItems : versions[i]}]
  /\ UNCHANGED <<pc, subs, error, faults>>
InspectWorkerVersionRecovery ==
  /\ pc = "versions"
  /\ \/ ReadPage
     \/ list.page <= list.pages /\ ~PageAgrees(PageItems) /\ Rethrow("versions", "unknown", {}) /\ UNCHANGED <<list, faults>>
     \/ list.page <= list.pages /\ Fault /\ Rethrow("versions", "unknown", {}) /\ UNCHANGED list
     \/ /\ list.page > list.pages /\ list.matches = {} /\ pc' = "session" /\ UNCHANGED <<subs, error, list, faults>>
     \/ /\ list.page > list.pages /\ Cardinality(list.matches) = 1
        /\ subs' = subs \cup {"version"} /\ pc' = "verifyVersion" /\ UNCHANGED <<error, list, faults>>
     \/ /\ list.page > list.pages /\ Cardinality(list.matches) > 1
        /\ Rethrow("versions", "unknown", {}) /\ UNCHANGED <<list, faults>>
  /\ UNCHANGED <<quiet, assets>>

InspectWorkerDeploymentRecovery ==
  LET matches == {i \in DOMAIN deployments : deployments[i]} IN
  /\ pc = "deployments"
  /\ \/ matches = {} /\ pc' = "deployment" /\ UNCHANGED <<subs, error, faults>>
     \/ Cardinality(matches) = 1 /\ subs' = subs \cup {"deployment"} /\ pc' = "verifyDeployment" /\ UNCHANGED <<error, faults>>
     \/ Cardinality(matches) > 1 /\ Rethrow("deployments", "unknown", {}) /\ UNCHANGED faults
     \/ Fault /\ Rethrow("deployments", "unknown", {})
  /\ UNCHANGED <<quiet, assets, list>>

-----------------------------------------------------------------------------
Outside ==
  /\ outside < MaxOutside /\ outside' = outside + 1
  /\ \/ worker = "none" /\ worker' = "other" /\ UNCHANGED <<versions, deployments>>
     \/ worker # "none" /\ versions' = Append(versions, FALSE) /\ UNCHANGED <<worker, deployments>>
     \/ versions # <<>> /\ deployments' = Append(deployments, FALSE) /\ UNCHANGED <<worker, versions>>
  /\ UNCHANGED <<assets, wire, late, pc, subs, error, list, made, overtaken, faults>>

Call ==
  \/ LookupWorker \/ SubmitWorkerMutation \/ VerifyWorkerSubmission \/ UploadAssets
  \/ SubmitWorkerVersion \/ VerifyWorkerVersion \/ SubmitWorkerDeployment \/ VerifyWorkerDeployment
  \/ InspectWorkerRecovery \/ InspectWorkerVersionRecovery \/ InspectWorkerDeploymentRecovery
Next == Call \/ Recover \/ Land \/ LandLate \/ Outside
Spec == Init /\ [][Next]_vars

-----------------------------------------------------------------------------
(* Properties                                                               *)

(* An error is an honest account of the call: whatever its requests created *)
(* or may still create is among the submissions it names, or is the one     *)
(* mutation whose outcome it calls submitted or unknown.                    *)
OutcomeIsHonest == pc = "failed" =>
  \A k \in made \cup wire : k \in error.subs \/ (k = error.stage /\ error.outcome \in {"unknown", "submitted"})

(* A submission a call carries on from is an object the provider holds.     *)
SubmissionsExist ==
  /\ "worker" \in subs => worker = "ours"
  /\ "version" \in subs => \E i \in DOMAIN versions : versions[i]
  /\ "deployment" \in subs => \E i \in DOMAIN deployments : deployments[i]

(* However often a call fails and is recovered, and whatever outside actors *)
(* upload during the paged reads, the release becomes one version and one   *)
(* deployment; only a request that an earlier call left undecided when it   *)
(* was sent anew, or that landed after the recovery had looked, makes a     *)
(* second one.                                                              *)
Copies(k) == IF k = "version" THEN {i \in DOMAIN versions : versions[i]} ELSE {i \in DOMAIN deployments : deployments[i]}
OneEach == \A k \in {"version", "deployment"} \ overtaken : Cardinality(Copies(k)) <= 1

(* A version is submitted only when the provider holds every bucket of the  *)
(* session whose token it carries.                                          *)
AssetsAreWhole == pc = "version" => stored = buckets

(* The safety of this component: its invariants together.                   *)
Safe ==
  /\ TypeOK /\ OutcomeIsHonest /\ SubmissionsExist /\ OneEach /\ AssetsAreWhole
=============================================================================
