----------------------------- MODULE Ownership -----------------------------
(***************************************************************************)
(* How the customer's object comes to own its Worker: the setup permit and *)
(* the reviewed configuration (customer-worker-setup.ts,                   *)
(* worker-setup-permit.ts), the one accepted handoff                       *)
(* (customer-gateway-ownership-state.ts), the provider readback that       *)
(* adopts one bootstrap version (customer-bootstrap-worker-readback.ts)    *)
(* and the upload that replaces it (customer-worker-self-update.ts).       *)
(*                                                                         *)
(* One object runs it.  configure blocks every other event; a start of the *)
(* approval and a converger pass take one step per provider call.  Outside *)
(* actors of the account upload versions and deploy them meanwhile.        *)
(***************************************************************************)
EXTENDS Naturals, Sequences

CONSTANTS
  Permits, Plans,             \* setup permits and reviewed plans
  Tabs,                       \* browser tabs that may start the approval
  MaxIssued, MaxVersions, MaxFaults, MaxStarts \* bounds: certifications, versions, lost answers, starts
CONSTANT None

VARIABLES
  permit, configured,  \* the stored setup: its permit, the handoff certified last (0: none)
  issued,              \* the plan of each handoff the hosted issuer signed
  accepted,            \* the handoff in the ownership state (0: none)
  adopted,             \* the adopted bootstrap version (0: none)
  late,                \* permit and handoff are expired
  oauth,               \* the stored attempt: whose, and its phase
  start,               \* each tab's request: its step and the handoff it read
  pass,                \* the converger pass
  versions, active,    \* the Worker's versions; its active deployment
  wire,                \* an upload without an answer is still under way
  host, ready,         \* the code the object runs; the installation is READY
  closing,             \* what was deployed at the read before the adoption (history)
  faults, starts

setup    == <<permit, configured, issued>>
own      == <<accepted, adopted, closing>>
provider == <<versions, active>>
vars == <<permit, configured, issued, accepted, adopted, late, oauth, start, pass, versions, active,
          wire, host, ready, closing, faults, starts>>

Handoffs == 0..MaxIssued
Phases == {"none", "authorizing", "over", "converging", "finalizing"}
StartSteps == {"idle", "persisted", "read", "checked", "ticket"}
PassSteps == {"idle", "open", "worker", "version", "namespace", "again", "adopt", "converge", "upload", "put", "nonce", "failed"}
Kinds == {"boot", "final", "other"}
Hosts == {"shell", "final"}
(* The stored permit, the signed handoffs, what the ownership state names,  *)
(* and what a reading of a version says.                                    *)
StoredPermits    == Permits \cup {None}
SignedHandoffs   == Seq(Plans)
AdoptionReceipts == 0..MaxVersions
OwnershipStates  == [accepted : Handoffs, adopted : AdoptionReceipts]
VersionRecords   == [kind : Kinds, nonce : BOOLEAN, from : 0..MaxVersions]
NoOauth == [tab |-> None, phase |-> "none"]
NoPass  == [at |-> "idle", dep |-> <<0, 0>>]
Idle    == [at |-> "idle", seen |-> 0]

TypeOK ==
  /\ permit \in StoredPermits /\ issued \in SignedHandoffs /\ configured \in Handoffs
  /\ [accepted |-> accepted, adopted |-> adopted] \in OwnershipStates
  /\ late \in BOOLEAN /\ ready \in BOOLEAN /\ host \in Hosts
  /\ oauth \in [tab : Tabs \cup {None}, phase : Phases]
  /\ start \in [Tabs -> [at : StartSteps, seen : Handoffs]]
  /\ pass.at \in PassSteps /\ wire \in BOOLEAN
  /\ \A v \in DOMAIN versions : versions[v] \in VersionRecords
  /\ active.version \in DOMAIN versions

(* Stage 1 left one deployed bootstrap version that carries the nonce.      *)
Init ==
  /\ permit = None /\ configured = 0 /\ issued = <<>> /\ accepted = 0 /\ adopted = 0 /\ late = FALSE
  /\ oauth = NoOauth /\ start = [t \in Tabs |-> Idle] /\ pass = NoPass
  /\ versions = <<[kind |-> "boot", nonce |-> TRUE, from |-> 0]>>
  /\ active = [id |-> 1, version |-> 1, sole |-> TRUE]
  /\ wire = FALSE /\ host = "shell" /\ ready = FALSE /\ closing = 0 /\ faults = 0 /\ starts = 0

Fault == faults < MaxFaults /\ faults' = faults + 1

-----------------------------------------------------------------------------
(* Setup: the permit is taken once, the review certified until it is locked *)

Verified(p) == p # None /\ ~late

Accept(p) ==
  /\ Verified(p) /\ permit \in {None, p} /\ permit' = p
  /\ UNCHANGED <<configured, issued, own, late, oauth, start, pass, provider, wire, host, ready, faults, starts>>

ReviewOpen == oauth = NoOauth /\ ~ready

(* certifyWorkerSetup: every certification signs a handoff of its own.      *)
Certify(pl) == Len(issued) < MaxIssued /\ Verified(permit) /\ issued' = Append(issued, pl)

(* Under blockConcurrencyWhile; the answer may be lost after the signature. *)
Configure(pl) ==
  /\ host = "shell" /\ Verified(permit) /\ ReviewOpen /\ accepted = 0 /\ Certify(pl)
  /\ \/ configured' = Len(issued) + 1 /\ UNCHANGED faults
     \/ Fault /\ UNCHANGED configured
  /\ UNCHANGED <<permit, own, late, oauth, start, pass, provider, wire, host, ready, starts>>

-----------------------------------------------------------------------------
(* The start of the approval                                                *)

StartOauth(t) ==
  /\ host = "shell" /\ start[t] = Idle /\ starts < MaxStarts /\ starts' = starts + 1
  /\ oauth.phase \in {"none", "over"} /\ ~ready /\ permit # None
  /\ oauth' = [tab |-> t, phase |-> "authorizing"]
  /\ start' = [start EXCEPT ![t] = [at |-> "persisted", seen |-> 0]]
  /\ UNCHANGED <<setup, own, late, pass, provider, wire, host, ready, faults>>

StepStart(t, s) ==
  /\ start' = [start EXCEPT ![t] = s]
  /\ UNCHANGED <<setup, late, pass, provider, wire, host, ready, starts>>

ReadConfigured(t) ==
  /\ start[t].at = "persisted"
  /\ StepStart(t, [at |-> "read", seen |-> configured]) /\ UNCHANGED <<own, oauth, faults>>

(* The stored state, read before the signatures are checked.                *)
CheckHandoff(t) ==
  /\ start[t].at = "read" /\ start[t].seen # 0 /\ accepted = 0 /\ ~late
  /\ StepStart(t, [start[t] EXCEPT !.at = "checked"]) /\ UNCHANGED <<own, oauth, faults>>

(* Read again before the put; the same evidence is a harmless retry.        *)
AcceptHandoff(t) ==
  /\ start[t].at = "checked" /\ accepted \in {0, start[t].seen}
  /\ accepted' = start[t].seen
  /\ StepStart(t, [start[t] EXCEPT !.at = "ticket"]) /\ UNCHANGED <<adopted, closing, oauth, faults>>

AcceptedBefore(t) ==
  /\ start[t].at = "read" /\ accepted # 0 /\ start[t].seen \in {0, accepted}
  /\ StepStart(t, [start[t] EXCEPT !.at = "ticket"]) /\ UNCHANGED <<own, oauth, faults>>

Ticketed(t) ==
  /\ start[t].at = "ticket"
  /\ StepStart(t, Idle) /\ UNCHANGED <<own, oauth, faults>>

(* Substituted, expired or missing evidence, or no ticket from the relay;   *)
(* the attempt is withdrawn if it is still the stored one.                  *)
Refused(t) ==
  \/ start[t].at = "read" /\ start[t].seen = 0 /\ accepted = 0
  \/ start[t].at = "read" /\ start[t].seen # 0 /\ accepted # 0 /\ start[t].seen # accepted
  \/ start[t].at = "read" /\ accepted = 0 /\ late
  \/ start[t].at = "checked" /\ accepted \notin {0, start[t].seen}

RejectStart(t) ==
  /\ \/ Refused(t) /\ UNCHANGED faults
     \/ start[t].at = "ticket" /\ Fault
  /\ oauth' = IF oauth = [tab |-> t, phase |-> "authorizing"] THEN NoOauth ELSE oauth
  /\ StepStart(t, Idle) /\ UNCHANGED own

(* Only the relay's answer can outlast the ten minutes of an attempt.       *)
OauthOver ==
  /\ \A t \in Tabs : start[t].at \in {"idle", "ticket"}
  /\ oauth.phase = "authorizing" /\ oauth' = [oauth EXCEPT !.phase = "over"]
  /\ UNCHANGED <<setup, own, late, start, pass, provider, wire, host, ready, faults, starts>>

Callback(t) ==
  /\ oauth = [tab |-> t, phase |-> "authorizing"] /\ start[t] = Idle /\ accepted # 0 /\ pass = NoPass
  /\ oauth' = [oauth EXCEPT !.phase = "converging"] /\ pass' = [NoPass EXCEPT !.at = "open"]
  /\ UNCHANGED <<setup, own, late, start, provider, wire, host, ready, faults, starts>>

-----------------------------------------------------------------------------
(* Adoption: the provider is read before the object calls a version its own *)

StepPass(at) == pass' = [pass EXCEPT !.at = at] /\ UNCHANGED <<setup, late, start, host, starts>>
PassWorld == <<oauth, wire, ready>>

AdoptedBefore ==
  /\ pass.at = "open" /\ adopted # 0 /\ StepPass("converge")
  /\ UNCHANGED <<own, provider, PassWorld, faults>>

OpenAdoption ==
  /\ pass.at = "open" /\ host = "shell" /\ adopted = 0 /\ accepted # 0 /\ ~late /\ StepPass("worker")
  /\ UNCHANGED <<own, provider, PassWorld, faults>>

Deployment == <<active.id, active.version>>

ReadDeployment ==
  /\ pass.at = "worker" /\ active.sole
  /\ pass' = [at |-> "version", dep |-> Deployment]
  /\ UNCHANGED <<setup, late, start, host, starts, own, provider, PassWorld, faults>>

ExactBootstrapVersion(v) == versions[v].kind = "boot" /\ versions[v].nonce
ReadVersion ==
  /\ pass.at = "version" /\ ExactBootstrapVersion(pass.dep[2]) /\ StepPass("namespace")
  /\ UNCHANGED <<own, provider, PassWorld, faults>>

(* Every page of the account's namespaces is read; exactly one is the       *)
(* Worker's.                                                                *)
ReadNamespace ==
  /\ pass.at = "namespace" /\ StepPass("again")
  /\ UNCHANGED <<own, provider, PassWorld, faults>>

\* Mutant of StillActive: the deployments are not read a second time.
StillActiveOnce == TRUE
StillActive == active.sole /\ Deployment = pass.dep
ReadDeploymentAgain ==
  /\ pass.at = "again" /\ StillActive /\ StepPass("adopt")
  /\ closing' = active.version
  /\ UNCHANGED <<accepted, adopted, provider, PassWorld, faults>>

Adopt ==
  /\ pass.at = "adopt" /\ ~late /\ adopted = 0 /\ adopted' = pass.dep[2] /\ StepPass("converge")
  /\ UNCHANGED <<accepted, closing, provider, PassWorld, faults>>

-----------------------------------------------------------------------------
(* The final runtime                                                        *)

(* The other steps of the pass, then the last durable word of the shell.    *)
HandOver ==
  /\ pass.at = "converge" /\ host = "shell" /\ StepPass("upload")
  /\ oauth' = [oauth EXCEPT !.phase = "finalizing"]
  /\ UNCHANGED <<own, provider, wire, ready, faults>>

ExactFinalVersion(v) == versions[v].kind = "final" /\ ~versions[v].nonce

UploadFinalRuntime ==
  /\ pass.at = "upload" /\ active.sole /\ active.version = adopted /\ StepPass("put")
  /\ UNCHANGED <<own, provider, PassWorld, faults>>

AlreadyUploaded ==
  /\ pass.at = "upload" /\ active.sole /\ active.version # adopted /\ ExactFinalVersion(active.version)
  /\ pass' = NoPass
  /\ UNCHANGED <<setup, late, start, host, starts, own, provider, PassWorld, faults>>

(* A PUT inherits from the latest version and keeps every secret.           *)
PutScript ==
  /\ Len(versions) < MaxVersions
  /\ versions' = Append(versions, [kind |-> "final", nonce |-> versions[Len(versions)].nonce, from |-> Len(versions)])
  /\ active' = [id |-> active.id + 1, version |-> Len(versions) + 1, sole |-> TRUE]

Put == pass.at = "put" /\ PutScript /\ StepPass("nonce") /\ UNCHANGED <<own, PassWorld, faults>>
PutLost ==
  /\ pass.at = "put" /\ Fault /\ StepPass("failed")
  /\ \/ PutScript /\ UNCHANGED wire
     \/ UNCHANGED provider /\ wire' \in BOOLEAN
  /\ UNCHANGED <<own, oauth, ready>>
LandPut ==
  /\ wire /\ wire' = FALSE /\ (PutScript \/ UNCHANGED provider)
  /\ UNCHANGED <<setup, own, late, oauth, start, pass, host, ready, faults, starts>>

(* Deleting a secret deploys one more version; the API refuses it unless    *)
(* the latest version is the deployed one.                                  *)
WithoutNonce ==
  /\ Len(versions) < MaxVersions
  /\ active.version = Len(versions)
  /\ versions' = Append(versions, [versions[active.version] EXCEPT !.nonce = FALSE])
  /\ active' = [id |-> active.id + 1, version |-> Len(versions) + 1, sole |-> TRUE]

DeleteNonce ==
  /\ pass.at = "nonce" /\ pass' = NoPass
  /\ IF versions[active.version].nonce THEN WithoutNonce ELSE UNCHANGED provider
  /\ UNCHANGED <<setup, late, start, host, starts, own, PassWorld, faults>>
DeleteLost ==
  /\ pass.at = "nonce" /\ StepPass("failed")
  /\ \/ Fault /\ (WithoutNonce \/ UNCHANGED provider)
     \/ active.version # Len(versions) /\ UNCHANGED <<provider, faults>>
  /\ UNCHANGED <<own, PassWorld>>

-----------------------------------------------------------------------------
(* A pass that cannot go on, and what the final runtime does                *)

CannotGoOn ==
  \/ pass.at = "open" /\ adopted = 0 /\ (accepted = 0 \/ late \/ host = "final")
  \/ pass.at = "worker" /\ ~active.sole
  \/ pass.at = "version" /\ ~ExactBootstrapVersion(pass.dep[2])
  \/ pass.at = "again" /\ ~StillActive
  \/ pass.at = "adopt" /\ late
  \/ pass.at = "upload" /\ ~(active.sole /\ (active.version = adopted \/ ExactFinalVersion(active.version)))
  \/ pass.at = "converge" /\ host = "final" /\ ~(active.sole /\ ExactFinalVersion(active.version))

PassFails ==
  /\ \/ CannotGoOn /\ UNCHANGED faults
     \/ pass.at \in {"worker", "version", "namespace", "again", "adopt", "converge", "upload"} /\ Fault
  /\ StepPass("failed") /\ UNCHANGED <<own, provider, PassWorld>>

(* The attempt is settled, unless the storage already belongs to the other  *)
(* runtime or the attempt was closed by it.                                 *)
PassSettles ==
  /\ pass.at = "failed" /\ pass' = NoPass
  /\ oauth' = IF host = "shell" \/ oauth.phase = "converging" THEN NoOauth ELSE oauth
  /\ UNCHANGED <<setup, late, start, host, starts, own, provider, wire, ready, faults>>

SwapRuntime ==
  /\ host = "shell" /\ versions[active.version].kind = "final" /\ host' = "final"
  /\ start' = [t \in Tabs |-> Idle]
  /\ UNCHANGED <<setup, own, late, oauth, pass, provider, wire, ready, faults, starts>>

(* finalizeCustomerBootstrapHandover                                        *)
FinalAlarm ==
  /\ host = "final" /\ oauth.phase = "finalizing" /\ ready' = TRUE /\ oauth' = NoOauth
  /\ UNCHANGED <<setup, own, late, start, pass, provider, wire, host, faults, starts>>

(* The recovery of the final runtime has nothing to upload.                 *)
StartRecovery(t) ==
  /\ host = "final" /\ ~ready /\ oauth.phase \in {"none", "over"} /\ accepted # 0 /\ pass = NoPass
  /\ starts < MaxStarts /\ starts' = starts + 1
  /\ oauth' = [tab |-> t, phase |-> "converging"] /\ pass' = [NoPass EXCEPT !.at = "open"]
  /\ UNCHANGED <<setup, own, late, start, provider, wire, host, ready, faults>>
InspectFinalRuntime ==
  /\ pass.at = "converge" /\ host = "final" /\ active.sole /\ ExactFinalVersion(active.version)
  /\ pass' = NoPass /\ ready' = TRUE /\ oauth' = NoOauth
  /\ UNCHANGED <<setup, own, late, start, host, starts, provider, wire, faults>>

Restart ==
  /\ Fault /\ (pass # NoPass \/ \E t \in Tabs : start[t] # Idle)
  /\ pass' = NoPass /\ start' = [t \in Tabs |-> Idle]
  /\ oauth' = IF oauth.phase = "converging" THEN NoOauth ELSE oauth
  /\ UNCHANGED <<setup, own, late, provider, wire, host, ready, starts>>

Expire ==
  /\ ~late /\ late' = TRUE
  /\ UNCHANGED <<setup, own, oauth, start, pass, provider, wire, host, ready, faults, starts>>

(* Someone of the account uploads a version, deploys one, or splits traffic.*)
OutsideUpload ==
  /\ Len(versions) < MaxVersions
  /\ \E k \in {"boot", "other"} :
       versions' = Append(versions, [kind |-> k, nonce |-> versions[Len(versions)].nonce, from |-> Len(versions)])
  /\ UNCHANGED <<setup, own, late, oauth, start, pass, active, wire, host, ready, faults, starts>>
OutsideDeploy ==
  /\ Fault
  /\ \E v \in DOMAIN versions, s \in BOOLEAN :
       /\ [active EXCEPT !.version = v, !.sole = s] # active
       /\ active' = [id |-> active.id + 1, version |-> v, sole |-> s]
  /\ UNCHANGED <<setup, own, late, oauth, start, pass, versions, wire, host, ready, starts>>

-----------------------------------------------------------------------------
Setup == (\E p \in Permits : Accept(p)) \/ (\E pl \in Plans : Configure(pl))
Approval == \E t \in Tabs :
  \/ StartOauth(t) \/ ReadConfigured(t) \/ CheckHandoff(t) \/ AcceptHandoff(t) \/ AcceptedBefore(t)
  \/ Ticketed(t) \/ RejectStart(t) \/ Callback(t) \/ StartRecovery(t)
Adoption == AdoptedBefore \/ OpenAdoption \/ ReadDeployment \/ ReadVersion \/ ReadNamespace
            \/ ReadDeploymentAgain \/ Adopt
Runtime == HandOver \/ UploadFinalRuntime \/ AlreadyUploaded \/ Put \/ PutLost \/ DeleteNonce \/ DeleteLost
           \/ PassFails \/ PassSettles \/ FinalAlarm \/ InspectFinalRuntime
World == LandPut \/ SwapRuntime \/ Restart \/ Expire \/ OauthOver \/ OutsideUpload \/ OutsideDeploy
Next == Setup \/ Approval \/ Adoption \/ Runtime \/ World
Spec == Init /\ [][Next]_vars

-----------------------------------------------------------------------------
(* The handoff the object accepted is the configuration the setup holds: a  *)
(* review changed while an approval was starting would leave the two apart, *)
(* and every later start would be refused as a substitution.                *)
AcceptedIsConfigured == accepted # 0 => configured = accepted

(* The adopted version carries the signed bootstrap and was the one sole    *)
(* deployment when the readback closed, whatever was deployed meanwhile.    *)
AdoptedWasDeployed ==
  adopted # 0 => adopted = closing /\ ExactBootstrapVersion(adopted)

(* What uploadMetadata's comment takes as proven: the upload inherits from  *)
(* the verified bootstrap version.                                          *)
InheritsFromVerified ==
  \A v \in DOMAIN versions :
    versions[v].kind = "final" /\ versions[versions[v].from].kind # "final" => versions[v].from = adopted

(* What deleteBootstrapNonceSecret's comment takes as guaranteed: no        *)
(* installation is READY on a version that still carries the nonce.         *)
ReadyDropsNonce == ready /\ pass = NoPass => ~versions[active.version].nonce

(* The safety of this component: its invariants together.                   *)
Safe ==
  /\ TypeOK /\ AcceptedIsConfigured /\ AdoptedWasDeployed
=============================================================================
