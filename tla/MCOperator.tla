------------------------------ MODULE MCOperator ------------------------------
(*******************************************************************************)
(* What an operator runs from the repository, for TLC: ReceiptLock,            *)
(* Reconciler, CanaryLifecycle, GatewayAdapter and ReleasePublication.  Each   *)
(* behaviour is one of one part: part says which, the variables of the others  *)
(* stay 0, and those of the lock, which this module extends, as they are       *)
(* initially.  Reconciler is two parts, with more runs or with more changes by *)
(* others; ReleasePublication has a second instance in which somebody else     *)
(* writes into the bucket.                                                     *)
(*******************************************************************************)
EXTENDS ReceiptLock, FiniteSets, TLC

CONSTANTS
    Chosen, server1, policy, record, Resources, Required, Named, Hashes, NoHash, RootRank,
    MaxRuns, MaxEdits, planA, planB, planC, core, extra, b1, b2, b3, w1, w2, w3, w4, l1, m1, NoFile

ASSUME ReconcilerBounds ==
    /\ Resources \cap Nat = {} /\ NoHash \notin Hashes
    /\ Required \subseteq Resources /\ Named \subseteq Resources
    /\ RootRank \in [Resources -> Nat]

VARIABLES
    part, config, live, nextId, receipt, pending, wire, run, runs, edits, approved, gone, snapshot,
    approval, report, faults, server, portal, apps, dns, call, outcome, now, bucket, worker,
    receipts, loader, mirror, github, used

allVars == <<part, dir, files, written, pc, evidence, alive, config, live, nextId, receipt, pending,
             wire, run, runs, edits, approved, gone, snapshot, approval, report, faults, server,
             portal, apps, dns, call, outcome, now, bucket, worker, receipts, loader, mirror,
             github, used>>

\* planB records other bytes of the same size under the first name; planC is not signed.
Recorded ==
    [plan \in {planA, planB, planC} |->
        core :> (IF plan = planB THEN b2 ELSE b1) @@ extra :> b3]
Size == b1 :> 1 @@ b2 :> 1 @@ b3 :> 2
\* w1 and w2 publish planA, w3 planB, w4 planC; the clock of w2 is behind, and its data module holds
\* bytes its manifest does not record.
PlanFor == w1 :> planA @@ w2 :> planA @@ w3 :> planB @@ w4 :> planC
Spoiled == [r \in {w1, w2, w3, w4} |-> Recorded[IF r = w2 THEN planB ELSE PlanFor[r]]]
Late == [r \in {w1, w2, w3, w4} |-> IF r = w2 THEN 1 ELSE 0]

Ranks == server1 :> 1 @@ policy :> 2 @@ record :> 3
Root == INSTANCE Reconciler WITH Rank <- RootRank
Canary == INSTANCE CanaryLifecycle WITH
    Kinds <- 1 .. 4, Portal <- 3, Markerless <- {4}, MaxFaults <- 3, MaxEdits <- 1
Adapter == INSTANCE GatewayAdapter WITH
    Ids <- {1, 2, 3}, MaxEdits <- 2, MaxFaults <- 1
Publication == INSTANCE ReleasePublication WITH
    Plans <- {planA, planB, planC}, Workers <- {w1, w2, w3, w4}, Loaders <- {l1}, Mirrors <- {m1},
    Carried <- Spoiled, PinOf <- l1 :> planA, MaxTime <- 1, MaxLost <- 1, MaxRestarts <- 1,
    MaxForeign <- 0, Paths <- {core, extra}, Bytes <- {b1, b2, b3}, Signed <- {planA, planB},
    Manifest <- Recorded, Blob <- Recorded, SizeOf <- Size, PlanOf <- PlanFor, Behind <- Late
Foreign == INSTANCE ReleasePublication WITH
    Plans <- {planA, planB, planC}, Workers <- {w1}, Loaders <- {l1}, Mirrors <- {},
    Carried <- [r \in {w1} |-> Recorded[planA]], PinOf <- l1 :> planA, MaxTime <- 1, MaxLost <- 1,
    MaxRestarts <- 1, MaxForeign <- 1, Paths <- {core, extra}, Bytes <- {b1, b2, b3},
    Signed <- {planA, planB}, Manifest <- Recorded, Blob <- Recorded, SizeOf <- Size,
    PlanOf <- PlanFor, Behind <- Late

butLock == <<config, live, nextId, receipt, pending, wire, run, runs, edits, approved, gone,
             snapshot, approval, report, faults, server, portal, apps, dns, call, outcome, now,
             bucket, worker, receipts, loader, mirror, github, used>>
IdleButLock ==
    /\ config = 0 /\ live = 0 /\ nextId = 0 /\ receipt = 0 /\ pending = 0 /\ wire = 0 /\ run = 0
    /\ runs = 0 /\ edits = 0 /\ approved = 0 /\ gone = 0 /\ snapshot = 0 /\ approval = 0
    /\ report = 0 /\ faults = 0 /\ server = 0 /\ portal = 0 /\ apps = 0 /\ dns = 0 /\ call = 0
    /\ outcome = 0 /\ now = 0 /\ bucket = 0 /\ worker = 0 /\ receipts = 0 /\ loader = 0
    /\ mirror = 0 /\ github = 0 /\ used = 0
LockInit == part = "lock" /\ Init /\ IdleButLock
LockNext == part = "lock" /\ Next /\ UNCHANGED <<part, butLock>>

butRoot == <<dir, files, written, pc, evidence, alive, snapshot, approval, report, faults, server,
             portal, apps, dns, call, outcome, now, bucket, worker, receipts, loader, mirror,
             github, used>>
IdleButRoot ==
    /\ Init /\ snapshot = 0 /\ approval = 0 /\ report = 0 /\ faults = 0 /\ server = 0
    /\ portal = 0 /\ apps = 0 /\ dns = 0 /\ call = 0 /\ outcome = 0 /\ now = 0 /\ bucket = 0
    /\ worker = 0 /\ receipts = 0 /\ loader = 0 /\ mirror = 0 /\ github = 0 /\ used = 0
RootInit == part = "reconciler" /\ Root!Init /\ IdleButRoot
RootNext == part = "reconciler" /\ Root!Next /\ edits' <= 1 /\ UNCHANGED <<part, butRoot>>

EditedInit == part = "edited" /\ Root!Init /\ IdleButRoot
EditedNext == part = "edited" /\ Root!Next /\ runs' <= 2 /\ UNCHANGED <<part, butRoot>>

butCanary == <<dir, files, written, pc, evidence, alive, config, nextId, pending, runs, approved,
               gone, server, portal, apps, dns, call, outcome, now, bucket, worker, receipts,
               loader, mirror, github, used>>
IdleButCanary ==
    /\ Init /\ config = 0 /\ nextId = 0 /\ pending = 0 /\ runs = 0 /\ approved = 0 /\ gone = 0
    /\ server = 0 /\ portal = 0 /\ apps = 0 /\ dns = 0 /\ call = 0 /\ outcome = 0 /\ now = 0
    /\ bucket = 0 /\ worker = 0 /\ receipts = 0 /\ loader = 0 /\ mirror = 0 /\ github = 0
    /\ used = 0
CanaryInit == part = "canary" /\ Canary!Init /\ IdleButCanary
CanaryNext == part = "canary" /\ Canary!Next /\ UNCHANGED <<part, butCanary>>

butAdapter == <<dir, files, written, pc, evidence, alive, config, live, nextId, pending, wire, run,
                runs, approved, gone, snapshot, approval, report, now, bucket, worker, receipts,
                loader, mirror, github, used>>
IdleButAdapter ==
    /\ Init /\ config = 0 /\ live = 0 /\ nextId = 0 /\ pending = 0 /\ wire = 0 /\ run = 0
    /\ runs = 0 /\ approved = 0 /\ gone = 0 /\ snapshot = 0 /\ approval = 0 /\ report = 0
    /\ now = 0 /\ bucket = 0 /\ worker = 0 /\ receipts = 0 /\ loader = 0 /\ mirror = 0
    /\ github = 0 /\ used = 0
AdapterInit == part = "adapter" /\ Adapter!Init /\ IdleButAdapter
AdapterNext == part = "adapter" /\ Adapter!Next /\ UNCHANGED <<part, butAdapter>>

butPublication == <<dir, files, written, pc, evidence, alive, config, live, nextId, receipt,
                    pending, run, runs, edits, approved, gone, snapshot, approval, report, faults,
                    server, portal, apps, dns, call, outcome>>
IdleButPublication ==
    /\ Init /\ config = 0 /\ live = 0 /\ nextId = 0 /\ receipt = 0 /\ pending = 0 /\ run = 0
    /\ runs = 0 /\ edits = 0 /\ approved = 0 /\ gone = 0 /\ snapshot = 0 /\ approval = 0
    /\ report = 0 /\ faults = 0 /\ server = 0 /\ portal = 0 /\ apps = 0 /\ dns = 0 /\ call = 0
    /\ outcome = 0
PublicationInit == part = "publication" /\ Publication!Init /\ IdleButPublication
PublicationNext == part = "publication" /\ Publication!Next /\ UNCHANGED <<part, butPublication>>

ForeignInit == part = "foreign" /\ Foreign!Init /\ IdleButPublication
ForeignNext == part = "foreign" /\ Foreign!Next /\ UNCHANGED <<part, butPublication>>

AnyInit == part \in Chosen /\ (
    LockInit \/ RootInit \/ EditedInit \/ CanaryInit \/ AdapterInit \/ PublicationInit \/
    ForeignInit)
AnyNext ==
    LockNext \/ RootNext \/ EditedNext \/ CanaryNext \/ AdapterNext \/ PublicationNext \/
    ForeignNext
AnySpec == AnyInit /\ [][AnyNext]_allVars

\* Hashes and recoverers are interchangeable.
Interchangeable ==
    Permutations(Hashes) \cup Permutations(Recoverers)

-------------------------------------------------------------------------------
\* Reconciler: a resource never gets a second object, every object and creation that may still arrive
\* is in the receipt, the tombstone is written when nothing is left, and nothing stands without what
\* guards it.
ReconcilerIsSafe ==
    part \in {"reconciler", "edited"} => Root!Safe

\* Reconciler: a request removes an object, however late it arrives, only if an operator approved the
\* deletion of its identifier.
DeletionsAreApproved ==
    [][part = "reconciler" \/ part = "edited" => Root!DeletesApproved]_allVars

\* CanaryLifecycle: the snapshot the cleanup works from covers what the canary made, what it does not
\* know and what it did not touch is kept, and what it reports as gone is gone.
CanaryIsSafe ==
    part = "canary" => Canary!Safe

\* GatewayAdapter: an application the receipt owns is one the adapter created, however alike another
\* one is, and whatever it created is in the receipt or pending.
AdapterIsSafe ==
    part = "adapter" => Adapter!Safe

\* GatewayAdapter: no request overwrites or removes what is somebody else's unless it became so after
\* the last reads, and the hostname is published only behind its application and policy.
AdapterSparesOthers ==
    [][part = "adapter" => Adapter!KeepsForeign /\ Adapter!PublishesGuarded]_allVars

\* ReleasePublication: a release holds one plan, its envelope is written when everything else is
\* there, a consumer sees all of a release or nothing and loads only signed bytes, and the mirror
\* follows the published release.
PublicationIsSafe ==
    /\ part = "publication" => Publication!Safe
    /\ part = "foreign" => Foreign!LoadedIsSigned

===============================================================================
