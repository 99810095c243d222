-------------------------- MODULE ReleasePublication --------------------------
(***************************************************************************)
(* The publication of one release: the generator of the publication Worker *)
(* (scripts/generate-r2-publication-worker.mjs), its one-shot operator     *)
(* (r2-publication-operator.ts), the create-only publisher                 *)
(* (r2-release-publisher.ts), the consumer that loads a pinned release     *)
(* from the same bucket while it may still be written                      *)
(* (r2-release-provider.ts, release.ts), and the GitHub mirror of a        *)
(* published release (scripts/publish-github-release.mjs).                 *)
(*                                                                         *)
(* All plans name the same channel and release, so they compete for one    *)
(* intent and one prefix.  A digest is the bytes it is the digest of: two  *)
(* files are told apart by their bytes, and only by their sizes where the  *)
(* code compares sizes.                                                    *)
(***************************************************************************)
EXTENDS Naturals, Sequences, FiniteSets, SequencesExt

CONSTANTS
    Plans,          \* object plans built for this release
    Paths,          \* payload paths a plan may name
    Bytes,          \* contents a payload file may have
    SizeOf,         \* the size of each of them
    Manifest,       \* what the signed manifest of a plan records per path
    Blob,           \* what its publication directory holds per path
    Signed,         \* plans whose envelope verifies under the public key
    Carried,        \* what each generated Worker's data module holds per path
    PlanOf,         \* the plan each generated Worker was generated from
    Behind,         \* how far the clock of that machine is behind
    Workers,        \* generated publication Workers
    Loaders,        \* consumers
    PinOf,          \* the plan whose digest each of them pins
    Mirrors,        \* runs of the GitHub mirror
    NoFile,         \* no file, no object
    MaxTime, MaxLost, MaxRestarts, MaxForeign   \* bounds

Keys == Paths \union {"intent", "envelope"}

VARIABLES
    now,        \* time
    bucket,     \* the object under each key, or NoFile
    wire,       \* PUTs whose sender has given up and that may still land
    worker,     \* the publication Workers
    receipts,   \* plans with a publication receipt
    loader,     \* the consumers
    mirror,     \* the mirror runs
    github,     \* the GitHub release of this tag
    used        \* how often each fault happened

vars == <<now, bucket, wire, worker, receipts, loader, mirror, github, used>>

\* An object: its bytes (a payload's contents, an intent's creation time, an
\* envelope's plan) and the plan its metadata names.
Object(bytes, plan) == [bytes |-> bytes, plan |-> plan]

\* parseReleaseManifest: the file record of a path, if it has one.
FileRecord(p, path) == Manifest[p][path]

Files(p) == {path \in Paths : FileRecord(p, path) # NoFile}

\* The objects of a plan in the order they are written: payloads by path, and
\* the envelope last.
PayloadOrder(p) == SetToSeq(Files(p))

WriteOrder(p) == Append(PayloadOrder(p), "envelope")

ReleaseKeys(p) == Files(p) \union {"envelope"}

Desired(p, key) ==
    IF key = "envelope" THEN Object(p, p) ELSE Object(FileRecord(p, key), p)

\* generatedDataModule: the bytes a generated Worker carries.
DataModule(r, path) == Carried[r][path]

\* The object a Worker sends is made from the bytes it carries.
Sent(r, key) ==
    IF key = "envelope" THEN Desired(PlanOf[r], key) ELSE Object(DataModule(r, key), PlanOf[r])

\* walkExactTree: what the publication directory holds under a path.
OnDisk(p, path) == Blob[p][path]

\* The publication directory holds exactly the files its plan names.
DirectoryIsExact(p) == \A path \in Paths : OnDisk(p, path) = FileRecord(p, path)

\* The envelope's signature verifies under the public key.
EnvelopeVerifies(p) == p \in Signed

\* The generator also verifies the envelope's signature.
Generates(p) == DirectoryIsExact(p) /\ EnvelopeVerifies(p)

\* A blob has the digest that its record names.
BlobMatches(r, path) == DataModule(r, path) = FileRecord(PlanOf[r], path)

\* The publisher verifies the plan, the envelope and every blob against them,
\* before it writes anything.
Prepared(r) == \A path \in Paths : BlobMatches(r, path)

\* What a listing of the prefix shows: the names, with the sizes.
Listed == {key \in Paths \union {"envelope"} : bucket[key] # NoFile}

SizeAt(key, object) ==
    IF key = "envelope" THEN 0
    ELSE IF object.bytes \in Bytes THEN SizeOf[object.bytes] ELSE 0

\* parseObjectPlan: the size that the plan's entry of a key names.
PlannedSize(p, key) == SizeAt(key, Desired(p, key))

SameSize(p, key) == SizeAt(key, bucket[key]) = PlannedSize(p, key)

ListedSubset(p) ==
    \A key \in Listed : key \in ReleaseKeys(p) /\ SameSize(p, key)

ListedExactly(p) == Listed = ReleaseKeys(p) /\ ListedSubset(p)

IdleWorker == [step |-> "idle", intent |-> NoFile, existed |-> FALSE, at |-> 0]

WorkerSteps ==
    {"idle", "reading", "putting", "settling", "listing", "relisting",
     "rereading", "published", "invalid", "conflict", "unavailable"}

Ended == {"published", "invalid", "conflict", "unavailable"}

IdleLoader == [step |-> "idle", read |-> [path \in Paths |-> NoFile]]

IdleMirror == [step |-> "idle", plan |-> NoFile]

NoRelease == [state |-> "none", plan |-> NoFile]

Init ==
    /\ now = 0
    /\ bucket = [key \in Keys |-> NoFile]
    /\ wire = {}
    /\ worker = [r \in Workers |-> IdleWorker]
    /\ receipts = {}
    /\ loader = [l \in Loaders |-> IdleLoader]
    /\ mirror = [m \in Mirrors |-> IdleMirror]
    /\ github = NoRelease
    /\ used = [lost |-> 0, restarts |-> 0, foreign |-> 0]

(***************************************************************************)
(* The publication Worker.                                                 *)
(***************************************************************************)
\* The creation time its own clock gives; time starts late enough for Behind.
ClockOf(r) == IF now >= Behind[r] THEN now - Behind[r] ELSE 0

Step(r, step) == worker' = [worker EXCEPT ![r].step = step]

\* The POST to the operator of a generated Worker; the operator starts the
\* publication once per isolate, so a Worker that has begun answers 409.
Post(r) ==
    /\ worker[r].step = "idle"
    /\ Generates(PlanOf[r])
    /\ Step(r, IF Prepared(r) THEN "reading" ELSE "invalid")
    /\ UNCHANGED <<now, bucket, wire, receipts, loader, mirror, github, used>>

\* Mutant of IntentMatches: the intent of another plan for the same release is accepted.
MutIntentOfAnyPlan(r) == bucket["intent"].bytes <= ClockOf(r)

\* An intent found is the one this plan wrote, no later than the Worker's now.
IntentMatches(r) ==
    /\ bucket["intent"].plan = PlanOf[r]
    /\ bucket["intent"].bytes <= ClockOf(r)

ReadIntent(r) ==
    /\ worker[r].step = "reading"
    /\ \/ /\ bucket["intent"] = NoFile
          /\ worker' = [worker EXCEPT
                 ![r].intent = Object(ClockOf(r), PlanOf[r]),
                 ![r].existed = FALSE, ![r].at = 0, ![r].step = "putting"]
       \/ /\ bucket["intent"] # NoFile
          /\ IntentMatches(r)
          /\ worker' = [worker EXCEPT
                 ![r].intent = bucket["intent"],
                 ![r].existed = TRUE, ![r].at = 0, ![r].step = "putting"]
       \/ /\ bucket["intent"] # NoFile
          /\ ~IntentMatches(r)
          /\ Step(r, "conflict")
    /\ UNCHANGED <<now, bucket, wire, receipts, loader, mirror, github, used>>

\* The key and the object of the PUT under way.
KeyOf(r) == IF worker[r].at = 0 THEN "intent"
            ELSE WriteOrder(PlanOf[r])[worker[r].at]

Wanted(r) == IF worker[r].at = 0 THEN worker[r].intent
             ELSE Sent(r, KeyOf(r))

\* If-None-Match: * creates an object only where there is none.
Create(key, object) ==
    bucket' = IF bucket[key] = NoFile THEN [bucket EXCEPT ![key] = object]
              ELSE bucket

\* The PUT takes effect, is dropped, or may still take effect after the sender
\* gave up: its outcome is ignored and the GET that follows decides.
Put(r) ==
    /\ worker[r].step = "putting"
    /\ \/ /\ Create(KeyOf(r), Wanted(r))
          /\ UNCHANGED <<wire, used>>
       \/ /\ used.lost < MaxLost
          /\ used' = [used EXCEPT !.lost = @ + 1]
          /\ wire' \in {wire, wire \union {[key |-> KeyOf(r), object |-> Wanted(r)]}}
          /\ UNCHANGED bucket
    /\ Step(r, "settling")
    /\ UNCHANGED <<now, receipts, loader, mirror, github>>

WireLands ==
    \E put \in wire :
        /\ Create(put.key, put.object)
        /\ wire' = wire \ {put}
        /\ UNCHANGED <<now, worker, receipts, loader, mirror, github, used>>

WireDrops ==
    \E put \in wire :
        /\ wire' = wire \ {put}
        /\ UNCHANGED <<now, bucket, worker, receipts, loader, mirror, github, used>>

\* The GET that settles a PUT compares bytes, type and metadata.
Exact(r) == bucket[KeyOf(r)] = Wanted(r)

AfterSettled(r) ==
    IF worker[r].at = 0 THEN "listing"
    ELSE IF worker[r].at = Len(WriteOrder(PlanOf[r])) THEN "relisting"
    ELSE "putting"

Settle(r) ==
    /\ worker[r].step = "settling"
    /\ IF bucket[KeyOf(r)] = NoFile THEN Step(r, "unavailable")
       ELSE IF ~Exact(r) THEN Step(r, "conflict")
       ELSE worker' = [worker EXCEPT ![r].step = AfterSettled(r),
                           ![r].at = IF AfterSettled(r) = "putting" THEN @ + 1 ELSE @]
    /\ UNCHANGED <<now, bucket, wire, receipts, loader, mirror, github, used>>

\* A prefix under a new intent must be empty; under one found it may hold some
\* of the plan's objects.
MayWrite(r) ==
    /\ ListedSubset(PlanOf[r])
    /\ ~worker[r].existed => Listed = {}

List(r) ==
    /\ worker[r].step = "listing"
    /\ worker' = [worker EXCEPT ![r].at = 1,
                      ![r].step = IF MayWrite(r) THEN "putting" ELSE "conflict"]
    /\ UNCHANGED <<now, bucket, wire, receipts, loader, mirror, github, used>>

\* After the envelope: exactly the plan's objects are listed.
Relist(r) ==
    /\ worker[r].step = "relisting"
    /\ Step(r, IF ListedExactly(PlanOf[r]) THEN "rereading" ELSE "conflict")
    /\ UNCHANGED <<now, bucket, wire, receipts, loader, mirror, github, used>>

\* parsePublicationIdentity: what the answer of the operator names.
Identity(r) == PlanOf[r]

\* The intent and every object are read back exactly, and the operator answers
\* with the identity of the publication, which is kept as the receipt.
Reread(r) ==
    /\ worker[r].step = "rereading"
    /\ \/ /\ bucket["intent"] = worker[r].intent
          /\ \A key \in ReleaseKeys(PlanOf[r]) : bucket[key] = Sent(r, key)
          /\ Step(r, "published")
          /\ receipts' = receipts \union {Identity(r)}
       \/ /\ \/ bucket["intent"] # worker[r].intent
             \/ \E key \in ReleaseKeys(PlanOf[r]) : bucket[key] # Sent(r, key)
          /\ Step(r, "conflict")
          /\ UNCHANGED receipts
    /\ UNCHANGED <<now, bucket, wire, loader, mirror, github, used>>

\* A GET or a listing that fails ends the publication as unavailable.
ReadFails(r) ==
    /\ worker[r].step \in {"reading", "settling", "listing", "relisting", "rereading"}
    /\ used.lost < MaxLost
    /\ used' = [used EXCEPT !.lost = @ + 1]
    /\ Step(r, "unavailable")
    /\ UNCHANGED <<now, bucket, wire, receipts, loader, mirror, github>>

\* The isolate ends, whatever it was doing.
Restart(r) ==
    /\ worker[r].step \notin Ended \union {"idle"}
    /\ used.restarts < MaxRestarts
    /\ used' = [used EXCEPT !.restarts = @ + 1]
    /\ worker' = [worker EXCEPT ![r] = IdleWorker]
    /\ UNCHANGED <<now, bucket, wire, receipts, loader, mirror, github>>

\* A publication that failed is started again with a fresh isolate.
Again(r) ==
    /\ worker[r].step \in {"conflict", "unavailable"}
    /\ worker' = [worker EXCEPT ![r] = IdleWorker]
    /\ UNCHANGED <<now, bucket, wire, receipts, loader, mirror, github, used>>

(***************************************************************************)
(* The consumer of a pinned release.                                       *)
(***************************************************************************)
LoaderStep(l, step) == loader' = [loader EXCEPT ![l].step = step]

\* parseExactReleaseBundleIdentity: the envelope is the one that is pinned.
Pinned(l) == bucket["envelope"].bytes = PinOf[l]

\* The envelope is read first; without it the release is unavailable.
LoadEnvelope(l) ==
    /\ loader[l].step = "idle"
    /\ LoaderStep(l, IF bucket["envelope"] = NoFile THEN "unavailable"
                     ELSE IF Pinned(l) THEN "listing"
                     ELSE "invalid")
    /\ UNCHANGED <<now, bucket, wire, worker, receipts, mirror, github, used>>

\* The listing must show exactly the files of the envelope's manifest.
LoadList(l) ==
    /\ loader[l].step = "listing"
    /\ LoaderStep(l, IF ListedExactly(PinOf[l]) THEN "reading" ELSE "invalid")
    /\ UNCHANGED <<now, bucket, wire, worker, receipts, mirror, github, used>>

Unread(l) == {path \in Files(PinOf[l]) : loader[l].read[path] = NoFile}

LoadFile(l) ==
    /\ loader[l].step = "reading"
    /\ \E path \in Unread(l) :
        IF bucket[path] # NoFile /\ SameSize(PinOf[l], path)
        THEN loader' = [loader EXCEPT ![l].read[path] = bucket[path].bytes]
        ELSE LoaderStep(l, "invalid")
    /\ UNCHANGED <<now, bucket, wire, worker, receipts, mirror, github, used>>

\* The signature of the envelope and the digest of every file.
PayloadVerifies(l) ==
    /\ EnvelopeVerifies(PinOf[l])
    /\ \A path \in Files(PinOf[l]) : loader[l].read[path] = FileRecord(PinOf[l], path)

LoadVerify(l) ==
    /\ loader[l].step = "reading"
    /\ Unread(l) = {}
    /\ LoaderStep(l, IF PayloadVerifies(l) THEN "loaded" ELSE "invalid")
    /\ UNCHANGED <<now, bucket, wire, worker, receipts, mirror, github, used>>

\* A later request loads again.
LoadAgain(l) ==
    /\ loader[l].step \in {"unavailable", "invalid"}
    /\ loader' = [loader EXCEPT ![l] = IdleLoader]
    /\ UNCHANGED <<now, bucket, wire, worker, receipts, mirror, github, used>>

(***************************************************************************)
(* The GitHub mirror.                                                      *)
(***************************************************************************)
MirrorStep(m, step) == mirror' = [mirror EXCEPT ![m].step = step]

\* parsePublicationReceipt.
Receipted(p) == p \in receipts

\* Prepared offline, from a receipt that agrees with the publication directory.
Prepare(m) ==
    /\ mirror[m].step = "idle"
    /\ \E p \in Plans :
        /\ Receipted(p)
        /\ Generates(p)
        /\ mirror' = [mirror EXCEPT ![m] = [step |-> "prepared", plan |-> p]]
    /\ UNCHANGED <<now, bucket, wire, worker, receipts, loader, github, used>>

\* No release and no tag of this name may exist.
CheckTag(m) ==
    /\ mirror[m].step = "prepared"
    /\ MirrorStep(m, IF github.state = "none" THEN "creating" ELSE "exists")
    /\ UNCHANGED <<now, bucket, wire, worker, receipts, loader, github, used>>

\* `gh release create` makes a draft, uploads the assets and publishes it; it
\* fails when the tag is taken meanwhile, and may stop after the draft.
CreateRelease(m) ==
    /\ mirror[m].step = "creating"
    /\ \/ /\ github.state = "none"
          /\ github' = [state |-> "published", plan |-> mirror[m].plan]
          /\ MirrorStep(m, "verifying")
          /\ UNCHANGED used
       \/ /\ github.state = "none"
          /\ used.lost < MaxLost
          /\ used' = [used EXCEPT !.lost = @ + 1]
          /\ github' \in {github, [state |-> "draft", plan |-> mirror[m].plan],
                          [state |-> "published", plan |-> mirror[m].plan]}
          /\ MirrorStep(m, "failed")
       \/ /\ github.state # "none"
          /\ MirrorStep(m, "failed")
          /\ UNCHANGED <<github, used>>
    /\ UNCHANGED <<now, bucket, wire, worker, receipts, loader>>

\* The release on GitHub is published, immutable and has exactly the assets.
VerifyRelease(m) ==
    /\ mirror[m].step = "verifying"
    /\ MirrorStep(m, IF github = [state |-> "published", plan |-> mirror[m].plan]
                     THEN "mirrored" ELSE "failed")
    /\ UNCHANGED <<now, bucket, wire, worker, receipts, loader, github, used>>

(***************************************************************************)
(* The environment.                                                        *)
(***************************************************************************)
Tick ==
    /\ now < MaxTime
    /\ now' = now + 1
    /\ UNCHANGED <<bucket, wire, worker, receipts, loader, mirror, github, used>>

\* Someone with the bucket's credentials puts a file under the prefix by hand,
\* in the place of the one there if there is one.
LeaveForeign ==
    /\ used.foreign < MaxForeign
    /\ \E path \in Paths, bytes \in Bytes :
        bucket' = [bucket EXCEPT ![path] = Object(bytes, NoFile)]
    /\ used' = [used EXCEPT !.foreign = @ + 1]
    /\ UNCHANGED <<now, wire, worker, receipts, loader, mirror, github>>

PublishStep(r) ==
    Post(r) \/ ReadIntent(r) \/ Put(r) \/ Settle(r) \/ List(r) \/ Relist(r) \/ Reread(r)

LoadStep(l) == LoadEnvelope(l) \/ LoadList(l) \/ LoadFile(l) \/ LoadVerify(l)

MirrorSteps(m) == Prepare(m) \/ CheckTag(m) \/ CreateRelease(m) \/ VerifyRelease(m)

Next ==
    \/ \E r \in Workers : PublishStep(r) \/ ReadFails(r) \/ Restart(r) \/ Again(r)
    \/ \E l \in Loaders : LoadStep(l) \/ LoadAgain(l)
    \/ \E m \in Mirrors : MirrorSteps(m)
    \/ WireLands \/ WireDrops \/ Tick \/ LeaveForeign

Spec == Init /\ [][Next]_vars

(***************************************************************************)
(* Fairness: a publication that has begun goes on, and the person who      *)
(* publishes starts it again after a failure; time passes.                 *)
(***************************************************************************)
FairSpec ==
    /\ Spec
    /\ \A r \in Workers : WF_vars(PublishStep(r)) /\ WF_vars(Again(r))
    /\ WF_vars(Tick)

-----------------------------------------------------------------------------
\* R2ReleaseBucket: an object of the bucket.
IsObject(object) == object = NoFile \/ object.plan \in Plans \union {NoFile}

\* A publication: where it is, and the intent it works under.
IsPublication(r) ==
    /\ worker[r].step \in WorkerSteps
    /\ worker[r].at \in 0..Len(WriteOrder(PlanOf[r]))
    /\ worker[r].existed \in BOOLEAN
    /\ worker[r].intent = NoFile \/ worker[r].intent.plan = PlanOf[r]

\* parseFileRecord: what may have been read per path.
FileRecords == [Paths -> Bytes \union {NoFile}]

\* R2ReleaseBundleProvider.
LoaderStates ==
    [step : {"idle", "listing", "reading", "loaded", "invalid", "unavailable"}, read : FileRecords]

\* parseOutputPlan: the plan a mirror run works from.
OutputPlans ==
    [step : {"idle", "prepared", "creating", "exists", "verifying", "mirrored", "failed"},
     plan : Plans \union {NoFile}]

\* Every variable has its type.
TypeOK ==
    /\ now \in 0..MaxTime
    /\ \A key \in Keys : IsObject(bucket[key])
    /\ \A r \in Workers : IsPublication(r)
    /\ loader \in [Loaders -> LoaderStates]
    /\ receipts \subseteq Plans
    /\ mirror \in [Mirrors -> OutputPlans]
    /\ github.state \in {"none", "draft", "published"}

\* The immutable intent burns the release: whatever the publishers of several
\* plans do at once, no object is written under the prefix for any plan but the
\* one whose intent stands (publishCreateOnlyR2Release).
OnePlanPerRelease ==
    \A key \in Paths \union {"envelope"} :
        (bucket[key] # NoFile /\ bucket[key].plan # NoFile)
        => bucket["intent"] # NoFile /\ bucket["intent"].plan = bucket[key].plan

\* The envelope is the commit marker: once it is there, so is every payload of
\* its plan, bit for bit as the signed manifest records it, even after crashes,
\* lost PUTs and a publication resumed by another Worker.
EnvelopeCommits ==
    bucket["envelope"] # NoFile =>
        LET p == bucket["envelope"].plan IN
        /\ p \in Signed
        /\ \A path \in Files(p) : bucket[path] # NoFile /\ bucket[path].bytes = Manifest[p][path]

\* Consumer-atomic visibility: a consumer of the plan being published finds
\* nothing or all of it.  It is never turned away as invalid, at whatever moment
\* of the publication it looks, unless someone put a file there by hand.
ConsumerSeesAllOrNothing ==
    \A l \in Loaders :
        (/\ loader[l].step = "invalid"
         /\ bucket["intent"] # NoFile
         /\ bucket["intent"].plan = PinOf[l])
        => used.foreign > 0

\* What a consumer loads is the signed release, also when a file of the same
\* name and size was left under the prefix.
LoadedIsSigned ==
    \A l \in Loaders : loader[l].step = "loaded" =>
        \A path \in Files(PinOf[l]) : loader[l].read[path] = Manifest[PinOf[l]][path]

\* The GitHub mirror follows the publication: a release or a draft exists there
\* only for a plan whose envelope consumers can already load.
MirrorFollows ==
    github.state # "none" =>
        bucket["envelope"] # NoFile /\ bucket["envelope"].plan = github.plan

\* A publication once intended is completed: with the failures of requests
\* bounded and the clocks catching up, some Worker of that plan reports it.
Due  == bucket["intent"] # NoFile
Done == bucket["intent"] # NoFile /\ bucket["intent"].plan \in receipts
IntendedIsPublished == Due ~> Done

(* The safety of this component: its invariants together.                   *)
Safe ==
  /\ TypeOK /\ OnePlanPerRelease /\ EnvelopeCommits /\ ConsumerSeesAllOrNothing /\ MirrorFollows
  /\ LoadedIsSigned
=============================================================================
