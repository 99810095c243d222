# A verification of the Ankka MCP gateway

TLA+ models of the parts of `ankka-mcp-gateway` that change a customer's
Cloudflare account, checked with TLC on small instances and, for most of the
components, proved safe with TLAPS for every value of the constants.
`PROJECT.json` lists the components, the runs, the mutant of every property, the
source lines that carry the definitions of each module (a definition not listed
there is a part of one that is), the findings, the hazards and the theorems.

All paths below are relative to the repository; `installer/` abbreviates
`apps/installer/src/`, and "the Worker" is `payload/worker/index.js`.

## 1. The system

The gateway is an MCP portal with its Access policies, servers and DNS records
in a customer's own Cloudflare account. A hosted installer puts a bootstrap
Worker there (Stage 1), which installs the rest (Stage 2) and replaces itself by
the management Worker; that one looks after sources, people and updates, and
finally removes the gateway. Operators can do the same from a command line. All
of it follows one rule, which `docs/ARCHITECTURE.md` puts as "Provider outcomes
are journaled before mutation. An unknown create or delete result is not blindly
retried; the next attempt must first read provider state and resolve the pending
operation."

| Component | State | Operations | Hard because |
|---|---|---|---|
| **Hosted Stage 1**: `installer/hosted-stage1-*.ts`, `two-stage-*.ts` | the session in its object, the alarm, grants in the callbacks | select, approve, callback, provision, hand off, clean up, expire, rotate | single-use codes, expiry against late provisioning, two tabs |
| **Cloudflare grants**: `installer/customer-cloudflare-grant.ts`, `hosted-bootstrap-grant.ts` | the tokens of one consent | exchange, bind, work, revoke | answers that cannot be read leave live tokens |
| **Direct upload**: `installer/cloudflare-worker-direct-upload.ts` | Worker, assets, versions, deployments | create, upload, deploy, recover by tags | requests without an answer, listings that move |
| **Code relay**: `installer/cloudflare-code-relay*.ts`, `cloudflare-gateway-*.ts` | challenges; tickets and sealed states are stateless | challenge, prove, issue, authorize, forward | replays, delays, clocks |
| **Ownership**: `installer/customer-gateway-ownership-state.ts`, `customer-bootstrap-worker-readback.ts`, `customer-worker-self-update.ts` | permit, review, accepted handoff, adopted version | configure, certify, accept, adopt, upload | two tabs; others deploy meanwhile |
| **Customer bootstrap**: `installer/customer-bootstrap-*.ts` | the install state, the driver's grant in memory, one alarm | OAuth start, callback, alarm passes, failure, cleanup, hand-over | callbacks, alarms and page requests interleave at every provider call; restarts lose memory |
| **Stage 2**: `installer/customer-stage2-*.ts`, `cloudflare-management-surface.ts` | the journal: revision, lease, phase per action | lease, prepare, arm, send, recover, verify, complete | authorizations overlap; requests outlive their sender |
| **Sources**: the Worker | drafts, actions, ownership, edit journals, switch journal, OAuth attempt, the queue | draft, install, renew, pause, attach, edit, check, authorise, switch, remove | approvals that end, lost creations, changes by hand |
| **Team, credential, entrance**: the Worker, `installer/customer-operation-router.ts` | Team state and save journal, the token change and its lock, the agents' hostname | save, resume, cancel, approve, write, check, admit, call | several writes per save; the write replaces its writer |
| **Updates**: `installer/customer-update-driver.ts`, `customer-runtime-update.ts`, the Worker | the update journal, attempt slot, grant in memory, handover | prepare, approve, upload, finish, roll back | the upload ends the process that records its outcome |
| **Removal**: the Worker, `installer/customer-teardown-*.ts`, `gateway-teardown-*.ts`, `payload/worker-cleanup/` | removal journal, teardown job, cleanup journals | consent, delete in order, hand off, finalize | accepted and late deletions; the deleter deletes itself |
| **Receipt store, reconciler, adapter**: `src/` | receipt, pending action, lock, provider's objects | plan, apply, prune, retry, uninstall, recover a lock | lost answers; drift by others; several runs share one piece of work |
| **Canary**: `src/canary-runner.ts` | receipt and snapshot files | preview, run, clean up, roll back | it must undo itself from any stop |
| **Publication**: `installer/r2-release-*.ts`, `scripts/publish-github-release.mjs` | the bucket, the mirror | intend, put, commit, load, mirror | competing plans, readers meanwhile |
| Dashboard, connectors, CLI, build scripts | none, or files | sequential | little that a model would add |

How they meet: the bootstrap's driver runs the Stage 2 converger once per alarm
and learns only whether it paused, handed over, finished or failed. The last
action of Stage 2 uploads the final runtime, whose alarm marks the installation
READY. In the management Worker, source actions, Team saves, token changes,
updates and the removal exclude each other through recorded lifecycle locks
(`recordedLifecycleBlocks`). A completed removal is handed to the hosted
finalizer. The reconciler's runs meet through the receipt file and its lock.
Everything else they share is the provider.

What makes each component correct is said by its properties (section 3). The
hazards in `PROJECT.json` give each of them its line in the code.

## 2. Modules

| Module | Models | Where the state is in the code |
|---|---|---|
| `Stage2` | the converger, its journal, the provider | `journal` the stored row, `ctx` the copy of a pass, `wire` its request |
| `Bootstrap` | install state, driver, alarm, callbacks, cleanup, hand-over | `st` the stored state, `run`, `page`, `cb` the processes of the object |
| `TokenSwitch`, `RecordSwap` | the switch of a source's credential; what it promises | `journal` the stored switch, `records`, `portal`, `app` Cloudflare's objects |
| `SourceInstall` | drafts, installation, renewal, attachment, removal | `action`, `owned`, `removal` the stored records, `objects` Cloudflare's, `wire` a creation without an answer |
| `SourceEdits` | tool and label edits, checks and the mutation queue | `toolEdit`, `labelEdit` the journals, `tail`, `checksAfter`, `active` the queue |
| `SourceOauth` | the authorization of a source | `stored`, `attempt` the attempt, `cookie` per browser |
| `TeamAccess` | Team saves | `saved`, `act` (plan with journal), `live`, `groups`, `agents` |
| `CredentialChange` | the management token's change and check | `change` the record with the lock, `attempt` the slot, `cb` the callbacks |
| `AgentEntrance` | the agents' hostname and calls | `entrance`, `domain`, `req`, `rate`, `lines` |
| `RuntimeUpdate` | updates and rollbacks | `journal`, `slot`, `att`, `pending` and `grant` (memory), `pass`, `handover` |
| `Teardown` | removal by the gateway, BigQuery bridge included | `prog`, `bj` the journals, `attempt`, `outcome`, `live` |
| `RootRemoval` | the hosted finalizer | `job`, `memory`, `passes` |
| `CleanupWorker` | the cleanup Worker's two objects | one journal each, `wire` what may still apply |
| `Stage1Session` | the hosted session and its cleanup | `sess` the record, `req` a callback, `worker` |
| `Ownership` | setup permit, handoff, adoption, final upload | `configured`, `accepted`, `adopted`, `versions` |
| `CodeRelay` | challenges, tickets, states, forwarding | `challenges` the table, `network` what may arrive, `now` the relay's clock |
| `GrantExchange` | one consent's tokens | `live`, `held`, `queue` of revocations |
| `WorkerUpload` | the direct upload and its recovery | `worker`, `versions`, `deployments`, `error` |
| `ReceiptLock` | the lock directory, per file system call | `dir`, `files` |
| `Reconciler` | apply, prune, retry, uninstall | `receipt`, `pending`, `live`, `wire` |
| `CanaryLifecycle` | the canary's runs | `receipt`, `snapshot`, `run` |
| `GatewayAdapter` | one change, read by read | `call` the script of reads and requests |
| `ReleasePublication` | bucket, publishers, consumer, mirror | `bucket`, `worker`, `loader`, `mirror` |

Each module has one action per operation or step and says in its head what a
step is. The usual grain is a provider call: a Durable Object interleaves events
at its provider calls and not at its storage calls, and where requests pass
through a queue only the provider and restarts come between two steps. A
definition whose comment begins with "Mutant of" is a plausible bug in that
definition; no specification uses it, and it is there to show that a property
notices.

The MC modules run components. `MCStage2` and `MCBootstrap` extend one, and so
does `MCReconciler`. `MCSources`, `MCAccess`, `MCLifecycle`, `MCHosted`,
`MCOperator` and `MCLiveness` each run a family: the variable `part` is chosen
initially and says which component runs, and the variables of the others stay
put. The state space is the disjoint union of the parts', so a run is as
thorough as one run for every part; restricting the constant `Chosen` in a
configuration runs one alone. Components that exclude each other in the code are
not interleaved here; what one sees of another is the lock, which each has as an
input (`other`).

A family module extends one component (`MCSources` extends `TokenSwitch`,
`MCAccess` `CredentialChange`, `MCLifecycle` `RuntimeUpdate`, `MCHosted`
`CodeRelay`, `MCOperator` `ReceiptLock`), which stays in its initial state
while another part runs, and has instances of the others, whose variables are 0
meanwhile. So the property that a theorem about the extended component states
is the very definition the run checks. The instances `Install`, `Edits` and
`Oauth` of `MCSources`, `Team` and `Entrance` of `MCAccess`, `Gateway`, `Root`
and `Cleanup` of `MCLifecycle`, `Session`, `Owner`, `Grant` and `Upload` of
`MCHosted` and `Root` of `MCOperator` take their constants from the
configuration, so what is proved of them holds for every value of these, and
for the run whatever `Chosen` is. The other instances have the constants
written in the `WITH`. Some of the former run as two parts, which restrict the
steps in different directions: `edits` one request at a time and `queue`
several that select tools of one source; `oauth` several attempts without
reviewed scopes and `scopes` one attempt at any source; `team` nothing changed
in the dashboard and `dashboard` nobody granted access on their own; `teardown`
nothing changed from outside and `meddled` one action; `cleanup` two requests
with one fault and nothing changed by hand, `plain` two requests where there is
no control record, and `replay` one request with more faults and changes by
hand; `session` one session whose calls may fail and `rotation` two sessions
with one approval; `reconciler` one change by others and `edited` two runs.

### Abstractions worth knowing

- A request without an answer took effect or did not; in `Stage2`, `Reconciler`,
  `SourceInstall`, `RuntimeUpdate`, `Teardown`, `CleanupWorker`, `WorkerUpload`,
  `CanaryLifecycle` and `ReleasePublication` it may also take effect later. In
  `TokenSwitch`, `TeamAccess`, `AgentEntrance` and `GatewayAdapter` it takes
  effect before the next read.
- `RootRemoval`: a write without an answer lands or is dropped before the next
  consent's callback. `CanaryLifecycle`: the discovery period of the rollback is long
  enough for every request to arrive. `CredentialChange`: the write window (two
  minutes) does not pass while a callback waits for its write (15 seconds).
- `SourceInstall`: a creation without an answer takes effect at any time, also
  under a later approval, or never; the other requests when they are lost. A
  server's key, and an application's domain, is taken once; a policy has no key.
- `Ownership`: `Accept` is the setup-permit form of a continuation; the direct
  handoff (`installer/customer-operation-router.ts:500`) configures nothing.
- `Stage2`: locators are the fact that the journal has one; the resources of the
  gateway plan are one action, as in the journal; reads see the provider as it is.
- `Bootstrap`: the converger is whether its journal armed or completed anything.
- `Reconciler`: plan ids are hashes of what they name, so in the model they are
  what they name; a read and the journal write after it are one step.
- Signatures, hashes and sealed values are what they sign, hash and seal.
- `Bootstrap`: the clock waits for a callback that exchanges its code, whose calls
  have deadlines shorter than a tick.
- Time is a small clock (`Stage2`, `Bootstrap`, `CodeRelay`,
  `ReleasePublication`) or the set of what has expired.

## 3. Runs

| Run (module) | Parts | Distinct states | What it shows |
|---|---|---|---|
| `stage2_overlap` (`MCStage2`) | | 1,457,456 | authorizations overlap through the whole Stage 2 sequence, the lease expires under a slow pass, writes land after their sender died: the journal, the provider and the order of publication stay consistent |
| `bootstrap_safety` (`MCBootstrap`) | | 3,512,441 | attempts, alarm, page, runtime swap and a restart interleave: nothing armed is removed except with the live or refused token of an attempt whose grant nothing holds any more, READY is the final runtime's word, failure records are honest, no process writes over another attempt's record |
| `bootstrap_liveness` | | 628,692 | an attempt whose grant was handed over ends, whatever restarts |
| `bootstrap_grant` | | about 3,000 until violated | a finding (section 4) |
| `sources` (`MCSources`) | switch, install, edits, queue, oauth, scopes | 2,143,777 | nothing is created twice or forgotten, nothing is served without its protection or beyond what was approved, and a credential switch is a swap of records |
| `access` (`MCAccess`) | team, dashboard, change, check, entrance | 2,874,948 | nobody gets in early, one approval writes one secret, no edit is overwritten |
| `lifecycle` (`MCLifecycle`) | update, updates, teardown, meddled, root, cleanup, plain, replay | 1,547,991 | journals tell the truth, order and exclusion hold, lost grants are reported, foreign resources stop the removal |
| `hosted` (`MCHosted`) | session, rotation, owner, relay, clocks, rivals, grant, upload | 2,119,617 | every grant, code, Worker and version belongs to the one it was made for; errors are honest accounts |
| `operator` (`MCOperator`) | lock, reconciler, edited, canary, adapter, publication, foreign | 1,696,325 | one run holds the receipt, approved deletions only, the canary can be undone, what others own is spared, a release is served whole |
| `liveness` (`MCLiveness`) | switch, edits, team, change, update, teardown, root, session, canary, publication | 222,822 | what was begun ends |
| `reconciler_approved` (`MCReconciler`) | | about 1,465,000 until violated | a finding (section 4) |
| `cleanup_repair` (`CleanupWorker`) | | about 200 until violated | a finding (section 4) |

**Bounds.** Two of everything that races: attempts, consents, tabs, callbacks,
requests, sources. One more where recovery of a recovery is the question: three
reconciler runs, three lockers, three queued requests, four versions. Faults
(lost answers, restarts, refusals) are bounded by `MaxFaults`, one to three per
behaviour, and changes by other people by `MaxEdits`, `MaxOutside` or `MaxHands`:
one fault finds what an interruption leaves, a second one what interrupts the
recovery. Where a larger product was too big, a component has two parts that
are large in different directions ("with more requests", "with changes by hand").
The clocks let each deadline pass under each holder: in `Stage2` a lease once
each; in `Bootstrap` a tick is five minutes, `Horizon` stops new authorizations
and `MaxClock` leaves the time for what was begun to come to its deadline. In
detail:

- `Stage2`: three attempts. Two overlap freely; once all three have begun, one
  pass runs at a time, while what the others sent may still land (`Bounded` of
  `MCStage2`). The lease lasts three ticks, an attestation one, the clock four;
  the service policy is present.
- `Bootstrap`: three attempts and one restart for safety, two for liveness.
- `CodeRelay`: two installations (`relay`, time to 1); a client with the
  certificate of one and the key of another, whose clock is slow (`clocks`, time
  to 4); two uninstallations of one gateway (`rivals`, time to 2).
- `RuntimeUpdate`: two actions, two approvals, two releases, one fault, with one
  deployment from outside (`update`, one approval under way) or none (`updates`).
- `RootRemoval`: two consents, two passes each, any two of a budget pause, a
  lagging listing and a fault.
- `CleanupWorker`: two requests, one added source; a control record or none and a
  receipt with a source or without one are states, chosen initially (`cleanup_repair`
  and `replay` take both receipts, the other parts the one without).
- `SourceInstall`: two faults, two sources.
- `Stage1Session`: two approvals, one fault, changes by hand and by other scripts
  at any moment. `WorkerUpload`: three faults, two uploads by others.
- `CredentialChange`: two changes with two callbacks (`change`), or one with an
  edit and a check (`check`).

The proofs of section 5 need none of these bounds.

Deadlock is not checked: each of these programs may stop, with nobody starting
another attempt or run.

**Fairness.** `bootstrap_liveness` assumes weak fairness of time, of the alarm,
of an exchange and an invocation under way and of the rollout; nothing of the
customer. `liveness` assumes, for each part, weak fairness of its own steps and
of time, and of a person only where the code leaves the continuation to one: the
administrator repeats a switch, gives the credential and repairs what was changed
by hand, resumes a Team save, opens the page that reads the running release;
previews and starts the canary; restarts a failed publication. Every provider
call in the code has a deadline and the platform delivers alarms at least once.
In `Teardown` and `RootRemoval` liveness is checked without faults: after one the
code stops and waits for another consent. Stated in the modules, checked apart
and in no run because they need strong fairness and long runs:
`InstallationEnds` (`SourceInstall`), `OffEnds` (`AgentEntrance`),
`UninstallEnds` (`CleanupWorker`), `CallEnds` (`GrantExchange`).

**Refinement.** `RecordSwap` is what replacing a source's server record promises
its users: one record serves at a time and only while it exists, the saved
source names a record that exists, and a record is retired only when it neither
serves nor is saved. `SwitchSwapsRecords` of run `sources` is that specification
under the mapping in `TokenSwitch` (`Swap`): a record serves when the Portal maps it
and the Team's application targets it. So every interruption, rollback and
resumption of `TokenSwitch` is a sequence of suspensions, saves, creations and
retirements, or a stutter. `SwitchImplementsSwap` proves it for any number of
faults and changes by hand.

## 4. Findings and disagreements

Three runs end with a counterexample to what the repository says of itself; the
quotations are in `PROJECT.json`.

- `cleanup_repair`: `safeSourceCleanup` refuses a state that the cleanup stores
  itself, between the Portal's update and the end of the deletions. A cleanup
  interrupted there answers `uninstall_requires_repair` for ever.
- `bootstrap_grant`: the end of an expired attempt's pass drops the grant of the
  attempt that followed. The newer attempt ends as `grant_lost`, which the
  customer sees and repeats.
  The same hand-over has a second effect, which needs three attempts: a removal
  that began under one attempt goes on after a later hand-over replaced its
  grant without revoking it (`start` and `finishOwnedCleanup` of
  `installer/customer-bootstrap-convergence-driver.ts`), and may then meet what
  the later attempt armed. What stops it otherwise is the revoked token, so
  `RemovedOnlyUnsent` states its guarantee for the tokens that were revoked and
  names the attempt that removed (`removedBy`). And a third effect: a pass whose
  grant was dropped for another attempt has nothing left to revoke, succeeds at
  that, and records its failure without `revocation_unconfirmed` while the
  token lives. `RevocationIsHonest` says that nothing else leads to such a record
  (`ousted`); without its last disjunct TLC shows one with two attempts.
- `reconciler_approved`: a drift during the last retirement is updated though no
  approved plan contained it.

The models show more places where a text is stronger than the code. Each has its
property in the module; a configuration with the constants of the named part and
that property shows it.

| Module, property | The text | What happens |
|---|---|---|
| `Stage2` `NothingElseResent` | `installer/cloudflare-management-surface.ts:2295` "nothing else is ever resent" | `workers_dev_disable` is, harmlessly |
| `Bootstrap` `NoAlarmWhileExchanging` | `installer/customer-management-credential.ts:208` "Without keep-alive ticks no alarm can be pending" | a pass of an expired attempt leaves one |
| `Reconciler` `NotSubmittedIsProved` | `src/reconciler.ts:2019` "The provider proved that no mutation was submitted" | a retry reports it while the first request may still arrive |
| `SourceInstall` `RenewalOffered` | `docs/SOURCE_ACTION_RECOVERY.md:19` | saving another source's draft advances the revision a renewal compares, and the expired installation cannot be renewed |
| `RuntimeUpdate` `FailedIsRecorded` | `docs/UPDATES.md:168` "Anything that fails before the upload fails the action in the journal" | a pass that outlives its action cannot record it |
| `RuntimeUpdate` `GrantIsRevoked` | `docs/UPDATES.md:88` "The grant is revoked." | a second start before the first pass discards the first grant |
| `RuntimeUpdate` `UnattendedHoldsSlot` | `installer/customer-operation-router.ts:1028` "Holds the one attempt slot" | a consent takes it while the token is being checked |
| `CredentialChange` `LockCoversWrite` (without its exception for `contested` changes) | the Worker, :9710; `installer/customer-operation-router.ts:857` "a replayed callback cannot exchange twice" | two callbacks read the attempt before either spends it, and the one that fails ends the change under the other's write; or the relay's refusal of an earlier start does (:759), while a later start's callback writes |
| `Teardown` `PartialStaysLocked` | `docs/TEARDOWN_IMPLEMENTATION.md:71` "Unknown or partial removal stays locked." | preparing a new action drops the expired one that held the lock |
| `RootRemoval` `SentOnce` | `installer/gateway-teardown-provider.ts:604` "a write it already sent is settled, never sent again" | a budget stop while the listing lags sends it again |
| `RootRemoval` `LostGrantSettles` | `installer/gateway-teardown-finalizer.ts:49` | a late pass of an expired attempt takes grant and alarm of the next |
| `Stage1Session` `AbsentIsSuccess` | `installer/hosted-stage1-cleanup.ts:535` | after a deletion without an answer the next cleanup is refused (:633) |
| `Stage1Session` `ReleasedIsKept` (without `overtaken`, with one session and four approvals) | `installer/hosted-stage1-cleanup.ts:29` "exactly the Worker this session recorded as owned by provider state, and nothing else" | see below |
| `Stage1Session` `LapsedLeavesNothing` | `payload/installer/assets/installer-3b9796e1.js:453` "nothing is left behind" | an approval that lapses while its callback works leaves a Worker nobody records |
| `Ownership` `InheritsFromVerified` | `installer/customer-worker-self-update.ts:354` | only the active version is proven, the upload inherits from the latest |
| `Ownership` `ReadyDropsNonce` | `installer/customer-worker-self-update.ts:392` | the handover path does not read back that the nonce was deleted |
| `CanaryLifecycle` `StaysRecoverable` | `src/canary-runner.ts:439` | a snapshot left by an interrupted cleanup blocks a later recovery |
| `AgentEntrance` `EveryNameKeepsSource` | the Worker, :12761; `docs/AGENT_ACCESS.md:195` | installing a source of the same name and a smaller identifier moves the other's tools |
| `CleanupWorker` `ArmedPortalEnds` | the answer says retryable | a Portal update that never arrived is never sent again (`payload/worker-cleanup/index.js:1188`) |
| `CleanupWorker` `PortalKept` | `test/worker-uninstall-payload.test.mjs:607` "cleanup refuses ownership drift before issuing a DELETE" | a Portal whose marker was changed gets it back with the update, and is deleted |

The trace to `ReleasedIsKept` needs four approvals of one session: one builds a
Worker, and a cleanup verifies it and stalls before it retires it, while its
window closes. A second cleanup removes the Worker and completes. The session
begins anew with the saved name, builds another Worker of that name and hands it
over; and then the first cleanup's retirement, a PUT by the Worker's name, lands
on it. Only the readback that follows compares the id. `KeepsNotOurs` has the same
window: what is changed by hand, or bound by another script, between the
verification (:305, :395) and the PUT (:468) or DELETE (:483) is not seen. The
history `overtaken` records what came into that window, and for which cleanup, and
`SessionSafety` and `SessionSparesOthers` (section 5) show that nothing else can
go wrong.

A direct upload has that window too: its recovery lists and then sends, and
nothing holds off a request an earlier call left undecided. When one lands late
the release has two versions (`OneEach` without `overtaken`); the code leaves it to
its caller when to recover (`installer/cloudflare-worker-direct-upload.ts:643`).

## 5. Proofs

| Proof module | About | Theorems |
|---|---|---|
| `Stage2Proofs` | `Stage2`, all seven of its properties | `TypeCorrect`, `CreationsSentOnce`, `JournalPrecedesProvider`, `RevisionsNameJournals`, `HostnameHasOneOwner`, `AccessBeforeHostname`, `JournalsAreReal`, `LeaseIsGuard` |
| `BootstrapProofs` | `Bootstrap`, its safety | `SetupSafety`, `GrantSafety`, `RecordOwnership` |
| `SourceProofs` | `TokenSwitch` and the refinement of `RecordSwap`; `Install`, `Oauth`, `Edits` (`SourceInstall`, `SourceOauth`, `SourceEdits`) of `MCSources` | `SwitchSafety`, `SwitchImplementsSwap`, `InstallSafety`, `ConsentSafety`, `EditsSafety`, and the last three of the run: `InstallInRun`, `ConsentInRun`, `EditsInRun` |
| `AccessProofs` | `CredentialChange`; `Entrance`, `Team` (`AgentEntrance`, `TeamAccess`) of `MCAccess` | `CredentialSafety`, `ChecksKeepEdits`, `EntranceSafety`, `TeamSafety`, and the last two of the run: `EntranceInRun`, `TeamInRun` |
| `RuntimeUpdateProofs` | `RuntimeUpdate` | `UpdateSafety`, `UploadsAboveFloor` |
| `LifecycleProofs` | `Root`, `Gateway`, `Cleanup` (`RootRemoval`, `Teardown`, `CleanupWorker`) of `MCLifecycle` | `FinalizerSafety`, `TeardownSafety`, `CleanupSafety`, and all three of the run: `RootSafety`, `TeardownInRun`, `CleanupInRun` |
| `HostedProofs` | `CodeRelay`; `Session`, `Owner`, `Grant`, `Upload` (`Stage1Session`, `Ownership`, `GrantExchange`, `WorkerUpload`) of `MCHosted` | `RelaySafety`, `SessionRecordSafety`, `SessionSafety`, `SessionSparesOthers`, `OwnerSafety`, `GrantExchangeSafety`, `GrantFindsZone`, `UploadSafety`, and of the run: `SessionSafetyInRun`, `StepsSpareOthersInRun`, `OwnerSafetyInRun`, `GrantSafetyInRun`, `UploadSafetyInRun` |
| `OperatorProofs` | `ReceiptLock`; `Root` (`Reconciler`) of `MCOperator` | `LockExcludes`, `RecoverySparesTheLiving`, `ReconcilerSafety`, `ReconcilerApproval`, and the last two of the run: `ReconcilerSafetyInRun`, `DeletionsApprovedInRun` |

The assumptions are the named ones of the modules, and they say no more than
that bounds are numbers, that the value for "no attempt" is not an attempt,
that the clients of the relay have a certificate, a key and a clock each
(`ClientsAssumption`), that no source is called what stands for no source
(`SourceNames`), that resources are not numbers and each has a rank
(`ReconcilerBounds`), that a receipt names resources of the three kinds and the
last of them is one that every installation has (`GatewayOrderFits`: otherwise
a removal could end before it began), that there are sources and labels to
edit, a selection names tools and one of them is not "all" (`EditSubjects`,
`EditSelections`; what is saved first is such a selection), that every source
is of one kind and "no scopes registered" is not a set of scopes (`OauthKinds`,
`OauthScopes`), that what stands for no answer or no pending deletion of a
cleanup is neither "removed" nor a pending deletion (`CleanupFits`), that a
source of the entrance has a number and what stands for nothing is none of the
words it stands beside (`EntranceNumbers`, `EntranceNone`), and that a
challenge does not outlive the request that needs it, nor a ticket and the
tolerated difference of clocks (`TimesAssumption`; the code has two minutes for
each). A theorem about an instance that runs as a part is for the specification
of the run, `AnySpec`: a behaviour of the part is one of the component's, and
in any other part the property does not speak.

Each safety theorem has one inductive invariant, which TLC checked first. What
these say is the argument why the code is right:

- **Stage 2.** `Discipline`: types; `Copies`, that no copy is ahead of the stored
  journal and one of its revision is equal to it, which makes a successful
  compare-and-set lose nothing; `ArmedOrder`, that an action is armed only after
  everything before it is verified; `PassArmed`, `SentArmed`; and `SoleSender`,
  that at most one pass is about to send a creation and only if it was not sent
  yet. The properties are not inductive without these: nothing in
  `CreateSentOnce` says who else may be about to send. `World` adds what a
  request on the wire may still do (`Flight`, `Exists`, `Effect`: a located
  creation took effect and is not under way any more, so that a late creation of
  the placeholder cannot follow its release). `Truth` adds the rest of
  `JournalIsReal`: the writes that may be repeated took effect for good once
  they were answered (`Lasting`), the placeholder stays until its release is
  armed (`Placed`), and a completed journal has nobody's lease (`Closed`).
  `LeaseGuardsJournal` is an action property over the same invariant.
- **Bootstrap.** `SetupInv`: at most one grant object still holds its token and
  it is the pending one (`GrantsKept`); the revision a process read is the stored
  one while the record is about its attempt, and once it is not that attempt
  never returns (`RecordsKept`); the journal is armed before the attempt is
  marked finalizing, that before the upload and that before the rollout
  (`WritesOrdered`); while a removal is recorded, or one runs with the grant the
  driver holds, nothing was armed and no pass runs that could arm anything
  (`RemovalsGuarded`); a process that can still write its record holds the grant
  it will revoke, or that grant was dropped for another attempt (`EndsKnown`,
  with the history `ousted`).
- **Credential switch.** `SwitchInv`: where the saved source, the Portal and the
  application may stand in each phase of the journal (`PhaseStands`), and that
  what a request read before a write is still so when the write goes out
  (`PlaceStands`). The refinement needs in addition that the record that serves is
  the one the Portal maps (`MappedServes`); each step is one of the five of
  `RecordSwap`, or a stutter.
- **Source installation.** `InstallInv` speaks of each source on its own
  (`Agrees`): a creation that may still take place is the one its journal has
  armed, or one that a renewal left undecided (`outlived`), and where nothing is
  outlived nothing stands of that kind (`ObjectsAgree`); so a second object can
  only be a policy, because Cloudflare takes a server's key and an application's
  domain once. Such a policy, or a server that comes back under its removal,
  needs a repair by hand (`Stuck`). The application, which a listing cannot find, is looked for only
  where nothing can have been made of it (`JournalAgrees`: an approval waiting
  for execution is never `Unlocated`, and such an action is never renewed); what
  the Portal maps has all three resources, and a removal counts down from the
  whole (`PortalAgrees`, `RemovalAgrees`); and the request at work relies on what
  it read before its step (`RequestAgrees`). A step concerns one source and
  leaves what holds of the others.
- **Source edits.** `EditsInv` has three parts. The requests (`RequestsStand`):
  they arrived in some order, in which a mutation has a place of its own and a
  check that of the mutation before it; `tail` and `checksAfter` are the last
  place, whoever has somebody ahead waits (`EditsOrdered`), and `active` counts
  the checks at work. That queue is what excludes a check from a mutation: the
  code has no other lock. The data (`DataStands`): one unfinished edit, of the
  saved revision; what the Portal maps is within the saved or the journaled
  selection unless somebody changed it. And what the mutation at work relies on
  since it loaded (`WorkStands`), which nobody disturbs because it is alone.
- **Source authorization.** `ConsentInv`: the stored attempt is the newest start
  and nothing was exchanged or imported under it (`StoredIsNewest`), the one
  operation works on the newest attempt and took it out of the store
  (`OperationIsNewest`), and each step of the callback relies on what the steps
  before it compared (`Established`), while it holds the object.
- **Management credential.** `CredentialInv`: a change waits for its approval
  only before its secret was sent and never again after it; a change is contested
  once a callback shares it with another callback or with a start the relay has
  not answered, and a callback that writes for any other change is the only one
  that can end it; a resource edited before a check began stays edited until it is read.
- **Agent entrance.** `EntranceInv`: the record is armed before the domain is
  attached or detached, and says what the operation under way may have done
  (`DomainStands`); what a request relies on since it was admitted: the names it
  listed are those of its sources, a call goes to a tool of that list, and a
  request that began while the agent was off never gets beyond its first step
  (`RequestStands`); and as many audit lines as its step allows. The rate is a
  count in memory, so what was admitted in a window is at most the limit once
  more for each restart in it.
- **Team saves.** `TeamInv`. The journal tells of the group, of each policy and
  of each agent policy whether it is as saved, as planned, or either
  (`GroupStands`, `PolicyIs`, `AgentStand`), and the order of the writes is part
  of it: no policy is entered before the group is verified, and the group's
  deletion not before both policies read as planned. What an attempt has passed
  is so (`AttemptStands`), unless somebody changed it in Cloudflare; what holds
  in spite of that (one group and one agent policy each, known by saved or
  journaled ids, and no policy that names another group) is stated without that
  exception. The members of the group are the saved or the requested ones, the
  requested ones before a new policy names it, which is why nobody enters early.
- **Updates.** `UpdateInv`: an action's number is not used again once it expired,
  so an approval keeps meaning one target; a pass that has not sent its script
  runs for an action whose script was not sent; while a pass is about to upload,
  the floor cannot rise above its target (`FloorStays`: the action is applying,
  or the running release is its target already, or it expired and what replaced
  it waits for approval).
- **Removal by the gateway.** `TeardownInv`: what the journals list as removed is
  gone (`Gone`); a pass that may delete something before it reads the journal
  again has the gateway for itself, though its action expired meanwhile
  (`MayDelete`, `Alone`); a consent's token that is or may be left behind is
  warned of by the attempt, or will be when its exchange settles (`Warned`); and
  where something not the gateway's stood from the beginning nothing was armed
  (`Untouched`): a settlement takes back an arming only with the progress of the
  pass that armed it.
- **Hosted removal.** `FinalizerInv` has two arguments that hardly meet. The
  removal: a resource that was not shown is never shown again, and whatever is
  gone or may still go is counted by the job or armed in it, because a running
  pass agrees with the job on both however stale its copy is in all else. The
  grants: a consent that has, lost or may yet get a grant is the one the job
  names, or the job already warns.
- **Cleanup Worker.** `CleanupInv`: an object is one pass's alone, so a pass may
  rely on its journal from step to step while the pass of another request is in
  the other object (`CleanersStand`); what a journal lists as removed is gone, for
  nothing comes back; what somebody took over is not being deleted (`KeptStand`),
  because a deletion is armed only for a resource that was just read as the
  gateway's; while the Portal offers added sources none of them is deleted or
  about to be (`MappedStand`); and a deletion without an answer took effect or is
  the one its object's journal still waits for, under the request that sent it
  (`UnknownStand`), until another request looks and takes it over. That last part
  is false for several requests if the history does not forget what another
  request took over, which is what the code allows.
- **Hosted session and its cleanup.** The record: what a callback may still do
  to its session is said by the step it is at (`SessionInv`), and each step flows
  from the one before (`SessionFlow`), so a callback that comes late finds its
  phase gone and changes nothing. The Worker (`KeptInv`): from its exposure on it
  stands, recorded or about to be, until its session owes a cleanup, and nobody
  who would remove it is past verification (`Removing`), unless it verified an
  earlier Worker of that name: the retirement goes by the name, and so each cleanup
  between its verification and its last write is recorded when a Worker is made,
  changed or bound (`overtaken`). No assumption on how many cleanups there are is
  needed: where one is past verification, its Worker is neither changed nor bound, or
  a pair of it is in `overtaken` (`IsOurs`).
- **Code relay.** `RelayInv`: a message is judged by how far its client has come
  since it sent it (`Rank`); a row of the challenge table that is gone left for a
  cause (it bought a ticket, was replaced or expired); a state and a redirect
  name a ticket by a serial no later ticket has.
- **Ownership.** `OwnerInv`: a start that is still reading holds the attempt, so
  nobody certifies another review between reading and acceptance; and the version
  a pass read stays what it is, so it is the one adopted.
- **Grants.** `GrantInv`: a token still queued was not tried as often as the call
  may, and one that is not queued was, and is reported when it lives on.
- **Direct upload.** `UploadInv`: the submissions a call knows of, from its own
  answers or from the failed call before it, come in order and account for all
  there is of the release (`KnownExists`, `Evidence`); a request can be under way
  only after a failure (`Underway`); of a kind that was not overtaken there is one
  copy or one request on its way (`OneOfEach`); and a listing read to its end has seen every
  version of the release, however others upload between its pages (`Listed`).
- **Receipt lock.** `LockInv`: the directory has at most one owner (a run that
  made it or whose metadata file it holds, or whoever unlinked that file and has
  still to remove the directory), a file belongs to a run that opened it, a
  living run that opened its file still has it, and the evidence a recoverer is
  about to act on is about a dead run, which stays dead.
- **Reconciler.** `ReconcilerInv`: an identifier that the receipt, an object or a
  request names is never that of another resource's object (`IdsNameOne`); a
  creation that may still arrive is the pending one, and nothing stands of its
  resource (`OneEach`), so a creation whose answer was lost and that arrives runs
  later makes the only object there is; a deletion that may still arrive names an
  identifier an operator approved (`ApprovalsStand`); what a resource needs
  stands unless somebody else removed it, because a creation waits for it and a
  deletion of a required resource is an uninstall's, with nothing left standing
  above it (`GuardsStand`). The run adds what it has done and was told
  (`RunRemoves`: everything an uninstall is through with is gone; `RunPrunes`: an
  apply with prune was told of everything it may delete).

What the proofs changed in the models: four properties were false as first
stated (`RemovedOnlyUnsent`, section 4; `LockCoversWrite` for a change that two
callbacks share; `NameKeepsSource` for sources that share their label; and
`OffIsImmediate`, whose history kept a request begun while the agent was off
after it had been switched on again, which takes three Team changes); the
history of `CleanupWorker` held a request to what another one had looked into
meanwhile, and whether there is a control record was a constant, so that the
parts were instances of their own; the cleanup of `Stage1Session` took the
recorded Worker from the session at each step, where the code passes on what
its callback captured, and retired it by that record, where the code names the
Worker; the history `gone` of `Reconciler`, which names what somebody else
removed, forgot a resource whose creation arrived without effect, so that
`GuardedOrder` was false for a required resource that is named by its key
(`Land` now forgets it only when its object stands); and three definitions with
a `CASE` whose guards overlapped (`Recover` of `WorkerUpload`, `Recovery` and
`Inspect` of `CanaryLifecycle`) are now exclusive: TLC takes the first guard
that holds, TLA+ does not say which.

Only model-checked: `CanaryIsSafe`, `AdapterIsSafe`, `PublicationIsSafe` and
`AdapterSparesOthers` (`MCOperator`). Out of the prover's reach, and so with
TLC: liveness under fairness (`bootstrap_liveness`, `liveness`), `ENABLED`, and
what recursive definitions compute for every input.

## 6. Plan

1. Proofs of the components that are only model-checked, one proof module per
   run with the constants of the instances taken from the configuration:
   `GatewayAdapter`, `ReleasePublication` and `CanaryLifecycle` with `Reconciler`.
2. `MutationJournal`: an abstract specification of what the journals have in
   common (intend, send at most once, observe, commit), with `Stage2` and
   `Reconciler` shown to implement it.
3. The lifecycle locks of the management Worker as one composition: the parts
   that exclude each other over one `recordedLifecycleBlocks`.
4. The setup of the BigQuery connector.

## 7. What is not modelled, and why

- Cookies beyond who holds them, HTML, headers, request shapes, canonical JSON,
  hashing and signatures: they decide no order of events.
- Eventual consistency of reads, except for the listings of `RootRemoval`. The
  code guards against it by never repeating a creation after an unknown outcome,
  which the models keep.
- The atomic write of the receipt: write, sync and rename are one step. An error
  after the rename is the same as a stop after the write.
- Read-only routes and pages of the management Worker, the catalogue, previews.
- The setup of the BigQuery connector: a form, a preflight and one upload by
  machinery that `Bootstrap` and `WorkerUpload` model; its removal is in
  `Teardown`.
- The dashboard, connectors, CLI, build scripts and live canary harnesses:
  sequential, without state, or about bytes.
