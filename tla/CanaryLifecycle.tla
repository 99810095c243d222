--------------------------- MODULE CanaryLifecycle ---------------------------
(***************************************************************************)
(* The disposable-account canary (src/canary-runner.ts): one command that  *)
(* installs a gateway with the reconciler, verifies it, installs it again  *)
(* without a change, removes it and looks for residue.  A run that stops   *)
(* anywhere is taken up by the next one, which chooses what to do from two *)
(* files: the installation's receipt and a snapshot of it kept apart, the  *)
(* only record of what was installed once the uninstallation has begun.    *)
(*                                                                         *)
(* An approval is a hash of what it approves, so here it is what it        *)
(* approves.  The configuration and the release never change, hence every  *)
(* desired hash agrees.  The lock of the snapshot's store admits one run.  *)
(***************************************************************************)
EXTENDS Naturals, FiniteSets

CONSTANTS
  Kinds,       \* EXPECTED_ORDER, as 1 .. N
  Portal,      \* the place of the portal in it
  Markerless,  \* kinds that carry no ownership marker: the portal's application
  MaxFaults,   \* bound on crashes, refusals and answers that are lost
  MaxEdits     \* bound on changes made by others

VARIABLES
  receipt,   \* the installation receipt
  snapshot,  \* the cleanup store's copy of a receipt
  live,      \* the provider's object of each kind
  wire,      \* requests whose outcome is not decided
  approval,  \* the preview the operator approved
  run,       \* the run that holds the lock
  report,    \* what the last run reported
  faults, edits

vars == <<receipt, snapshot, live, wire, approval, run, report, faults, edits>>
files    == <<receipt, snapshot>>
provider == <<live, wire>>
bounds   == <<faults, edits>>

NoPending == [type |-> "none", action |-> "none", kind |-> 0]
NoReceipt == [state |-> "none", rev |-> 0, owned |-> {}, pending |-> NoPending]
NoPreview == [op |-> "none", plan |-> <<>>, receipt |-> NoReceipt, snapshot |-> NoReceipt]
Idle      == [pc |-> "idle", op |-> "none", plan |-> <<>>, base |-> NoReceipt,
              kind |-> 0, authorized |-> FALSE, ok |-> FALSE, accepted |-> FALSE]

\* EXPECTED_ORDER: the kinds that come before one.
Before(k) == 1 .. (k - 1)
Prefix == Before(Portal)
Highest(S) == CHOOSE k \in S : \A j \in S : j <= k
Lowest(S)  == CHOOSE k \in S : \A j \in S : k <= j

-----------------------------------------------------------------------------
(* Plans                                                                    *)

Is(p, type, action, k) == p = [type |-> type, action |-> action, kind |-> k]

\* isPortalAppCandidate: the portal's application is known by its hostname alone.
BearsMarker(k) == k \notin Markerless

\* makeObserved: an object is the installation's own if the receipt has it, or
\* if its creation is pending and it bears the marker.
Owned(k) ==
  /\ live[k] \in {"exact", "drift"}
  /\ \/ k \in receipt.owned
     \/ BearsMarker(k) /\ Is(receipt.pending, "apply", "create", k)

\* reconcile.
Change(k) ==
  CASE live[k] = "absent" -> "create"
    [] live[k] # "absent" /\ ~Owned(k) -> "conflict"
    [] OTHER -> IF live[k] = "exact" THEN "noop" ELSE "update"

Plan == [k \in Kinds |-> Change(k)]

Executable == \A k \in Kinds : Change(k) # "conflict"
AllNoop    == \A k \in Kinds : Change(k) = "noop"

\* buildGatewayUninstallPlan: what the receipt owns, unless another's object is
\* there.  An object that was changed is still the installation's.
UninstallPlan    == [k \in receipt.owned |-> IF live[k] = "absent" THEN "noop" ELSE "delete"]
UninstallBlocked == \E k \in receipt.owned : live[k] = "foreign"

-----------------------------------------------------------------------------
(* The preview                                                              *)

PortalCreate(r) == Is(r.pending, "apply", "create", Portal)

\* isExactPendingPortalCreateNoopRecovery.
NoopRecovery ==
  /\ receipt.owned = Prefix
  /\ \A k \in Kinds : Change(k) = IF k <= Portal THEN "noop" ELSE "create"

\* assertPendingPortalRollbackTopology.  With an exact portal the plan says noop
\* and with another one conflict, so only an absent portal is rolled back.
Topology ==
  /\ receipt.owned = Prefix
  /\ \A k \in Kinds : Change(k) = IF k < Portal THEN "noop" ELSE "create"

\* assertSafeCanaryPlan.
SafePlan ==
  /\ Executable
  /\ (\E k \in Kinds : Change(k) = "update") =>
       /\ \/ receipt.state = "ready" /\ receipt.pending = NoPending
          \/ \E k \in Kinds : Is(receipt.pending, "apply", "update", k) /\ Change(k) = "update"
       /\ \A k \in Kinds : Change(k) # "create" => k \in receipt.owned

\* isExactPostRollbackResourcePrefix, for a receipt that may be one.
AfterRollback == receipt.state = "ready" /\ receipt.owned = Prefix

\* readPartialCleanupRecovery: the snapshot shows that the portal's creation was
\* rolled back, or that a cleanup had begun.
SnapshotProves ==
  \/ /\ snapshot.state = "installing" /\ PortalCreate(snapshot)
     /\ receipt.rev = snapshot.rev + 1 /\ snapshot.owned = receipt.owned
  \/ snapshot = receipt

\* assertExactPartialCleanupPlan and assertExactPartialCleanupUninstall.
PartialPlan == Topology /\ \A k \in Prefix : UninstallPlan[k] = "delete"

\* readCanaryRecovery: what the two files say was interrupted.
Recovery ==
  IF PortalCreate(receipt) THEN "pending_portal_create"
  ELSE CASE AfterRollback /\ snapshot # NoReceipt ->
              (IF SnapshotProves THEN "partial_install_cleanup" ELSE "unreadable")
         [] receipt.state \in {"removed", "uninstalling"} ->
              (IF snapshot = NoReceipt THEN "unreadable" ELSE receipt.state)
         [] OTHER -> "none"

\* buildPreview, for a portal whose creation is pending: its receipt is finished,
\* or the creation is rolled back.
OfferedPending ==
  CASE NoopRecovery -> "apply" [] ~NoopRecovery /\ Topology -> "rollback" [] OTHER -> "blocked"

\* buildPreview.
Offered ==
  CASE Recovery = "pending_portal_create"   -> OfferedPending
    [] Recovery = "partial_install_cleanup" -> IF PartialPlan THEN "cleanup_partial" ELSE "blocked"
    [] Recovery = "removed"                 -> "residue"
    [] Recovery = "uninstalling"            -> IF UninstallBlocked THEN "blocked" ELSE "resume"
    [] Recovery = "unreadable"              -> "blocked"
    [] OTHER                                -> IF SafePlan THEN "apply" ELSE "blocked"

\* stableId of the preview: an installation is bound to its plan, and to the
\* receipt if it takes up an update or the portal's creation.
Approvable ==
  LET bound == Offered # "apply" \/ PortalCreate(receipt) \/ \E k \in Kinds : Change(k) = "update"
  IN [op       |-> Offered,
      plan     |-> IF Offered = "apply" THEN Plan ELSE <<>>,
      receipt  |-> IF bound THEN receipt ELSE NoReceipt,
      snapshot |-> IF Offered = "cleanup_partial" THEN snapshot ELSE NoReceipt]

\* previewCloudflareCanaryLifecycle, and the operator approves what it shows.
Preview ==
  /\ run = Idle /\ Offered # "blocked" /\ approval # Approvable
  /\ approval' = Approvable
  /\ UNCHANGED <<files, provider, run, report, bounds>>

-----------------------------------------------------------------------------
(* The receipt                                                              *)

Advanced(r) == [r EXCEPT !.rev = @ + 1]

\* beginReceiptAction.
Begin(type, action, k) ==
  [Advanced(receipt) EXCEPT !.state = IF type = "uninstall" THEN "uninstalling" ELSE "installing",
     !.pending = [type |-> type, action |-> action, kind |-> k]]

\* commitReceiptAction.
Committed ==
  LET p == receipt.pending
  IN [Advanced(receipt) EXCEPT !.state = IF p.type = "uninstall" THEN "uninstalling" ELSE "ready",
        !.owned = IF p.action = "delete" THEN @ \ {p.kind} ELSE @ \cup {p.kind},
        !.pending = NoPending]

\* clearReceiptAction.
Cleared == [Advanced(receipt) EXCEPT !.state = "ready", !.pending = NoPending]

\* markReceiptRemoved.
Removed == [Advanced(receipt) EXCEPT !.state = "removed"]

-----------------------------------------------------------------------------
(* Requests                                                                 *)

\* A request takes effect, whether or not somebody waits for its answer.
Landed(q) ==
  [live EXCEPT ![q.kind] = CASE q.action = "delete" -> "absent"
                             [] q.action = "create" -> "exact"
                             [] OTHER -> IF @ = "absent" THEN @ ELSE "exact"]

Stop(what) == run' = Idle /\ report' = what /\ approval' = NoPreview

Goto(pc) == run' = [run EXCEPT !.pc = pc] /\ UNCHANGED <<report, approval>>

Fault == faults < MaxFaults /\ faults' = faults + 1 /\ UNCHANGED edits

Send(action, k, pc) ==
  /\ wire' = wire \cup {[action |-> action, kind |-> k]}
  /\ Goto(pc) /\ UNCHANGED <<files, live>>

Awaited(q) ==
  /\ run.pc \in {"answer", "removing"}
  /\ q.kind = receipt.pending.kind /\ q.action = receipt.pending.action

\* The provider answers the request the run waits for.
Answered(next) ==
  \E q \in wire :
    /\ Awaited(q) /\ live[q.kind] # "foreign"
    /\ live' = Landed(q) /\ wire' = wire \ {q} /\ run' = next
    /\ UNCHANGED <<files, report, approval, bounds>>

\* Nothing comes back: the request is still under way.
Unanswered(pc) == Fault /\ Goto(pc) /\ UNCHANGED <<files, provider>>

\* A request nobody waits for any more arrives.
Land ==
  \E q \in wire :
    /\ ~Awaited(q) /\ live[q.kind] # "foreign"
    /\ live' = Landed(q) /\ wire' = wire \ {q}
    /\ UNCHANGED <<files, approval, run, report, bounds>>

\* Or it never does.
Lose ==
  \E q \in wire :
    /\ ~Awaited(q) /\ wire' = wire \ {q} /\ Fault
    /\ UNCHANGED <<files, live, approval, run, report>>

-----------------------------------------------------------------------------
(* The run                                                                  *)

\* Where the run of an operation begins.
FirstStep(op) ==
  CASE op = "apply" -> "recover" [] op = "rollback" -> "marker"
    [] op = "residue" -> "residue" [] OTHER -> "cleanup"

\* runCloudflareCanaryLifecycleLocked: the preview is made again and must be the
\* one that was approved.
Start ==
  /\ run = Idle /\ approval # NoPreview
  /\ \/ /\ approval # Approvable /\ Stop("approval_required")
     \/ /\ approval = Approvable
        /\ run' = [Idle EXCEPT !.op = Offered, !.plan = approval.plan, !.base = receipt,
             !.pc = FirstStep(Offered)]
        /\ UNCHANGED <<report, approval>>
  /\ UNCHANGED <<files, provider, bounds>>

Fail == run' = [run EXCEPT !.pc = "settle"] /\ UNCHANGED <<files, provider, report, approval>>

\* recoverApplyPending: an object that is there is taken over, an update is sent
\* again, an absent one may still come and is neither taken over nor repeated.
Recover ==
  LET p == receipt.pending
      there == \/ p.action \in {"create", "update"} /\ Change(p.kind) = "noop"
               \/ p.action = "delete" /\ live[p.kind] = "absent"
      again == p.action = "update" /\ Change(p.kind) = "update" /\ Executable
  IN
  /\ run.pc = "recover"
  /\ \/ p = NoPending /\ Goto("approve") /\ UNCHANGED <<files, provider>>
     \/ /\ p # NoPending /\ there
        /\ receipt' = Committed /\ Goto("approve") /\ UNCHANGED <<snapshot, provider>>
     \/ p # NoPending /\ again /\ Send("update", p.kind, "answer")
     \/ p # NoPending /\ ~there /\ ~again /\ Fail
  /\ UNCHANGED bounds

\* pendingUpdateRecoveryWasCommitted: the update that was pending at the start of
\* the run has been completed by it.
ResumedUpdate ==
  run.base.pending.action = "update" /\ run.plan[run.base.pending.kind] = "update"

\* The plan is compared with the approved one after the recovery.  A recovered
\* update has changed it: the installation ends there, and counts as done.
Approve ==
  LET same == Executable /\ run.plan = Plan IN
  /\ run.pc = "approve"
  /\ \/ /\ same
        /\ receipt' = IF receipt = NoReceipt THEN [receipt EXCEPT !.state = "ready"] ELSE receipt
        /\ Goto("prune")
     \/ /\ ~same /\ ResumedUpdate /\ UNCHANGED <<receipt, report, approval>>
        /\ run' = [run EXCEPT !.pc = "check", !.authorized = TRUE, !.accepted = TRUE]
     \/ ~same /\ ~ResumedUpdate /\ Goto("settle") /\ UNCHANGED receipt
  /\ UNCHANGED <<snapshot, provider, bounds>>

\* What the receipt owns and nobody has any more.
Lost == {k \in receipt.owned : live[k] = "absent"}

\* retireAbsentReceiptEntries journals and commits without a request, from the top.
Retire ==
  /\ \/ /\ run.pc = "prune" /\ Lost # {} /\ Executable /\ run.plan = Plan
        /\ receipt' = Begin("apply", "delete", Highest(Lost)) /\ Goto("retire")
        /\ UNCHANGED <<snapshot, provider>>
     \/ /\ run.pc = "retire" /\ live[receipt.pending.kind] = "absent"
        /\ receipt' = Committed /\ Goto("prune") /\ UNCHANGED <<snapshot, provider>>
     \/ run.pc = "retire" /\ live[receipt.pending.kind] # "absent" /\ Fail
     \/ run.pc = "prune" /\ Lost # {} /\ ~(Executable /\ run.plan = Plan) /\ Fail
     \/ run.pc = "prune" /\ Lost = {} /\ Goto("apply") /\ UNCHANGED <<files, provider>>
  /\ UNCHANGED bounds

\* The approved changes that are still to be made.
Todo == {k \in Kinds : run.plan[k] # "noop" /\ Change(k) # "noop"}

\* assertApprovedChangeStillMatches and assertLowerRankDependenciesConverged.
MayBegin(k) ==
  /\ Executable /\ Change(k) = run.plan[k] /\ (Change(k) = "create") = (k \notin receipt.owned)
  /\ \A j \in Before(k) : Change(j) = "noop" /\ j \in receipt.owned

\* applyGatewayLocked journals the next change, in the order of the kinds.
Journal ==
  /\ run.pc = "apply" /\ Todo # {}
  /\ LET k == Lowest(Todo) IN
     \/ /\ MayBegin(k) /\ receipt' = Begin("apply", Change(k), k)
        /\ run' = [run EXCEPT !.pc = "send", !.kind = k]
        /\ UNCHANGED <<snapshot, provider, approval, report>>
     \/ ~MayBegin(k) /\ Fail
  /\ UNCHANGED bounds

\* performPendingMutation sends the request.
SendApply ==
  /\ run.pc = "send" /\ Change(run.kind) = receipt.pending.action
  /\ Send(receipt.pending.action, run.kind, "answer")
  /\ UNCHANGED bounds

\* The adapter refuses before anything is sent: mutate clears the action.
Refuse ==
  /\ run.pc = "send" /\ Fault
  /\ receipt' = Cleared /\ Goto("settle") /\ UNCHANGED <<snapshot, provider>>

\* The object changed between the journal and the request.
SendConflict ==
  /\ run.pc = "send" /\ Change(run.kind) # receipt.pending.action
  /\ Fail /\ UNCHANGED bounds

Answer ==
  /\ run.pc = "answer"
  /\ \/ Answered([run EXCEPT !.pc = "commit", !.authorized = TRUE, !.accepted = TRUE])
     \/ Unanswered("settle")

\* commitVerifiedChange.  A markerless object is taken over from its answer.
Commit ==
  LET good == live[receipt.pending.kind] = "exact" IN
  /\ run.pc = "commit"
  /\ \/ /\ good /\ receipt' = Committed /\ Goto(IF receipt = run.base THEN "approve" ELSE "apply")
        /\ UNCHANGED <<snapshot, provider>>
     \/ ~good /\ Fail
  /\ UNCHANGED bounds

\* applyGateway has nothing left to do, or something it was not approved to do.
Verify ==
  /\ run.pc = "apply" /\ Todo = {}
  /\ \/ /\ AllNoop
        /\ run' = [run EXCEPT !.pc = "check", !.authorized = TRUE, !.accepted = TRUE]
        /\ UNCHANGED <<files, provider, approval, report>>
     \/ ~AllNoop /\ Fail
  /\ UNCHANGED bounds

\* getGatewayStatus, the second installation, the inspection and the tool call.
Check ==
  /\ run.pc = "check"
  /\ \/ /\ AllNoop /\ run' = [run EXCEPT !.pc = "settle", !.ok = TRUE]
        /\ UNCHANGED <<report, approval, bounds>>
     \/ ~AllNoop /\ Goto("settle") /\ UNCHANGED bounds
     \/ Fault /\ Goto("settle")
  /\ UNCHANGED <<files, provider>>

PendingApply == receipt.pending.type = "apply"

\* What follows the installation: nothing is cleaned up while its outcome is
\* unknown, or if nothing was changed.
Settle ==
  /\ run.pc = "settle"
  /\ CASE PendingApply -> Stop("pending_apply_blocked")
       [] ~PendingApply /\ ~run.authorized -> Stop("failed_before_mutation")
       [] OTHER -> Goto("cleanup")
  /\ UNCHANGED <<files, provider, bounds>>

-----------------------------------------------------------------------------
(* The cleanup                                                              *)

\* isStrictCanarySnapshot: a receipt that a cleanup can start from.
Strict(r) == r.owned # {} /\ r.owned \subseteq Kinds

\* The approval of a partial cleanup still holds.
StillApproved ==
  run.op = "cleanup_partial" => receipt = approval.receipt /\ snapshot = approval.snapshot

\* Mutant of SnapshotFor: the copy of an earlier cleanup is kept.
SnapshotKept == IF snapshot = NoReceipt THEN receipt ELSE snapshot

\* The copy that the uninstallation starts with.
SnapshotFor == receipt

\* cleanupCanary up to the uninstallation: the copy is written before anything
\* is removed.
Cleanup ==
  LET exhausted == receipt.state = "uninstalling" /\ receipt.owned = {} IN
  /\ run.pc = "cleanup"
  /\ \/ /\ StillApproved /\ ~UninstallBlocked /\ Strict(receipt) /\ receipt.state = "ready"
        /\ snapshot' = SnapshotFor /\ Goto("uninstall") /\ UNCHANGED receipt
     \/ /\ ~UninstallBlocked /\ receipt.state = "uninstalling"
        /\ Strict(receipt) \/ exhausted
        /\ receipt.owned \subseteq snapshot.owned
        /\ Goto("uninstall") /\ UNCHANGED files
     \/ /\ \/ UninstallBlocked \/ ~StillApproved
           \/ receipt.state = "ready" /\ ~Strict(receipt)
           \/ receipt.state = "uninstalling" /\ ~(receipt.owned \subseteq snapshot.owned)
        /\ Stop("cleanup_blocked") /\ UNCHANGED files
  /\ UNCHANGED <<provider, bounds>>

CleanupFails == Stop("cleanup_failed") /\ UNCHANGED <<files, provider>>

\* recoverUninstallPending and the loop of uninstallGatewayLocked, from the top.
UninstallStep ==
  LET p == receipt.pending
      k == IF p = NoPending THEN Highest(receipt.owned) ELSE p.kind IN
  /\ run.pc = "uninstall" /\ receipt.owned # {}
  /\ \/ /\ p = NoPending /\ live[k] # "foreign"
        /\ receipt' = Begin("uninstall", "delete", k)
        /\ Goto("uninstall") /\ UNCHANGED <<snapshot, provider>>
     \/ /\ p # NoPending /\ live[k] = "absent"
        /\ receipt' = Committed /\ Goto("uninstall") /\ UNCHANGED <<snapshot, provider>>
     \/ p # NoPending /\ Owned(k) /\ Send("delete", k, "removing")
     \/ live[k] = "foreign" /\ CleanupFails
  /\ UNCHANGED bounds

Removing ==
  /\ run.pc = "removing"
  /\ \/ Answered([run EXCEPT !.pc = "uninstall"])
     \/ Fault /\ CleanupFails

MarkRemoved ==
  /\ run.pc = "uninstall" /\ receipt.owned = {} /\ receipt.pending = NoPending
  /\ receipt' = Removed /\ Goto("residue")
  /\ UNCHANGED <<snapshot, provider, bounds>>

\* inspectResidue: what the copy names and is still there, and any application
\* of the portal's hostname.
Residue ==
  {k \in snapshot.owned : live[k] \in {"exact", "drift"}} \cup
  {k \in Markerless : live[k] # "absent"}

\* verifyRemovedCanaryResidue and the end of cleanupCanary.
Inspect ==
  /\ run.pc = "residue"
  /\ Stop(CASE Residue # {} -> "residue_detected"
            [] Residue = {} /\ run.op = "apply" /\ ~run.ok -> "lifecycle_failed"
            [] OTHER -> "removed")
  /\ UNCHANGED <<files, provider, bounds>>

-----------------------------------------------------------------------------
(* The rollback of a portal whose creation is pending                       *)

\* persistPartialCleanupMarker.
Marker ==
  /\ run.pc = "marker"
  /\ \/ /\ receipt = run.base /\ snapshot \in {NoReceipt, receipt}
        /\ snapshot' = receipt /\ Goto("rollback")
     \/ ~(receipt = run.base /\ snapshot \in {NoReceipt, receipt})
        /\ Stop("rollback_failed") /\ UNCHANGED snapshot
  /\ UNCHANGED <<receipt, provider, bounds>>

RollbackFails == Stop("rollback_failed") /\ UNCHANGED <<files, provider>>

\* No request is under way any more: what the samples of a whole discovery
\* period stand for (provePendingPortalCreateRollbackQuiet).
Quiet == wire = {}

\* The provider's rollback: a portal that came after the preview is deleted.
Rollback ==
  LET mine == \A k \in Kinds : k > Portal => live[k] = "absent" IN
  /\ run.pc = "rollback"
  /\ \/ mine /\ live[Portal] = "absent" /\ Quiet /\ Goto("clear") /\ UNCHANGED <<files, provider>>
     \/ mine /\ live[Portal] = "exact" /\ Send("delete", Portal, "quiet")
     \/ (~mine \/ live[Portal] \in {"drift", "foreign"}) /\ RollbackFails
  /\ UNCHANGED bounds

\* Whatever the DELETE answered, absence is what counts.
RollbackQuiet ==
  /\ run.pc = "quiet" /\ Quiet
  /\ \/ live[Portal] = "absent" /\ Goto("clear") /\ UNCHANGED <<files, provider>>
     \/ live[Portal] # "absent" /\ RollbackFails
  /\ UNCHANGED bounds

\* rollbackPendingPortalCreateLocked clears the action of a receipt that is still
\* the one it read.
ClearPending ==
  /\ run.pc = "clear"
  /\ \/ /\ live[Portal] = "absent" /\ receipt = run.base
        /\ receipt' = Cleared /\ Stop("rollback_complete") /\ UNCHANGED <<snapshot, provider>>
     \/ live[Portal] # "absent" /\ RollbackFails
  /\ UNCHANGED bounds

-----------------------------------------------------------------------------
(* Faults and others                                                        *)

Crash ==
  /\ run # Idle /\ Fault /\ Stop("crashed") /\ UNCHANGED <<files, provider>>

\* Somebody deletes or changes an object, or gives the hostname an application.
Edit ==
  /\ edits < MaxEdits /\ edits' = edits + 1
  /\ \/ \E k \in Kinds, s \in {"absent", "drift"} :
          live[k] \in {"exact", "drift"} \ {s} /\ live' = [live EXCEPT ![k] = s]
     \/ \E k \in Markerless : live[k] = "absent" /\ live' = [live EXCEPT ![k] = "foreign"]
     \/ \E k \in Markerless : live[k] = "foreign" /\ live' = [live EXCEPT ![k] = "absent"]
  /\ UNCHANGED <<files, wire, approval, run, report, faults>>

Init ==
  /\ receipt = NoReceipt /\ snapshot = NoReceipt
  /\ live = [k \in Kinds |-> "absent"] /\ wire = {}
  /\ approval = NoPreview /\ run = Idle /\ report = "none" /\ faults = 0 /\ edits = 0

RunStep ==
  \/ Recover \/ Approve \/ Retire \/ Journal \/ SendApply \/ SendConflict \/ Answer
  \/ Commit \/ Verify \/ Check \/ Settle \/ Cleanup \/ UninstallStep \/ Removing
  \/ MarkRemoved \/ Inspect \/ Marker \/ Rollback \/ RollbackQuiet \/ ClearPending

Next == Preview \/ Start \/ RunStep \/ Land \/ Lose \/ Refuse \/ Crash \/ Edit

Spec == Init /\ [][Next]_vars

\* Runs go on and are approved as long as one is offered, requests arrive.
Fairness == WF_vars(Preview) /\ WF_vars(Start) /\ WF_vars(RunStep) /\ WF_vars(Land)

FairSpec == Spec /\ Fairness

-----------------------------------------------------------------------------
(* Properties                                                               *)

Pendings == {NoPending} \cup
  [type : {"apply", "uninstall"}, action : {"create", "update", "delete"}, kind : Kinds]

Receipts ==
  [state : {"none", "ready", "installing", "uninstalling", "removed"}, rev : Nat,
   owned : SUBSET Kinds, pending : Pendings]

\* normalizeReceipt: the state and the pending action agree, and the action is
\* about what the receipt owns, or does not own yet.
Valid(r) ==
  /\ r \in Receipts
  /\ r.state \in {"ready", "removed"} => r.pending = NoPending
  /\ r.pending.type = "apply" => r.state = "installing"
  /\ r.pending.type = "uninstall" => r.state = "uninstalling" /\ r.pending.action = "delete"
  /\ r.state = "removed" => r.owned = {}
  /\ r.pending # NoPending => (r.pending.action = "create") = (r.pending.kind \notin r.owned)

\* readCloudflareObservedState: what a read of a kind shows.
Readings == {"absent", "exact", "drift", "foreign"}

\* CanaryPreview: what a preview may offer.
Operations == {"none", "apply", "rollback", "cleanup_partial", "residue", "resume"}

\* CanaryContext: what a run carries from step to step.
Runs ==
  [pc : {"idle", "recover", "approve", "prune", "retire", "apply", "send", "answer", "commit",
         "check", "settle", "cleanup", "uninstall", "removing", "residue", "marker", "rollback",
         "quiet", "clear"},
   op : Operations, kind : Kinds \cup {0}, base : Receipts,
   plan : {<<>>} \cup [Kinds -> {"create", "update", "noop"}],
   authorized : BOOLEAN, ok : BOOLEAN, accepted : BOOLEAN]

\* MESSAGES: how a run ends, and how one that crashed is recorded here.
Reports ==
  {"none", "approval_required", "pending_apply_blocked", "failed_before_mutation",
   "cleanup_blocked", "cleanup_failed", "residue_detected", "lifecycle_failed", "removed",
   "rollback_failed", "rollback_complete", "crashed"}

\* Every variable has its type, and every receipt that is written is a valid one.
TypeOK ==
  /\ Valid(receipt) /\ Valid(snapshot)
  /\ live \in [Kinds -> Readings]
  /\ wire \subseteq [action : {"create", "update", "delete"}, kind : Kinds]
  /\ approval.op \in Operations /\ run \in Runs /\ report \in Reports
  /\ faults \in 0 .. MaxFaults /\ edits \in 0 .. MaxEdits

Mine == {k \in Kinds : live[k] \in {"exact", "drift"}}

\* From the first deletion to the tombstone the copy names everything that is
\* left, so that the next run can prove what it removes and that it is gone.
SnapshotCovers ==
  receipt.state \in {"uninstalling", "removed"} => receipt.owned \cup Mine \subseteq snapshot.owned

\* While a creation may still arrive its action stays in the receipt: no cleanup,
\* no second creation and no rollback goes past it.
UnknownIsKept ==
  \A q \in wire : q.action = "create" => Is(receipt.pending, "apply", "create", q.kind)

\* A run that the provider accepted nothing from, that completed no update of an
\* earlier run and found no complete installation removes nothing.
UntouchedIsKept ==
  run.op = "apply" /\ run.pc \in {"cleanup", "uninstall", "removing", "residue"} => run.accepted

\* Nothing of the installation is left when a run reports that it is removed.
ReportedIsGone == report = "removed" => Mine = {}

\* A run that stopped between two requests can be taken up by the next one, if
\* nobody else changed anything.
StaysRecoverable ==
  run = Idle /\ wire = {} /\ edits = 0 /\ receipt.pending = NoPending => Offered # "blocked"

\* What only an operator can resolve: a creation that never arrived, an object
\* without a marker whose creation was not committed, a copy that is not this
\* receipt's.
Manual ==
  \/ /\ receipt.pending.action = "create" /\ receipt.pending.kind # Portal
     /\ live[receipt.pending.kind] = "absent" \/ receipt.pending.kind \in Markerless
  \/ Offered = "blocked"
  \/ PortalCreate(receipt) /\ snapshot \notin {NoReceipt, receipt}

\* The canary ends removed, or waits for an operator.
Due  == receipt.state # "removed"
Done == receipt.state = "removed" \/ Manual
CanaryEnds == Due ~> Done

(* The safety of this component: its invariants together.                   *)
Safe ==
  /\ TypeOK /\ SnapshotCovers /\ UnknownIsKept /\ UntouchedIsKept /\ ReportedIsGone
=============================================================================
