---------------------------- MODULE SourceInstall ----------------------------
(***************************************************************************)
(* Adding and removing sources in the management Worker                    *)
(* (payload/worker/index.js): drafts and their collection revision, the    *)
(* journaled installation of a source under short approvals, the pause     *)
(* for the customer's connection and choice of tools, the attachment to    *)
(* the Portal, and the journaled removal.                                  *)
(*                                                                         *)
(* AdminState runs one mutation at a time; each may stop between any two   *)
(* steps.  A creation whose answer was lost may take place at any later    *)
(* time, also after the approval it was sent under ended and was renewed.  *)
(* A server is created under its own key, so a second creation is refused; *)
(* a policy belongs to an application and goes with it; an application has *)
(* no hostname and cannot be found by listing, so a reading without its    *)
(* identifier may miss one that exists.                                    *)
(***************************************************************************)
EXTENDS Naturals, FiniteSets

CONSTANTS
  Sources,
  MaxRevision,  \* bound on the collection revision up to which drafts are saved
  MaxFaults     \* bound on lost answers and evictions

VARIABLES
  status,     \* of each source: absent, draft or installed
  content,    \* what its hash covers: whether tools are enabled
  revision,   \* of the collection of sources
  action,     \* the installation journal of each source
  owned,      \* sources in control.sourceOwnership
  removal,    \* the removal journal
  objects,    \* how many objects of each kind Cloudflare holds
  extra,      \* sources whose application carries a policy beside the one that is or gets recorded
  portal,     \* sources the Portal maps
  wide,       \* sources whose policy admits the members entitled to every source
  connected,  \* sources the customer connected, with a synced catalogue
  wire,       \* how many creations of each kind were sent and neither executed nor lost
  outlived,   \* history: creations that were undecided when their approval was renewed
  req,        \* the mutation that holds the queue
  faults

saved    == <<status, content, revision, owned>>
provider == <<objects, extra, portal, wide, connected, wire, outlived>>
vars     == <<status, content, revision, action, owned, removal, objects, extra, portal, wide,
              connected, wire, outlived, req, faults>>

(* SOURCE_ACTION_RESOURCE_ORDER and the order in which a removal deletes.   *)
Kinds    == 1..3
Server   == 1
App      == 2
Policy   == 3
Deletion == <<Server, Policy, App>>

Contents == {"empty", "tools"}
(* What the records of sources, of ownership and of actions may hold.        *)
Statuses == {"absent", "draft", "installed"}
OwnershipRecords == SUBSET Sources
ActionRecords ==
  [st : {"none", "authorization_required", "applying", "succeeded", "failed", "recovery_required"},
   rev : Nat, hash : Contents, have : 0..3, pend : {"none", "armed", "submitted"},
   portal : {"none", "armed", "submitted"}, access : BOOLEAN, open : BOOLEAN, paused : BOOLEAN]
Desired   == [k \in Kinds |-> 1]   \* buildDesiredResources
NoAction == [st |-> "none", rev |-> 0, hash |-> "empty", have |-> 0, pend |-> "none", portal |-> "none",
             access |-> FALSE, open |-> FALSE, paused |-> FALSE]
NoRemoval == [src |-> "none", step |-> 0, pending |-> FALSE]
Idle      == [pc |-> "idle", src |-> "none"]

Init ==
  /\ status = [s \in Sources |-> "absent"] /\ content = [s \in Sources |-> "empty"] /\ revision = 1
  /\ action = [s \in Sources |-> NoAction] /\ owned = {} /\ removal = NoRemoval
  /\ objects = [s \in Sources |-> [k \in Kinds |-> 0]] /\ extra = {} /\ portal = {} /\ wide = {}
  /\ connected = {} /\ wire = [s \in Sources |-> [k \in Kinds |-> 0]] /\ outlived = {}
  /\ req = Idle /\ faults = 0

-----------------------------------------------------------------------------
(* What a journal says                                                      *)

(* sourceActionHasWriteEvidence.                                             *)
Evidence(a) == a.have > 0 \/ a.pend # "none" \/ a.portal # "none"

Recovers(a) ==   \* sourceActionState = 'recovery_required'
  \/ a.st = "recovery_required"
  \/ Evidence(a) /\ a.st \in {"authorization_required", "failed"} /\ ~(a.st = "authorization_required" /\ a.open)
  \/ a.st = "applying" /\ ~a.open

CanCancel(a) == a.st = "authorization_required" /\ ~Evidence(a)

Paused(a) ==     \* sourceActionConnectionPaused
  a.st = "recovery_required" /\ a.pend = "none" /\ a.portal = "none" /\ a.have = 3 /\ a.paused

Unlocated(a) == a.pend = "armed" /\ a.have + 1 = App
\* Mutant of CanRenew: an application whose creation was not acknowledged is looked for again.
RenewsUnlocated(a) == (~a.open \/ Paused(a)) /\ Recovers(a)
CanRenew(a) == (~a.open \/ Paused(a)) /\ Recovers(a) /\ ~Unlocated(a)

Blocks(a) ==     \* sourceActionBlocks, for a new installation and the draft itself
  a.st \notin {"none", "succeeded"} /\ (a.st = "failed" => Evidence(a))
Unfinished(a) == \* recordedLifecycleBlocks, for every other operation
  /\ a.st \notin {"none", "succeeded"}
  /\ Evidence(a) \/ (a.st # "failed" /\ (a.st = "authorization_required" => a.open))

(* otherLifecycleBlocksSource: somebody else's installation or removal.      *)
OthersUnfinished(s) == \E t \in Sources \ {s} : Unfinished(action[t])
RemovalOf(s) == removal.src = s

(* What Cloudflare says of a source: its catalogue is synced, its policy      *)
(* admits whoever is entitled to every source.                               *)
Synced(s) == s \in connected
AdmitsEveryMember(s) == s \in wide

-----------------------------------------------------------------------------
(* Drafts                                                                   *)

Quiet == req = Idle
SaveDraft(s, c) ==   \* PUT /sources: only an action of the same source refuses it
  /\ Quiet /\ removal = NoRemoval /\ status[s] # "installed" /\ ~Blocks(action[s])
  /\ revision < MaxRevision
  /\ status' = [status EXCEPT ![s] = "draft"] /\ content' = [content EXCEPT ![s] = c]
  /\ revision' = revision + 1
  /\ UNCHANGED <<action, owned, removal, provider, req, faults>>

Discardable(a) == ~Evidence(a) /\ (a.st \in {"none", "failed"} \/ CanCancel(a))

RemoveDraft(s) ==    \* removeSourceDraft: one transaction that rebinds the other actions
  /\ Quiet /\ removal = NoRemoval /\ status[s] = "draft" /\ Discardable(action[s])
  /\ status' = [status EXCEPT ![s] = "absent"] /\ revision' = revision + 1
  /\ action' = [t \in Sources |->
       IF t = s THEN NoAction
       ELSE IF action[t].rev = revision THEN [action[t] EXCEPT !.rev = revision + 1] ELSE action[t]]
  /\ UNCHANGED <<content, owned, removal, provider, req, faults>>

-----------------------------------------------------------------------------
(* Approvals                                                                *)

Prepare(s) ==        \* prepareSourceAction
  /\ Quiet /\ removal = NoRemoval /\ status[s] = "draft"
  /\ \A t \in Sources : ~Blocks(action[t])
  /\ action' = [action EXCEPT ![s] = [NoAction EXCEPT !.st = "authorization_required",
                  !.rev = revision, !.hash = content[s], !.open = TRUE]]
  /\ UNCHANGED <<saved, removal, provider, req, faults>>

Cancel(s) ==         \* cancelSourceAction
  /\ Quiet /\ CanCancel(action[s])
  /\ action' = [action EXCEPT ![s].st = "failed"]
  /\ UNCHANGED <<saved, removal, provider, req, faults>>

(* actionDesiredState: the source is still what the action was approved for. *)
Bound(s) == status[s] # "absent" /\ action[s].hash = content[s]

Renew(s) ==          \* renewSourceAction
  /\ Quiet /\ removal = NoRemoval /\ CanRenew(action[s])
  /\ action[s].rev = revision /\ Bound(s) /\ ~OthersUnfinished(s)
  /\ action' = [action EXCEPT ![s].st = "authorization_required", ![s].open = TRUE]
  /\ outlived' = outlived \cup {<<s, k>> : k \in {j \in Kinds : wire[s][j] > 0}}
  /\ UNCHANGED <<saved, removal, objects, extra, portal, wide, connected, wire, req, faults>>

Expire(s) ==         \* the approval's ten minutes end, whatever is under way or undecided
  /\ action[s].open
  /\ action' = [action EXCEPT ![s].open = FALSE]
  /\ UNCHANGED <<saved, removal, provider, req, faults>>

ChooseTools(s) ==    \* chooseSourceActionTools: draft and action move together
  /\ Quiet /\ removal = NoRemoval /\ Paused(action[s]) /\ Bound(s) /\ ~OthersUnfinished(s)
  /\ Synced(s) /\ ~(content[s] = "tools" /\ action[s].rev = revision)
  /\ content' = [content EXCEPT ![s] = "tools"] /\ revision' = revision + 1
  /\ action' = [action EXCEPT ![s].rev = revision + 1, ![s].hash = "tools"]
  /\ UNCHANGED <<status, owned, removal, provider, req, faults>>

-----------------------------------------------------------------------------
(* processSourceAction                                                      *)

Busy(pc, s) == req = [pc |-> pc, src |-> s]
Goto(pc)    == req' = [req EXCEPT !.pc = pc]
Keep        == UNCHANGED <<saved, removal, provider, faults>>
Set(s, a)   == action' = [action EXCEPT ![s] = a]
(* failSourceAction, for a refused answer and for a check that does not hold. *)
Failed(s, pause) ==
  action' = [action EXCEPT ![s].st = "recovery_required", ![s].paused = pause] /\ req' = Idle
Lost == faults < MaxFaults /\ faults' = faults + 1
Answered == UNCHANGED faults   \* readBoundedProviderJson: whole, and within its bound

(* Where the loop over the resources and the Portal stands.                  *)
Stage(a) == IF a.pend # "none" THEN "resume" ELSE IF a.have < 3 THEN "baseline" ELSE "portal"
Proceed(s, a) == Set(s, a) /\ req' = [pc |-> Stage(a), src |-> s]

(* The installed prefix is read again: a policy beside the recorded one is a   *)
(* drift, unless the policy was widened, which is read by its identifier.     *)
RetainedHolds(s) ==
  action[s].have = 3 /\ s \in extra => action[s].access /\ AdmitsEveryMember(s)

Authorized(a) == a.st = "authorization_required" /\ a.open   \* parseSourceActionRequest
Process(s) ==        \* claims execution before the first remote read
  LET a == action[s] IN
  /\ Quiet /\ removal = NoRemoval /\ Authorized(a)
  /\ a.rev = revision /\ ~OthersUnfinished(s)
  /\ IF Bound(s) /\ RetainedHolds(s)
                 THEN Proceed(s, [a EXCEPT !.st = "applying", !.paused = FALSE])
                 ELSE Failed(s, FALSE)
  /\ Keep

NextKind(s) == action[s].have + 1
Receipt(s)  == [action[s] EXCEPT !.have = @ + 1, !.pend = "none"]

(* discoverResource: what a reading may answer.                              *)
Reading(s, k, located) ==
  LET n == objects[s][k] IN
  IF n = 0 THEN {"absent"} ELSE IF k = App /\ ~located THEN {"absent", "present"}
  ELSE IF k = Policy /\ s \in extra THEN {"ambiguous"} ELSE {"present"}

Resume(s) ==
  /\ Busy("resume", s)
  /\ \E seen \in Reading(s, NextKind(s), action[s].pend = "submitted") :
       CASE seen = "absent"  -> Proceed(s, [action[s] EXCEPT !.pend = "none"])
         [] seen = "present" -> Proceed(s, Receipt(s))
         [] OTHER            -> Failed(s, FALSE)
  /\ Keep

Baseline(s) ==
  /\ Busy("baseline", s)
  /\ \E seen \in Reading(s, NextKind(s), FALSE) :
       IF seen = "absent" /\ action[s].open
       THEN Set(s, [action[s] EXCEPT !.pend = "armed"]) /\ Goto("create")
       ELSE Failed(s, FALSE)
  /\ Keep

(* What a creation does at Cloudflare: the key of a server is taken once; a    *)
(* second policy is one beside the first, or beside the recorded one.          *)
Taken(s, k) == k = Server /\ objects[s][k] > 0
Created(s, k) ==
  IF k = Policy /\ (objects[s][k] > 0 \/ action[s].have = 3)
  THEN extra' = extra \cup {s} /\ UNCHANGED objects
  ELSE objects' = [objects EXCEPT ![s][k] = @ + 1] /\ UNCHANGED extra
Sent(s) == wire' = [wire EXCEPT ![s][NextKind(s)] = @ + 1]
Create(s) ==
  /\ Busy("create", s)
  /\ \/ /\ ~Taken(s, NextKind(s)) /\ Created(s, NextKind(s)) /\ Goto("verify") /\ Answered
        /\ Set(s, [action[s] EXCEPT !.pend = "submitted"]) /\ UNCHANGED wire
     \/ /\ Taken(s, NextKind(s)) /\ Failed(s, FALSE) /\ Answered /\ UNCHANGED <<objects, extra, wire>>
     \/ Lost /\ Sent(s) /\ Failed(s, FALSE) /\ UNCHANGED <<objects, extra>>
  /\ UNCHANGED <<saved, removal, portal, wide, connected, outlived>>

Verify(s) ==
  /\ Busy("verify", s)
  /\ IF Reading(s, NextKind(s), TRUE) = {"present"} THEN Proceed(s, Receipt(s)) ELSE Failed(s, FALSE)
  /\ Keep

(* The Portal is written only for a connected source with tools enabled.     *)
Mappable(s) == Synced(s) /\ content[s] = "tools"

Attach(s) ==
  /\ Busy("portal", s)
  /\ IF s \in portal THEN Goto("widen") /\ UNCHANGED action
     ELSE IF ~action[s].open THEN Failed(s, FALSE)
     ELSE IF ~Mappable(s)
          THEN /\ action' = [action EXCEPT ![s].st = "recovery_required", ![s].paused = TRUE,
                                           ![s].portal = "none"]
               /\ req' = Idle
     ELSE Set(s, [action[s] EXCEPT !.portal = "armed"]) /\ Goto("map")
  /\ Keep

Map(s) ==
  /\ Busy("map", s)
  /\ \/ /\ portal' = portal \cup {s} /\ Set(s, [action[s] EXCEPT !.portal = "submitted"])
        /\ Goto("widen") /\ Answered
     \/ Lost /\ portal' \in {portal, portal \cup {s}} /\ Failed(s, FALSE)
  /\ UNCHANGED <<saved, removal, objects, extra, wide, connected, wire, outlived>>

(* automaticSourceAccess: armed before the policy is widened; a policy that   *)
(* is already wide is accepted only from an armed action.                    *)
Widen(s) ==
  /\ Busy("widen", s)
  /\ IF AdmitsEveryMember(s)
     THEN (IF action[s].access THEN Goto("finalize") /\ UNCHANGED action ELSE Failed(s, FALSE)) /\ Keep
     ELSE IF ~action[s].open THEN Failed(s, FALSE) /\ Keep
     ELSE /\ \/ /\ wide' = wide \cup {s} /\ Set(s, [action[s] EXCEPT !.access = TRUE])
                /\ Goto("finalize") /\ Answered
             \/ /\ Lost /\ wide' \in {wide, wide \cup {s}} /\ req' = Idle
                /\ Set(s, [action[s] EXCEPT !.access = TRUE, !.st = "recovery_required"])
          /\ UNCHANGED <<saved, removal, objects, extra, portal, connected, wire, outlived>>

Finalize(s) ==       \* finalizeSourceAction: one write of source, ownership and journal
  /\ Busy("finalize", s) /\ Bound(s) /\ content[s] = "tools"
  /\ status' = [status EXCEPT ![s] = "installed"] /\ owned' = owned \cup {s}
  /\ revision' = revision + 1
  /\ Set(s, [action[s] EXCEPT !.st = "succeeded", !.pend = "none", !.portal = "none"])
  /\ req' = Idle /\ UNCHANGED <<content, removal, provider, faults>>

-----------------------------------------------------------------------------
(* removeManagedSource                                                      *)

Removable(s) ==
  status[s] = "installed" \/ (status[s] = "draft" /\ Paused(action[s]) /\ CanRenew(action[s]))

(* What the removal's journal leads one to expect before anything is written; *)
(* the application carries no policy but the recorded one.                    *)
PrefixHolds(s) ==
  LET r == removal IN
  /\ s \notin extra
  /\ IF ~RemovalOf(s) THEN s \in portal <=> s \in owned
     ELSE /\ r.step > 0 => s \notin portal
          /\ r.step = 0 /\ ~r.pending => (s \in portal <=> s \in owned)
          /\ \A i \in 1..3 : r.step > i => objects[s][Deletion[i]] = 0

RemoveManaged(s) ==
  /\ Quiet /\ Removable(s) /\ removal.src \in {"none", s} /\ ~OthersUnfinished(s)
  /\ PrefixHolds(s)
  /\ removal' = IF RemovalOf(s) THEN removal ELSE [src |-> s, step |-> 0, pending |-> FALSE]
  /\ req' = [pc |-> IF removal'.step = 0 THEN "detach" ELSE "delete", src |-> s]
  /\ UNCHANGED <<saved, action, provider, faults>>

Progress(n) == removal' = [removal EXCEPT !.step = n, !.pending = FALSE]
Detach(s) ==
  /\ Busy("detach", s)
  /\ \/ portal' = portal \ {s} /\ Progress(1) /\ Goto("delete") /\ Answered
     \/ /\ s \in portal /\ Lost /\ portal' \in {portal, portal \ {s}}
        /\ removal' = [removal EXCEPT !.pending = TRUE] /\ req' = Idle
  /\ UNCHANGED <<saved, action, objects, extra, wide, connected, wire, outlived>>

(* teardownApplicationChildrenMatch: an application with another policy stays. *)
ChildrenMatch(s, k) == k = App => s \notin extra
Delete(s) ==
  LET k == Deletion[removal.step]
      deleted == [objects EXCEPT ![s][k] = 0]
      decided == IF k = App THEN [wire EXCEPT ![s][Policy] = 0] ELSE wire IN
  /\ Busy("delete", s) /\ removal.step \in 1..3
  /\ s \notin portal /\ ChildrenMatch(s, k)
  /\ \/ objects' = deleted /\ wire' = decided /\ Progress(removal.step + 1) /\ Answered /\ UNCHANGED req
     \/ /\ objects[s][k] > 0 /\ Lost
        /\ \/ UNCHANGED <<objects, wire>>
           \/ objects' = deleted /\ wire' = decided
        /\ removal' = [removal EXCEPT !.pending = TRUE] /\ req' = Idle
  /\ UNCHANGED <<saved, action, extra, portal, wide, connected, outlived>>

AllAbsent(s) == \A k \in Kinds : objects[s][k] = 0
Conflict(s) ==       \* source_removal_ownership_conflict, after the removal began
  /\ Busy("delete", s)
  /\ \/ removal.step \in 1..3 /\ ~ChildrenMatch(s, Deletion[removal.step])
     \/ removal.step = 4 /\ ~AllAbsent(s)
  /\ req' = Idle /\ UNCHANGED <<saved, action, removal, provider, faults>>

Finish(s) ==         \* every absence read again, then finishSourceRemoval in one write
  /\ Busy("delete", s) /\ removal.step = 4 /\ AllAbsent(s)
  /\ status' = [status EXCEPT ![s] = "absent"] /\ revision' = revision + 1
  /\ owned' = owned \ {s} /\ action' = [action EXCEPT ![s] = NoAction]
  /\ removal' = NoRemoval /\ req' = Idle
  /\ wide' = wide \ {s} /\ connected' = connected \ {s}
  /\ UNCHANGED <<content, objects, extra, portal, wire, outlived, faults>>

-----------------------------------------------------------------------------
(* Cloudflare, the customer, and evictions                                  *)

Decided(s, k) ==
  /\ wire[s][k] > 0 /\ wire' = [wire EXCEPT ![s][k] = @ - 1]
  /\ UNCHANGED <<saved, action, removal, portal, wide, connected, outlived, req, faults>>
Land == \E s \in Sources, k \in Kinds : Decided(s, k) /\ ~Taken(s, k) /\ Created(s, k)
Drop == \E s \in Sources, k \in Kinds : Decided(s, k) /\ UNCHANGED <<objects, extra>>
Connect(s) ==
  /\ objects[s][Server] > 0 /\ s \notin connected /\ connected' = connected \cup {s}
  /\ UNCHANGED <<saved, action, removal, objects, extra, portal, wide, wire, outlived, req, faults>>
Disconnect(s) ==
  /\ s \in connected /\ Lost /\ connected' = connected \ {s}
  /\ UNCHANGED <<saved, action, removal, objects, extra, portal, wide, wire, outlived, req>>

(* Between two steps, or after a creation was sent and before its answer.     *)
Evict ==
  /\ req # Idle /\ Lost /\ req' = Idle
  /\ UNCHANGED wire \/ (req.pc = "create" /\ Sent(req.src))
  /\ UNCHANGED <<saved, action, removal, objects, extra, portal, wide, connected, outlived>>

Advance(s) ==
  \/ Resume(s) \/ Baseline(s) \/ Create(s) \/ Verify(s) \/ Attach(s) \/ Map(s) \/ Widen(s)
  \/ Finalize(s) \/ Detach(s) \/ Delete(s) \/ Conflict(s) \/ Finish(s)
Next ==
  \/ \E s \in Sources :
       \/ \E c \in Contents : SaveDraft(s, c)
       \/ RemoveDraft(s) \/ Prepare(s) \/ Cancel(s) \/ Renew(s) \/ Expire(s) \/ ChooseTools(s)
       \/ Process(s) \/ RemoveManaged(s) \/ Connect(s) \/ Disconnect(s)
       \/ Advance(s)
  \/ Land \/ Drop \/ Evict
Spec == Init /\ [][Next]_vars

(* What liveness asks of people and of Cloudflare: the administrator renews an *)
(* approval that ended, cancels one that never started, also when a server of  *)
(* an earlier approval collides with it, and repeats a removal, the customer   *)
(* connects the source and its tools are chosen, and now and then an approval  *)
(* lasts until the next write.                                                 *)
Fairness ==
  /\ WF_vars(Land \/ Drop)
  /\ \A s \in Sources :
       /\ WF_vars(Advance(s)) /\ WF_vars(Expire(s)) /\ WF_vars(Renew(s)) /\ WF_vars(Cancel(s))
       /\ WF_vars(Connect(s)) /\ WF_vars(RemoveManaged(s))
       /\ SF_vars(objects[s][Server] > 0 /\ Cancel(s))
       /\ SF_vars(Process(s)) /\ SF_vars(ChooseTools(s)) /\ SF_vars(action[s].open /\ Baseline(s))
       /\ SF_vars(action[s].open /\ Attach(s)) /\ SF_vars(action[s].open /\ Widen(s))
FairSpec == Spec /\ Fairness

-----------------------------------------------------------------------------
TypeOK ==
  /\ status \in [Sources -> Statuses] /\ content \in [Sources -> Contents]
  /\ revision \in Nat /\ owned \in OwnershipRecords /\ portal \subseteq Sources
  /\ wide \subseteq Sources /\ connected \subseteq Sources /\ extra \subseteq Sources
  /\ wire \in [Sources -> [Kinds -> Nat]] /\ outlived \subseteq Sources \X Kinds
  /\ action \in [Sources -> ActionRecords]
  /\ \A s \in Sources : /\ action[s].pend # "none" => action[s].have < 3
                        /\ action[s].portal # "none" => action[s].have = 3
  /\ objects \in [Sources -> [Kinds -> Nat]] /\ faults \in 0..MaxFaults
  /\ removal \in [src : Sources \cup {"none"}, step : 0..4, pending : BOOLEAN]

(* Lost answers, expired approvals and renewals never create a second object  *)
(* of a kind for a source; only a policy whose creation was undecided when its *)
(* approval was renewed may come to stand beside another.                     *)
OneObjectEach ==
  \A s \in Sources : /\ \A k \in Kinds : objects[s][k] <= 1
                     /\ s \in extra => <<s, Policy>> \in outlived

(* Whatever Cloudflare holds for a source, or may still create for it, is in  *)
(* the source's ownership or named by its installation journal: cancelling,   *)
(* removing drafts and removing paused installations forget nothing, but a     *)
(* server or policy whose creation outlived its approval.                     *)
NothingForgotten ==
  \A s \in Sources, k \in Kinds :
    objects[s][k] > 0 \/ wire[s][k] > 0 =>
      \/ s \in owned \/ k <= action[s].have \/ (k = action[s].have + 1 /\ action[s].pend # "none")
      \/ k # App /\ <<s, k>> \in outlived

(* The Portal maps a source only with its Access application and policy in    *)
(* place, with tools somebody chose, and with a record that it does.          *)
MappedIsGuarded ==
  \A s \in portal : /\ \A k \in Kinds : objects[s][k] > 0
                    /\ content[s] = "tools" /\ (s \in owned \/ action[s].portal # "none")

(* An installed source is whole: owned, mapped, open to the members entitled   *)
(* to every source, and closed again only by its own removal.                 *)
InstalledIsWhole ==
  \A s \in Sources : status[s] = "installed" =>
    /\ s \in owned
    /\ RemovalOf(s) \/ (s \in portal /\ AdmitsEveryMember(s) /\ objects[s] = Desired)

(* A removal takes the server away while its Access protection still stands;  *)
(* a creation that outlived its approval may bring the server back.           *)
RemovedBehindAccess ==
  \A s \in Sources : RemovalOf(s) /\ objects[s][Server] > 0 =>
    (objects[s][App] > 0 /\ objects[s][Policy] > 0) \/ <<s, Server>> \in outlived

(* docs/SOURCE_ACTION_RECOVERY.md: an expired installation whose source did   *)
(* not change can be renewed when nothing else is under way.                  *)
RenewalOffered ==
  \A s \in Sources :
    Quiet /\ removal = NoRemoval /\ CanRenew(action[s]) /\ Bound(s) /\ ~OthersUnfinished(s) =>
      ENABLED Renew(s)

(* An installation under way ends, installed, cancelled or removed, unless    *)
(* the creation of its application was never acknowledged, or one that        *)
(* outlived its approval made a policy that the journal does not expect, or    *)
(* may bring the server back while it is being removed.                       *)
Unexpected(s) == s \in extra \/ (action[s].have = 2 /\ action[s].pend = "none" /\ objects[s][Policy] > 0)
Stuck(s) == Unlocated(action[s]) \/ Unexpected(s) \/ (RemovalOf(s) /\ <<s, Server>> \in outlived)
InstallationEnds == \A s \in Sources : Blocks(action[s]) ~> (~Blocks(action[s]) \/ Stuck(s))

(* The safety of this component: its invariants together.                   *)
Safe ==
  /\ TypeOK /\ OneObjectEach /\ NothingForgotten /\ MappedIsGuarded /\ InstalledIsWhole
  /\ RemovedBehindAccess
=============================================================================
