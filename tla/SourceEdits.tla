---------------------------- MODULE SourceEdits ----------------------------
(***************************************************************************)
(* Edits of installed sources in the management Worker (index.js of        *)
(* payload/worker): the allowed tools, the label with its company context, *)
(* drafts, and connection checks, as AdminState queues them.               *)
(*                                                                         *)
(* One object serves all requests.  A mutation starts when everything      *)
(* queued before it is settled; checks run beside each other, after the    *)
(* mutations before them and before the mutations after them.  A restart   *)
(* of the object loses the requests and keeps the storage.                 *)
(***************************************************************************)
EXTENDS Naturals, Sequences, FiniteSets

CONSTANTS Sources, Tools,  \* installed sources, the tools they may offer
          Choices,         \* selections: [tools, all]
          Labels,          \* label and company context of a source
          Requests,        \* requests under way at a time
          CheckLimit,      \* SOURCE_CONNECTION_CHECK_CONCURRENCY
          MaxRevision, MaxFaults, MaxOutside \* bounds: commits, failures and restarts, outside changes

VARIABLES
  saved, label, rev, \* SOURCES_KEY: selection and label of each source, revision
  toolEdit, labelEdit, \* SOURCE_TOOL_EDIT_KEY, SOURCE_LABEL_EDIT_KEY: a set of at most one edit
  floor,             \* the Team record keeps older runtimes out
  portal, names,     \* the Portal's mapping of each source; the names its parts carry
  offered,           \* the catalogue Cloudflare has of each source
  drift,             \* sources whose mapping was made by hand
  stage, op, after,  \* of each request: where it is, what it asks, whom it waits for
  tail, checksAfter, active, slots, \* AdminState: queue, checksAfter, activeChecks, checkSlots
  faults, outside

store   == <<saved, label, rev, toolEdit, labelEdit, floor>>
remote  == <<portal, names, offered, drift>>
queue   == <<after, tail, checksAfter, active, slots>>
bounds  == <<faults, outside>>
vars == <<saved, label, rev, toolEdit, labelEdit, floor, portal, names, offered, drift, stage, op, after, tail, checksAfter,
          active, slots, faults, outside>>

Parts == {"server", "portal", "policy"}

(* The retained edits, at most one of each kind.                            *)
ToolEdits  == [src : Sources, sel : Choices, from : 1..MaxRevision]
LabelEdits == [src : Sources, lab : Labels, from : 1..MaxRevision]
(* A mapping of the Portal as it is read back, and a synced catalogue.      *)
Mappings   == [tools : SUBSET Tools, all : BOOLEAN]
Catalogues == SUBSET Tools
First == CHOOSE c \in Choices : ~c.all
Idle  == [kind |-> "none", src |-> CHOOSE x \in Sources : TRUE, sel |-> First, lab |-> CHOOSE l \in Labels : TRUE, rev |-> 0, cat |-> [s \in Sources |-> {}]]

Init ==
  /\ saved = [s \in Sources |-> First] /\ label = [s \in Sources |-> Idle.lab] /\ rev = 1
  /\ toolEdit = {} /\ labelEdit = {} /\ floor = FALSE
  /\ portal = [s \in Sources |-> First] /\ names = [s \in Sources |-> [p \in Parts |-> Idle.lab]]
  /\ offered = [s \in Sources |-> Tools] /\ drift = {}
  /\ stage = [r \in Requests |-> "idle"] /\ op = [r \in Requests |-> Idle] /\ after = [r \in Requests |-> {}]
  /\ tail = {} /\ checksAfter = {} /\ active = 0 /\ slots = <<>> /\ faults = 0 /\ outside = 0

Fault == faults < MaxFaults /\ faults' = faults + 1

-----------------------------------------------------------------------------
(* AdminState: the queue                                                    *)

MutationArrives(r) == after' = [after EXCEPT ![r] = tail] /\ tail' = {r} /\ checksAfter' = {}

(* checkSourceConnection; checksAfter holds at most one set of requests.    *)
CheckArrives(r) ==
  LET start == IF checksAfter = {} THEN tail ELSE CHOOSE q \in checksAfter : TRUE
  IN  after' = [after EXCEPT ![r] = start] /\ tail' = tail \cup {r} /\ checksAfter' = {start}

(* fetch; the caller names the revision it has read.                        *)
Arrive(r) ==
  /\ stage[r] = "idle" /\ stage' = [stage EXCEPT ![r] = "queued"]
  /\ \E k \in {"tools", "label", "draft", "check"}, s \in Sources, c \in Choices, l \in Labels :
       /\ (k # "tools" => c = First) /\ (k # "label" => l = Idle.lab) /\ (k = "draft" => s = Idle.src)
       /\ op' = [op EXCEPT ![r] = [Idle EXCEPT !.kind = k, !.src = s, !.sel = c, !.lab = l, !.rev = rev]]
       /\ IF k = "check" THEN CheckArrives(r) ELSE MutationArrives(r)
  /\ UNCHANGED <<store, remote, active, slots, bounds>>

Begin(r) ==
  /\ stage[r] = "queued" /\ after[r] = {}
  /\ \/ op[r].kind # "check" /\ stage' = [stage EXCEPT ![r] = "load"] /\ UNCHANGED <<active, slots>>
     \/ op[r].kind = "check" /\ active < CheckLimit /\ active' = active + 1 /\ stage' = [stage EXCEPT ![r] = "load"] /\ UNCHANGED slots
     \/ op[r].kind = "check" /\ active >= CheckLimit /\ slots' = Append(slots, r) /\ stage' = [stage EXCEPT ![r] = "slot"]
        /\ UNCHANGED active
  /\ UNCHANGED <<store, remote, op, after, tail, checksAfter, bounds>>

(* The finally of a check: the place goes to the next one.                  *)
FreePlace(r) ==
  IF slots # <<>> THEN stage' = [stage EXCEPT ![r] = "idle", ![Head(slots)] = "load"] /\ slots' = Tail(slots) /\ UNCHANGED active
  ELSE active' = active - 1 /\ stage' = [stage EXCEPT ![r] = "idle"] /\ UNCHANGED slots

(* A request is answered; a settled request holds nobody up.                *)
Answer(r) ==
  /\ IF op[r].kind = "check" THEN FreePlace(r) ELSE stage' = [stage EXCEPT ![r] = "idle"] /\ UNCHANGED <<active, slots>>
  /\ op' = [op EXCEPT ![r] = Idle] /\ after' = [q \in Requests |-> after[q] \ {r}]
  /\ tail' = tail \ {r} /\ checksAfter' = {q \ {r} : q \in checksAfter}
Go(r, to) == stage' = [stage EXCEPT ![r] = to] /\ UNCHANGED <<op, queue>>

(* The object restarts: every request fails.                                *)
Restart ==
  /\ Fault /\ \E r \in Requests : stage[r] # "idle"
  /\ stage' = [r \in Requests |-> "idle"] /\ op' = [r \in Requests |-> Idle] /\ after' = [r \in Requests |-> {}]
  /\ tail' = {} /\ checksAfter' = {} /\ active' = 0 /\ slots' = <<>>
  /\ UNCHANGED <<store, remote, outside>>

-----------------------------------------------------------------------------
(* The Portal                                                               *)

(* availablePortalMappings: a ready catalogue narrows every mapping but the *)
(* one a selection is applied to.                                           *)
Available(c, s, cat, required) == IF s \in required THEN c ELSE [c EXCEPT !.tools = @ \cap cat[s]]
(* portalExact                                                              *)
PortalExact(sel, lab, required) ==
  \A s \in Sources : portal[s] = Available(sel[s], s, offered, required) /\ names[s]["portal"] = lab[s]
(* portalWithinToolApproval                                                 *)
WithinApproval ==
  \A s \in Sources : portal[s].all = saved[s].all /\ portal[s].tools \subseteq saved[s].tools /\ names[s]["portal"] = label[s]

(* Cloudflare reads the source's tools; overrides of tools that are gone    *)
(* leave the mapping; external.                                             *)
Resync(s) ==
  \E t \in Catalogues : offered' = [offered EXCEPT ![s] = t] /\ portal' = [portal EXCEPT ![s].tools = @ \cap t]
Upstream(s) ==
  /\ outside < MaxOutside /\ outside' = outside + 1 /\ Resync(s)
  /\ UNCHANGED <<store, names, drift, stage, op, queue, faults>>
Tamper(s) ==
  /\ outside < MaxOutside /\ outside' = outside + 1 /\ drift' = drift \cup {s}
  /\ \E c \in Choices : portal' = [portal EXCEPT ![s] = c]
  /\ UNCHANGED <<store, names, offered, stage, op, queue, faults>>

-----------------------------------------------------------------------------
(* updateInstalledSourceTools                                               *)

Loading(r, kind) == stage[r] = "load" /\ op[r].kind = kind   \* loadInstalledSource
Current(r)  == op[r].rev = rev
Selected(r) == [saved EXCEPT ![op[r].src] = op[r].sel]
Mine(r)     == \E e \in toolEdit : e.src = op[r].src /\ e.sel = op[r].sel /\ e.from = rev

LoadTools(r) ==
  /\ Loading(r, "tools") /\ UNCHANGED <<store, remote, bounds>>
  /\ IF Current(r) /\ labelEdit = {} /\ (Mine(r) \/ (toolEdit = {} /\ op[r].sel # saved[op[r].src])) /\ rev < MaxRevision
     THEN Go(r, "read") ELSE Answer(r)

(* The catalogue and the Portal: exactly before, or exactly after.          *)
ReadTools(r) ==
  /\ stage[r] = "read" /\ op[r].kind = "tools" /\ UNCHANGED <<store, remote, outside>>
  /\ LET s == op[r].src
     IN  \/ Fault /\ Answer(r)
         \/ op[r].sel.tools \subseteq offered[s] /\ PortalExact(Selected(r), label, {s}) /\ Go(r, "raise") /\ UNCHANGED faults
         \/ /\ op[r].sel.tools \subseteq offered[s] /\ ~PortalExact(Selected(r), label, {s}) /\ PortalExact(saved, label, {})
            /\ stage' = [stage EXCEPT ![r] = "arm"] /\ op' = [op EXCEPT ![r].cat = offered] /\ UNCHANGED <<queue, faults>>
         \/ /\ ~(op[r].sel.tools \subseteq offered[s] /\ (PortalExact(Selected(r), label, {s}) \/ PortalExact(saved, label, {})))
            /\ Answer(r) /\ UNCHANGED faults

(* armSourceCompatibility, when the selection needs a newer runtime         *)
NeedsFloor(r) == op[r].kind = "label" \/ op[r].sel.all # saved[op[r].src].all
RaiseFloor(r) ==
  /\ stage[r] \in {"arm", "raise"} /\ floor' = (floor \/ NeedsFloor(r))
  /\ Go(r, IF stage[r] = "arm" THEN "journal" ELSE "commit")
  /\ UNCHANGED <<saved, label, rev, toolEdit, labelEdit, remote, bounds>>

\* Mutant of ArmTools: the Portal is written first.
ArmNothing(r) == stage[r] = "journal" /\ op[r].kind = "tools" /\ Go(r, "put") /\ UNCHANGED <<store, remote, bounds>>
ArmTools(r) ==
  /\ stage[r] = "journal" /\ op[r].kind = "tools" /\ toolEdit' = {[src |-> op[r].src, sel |-> op[r].sel, from |-> rev]}
  /\ Go(r, "put") /\ UNCHANGED <<saved, label, rev, labelEdit, floor, remote, bounds>>

(* One PUT of the whole Portal.                                             *)
PutTools(r) ==
  /\ stage[r] = "put" /\ op[r].kind = "tools"
  /\ LET written == [s \in Sources |-> Available(Selected(r)[s], s, op[r].cat, {op[r].src})]
     IN  \/ portal' = written /\ drift' = {} /\ Go(r, "verify") /\ UNCHANGED faults
         \/ Fault /\ Answer(r) /\ ((portal' = written /\ drift' = {}) \/ UNCHANGED <<portal, drift>>)
  /\ UNCHANGED <<store, names, offered, outside>>
VerifyTools(r) ==
  /\ stage[r] = "verify" /\ op[r].kind = "tools" /\ UNCHANGED <<store, remote, outside>>
  /\ \/ PortalExact(Selected(r), label, {op[r].src}) /\ Go(r, "commit") /\ UNCHANGED faults
     \/ ~PortalExact(Selected(r), label, {op[r].src}) /\ Answer(r) /\ UNCHANGED faults
     \/ Fault /\ Answer(r)

(* Sources, ownership and journal in one write                              *)
CommitTools(r) ==
  /\ stage[r] = "commit" /\ op[r].kind = "tools" /\ saved' = Selected(r) /\ rev' = rev + 1 /\ toolEdit' = {} /\ Answer(r)
  /\ UNCHANGED <<label, labelEdit, floor, remote, bounds>>

-----------------------------------------------------------------------------
(* updateInstalledSourceLabel                                               *)

Renamed(r) == [label EXCEPT ![op[r].src] = op[r].lab]
LabelOpen(r) ==
  /\ toolEdit = {}
  /\ \/ labelEdit = {} /\ op[r].lab # label[op[r].src]
     \/ \E e \in labelEdit : e.src = op[r].src /\ e.lab = op[r].lab /\ e.from = rev
LoadLabel(r) ==
  /\ Loading(r, "label") /\ UNCHANGED <<store, remote, bounds>>
  /\ IF Current(r) /\ LabelOpen(r) /\ rev < MaxRevision THEN Go(r, "read") ELSE Answer(r)

(* The server, the Portal and the policies, each with the old or the new    *)
(* name.                                                                    *)
Recognised(r) ==
  /\ \A p \in Parts : names[op[r].src][p] \in {label[op[r].src], op[r].lab}
  /\ PortalExact(saved, label, {}) \/ PortalExact(saved, Renamed(r), {})
ReadLabel(r) ==
  /\ stage[r] = "read" /\ op[r].kind = "label" /\ UNCHANGED <<store, remote, outside>>
  /\ \/ Fault /\ Answer(r)
     \/ /\ Recognised(r) /\ op' = [op EXCEPT ![r].cat = offered] /\ UNCHANGED <<queue, faults>>
        /\ stage' = [stage EXCEPT ![r] = IF \A p \in Parts : names[op[r].src][p] = op[r].lab THEN "raise" ELSE "arm"]
     \/ ~Recognised(r) /\ Answer(r) /\ UNCHANGED faults
ArmLabel(r) ==
  /\ stage[r] = "journal" /\ op[r].kind = "label" /\ labelEdit' = {[src |-> op[r].src, lab |-> op[r].lab, from |-> rev]}
  /\ Go(r, "server") /\ UNCHANGED <<saved, label, rev, toolEdit, floor, remote, bounds>>

(* Each part that still has the old name is written; the server and the     *)
(* Portal are read back.                                                    *)
After(p) == CASE p = "server" -> "portal" [] p = "portal" -> "policy" [] OTHER -> "commit"
PutName(r, p) ==
  /\ stage[r] = p /\ op[r].kind = "label"
  /\ LET s == op[r].src written == names' = [names EXCEPT ![s][p] = op[r].lab]
         body == IF p = "portal" THEN portal' = [x \in Sources |-> Available(saved[x], x, op[r].cat, {})] /\ drift' = {}
                 ELSE UNCHANGED <<portal, drift>>
     IN  \/ names[s][p] = op[r].lab /\ Go(r, After(p)) /\ UNCHANGED <<names, portal, drift, faults>>
         \/ names[s][p] # op[r].lab /\ written /\ body /\ Go(r, After(p)) /\ UNCHANGED faults
         \/ names[s][p] # op[r].lab /\ Fault /\ Answer(r) /\ ((written /\ body) \/ UNCHANGED <<names, portal, drift>>)
  /\ UNCHANGED <<store, offered, outside>>
CommitLabel(r) ==
  /\ stage[r] = "commit" /\ op[r].kind = "label" /\ label' = Renamed(r) /\ rev' = rev + 1 /\ labelEdit' = {} /\ Answer(r)
  /\ UNCHANGED <<saved, toolEdit, floor, remote, bounds>>

-----------------------------------------------------------------------------
(* PUT /sources, removeSourceDraft: a new revision of the collection        *)
SavedRevision(r) == IF Current(r) THEN rev + 1 ELSE rev   \* saveDraftSource
DraftOpen == toolEdit = {} /\ labelEdit = {}
SaveDraft(r) ==
  /\ stage[r] = "load" /\ op[r].kind = "draft" /\ Answer(r)
  /\ rev' = IF DraftOpen /\ rev < MaxRevision THEN SavedRevision(r) ELSE rev
  /\ UNCHANGED <<saved, label, toolEdit, labelEdit, floor, remote, bounds>>

(* checkInstalledSourceConnection                                           *)
LoadCheck(r) ==
  /\ Loading(r, "check") /\ UNCHANGED <<store, remote, bounds>>
  /\ ((DraftOpen /\ Go(r, "inspect")) \/ Answer(r))
Inspect(r) ==
  /\ stage[r] = "inspect" /\ UNCHANGED <<store, remote, bounds>>
  /\ IF WithinApproval THEN Go(r, "sync") ELSE Answer(r)
SyncSource(r) ==
  /\ stage[r] = "sync" /\ Answer(r) /\ (Resync(op[r].src) \/ UNCHANGED <<portal, offered>>)
  /\ UNCHANGED <<store, names, drift, bounds>>

-----------------------------------------------------------------------------
Serve(r) ==
  \/ Begin(r)
  \/ LoadTools(r) \/ ReadTools(r) \/ RaiseFloor(r) \/ ArmTools(r) \/ PutTools(r) \/ VerifyTools(r) \/ CommitTools(r)
  \/ LoadLabel(r) \/ ReadLabel(r) \/ ArmLabel(r) \/ (\E p \in Parts : PutName(r, p)) \/ CommitLabel(r)
  \/ SaveDraft(r) \/ LoadCheck(r) \/ Inspect(r) \/ SyncSource(r)
Next == Restart \/ (\E r \in Requests : Arrive(r) \/ Serve(r)) \/ (\E s \in Sources : Upstream(s) \/ Tamper(s))
Spec == Init /\ [][Next]_vars
Fairness == \A r \in Requests : WF_vars(Serve(r))
FairSpec == Spec /\ Fairness

-----------------------------------------------------------------------------
(* Properties                                                               *)

Stages == {"idle", "queued", "slot", "load", "read", "raise", "arm", "journal", "put", "verify", "commit", "inspect", "sync"} \cup Parts
TypeOK ==
  /\ saved \in [Sources -> Choices] /\ label \in [Sources -> Labels] /\ rev \in 1..MaxRevision /\ floor \in BOOLEAN
  /\ toolEdit \subseteq ToolEdits /\ labelEdit \subseteq LabelEdits
  /\ Cardinality(toolEdit) + Cardinality(labelEdit) <= 1 /\ portal \in [Sources -> Mappings]
  /\ names \in [Sources -> [Parts -> Labels]] /\ offered \in [Sources -> Catalogues] /\ drift \subseteq Sources
  /\ stage \in [Requests -> Stages] /\ active \in 0..CheckLimit

(* What a source's mapping lets through.                                    *)
Exposed(s) == IF portal[s].all THEN offered[s] ELSE portal[s].tools \cap offered[s]
Approved(s, c) == IF c.all THEN Tools ELSE c.tools
(* Whatever fails, restarts or changes upstream, the Portal exposes no tool *)
(* that neither the saved selection nor the journaled one approves          *)
(* (updateInstalledSourceTools writes its journal first; a sync never       *)
(* enables).                                                                *)
ExposedIsApproved ==
  \A s \in Sources \ drift :
    Exposed(s) \subseteq Approved(s, saved[s]) \cup UNION {Approved(s, e.sel) : e \in {x \in toolEdit : x.src = s}}

(* An unfinished edit stays resumable: nothing moves the revision it was    *)
(* journaled at.                                                            *)
PendingIsCurrent == \A e \in toolEdit \cup labelEdit : e.from = rev

(* Without an unfinished rename the server, the Portal and the policies     *)
(* carry the saved label.                                                   *)
NamesAreSaved ==
  \A s \in Sources : (\A e \in labelEdit : e.src # s) => \A p \in Parts : names[s][p] = label[s]

(* An older runtime is kept out before a record it cannot read exists.      *)
OlderRuntimeKeptOut ==
  (labelEdit # {} \/ \E s \in Sources : saved[s].all \/ \E e \in toolEdit : e.sel.all \/ label[s] # Idle.lab) => floor

(* A check, which syncs the catalogue, never overlaps a mutation.           *)
CheckIsAlone ==
  \A q, r \in Requests : op[q].kind = "check" /\ stage[q] \in {"load", "inspect", "sync"} /\ op[r].kind \in {"tools", "label", "draft"}
    => stage[r] \in {"idle", "queued"}

(* Every request is answered: no order of checks, mutations and waiting     *)
(* checks blocks the queue.                                                 *)
Due(r)  == stage[r] # "idle"
Done(r) == stage[r] = "idle"
EveryoneAnswered == \A r \in Requests : Due(r) ~> Done(r)

(* The safety of this component: its invariants together.                   *)
Safe ==
  /\ TypeOK /\ ExposedIsApproved /\ PendingIsCurrent /\ NamesAreSaved /\ OlderRuntimeKeptOut
  /\ CheckIsAlone
=============================================================================
