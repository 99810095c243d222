------------------------------ MODULE Reconciler ------------------------------
(***************************************************************************)
(* The root reconciler (src/reconciler.ts, src/plan.ts, src/receipt.ts):   *)
(* applyGateway and uninstallGateway against a provider that may answer    *)
(* late or never, with a receipt that journals every mutation before it is *)
(* sent and that alone proves what the installation owns.                  *)
(*                                                                         *)
(* One run at a time holds the receipt's lock (module ReceiptLock).  A run *)
(* stops anywhere: every thrown error and a crash leave the receipt and    *)
(* the requests on the wire as they are.  Plan, prune and uninstall ids    *)
(* are hashes of what they name, so here they are what they name.          *)
(***************************************************************************)
EXTENDS Naturals, FiniteSets

CONSTANTS
  Resources,  \* the (kind, key) pairs
  Rank,       \* RESOURCE_ORDER of their kinds
  Required,   \* the ones every configuration desires
  Named,      \* the ones whose identifier is their key: servers and the portal
  Hashes,     \* desired hashes
  NoHash,     \* no desired hash: the configuration does not want the resource
  MaxRuns,    \* bound on the invocations
  MaxEdits    \* bound on the changes by others and of the configuration

VARIABLES
  config,    \* what each resource should be
  live,      \* the provider's objects
  nextId,    \* the next identifier the provider hands out
  receipt,   \* the stored receipt without its pending action
  pending,   \* the journaled action, or NoPending
  wire,      \* requests sent and not yet executed
  run,       \* the invocation that holds the lock
  runs,      \* invocations so far
  edits,     \* changes by others so far
  approved,  \* history: identifiers whose deletion an operator approved
  gone       \* history: resources somebody else removed, until they are created again

provider == <<live, nextId, wire>>
journal  == <<receipt, pending>>
outside  == <<config, edits, gone>>
vars     == <<config, live, nextId, receipt, pending, wire, run, runs, edits, approved,
              gone>>

NoId      == 0
NotOwned  == [id |-> NoId, hash |-> NoHash]
NoPending == [type |-> "none"]
Idle      == [pc |-> "idle", op |-> "none", prune |-> FALSE, plan |-> NoHash, read |-> NoHash,
              retire |-> {}, todo |-> {}, id |-> NoId]

-----------------------------------------------------------------------------
(* The plan                                                                 *)

Objects(x) == {o \in live : o.key = x}
Own(x)     == {o \in Objects(x) : o.own}
One(S)     == \E o \in S : S = {o}
TheOne(S)  == CHOOSE o \in S : TRUE

\* reconcile: the change that takes a resource to its desired state.
Change(x) ==
  LET entry(action, id) == [action |-> action, id |-> id, hash |-> config[x]]
      wanted == config[x] # NoHash
  IN CASE wanted /\ Objects(x) = {} -> entry("create", NoId)
       [] wanted /\ One(Objects(x)) /\ Own(x) # {} ->
            LET o == TheOne(Own(x))
            IN entry(IF o.hash = config[x] THEN "noop" ELSE "update", o.id)
       [] ~wanted /\ Own(x) = {} -> entry("absent", NoId)
       [] ~wanted /\ One(Own(x)) -> entry("delete", TheOne(Own(x)).id)
       [] OTHER -> entry("conflict", NoId)

Plan == [x \in Resources |-> Change(x)]

Executable(plan) == \A x \in Resources : plan[x].action # "conflict"

\* compareApprovedChanges: creations and updates upwards, then deletions downwards.
Before(plan, x, y) ==
  IF plan[x].action = "delete" THEN plan[y].action = "delete" /\ Rank[x] > Rank[y]
                               ELSE plan[y].action = "delete" \/ Rank[x] < Rank[y]

First(plan, todo) == {x \in todo : \A y \in todo : ~Before(plan, y, x)}

\* compareReceiptResourcesReverse.
Highest(todo) == {x \in todo : \A y \in todo : Rank[y] <= Rank[x]}

\* assertLowerRankDependenciesConverged.
Converged(x) ==
  \A y \in Resources :
    config[y] # NoHash /\ Rank[y] < Rank[x] =>
      /\ Change(y).action = "noop"
      /\ receipt.owned[y] = [id |-> Change(y).id, hash |-> config[y]]

\* isExactOwnedMatch, for the only object of a resource.
Exact(x) == \E o \in Objects(x) : Objects(x) = {o} /\ o.own /\ o.id = receipt.owned[x].id

\* The resources the receipt owns.
OwnedKeys == {x \in Resources : receipt.owned[x] # NotOwned}

-----------------------------------------------------------------------------
(* The receipt                                                              *)

\* beginReceiptAction, called by journalAction.  The operation is named by the
\* revision that journals it.
Begin(type, action, x, hash, prune) ==
  /\ (action = "create") = (x \notin OwnedKeys)
  /\ pending' = [type |-> type, action |-> action, key |-> x, hash |-> hash, prune |-> prune,
                 plan |-> Plan, op |-> receipt.rev + 1]
  /\ receipt' = [receipt EXCEPT !.rev = @ + 1,
                   !.state = IF type = "uninstall" THEN "uninstalling" ELSE "installing"]

\* commitReceiptAction.
Commit(id) ==
  /\ receipt' = [receipt EXCEPT !.rev = @ + 1,
       !.state = IF pending.type = "uninstall" THEN "uninstalling" ELSE "ready",
       !.owned[pending.key] =
         IF pending.action = "delete" THEN NotOwned
         ELSE [id |-> IF pending.action = "create" THEN id ELSE @.id, hash |-> pending.hash]]
  /\ pending' = NoPending

Go(label)      == run' = [run EXCEPT !.pc = label]
DoneWith(x)    == run' = [run EXCEPT !.pc = "loop", !.todo = @ \ {x}, !.id = NoId]
SendTo(op, id) == run' = [run EXCEPT !.pc = "send", !.op = op, !.id = id]

\* Nothing installed; every required resource is desired.
Configurations ==
  {c \in [Resources -> Hashes \cup {NoHash}] : \A x \in Required : c[x] # NoHash}

Init ==
  /\ config \in Configurations
  /\ live = {} /\ nextId = 1 /\ wire = {}
  /\ receipt = [state |-> "none", rev |-> 0, desired |-> config,
                owned |-> [x \in Resources |-> NotOwned]]
  /\ pending = NoPending
  /\ run = Idle /\ runs = 0 /\ edits = 0
  /\ approved = {} /\ gone = {}

-----------------------------------------------------------------------------
(* Beginning a run                                                          *)

\* An invocation takes the lock; its first read refuses a receipt in a state
\* the operation does not start from.
Start(op, prune) ==
  /\ run.pc = "idle" /\ runs < MaxRuns
  /\ \/ op = "apply" /\ receipt.state \notin {"removed", "uninstalling"}
     \/ op = "uninstall" /\ receipt.state \notin {"none", "removed"}
                         /\ pending.type # "apply" /\ ~prune
  /\ run' = [Idle EXCEPT !.pc = "begin", !.op = op, !.prune = prune]
  /\ runs' = runs + 1
  /\ UNCHANGED <<provider, journal, outside, approved>>

\* An error is thrown, or the process dies: nothing is undone.
Stop ==
  /\ run.pc # "idle"
  /\ run' = Idle
  /\ UNCHANGED <<provider, journal, outside, runs, approved>>

\* recoverApplyPending and recoverUninstallPending: the reads prove the outcome.
RecoverCommit ==
  /\ run.pc = "begin" /\ pending # NoPending
  /\ IF pending.action = "delete" THEN Objects(pending.key) = {}
     ELSE Change(pending.key).action = "noop" /\ config[pending.key] = pending.hash
  /\ Commit(Change(pending.key).id)
  /\ run' = [run EXCEPT !.op = IF pending.type = "uninstall" THEN "resume" ELSE @]
  /\ UNCHANGED <<provider, outside, runs, approved>>

\* An update or an approved deletion that did not happen is sent again under the
\* plan that journaled it; a creation never is.
RetryApply ==
  /\ run.pc = "begin" /\ run.op = "apply" /\ pending.type = "apply"
  /\ pending.action # "create" /\ Change(pending.key).action = pending.action
  /\ Executable(Plan) /\ Plan = pending.plan
  /\ pending.action = "update" => config[pending.key] = pending.hash /\ Converged(pending.key)
  /\ pending.action = "delete" => pending.prune /\ run.prune
  /\ run' = [run EXCEPT !.pc = "send", !.op = "retry", !.plan = Plan,
                        !.id = Change(pending.key).id]
  /\ UNCHANGED <<provider, journal, outside, runs, approved>>

\* The operator approves the uninstall id that journaled the deletion.
RetryUninstall ==
  /\ run.pc = "begin" /\ run.op = "uninstall" /\ pending.type = "uninstall"
  /\ Exact(pending.key)
  /\ SendTo("resume", receipt.owned[pending.key].id)
  /\ UNCHANGED <<provider, journal, outside, runs, approved>>

-----------------------------------------------------------------------------
(* applyGatewayLocked                                                       *)

Deletions(plan) == {x \in Resources : plan[x].action = "delete"}

\* The operator approved this plan and, with prune, its deletions and the
\* receipt entries it retires; the first apply creates the receipt.
Approve ==
  /\ run.pc = "begin" /\ run.op = "apply" /\ pending = NoPending
  /\ Executable(Plan)
  /\ run' = [run EXCEPT !.pc = IF receipt.state = "none" THEN "created" ELSE "retire",
                        !.plan = Plan, !.read = Plan, !.todo = OwnedKeys,
                        !.retire = {x \in OwnedKeys : config[x] = NoHash /\ Objects(x) = {}}]
  /\ receipt' = IF receipt.state = "none"
                THEN [receipt EXCEPT !.state = "ready", !.desired = config] ELSE receipt
  /\ approved' = IF run.prune THEN approved \cup {Plan[x].id : x \in Deletions(Plan)}
                             ELSE approved
  /\ UNCHANGED <<provider, pending, outside, runs>>

\* The read after the creation of the receipt replaces the one that was approved.
Reread ==
  /\ run.pc = "created" /\ Executable(Plan)
  /\ run' = [run EXCEPT !.pc = "retire", !.read = Plan]
  /\ UNCHANGED <<provider, journal, outside, runs, approved>>

\* retireAbsentReceiptEntries: an absent resource leaves the receipt when it is to
\* be created again, or when its retirement was approved.
Retired(x) ==
  Objects(x) = {} /\ (config[x] # NoHash \/ (run.prune /\ x \in run.retire))

Retire(x) ==
  /\ run.pc = "retire" /\ x \in Highest(run.todo)
  /\ Executable(Plan) /\ Plan = run.plan
  /\ run' = [run EXCEPT !.pc = IF Retired(x) THEN "retiring" ELSE @,
                        !.read = Plan, !.todo = @ \ {x}]
  /\ IF Retired(x) THEN Begin("apply", "delete", x, receipt.owned[x].hash, config[x] = NoHash)
                   ELSE UNCHANGED journal
  /\ UNCHANGED <<provider, outside, runs, approved>>

RetireCommit ==
  /\ run.pc = "retiring" /\ Objects(pending.key) = {}
  /\ Commit(NoId)
  /\ run' = [run EXCEPT !.pc = "retire", !.read = Plan]
  /\ UNCHANGED <<provider, outside, runs, approved>>

\* Mutant of Scheduled: deletions do not wait for prune.
ScheduledPruning(x) == run.read[x].action \in {"create", "update", "delete"}

\* The changes of the last read that this run executes.
Scheduled(x) ==
  run.read[x].action \in {"create", "update"} \cup (IF run.prune THEN {"delete"} ELSE {})

Schedule ==
  /\ run.pc = "retire" /\ run.todo = {}
  /\ run' = [run EXCEPT !.pc = "loop", !.retire = {},
                        !.todo = {x \in Resources : Scheduled(x)}]
  /\ UNCHANGED <<provider, journal, outside, runs, approved>>

\* One approved change: it may have happened by itself, otherwise it still has to
\* be the same, and it is journaled before it is sent.
Step(x) ==
  /\ run.pc = "loop" /\ run.op = "apply" /\ x \in First(run.read, run.todo)
  /\ Executable(Plan)
  /\ \/ /\ Change(x).action = "noop"
        /\ DoneWith(x) /\ UNCHANGED journal
     \/ /\ Change(x) = run.read[x]
        /\ Change(x).action # "delete" => Converged(x)
        /\ Change(x).action # "create" => receipt.owned[x].id = Change(x).id
        /\ Begin("apply", Change(x).action, x,
                 IF Change(x).action = "delete" THEN receipt.owned[x].hash ELSE config[x],
                 Change(x).action = "delete")
        /\ SendTo("apply", Change(x).id)
  /\ UNCHANGED <<provider, outside, runs, approved>>

\* Everything is converged: the receipt takes over the configuration.
Finish ==
  /\ run.pc = "loop" /\ run.op = "apply" /\ run.todo = {}
  /\ Executable(Plan)
  /\ \A x \in Resources : Change(x).action \notin {"create", "update"}
                          /\ (run.prune => Change(x).action # "delete")
  /\ receipt' = IF receipt.desired = config THEN receipt
                ELSE [receipt EXCEPT !.desired = config, !.rev = @ + 1]
  /\ run' = Idle
  /\ UNCHANGED <<provider, pending, outside, runs, approved>>

-----------------------------------------------------------------------------
(* uninstallGatewayLocked                                                   *)

\* The operator approved the deletion of what this preview shows; a resumed
\* uninstall goes on under the approval of the one that was interrupted.
Preview ==
  /\ run.pc = "begin" /\ run.op \in {"uninstall", "resume"} /\ pending = NoPending
  /\ \A x \in OwnedKeys : Objects(x) = {} \/ Exact(x)
  /\ run' = [run EXCEPT !.pc = "loop", !.op = "uninstall", !.todo = OwnedKeys]
  /\ approved' = IF run.op = "resume" THEN approved
                 ELSE approved \cup {receipt.owned[x].id : x \in {y \in OwnedKeys : Exact(y)}}
  /\ UNCHANGED <<provider, journal, outside, runs>>

\* An absent resource only leaves the receipt; the others are deleted.
Uninstall(x) ==
  /\ run.pc = "loop" /\ run.op = "uninstall" /\ x \in Highest(run.todo)
  /\ Objects(x) = {} \/ Exact(x)
  /\ Begin("uninstall", "delete", x, receipt.owned[x].hash, FALSE)
  /\ IF Objects(x) = {} THEN Go("drop") ELSE SendTo("uninstall", receipt.owned[x].id)
  /\ UNCHANGED <<provider, outside, runs, approved>>

Drop ==
  /\ run.pc = "drop"
  /\ DoneWith(pending.key)
  /\ Commit(NoId)
  /\ UNCHANGED <<provider, outside, runs, approved>>

\* markReceiptRemoved: the tombstone.
Remove ==
  /\ run.pc = "loop" /\ run.op = "uninstall" /\ run.todo = {} /\ OwnedKeys = {}
  /\ receipt' = [receipt EXCEPT !.state = "removed", !.rev = @ + 1]
  /\ run' = Idle
  /\ UNCHANGED <<provider, pending, outside, runs, approved>>

-----------------------------------------------------------------------------
(* mutate                                                                   *)

\* applyChange reads the object once more: a creation needs its absence, a write
\* the owned object.
Submits ==
  IF pending.action = "create" THEN Objects(pending.key) = {}
  ELSE \E o \in Objects(pending.key) :
         o.own /\ o.id = run.id /\ run.id = receipt.owned[pending.key].id

Send ==
  /\ run.pc = "send" /\ Submits
  /\ wire' = wire \cup {[run |-> runs, op |-> pending.op, action |-> pending.action,
                         key |-> pending.key, id |-> run.id, hash |-> pending.hash]}
  /\ Go("sent")
  /\ UNCHANGED <<live, nextId, journal, outside, runs, approved>>

\* Nothing is sent to delete what is gone already.
SendNothing ==
  /\ run.pc = "send" /\ pending.action = "delete"
  /\ \A o \in live : o.id # run.id
  /\ Go("verify")
  /\ UNCHANGED <<provider, journal, outside, runs, approved>>

\* Mutant of NotSubmitted: a request that was sent and not answered is taken for unsent.
NotSubmittedLate ==
  /\ run.pc \in {"send", "sent"} /\ pending.type = "apply"
  /\ receipt' = [receipt EXCEPT !.state = "ready", !.rev = @ + 1]
  /\ pending' = NoPending
  /\ run' = Idle
  /\ UNCHANGED <<provider, outside, runs, approved>>

\* The adapter fails before it submits anything: an apply clears its journal.
NotSubmitted ==
  /\ run.pc = "send" /\ pending.type = "apply"
  /\ receipt' = [receipt EXCEPT !.state = "ready", !.rev = @ + 1]
  /\ pending' = NoPending
  /\ run' = Idle
  /\ UNCHANGED <<provider, outside, runs, approved>>

\* The read after the answer shows the outcome, which is committed.  A retried
\* apply ends here: its plan is not the approved one any more.
Verify ==
  /\ run.pc = "verify"
  /\ IF pending.action = "delete" THEN Objects(pending.key) = {}
     ELSE Change(pending.key).action = "noop" /\ config[pending.key] = pending.hash
  /\ Commit(Change(pending.key).id)
  /\ CASE run.op = "retry"  -> run' = Idle
       [] run.op = "resume" -> Go("begin")
       [] OTHER             -> DoneWith(pending.key)
  /\ UNCHANGED <<provider, outside, runs, approved>>

-----------------------------------------------------------------------------
(* The provider, and everybody else                                         *)

\* The identifier a new object gets.
Identifier(x) == IF x \in Named THEN x ELSE nextId
HandOut(x)    == nextId' = IF x \in Named THEN nextId ELSE nextId + 1

\* What a request does to the objects: writes name the exact object.
Effect(q) ==
  CASE q.action = "create" ->
         IF \E o \in live : o.id = Identifier(q.key) THEN live
         ELSE live \cup {[key |-> q.key, id |-> Identifier(q.key), hash |-> q.hash, own |-> TRUE]}
    [] q.action = "update" -> {IF o.id = q.id THEN [o EXCEPT !.hash = q.hash] ELSE o : o \in live}
    [] q.action = "delete" -> {o \in live : o.id # q.id}

\* A request arrives; the run that waits for it gets the answer, an earlier one
\* does not exist any more.  A request that is lost stays on the wire: no action
\* but this one depends on it.
Land(q) ==
  /\ wire' = wire \ {q}
  /\ live' = Effect(q)
  /\ IF q.action = "create" THEN HandOut(q.key) ELSE UNCHANGED nextId
  /\ gone' = {x \in gone : \A o \in live' : o.own => o.key # x}
  /\ IF run.pc = "sent" /\ q.run = runs THEN Go("verify") ELSE UNCHANGED run
  /\ UNCHANGED <<config, edits, journal, runs, approved>>

\* Somebody else removes, changes or creates an object.
Edit ==
  /\ edits < MaxEdits /\ edits' = edits + 1
  /\ \/ \E o \in live : live' = live \ {o} /\ UNCHANGED nextId
                       /\ gone' = IF o.own THEN gone \cup {o.key} ELSE gone
     \/ \E o \in live, h \in Hashes :
          o.own /\ h # o.hash /\ live' = (live \ {o}) \cup {[o EXCEPT !.hash = h]}
          /\ UNCHANGED <<nextId, gone>>
     \/ \E x \in Resources :
          (\A o \in live : o.id # Identifier(x))
          /\ live' = live \cup {[key |-> x, id |-> Identifier(x), hash |-> NoHash, own |-> FALSE]}
          /\ HandOut(x) /\ UNCHANGED gone
  /\ UNCHANGED <<config, journal, wire, run, runs, approved>>

\* The operator edits the configuration between two runs.
Configure ==
  /\ run.pc = "idle" /\ edits < MaxEdits /\ edits' = edits + 1
  /\ config' \in Configurations \ {config}
  /\ UNCHANGED <<provider, journal, run, runs, approved, gone>>

Apply ==
  \/ \E prune \in BOOLEAN : Start("apply", prune)
  \/ Approve \/ Reread \/ RetireCommit \/ Schedule \/ Finish \/ RetryApply
  \/ \E x \in Resources : Retire(x) \/ Step(x)

Removal ==
  \/ Start("uninstall", FALSE)
  \/ Preview \/ Drop \/ Remove \/ RetryUninstall
  \/ \E x \in Resources : Uninstall(x)

Next ==
  \/ Apply \/ Removal
  \/ RecoverCommit \/ Send \/ SendNothing \/ NotSubmitted \/ Verify \/ Stop
  \/ \E q \in wire : Land(q)
  \/ Edit \/ Configure

Spec == Init /\ [][Next]_vars

-----------------------------------------------------------------------------
(* Properties.                                                              *)

Entries == [action : {"create", "update", "noop", "delete", "absent", "conflict"},
            id : Nat \cup Resources, hash : Hashes \cup {NoHash}]
Plans   == [Resources -> Entries]
Intents == [type : {"apply", "uninstall"}, action : {"create", "update", "delete"},
            key : Resources, hash : Hashes, prune : BOOLEAN, plan : Plans, op : Nat]

\* Types of all variables.
TypeOK ==
  /\ config \in Configurations
  /\ gone \subseteq Resources
  /\ live \subseteq
       [key : Resources, id : Nat \cup Resources, hash : Hashes \cup {NoHash}, own : BOOLEAN]
  /\ nextId \in Nat \ {0} /\ runs \in Nat /\ edits \in Nat
  /\ receipt \in [state : {"none", "ready", "installing", "uninstalling", "removed"}, rev : Nat,
                  desired : Configurations,
                  owned : [Resources -> [id : Nat \cup Resources, hash : Hashes \cup {NoHash}]]]
  /\ pending \in Intents \cup {NoPending}
  /\ wire \subseteq [run : Nat, op : Nat, action : {"create", "update", "delete"},
                    key : Resources, id : Nat \cup Resources, hash : Hashes]
  /\ run \in [pc : {"idle", "begin", "created", "retire", "retiring", "loop", "send", "sent",
                    "verify", "drop"},
              op : {"none", "apply", "retry", "uninstall", "resume"}, prune : BOOLEAN,
              plan : Plans \cup {NoHash}, read : Plans \cup {NoHash},
              retire : SUBSET Resources, todo : SUBSET Resources, id : Nat \cup Resources]
  /\ approved \subseteq Nat \cup Resources

Creations(x) == {q \in wire : q.action = "create" /\ q.key = x}

\* A resource never gets a second object of this installation: of its creations,
\* those on the wire included, at most one exists.
OneObject ==
  \A x \in Resources : Cardinality(Own(x)) + Cardinality(Creations(x)) <= 1

\* Every object of this installation, and every creation that may still arrive, is
\* in the receipt: owned by its identifier, or the pending creation.
NoOrphans ==
  /\ \A o \in live : o.own =>
       receipt.owned[o.key].id = o.id \/ (pending.type = "apply" /\ pending.action = "create"
                                           /\ pending.key = o.key)
  /\ \A q \in wire : q.action = "create" => pending.type = "apply" /\ pending.op = q.op

\* The tombstone is written only when nothing of the installation is left, and
\* nothing of it comes back.
RemovedIsClean ==
  receipt.state = "removed" => \A x \in Resources : Own(x) = {} /\ Creations(x) = {}

\* A request of this installation removes an object, however late it arrives, only
\* if an operator approved the deletion of its identifier.
DeletesApproved ==
  edits' = edits => \A o \in live : (\A n \in live' : n.id # o.id) => o.id \in approved

\* A resource stands only while every required resource of a lower rank does, so
\* nothing is reachable before or after what guards it, unless somebody else
\* removed the guard and it was not created again.
GuardedOrder ==
  \A x \in Resources, y \in Required :
    Own(x) # {} /\ Rank[y] < Rank[x] => Own(y) # {} \/ y \in gone

\* What README.md says of every provider mutation: it needs an exact
\* operator-approved plan, so an apply sends only changes of the plan it was
\* approved with.
OnlyApprovedSent ==
  run.op = "apply" /\ run.pc = "sent" => run.plan[pending.key].action = pending.action

\* What the error mutation_not_submitted tells the operator: the provider proved
\* that no mutation was submitted for the action the receipt now forgets.
NotSubmittedIsProved == [][NotSubmitted => \A q \in wire : q.op # pending.op]_vars

(* The safety of this component: its invariants together.                   *)
Safe ==
  /\ TypeOK /\ OneObject /\ NoOrphans /\ RemovedIsClean /\ GuardedOrder
=============================================================================
