---------------------------- MODULE OperatorProofs ----------------------------
(*******************************************************************************)
(* What run operator checks of ReceiptLock and of the instance Root of         *)
(* Reconciler, proved for every value of their constants.                      *)
(*                                                                             *)
(* ReceiptLock: while the directory exists at most one process owns it.  A     *)
(* locker owns the directory it made, as long as its file is there once it was *)
(* opened; whoever unlinks that file owns the empty directory until rmdir.  A  *)
(* directory without an owner stays for ever.                                  *)
(*                                                                             *)
(* Reconciler: every request that may still arrive was journaled, and the      *)
(* journal outlives it as long as it matters.  A creation on the wire is the   *)
(* pending one, of a resource nothing stands of; a deletion on the wire names  *)
(* an identifier an operator approved, which is never that of another          *)
(* resource's object; one of a required resource is an uninstall's, and an     *)
(* uninstall has nothing left standing above what it deletes.                  *)
(*******************************************************************************)
EXTENDS MCOperator, FiniteSetTheorems, TLAPS

(* The lock.                                                                   *)

\* Process p owns the lock directory.
Owns(p) == \/ p \in Lockers /\ (pc[p] = "made" \/ p \in files)
           \/ pc[p] = "unlinked"

\* There is at most one owner, and it owns a directory.
OneOwner ==
  /\ \A p \in Processes : Owns(p) => dir
  /\ \A p, q \in Processes : Owns(p) /\ Owns(q) => p = q

\* A metadata file belongs to a locker that opened it and did not unlink it.
FilesOpened ==
  \A l \in files : pc[l] \in {"opened", "holding", "removing"}

\* A locker that runs and opened its file still has it: only the file of a
\* dead locker is ever unlinked by another process.
LiveFiles ==
  \A l \in Lockers \cap alive :
    /\ pc[l] \in {"opened", "holding"} => l \in files
    /\ pc[l] = "holding" => l \in written

\* What a recoverer is about to unlink belongs to a dead locker.
EvidenceIsDead ==
  \A r \in Recoverers : pc[r] = "removing" => evidence[r] \in Lockers \ alive

LockInv == TypeOK /\ OneOwner /\ FilesOpened /\ LiveFiles /\ EvidenceIsDead

-----------------------------------------------------------------------------
\* Nothing is locked initially.
LEMMA LockInitHolds == Init => LockInv
BY ProcessAssumption DEF Init, LockInv, TypeOK, OneOwner, Owns, FilesOpened, LiveFiles,
  EvidenceIsDead, Processes

\* Making the directory: there was no owner before.
LEMMA MakeDirectoryStep ==
  ASSUME LockInv, NEW l \in Lockers \cap alive, MakeDirectory(l)
  PROVE  LockInv'
BY ProcessAssumption DEF LockInv, MakeDirectory, Goto, TypeOK, OneOwner, Owns, FilesOpened,
  LiveFiles, EvidenceIsDead, Processes

\* The other steps of a locker leave the ownership with it.
LEMMA LockerStep ==
  ASSUME LockInv, NEW l \in Lockers \cap alive, OpenMetadata(l) \/ Enter(l) \/ Leave(l)
  PROVE  LockInv'
<1>1. CASE OpenMetadata(l)
  BY <1>1, ProcessAssumption DEF LockInv, OpenMetadata, Goto, TypeOK, OneOwner, Owns, FilesOpened,
    LiveFiles, EvidenceIsDead, Processes
<1>2. CASE Enter(l)
  BY <1>2, ProcessAssumption DEF LockInv, Enter, Goto, TypeOK, OneOwner, Owns, FilesOpened,
    LiveFiles, EvidenceIsDead, Processes
<1>3. CASE Leave(l)
  BY <1>3, ProcessAssumption DEF LockInv, Leave, Goto, TypeOK, OneOwner, Owns, FilesOpened,
    LiveFiles, EvidenceIsDead, Processes
<1> QED BY <1>1, <1>2, <1>3

\* Inspecting and confirming change no ownership; the dead stay dead.
LEMMA RecovererStep ==
  ASSUME LockInv, NEW r \in Recoverers \cap alive, Recover(r)
  PROVE  LockInv'
BY ProcessAssumption DEF LockInv, Recover, Inspect, Confirm, Stale, Goto, TypeOK, OneOwner, Owns,
  FilesOpened, LiveFiles, EvidenceIsDead, Processes

\* Unlinking hands the directory from the file's locker to the process that
\* unlinked it.
LEMMA UnlinkStep ==
  ASSUME LockInv, NEW p \in alive, Unlink(p)
  PROVE  LockInv'
<1>1. p \in Processes /\ (p \in Lockers => p \notin Recoverers)
  BY ProcessAssumption DEF LockInv, TypeOK
<1>2. TypeOK'
  BY <1>1 DEF LockInv, Unlink, Goto, TypeOK, Processes
<1>3. LockOf(p) \in files => Owns(LockOf(p)) /\ LockOf(p) \in Lockers
  BY DEF LockInv, TypeOK, Owns
<1>4. OneOwner'
  BY <1>1, <1>3 DEF LockInv, Unlink, Goto, TypeOK, OneOwner, Owns, FilesOpened, Processes
<1>5. FilesOpened' /\ LiveFiles' /\ EvidenceIsDead'
  BY <1>1, ProcessAssumption DEF LockInv, Unlink, LockOf, Goto, TypeOK, FilesOpened, LiveFiles,
    EvidenceIsDead, Processes
<1> QED BY <1>2, <1>4, <1>5 DEF LockInv

\* The directory is removed by its owner.
LEMMA RemoveDirectoryStep ==
  ASSUME LockInv, NEW p \in alive, RemoveDirectory(p)
  PROVE  LockInv'
<1>1. p \in Processes
  BY DEF LockInv, TypeOK
<1>2. pc[p] = "unlinked" /\ Owns(p) /\ dir
  BY <1>1 DEF LockInv, RemoveDirectory, OneOwner, Owns
<1>3. files = {}
  BY <1>1, <1>2 DEF LockInv, TypeOK, OneOwner, Owns, FilesOpened, Processes
<1>4. /\ dir' = FALSE /\ pc' = [pc EXCEPT ![p] = "done"]
      /\ UNCHANGED <<files, written, evidence, alive>>
  BY <1>2, <1>3 DEF RemoveDirectory, Goto
<1>5. TypeOK'
  BY <1>1, <1>4 DEF LockInv, TypeOK
<1>6. \A q \in Processes : ~Owns(q)'
  BY <1>1, <1>2, <1>3, <1>4 DEF LockInv, TypeOK, OneOwner, Owns
<1>7. FilesOpened' /\ LiveFiles' /\ EvidenceIsDead'
  BY <1>1, <1>2, <1>3, <1>4 DEF LockInv, TypeOK, FilesOpened, LiveFiles, EvidenceIsDead, Processes
<1> QED BY <1>5, <1>6, <1>7 DEF LockInv, OneOwner

\* LockInv is inductive.
LEMMA LockStep == LockInv /\ [Next]_vars => LockInv'
<1> SUFFICES ASSUME LockInv, [Next]_vars PROVE LockInv'
  OBVIOUS
<1>1. CASE UNCHANGED vars
  BY <1>1 DEF vars, LockInv, TypeOK, OneOwner, Owns, FilesOpened, LiveFiles, EvidenceIsDead
<1>2. ASSUME NEW l \in Lockers \cap alive, Lock(l) PROVE LockInv'
  BY <1>2, MakeDirectoryStep, LockerStep DEF Lock
<1>3. ASSUME NEW r \in Recoverers \cap alive, Recover(r) PROVE LockInv'
  BY <1>3, RecovererStep
<1>4. ASSUME NEW p \in alive, Remove(p) PROVE LockInv'
  BY <1>4, UnlinkStep, RemoveDirectoryStep DEF Remove
<1>5. ASSUME NEW p \in alive, Die(p) PROVE LockInv'
  BY <1>5 DEF Die, LockInv, TypeOK, OneOwner, Owns, FilesOpened, LiveFiles, EvidenceIsDead
<1> QED BY <1>1, <1>2, <1>3, <1>4, <1>5 DEF Next

\* Two operations never run under the receipt lock at once.
THEOREM LockExcludes == Spec => []MutualExclusion
<1>1. LockInv => MutualExclusion
  BY DEF LockInv, OneOwner, Owns, LiveFiles, MutualExclusion, Processes
<1> QED BY <1>1, LockInitHolds, LockStep, PTL DEF Spec

\* No recovery removes the lock of an operation that runs.
THEOREM RecoverySparesTheLiving == Spec => []LiveLockStands
<1>1. LockInv => LiveLockStands
  <2> SUFFICES ASSUME LockInv, NEW l \in Lockers \cap alive, pc[l] = "holding"
               PROVE  dir /\ files = {l} /\ l \in written
    BY DEF LiveLockStands
  <2>1. l \in files /\ l \in written
    BY DEF LockInv, LiveFiles
  <2>2. dir /\ \A k \in files : k = l
    BY <2>1 DEF LockInv, TypeOK, OneOwner, Owns, Processes
  <2> QED BY <2>1, <2>2
<1> QED BY <1>1, LockInitHolds, LockStep, PTL DEF Spec

-----------------------------------------------------------------------------
(* The reconciler                                                              *)

(* ------------------------------ the invariant ---------------------------- *)

Ids == Nat \cup Resources
OwnedEntry == [id : Ids, hash : Hashes \cup {NoHash}]
LiveObject == [key : Resources, id : Ids, hash : Hashes \cup {NoHash}, own : BOOLEAN]
Receipts == [state : {"none", "ready", "installing", "uninstalling", "removed"}, rev : Nat,
             desired : Root!Configurations, owned : [Resources -> OwnedEntry]]
WireRequest == [run : Nat, op : Nat, action : {"create", "update", "delete"},
             key : Resources, id : Ids, hash : Hashes]
Labels == {"idle", "begin", "created", "retire", "retiring", "loop", "send",
           "sent", "verify", "drop"}
RunRecord == [pc : Labels,
              op : {"none", "apply", "retry", "uninstall", "resume"}, prune : BOOLEAN,
              plan : Root!Plans \cup {NoHash}, read : Root!Plans \cup {NoHash},
              retire : SUBSET Resources, todo : SUBSET Resources, id : Ids]

Working == {"send", "sent", "verify"}
Creating == pending.type = "apply" /\ pending.action = "create"

\* An owned resource has an identifier and the hash of some configuration; what is
\* journaled as a creation is not owned, and everything else is.
OwnedStands ==
  /\ \A x \in Resources :
       \/ receipt.owned[x] = Root!NotOwned
       \/ receipt.owned[x].hash \in Hashes /\ receipt.owned[x].id # Root!NoId
  /\ pending # Root!NoPending =>
       ((pending.action = "create") <=> (pending.key \notin Root!OwnedKeys))
  /\ pending.type = "apply" => receipt.state = "installing"
  /\ pending.type = "uninstall" => receipt.state = "uninstalling" /\ pending.action = "delete"

\* The identifier was never, and will never be, that of another resource's object.
Known(id, x) ==
  /\ id = x \/ (id \in Nat /\ id < nextId)
  /\ \A o \in live : o.id = id => o.key = x

IdsNameOne ==
  /\ \A o \in live : Known(o.id, o.key) /\ o.id # Root!NoId
  /\ \A o, n \in live : o.id = n.id => o = n
  /\ \A x \in Resources : receipt.owned[x].id = Root!NoId \/ Known(receipt.owned[x].id, x)
  /\ \A q \in wire : q.action # "create" => Known(q.id, q.key)

\* One object each, and none while its creation may arrive; and every one is recorded.
OneEach ==
  /\ \A o, n \in live : o.own /\ n.own /\ o.key = n.key => o = n
  /\ \A q, p \in wire : q.action = "create" /\ p.action = "create" => q = p
  /\ \A q \in wire : q.action = "create" =>
       Creating /\ pending.op = q.op /\ pending.key = q.key /\ Root!Own(q.key) = {}
  /\ \A o \in live : o.own => receipt.owned[o.key].id = o.id \/ (Creating /\ pending.key = o.key)
  /\ receipt.state = "removed" => pending = Root!NoPending /\ \A o \in live : ~o.own

\* What a resource needs stands, unless somebody else removed it.
Guarded(x) == \A y \in Required : RootRank[y] < RootRank[x] => Root!Own(y) # {} \/ y \in gone
NothingAbove(y) == \A x \in Resources : RootRank[y] < RootRank[x] => Root!Own(x) = {}

GuardsStand ==
  /\ \A x \in Resources : Root!Own(x) # {} => Guarded(x)
  /\ Creating => Guarded(pending.key)
  /\ \A q \in wire : q.action = "delete" /\ q.key \in Required =>
       receipt.state \in {"uninstalling", "removed"} /\ NothingAbove(q.key)
  /\ pending.type = "uninstall" => NothingAbove(pending.key)

\* The operator approved the deletion of what stands of a resource.
Allowed(x) == \A o \in live : o.own /\ o.key = x => o.id \in approved

ApprovalsStand ==
  /\ \A q \in wire : q.action = "delete" => q.id \in approved
  /\ pending # Root!NoPending /\ pending.action = "delete" => Allowed(pending.key)
  /\ receipt.state = "uninstalling" => \A x \in Resources : Allowed(x)

\* Where a run is, and what the journal says then.
RunJournal ==
  /\ run.pc \in {"created", "retire", "loop"} => pending = Root!NoPending
  /\ run.pc \in {"retiring", "drop"} \cup Working => pending # Root!NoPending
  /\ run.pc \in {"retiring", "drop"} => pending.action = "delete"
  /\ run.pc \in {"created", "retire", "retiring"} => run.op = "apply"
  /\ run.pc = "drop" => run.op = "uninstall"
  /\ run.pc = "loop" => run.op \in {"apply", "uninstall"}
  /\ run.pc # "idle" /\ run.op \in {"apply", "retry"} =>
       receipt.state \notin {"uninstalling", "removed"}
  /\ run.pc # "idle" /\ run.op \in {"uninstall", "resume"} =>
       receipt.state \notin {"none", "removed"} /\ pending.type # "apply"
  /\ run.pc # "idle" => run.op # "none"
  /\ run.op = "resume" => receipt.state = "uninstalling"
  /\ run.op = "retry" => run.pc \in Working /\ ~Creating

\* What is about to be sent.
RunSends ==
  /\ run.pc = "send" /\ Creating =>
       Root!Own(pending.key) = {} /\ \A q \in wire : q.action # "create"
  /\ run.pc = "send" /\ pending.type = "apply" /\ pending.action = "delete" =>
       pending.key \notin Required

\* An uninstall is through with everything it does not have to do any more.
RunRemoves ==
  /\ run.op = "uninstall" /\ run.pc \in {"loop", "drop"} \cup Working =>
       /\ \A x \in Resources \ run.todo : Root!Own(x) = {}
       /\ \A x \in Resources : Allowed(x)
  /\ run.pc = "drop" => Root!Own(pending.key) = {}

\* An apply with prune was told what it may delete.
RunPrunes ==
  run.op = "apply" =>
    /\ run.prune /\ run.pc \in {"created", "retire", "retiring", "loop"} \cup Working =>
         \A x \in Resources : config[x] = NoHash => Allowed(x)
    /\ run.pc \in Working /\ Creating => config[pending.key] # NoHash
    /\ run.pc \in {"loop"} \cup Working => \A x \in run.todo : Root!Scheduled(x)

WorldInv == OwnedStands /\ IdsNameOne /\ OneEach /\ GuardsStand /\ ApprovalsStand
RunInv == RunJournal /\ RunSends /\ RunRemoves /\ RunPrunes
ReconcilerInv == Root!TypeOK /\ WorldInv /\ RunInv

(* --------------------------------- types --------------------------------- *)

\* TypeOK, in the names above.
LEMMA Typing ==
  Root!TypeOK <=>
    /\ config \in Root!Configurations /\ gone \subseteq Resources /\ live \subseteq LiveObject
    /\ nextId \in Nat \ {0} /\ runs \in Nat /\ edits \in Nat /\ receipt \in Receipts
    /\ pending \in Root!Intents \cup {Root!NoPending} /\ wire \subseteq WireRequest
    /\ run \in RunRecord
    /\ approved \subseteq Ids
BY DEF Root!TypeOK, LiveObject, Receipts, OwnedEntry, WireRequest, RunRecord, Labels, Ids

\* What the types say of the configuration, the objects and the requests,
LEMMA WorldFacts ==
  ASSUME Root!TypeOK
  PROVE  /\ config \in [Resources -> Hashes \cup {NoHash}]
         /\ \A x \in Required : config[x] # NoHash
         /\ \A o \in live : /\ o \in LiveObject
                            /\ o.key \in Resources /\ o.id \in Ids /\ o.own \in BOOLEAN
                            /\ o.hash \in Hashes \cup {NoHash}
         /\ \A q \in wire : /\ q \in WireRequest /\ q.action \in {"create", "update", "delete"}
                            /\ q.key \in Resources /\ q.id \in Ids /\ q.hash \in Hashes
         /\ nextId \in Nat /\ nextId # 0
BY Typing DEF Root!Configurations, LiveObject, WireRequest

\* of the receipt and the journaled action,
LEMMA JournalFacts ==
  ASSUME Root!TypeOK
  PROVE  /\ receipt.rev \in Nat /\ receipt.desired \in Root!Configurations
         /\ receipt.state \in {"none", "ready", "installing", "uninstalling", "removed"}
         /\ receipt.owned \in [Resources -> OwnedEntry]
         /\ \A x \in Resources :
              receipt.owned[x].id \in Ids /\ receipt.owned[x].hash \in Hashes \cup {NoHash}
         /\ pending = Root!NoPending <=> pending.type = "none"
         /\ pending # Root!NoPending =>
              /\ pending.type \in {"apply", "uninstall"}
              /\ pending.action \in {"create", "update", "delete"}
              /\ pending.key \in Resources /\ pending.hash \in Hashes
              /\ pending.prune \in BOOLEAN /\ pending.plan \in Root!Plans /\ pending.op \in Nat
<1>1. /\ receipt \in Receipts /\ pending \in Root!Intents \cup {Root!NoPending}
  BY Typing
<1>2. \A x \in Resources : receipt.owned[x] \in OwnedEntry
  BY <1>1 DEF Receipts
<1>3. \A e \in OwnedEntry : e.id \in Ids /\ e.hash \in Hashes \cup {NoHash}
  BY DEF OwnedEntry
<1> QED BY <1>1, <1>2, <1>3 DEF Receipts, Root!Intents, Root!NoPending

\* and of the run.
LEMMA RunFacts ==
  ASSUME Root!TypeOK
  PROVE  /\ run.pc \in Labels /\ run.op \in {"none", "apply", "retry", "uninstall", "resume"}
         /\ run.prune \in BOOLEAN /\ run.todo \subseteq Resources /\ run.retire \subseteq Resources
         /\ run.id \in Ids /\ run.plan \in Root!Plans \cup {NoHash}
         /\ run.read \in Root!Plans \cup {NoHash}
BY Typing DEF RunRecord

\* What a change says of the objects.
LEMMA ChangeSays ==
  ASSUME Root!TypeOK, NEW x \in Resources
  PROVE  /\ Root!Change(x).hash = config[x]
         /\ Root!Change(x).action \in {"create", "update", "noop", "delete", "absent", "conflict"}
         /\ Root!Change(x).id \in Ids
         /\ Root!Change(x).action = "create" => config[x] # NoHash /\ Root!Objects(x) = {}
         /\ Root!Change(x).action \in {"noop", "update"} =>
              /\ config[x] # NoHash
              /\ \E o \in Root!Own(x) : Root!Objects(x) = {o} /\ Root!Change(x).id = o.id
         /\ Root!Change(x).action = "delete" =>
              /\ config[x] = NoHash
              /\ \E o \in Root!Own(x) : Root!Own(x) = {o} /\ Root!Change(x).id = o.id
         /\ \A o \in live : config[x] = NoHash /\ Root!Own(x) = {o} =>
              Root!Change(x).action = "delete" /\ Root!Change(x).id = o.id
         /\ Root!Change(x) \in Root!Entries
<1> DEFINE entry(action, id) == [action |-> action, id |-> id, hash |-> config[x]]
           wanted == config[x] # NoHash
<1>0. /\ \A o \in Root!Own(x) : o \in Root!Objects(x) /\ o \in live /\ o.id \in Ids
      /\ \A S, o : S = {o} => Root!TheOne(S) = o
      /\ config[x] \in Hashes \cup {NoHash}
      /\ Root!NoId \in Ids
  BY WorldFacts DEF Root!Own, Root!Objects, Root!TheOne, Ids, Root!NoId
<1>e. \A action \in {"create", "update", "noop", "delete", "absent", "conflict"}, id \in Ids :
        entry(action, id) \in Root!Entries /\ entry(action, id).action = action
        /\ entry(action, id).id = id /\ entry(action, id).hash = config[x]
  BY <1>0 DEF Root!Entries, Ids
<1> HIDE DEF entry
<1>1. CASE wanted /\ Root!Objects(x) = {}
  <2>1. Root!Change(x) = entry("create", Root!NoId)
    BY <1>1, <1>0 DEF Root!Change, Root!One, entry
  <2> QED BY <2>1, <1>1, <1>e, <1>0
<1>2. CASE wanted /\ Root!Objects(x) # {} /\ Root!One(Root!Objects(x)) /\ Root!Own(x) # {}
  <2>1. PICK o \in Root!Own(x) : Root!Objects(x) = {o} /\ Root!Own(x) = {o}
    BY <1>2, <1>0 DEF Root!One
  <2>2. Root!TheOne(Root!Own(x)) = o
    BY <2>1, <1>0
  <2>3. Root!Change(x) = entry(IF o.hash = config[x] THEN "noop" ELSE "update", o.id)
    BY <1>2, <2>2 DEF Root!Change, entry
  <2>4. Root!Change(x) = entry("noop", o.id) \/ Root!Change(x) = entry("update", o.id)
    BY <2>3
  <2> QED BY <2>1, <2>4, <1>2, <1>e, <1>0
<1>3. CASE ~wanted /\ Root!Own(x) = {}
  <2>1. Root!Change(x) = entry("absent", Root!NoId)
    BY <1>3 DEF Root!Change, Root!One, entry
  <2> QED BY <2>1, <1>3, <1>e, <1>0
<1>4. CASE ~wanted /\ Root!One(Root!Own(x))
  <2>1. PICK o \in Root!Own(x) : Root!Own(x) = {o}
    BY <1>4 DEF Root!One
  <2>2. Root!TheOne(Root!Own(x)) = o
    BY <2>1, <1>0
  <2>3. Root!Change(x) = entry("delete", o.id)
    BY <1>4, <2>1, <2>2 DEF Root!Change, Root!One, entry
  <2> QED BY <2>1, <2>3, <1>4, <1>e, <1>0
<1>5. CASE /\ ~(wanted /\ Root!Objects(x) = {})
           /\ ~(wanted /\ Root!One(Root!Objects(x)) /\ Root!Own(x) # {})
           /\ ~(~wanted /\ Root!Own(x) = {}) /\ ~(~wanted /\ Root!One(Root!Own(x)))
  <2>1. Root!Change(x) = entry("conflict", Root!NoId)
    BY <1>5 DEF Root!Change, entry
  <2> QED BY <2>1, <1>5, <1>e, <1>0 DEF Root!One
<1> QED BY <1>1, <1>2, <1>3, <1>4, <1>5

\* A plan is a change for every resource.
LEMMA PlanTyped ==
  ASSUME Root!TypeOK
  PROVE  Root!Plan \in Root!Plans /\ \A x \in Resources : Root!Plan[x] = Root!Change(x)
BY ChangeSays DEF Root!Plan, Root!Plans

\* A run that holds nothing is a run.
LEMMA IdleTyped == Root!Idle \in RunRecord
BY DEF Root!Idle, RunRecord, Labels, Ids, Root!NoId

\* What is journaled is what was to be.
LEMMA BeginSays ==
  ASSUME Root!TypeOK, NEW type \in {"apply", "uninstall"},
         NEW action \in {"create", "update", "delete"},
         NEW x \in Resources, NEW hash \in Hashes, NEW prune \in BOOLEAN,
         Root!Begin(type, action, x, hash, prune)
  PROVE  /\ pending' \in Root!Intents /\ receipt' \in Receipts
         /\ pending'.type = type /\ pending'.action = action /\ pending'.key = x
         /\ receipt'.owned = receipt.owned
         /\ receipt'.state = IF type = "uninstall" THEN "uninstalling" ELSE "installing"
         /\ (action = "create") <=> (x \notin Root!OwnedKeys)
<1>1. receipt \in Receipts /\ receipt.rev + 1 \in Nat
  BY Typing, JournalFacts
<1>2. Root!Plan \in Root!Plans
  BY PlanTyped
<1>3. pending' \in Root!Intents
  BY <1>1, <1>2 DEF Root!Begin, Root!Intents
<1>4. receipt' \in Receipts
  BY <1>1 DEF Root!Begin, Receipts
<1> QED BY <1>1, <1>3, <1>4 DEF Root!Begin, Receipts

\* What a commit leaves in the receipt.
LEMMA CommitSays ==
  ASSUME Root!TypeOK, pending # Root!NoPending, NEW id \in Ids, Root!Commit(id)
  PROVE  /\ pending' = Root!NoPending /\ receipt' \in Receipts
         /\ receipt'.state = IF pending.type = "uninstall" THEN "uninstalling" ELSE "ready"
         /\ \A x \in Resources \ {pending.key} : receipt'.owned[x] = receipt.owned[x]
         /\ receipt'.owned[pending.key] =
              IF pending.action = "delete" THEN Root!NotOwned
              ELSE [id |-> IF pending.action = "create" THEN id ELSE receipt.owned[pending.key].id,
                    hash |-> pending.hash]
<1> DEFINE e == IF pending.action = "delete" THEN Root!NotOwned
              ELSE [id |-> IF pending.action = "create" THEN id ELSE receipt.owned[pending.key].id,
                    hash |-> pending.hash]
           s == IF pending.type = "uninstall" THEN "uninstalling" ELSE "ready"
<1>1. receipt \in Receipts /\ receipt.rev + 1 \in Nat /\ receipt.owned \in [Resources -> OwnedEntry]
  BY Typing, JournalFacts
<1>2. e \in OwnedEntry
  BY JournalFacts DEF OwnedEntry, Root!NotOwned, Ids, Root!NoId
<1>3. receipt' = [receipt EXCEPT !.rev = receipt.rev + 1, !.state = s,
                    !.owned = [receipt.owned EXCEPT ![pending.key] = e]]
  BY <1>1 DEF Root!Commit, Receipts
<1>4. [receipt.owned EXCEPT ![pending.key] = e] \in [Resources -> OwnedEntry]
  BY <1>1, <1>2
<1>5. /\ receipt' \in Receipts /\ receipt'.state = s
      /\ receipt'.owned = [receipt.owned EXCEPT ![pending.key] = e]
  BY <1>1, <1>3, <1>4 DEF Receipts
<1>6. pending' = Root!NoPending /\ pending.key \in Resources
  BY JournalFacts DEF Root!Commit
<1> QED BY <1>1, <1>5, <1>6

\* The run moves within its record.
LEMMA RunMoves ==
  ASSUME Root!TypeOK
  PROVE  /\ \A label \in Labels : Root!Go(label) => run' \in RunRecord
         /\ \A x : Root!DoneWith(x) => run' \in RunRecord
         /\ \A op \in {"apply", "retry", "uninstall", "resume"}, id \in Ids :
              Root!SendTo(op, id) => run' \in RunRecord
         /\ run \in RunRecord /\ Root!Idle \in RunRecord
<1>1. run \in RunRecord /\ Root!NoId \in Ids
  BY Typing DEF Ids, Root!NoId
<1>2. \A x : run.todo \ {x} \subseteq Resources
  BY RunFacts
<1>3. \A label \in Labels : Root!Go(label) => run' \in RunRecord
  BY <1>1 DEF RunRecord, Root!Go
<1>4. \A x : Root!DoneWith(x) => run' \in RunRecord
  <2> TAKE x
  <2> HAVE Root!DoneWith(x)
  <2>1. run' = [run EXCEPT !.pc = "loop", !.todo = run.todo \ {x}, !.id = Root!NoId]
    BY <1>1 DEF Root!DoneWith, RunRecord
  <2> QED BY <1>1, <1>2, <2>1 DEF RunRecord, Labels
<1>5. \A op \in {"apply", "retry", "uninstall", "resume"}, id \in Ids :
        Root!SendTo(op, id) => run' \in RunRecord
  BY <1>1 DEF RunRecord, Root!SendTo, Labels
<1> QED BY <1>1, <1>3, <1>4, <1>5, IdleTyped

\* An owned resource has a hash to be journaled with.
LEMMA OwnedHash ==
  ASSUME OwnedStands, NEW x \in Root!OwnedKeys
  PROVE  receipt.owned[x].hash \in Hashes /\ x \in Resources
BY DEF OwnedStands, Root!OwnedKeys

\* What a run executes; deletions only with prune.
LEMMA ScheduledActions ==
  ASSUME NEW x, Root!Scheduled(x)
  PROVE  /\ run.read[x].action \in {"create", "update", "delete"}
         /\ run.read[x].action = "delete" => run.prune
BY DEF Root!Scheduled

\* The steps that only move the run.
Moves ==
  \/ \E op \in {"apply", "uninstall"}, prune \in BOOLEAN : Root!Start(op, prune)
  \/ Root!Stop \/ Root!Reread \/ Root!Schedule \/ Root!RetryApply
  \/ Root!RetryUninstall \/ Root!SendNothing

\* They leave it a run.
LEMMA MovesTyped ==
  ASSUME ReconcilerInv, Moves
  PROVE  run' \in RunRecord /\ runs' \in Nat
<1> USE DEF ReconcilerInv
<1>0. /\ run \in RunRecord /\ runs \in Nat /\ Root!Plan \in Root!Plans /\ Root!Idle \in RunRecord
      /\ {"begin", "retire", "loop", "send", "verify"} \subseteq Labels
  BY Typing, PlanTyped, IdleTyped DEF Labels
<1>1. ASSUME NEW op \in {"apply", "uninstall"}, NEW prune \in BOOLEAN, Root!Start(op, prune)
      PROVE  run' \in RunRecord /\ runs' \in Nat
  <2>1. run' = [Root!Idle EXCEPT !.pc = "begin", !.op = op, !.prune = prune] /\ runs' = runs + 1
    BY <1>1 DEF Root!Start
  <2>2. op \in {"none", "apply", "retry", "uninstall", "resume"} /\ "begin" \in Labels
    BY <1>0, <1>1
  <2>3. [Root!Idle EXCEPT !.pc = "begin", !.op = op, !.prune = prune] \in RunRecord
    BY <1>0, <2>2 DEF RunRecord
  <2> QED BY <1>0, <2>1, <2>3
<1>2. CASE Root!Stop
  BY <1>0, <1>2 DEF Root!Stop
<1>3. CASE Root!Reread
  BY <1>0, <1>3 DEF Root!Reread, RunRecord
<1>4. CASE Root!Schedule
  BY <1>0, <1>4 DEF Root!Schedule, RunRecord
<1>5. CASE Root!RetryApply
  <2>1. pending.key \in Resources /\ Root!Change(pending.key).id \in Ids
    BY <1>5, JournalFacts, ChangeSays DEF Root!RetryApply, Root!NoPending
  <2> QED BY <1>0, <1>5, <2>1 DEF Root!RetryApply, RunRecord
<1>6. CASE Root!RetryUninstall
  <2>1. pending.key \in Resources /\ receipt.owned[pending.key].id \in Ids
    BY <1>6, JournalFacts DEF Root!RetryUninstall, Root!NoPending
  <2> QED BY <1>0, <1>6, <2>1, RunMoves DEF Root!RetryUninstall
<1>7. CASE Root!SendNothing
  BY <1>0, <1>7, RunMoves DEF Root!SendNothing
<1> QED BY <1>1, <1>2, <1>3, <1>4, <1>5, <1>6, <1>7 DEF Moves

\* They change nothing else.
LEMMA MovesKeepTypes == ASSUME ReconcilerInv, Moves PROVE Root!TypeOK'
<1>1. run' \in RunRecord /\ runs' \in Nat
  BY MovesTyped
<1>2. UNCHANGED <<config, live, nextId, wire, receipt, pending, edits, approved, gone>>
  BY DEF Moves, Root!Start, Root!Stop, Root!Reread, Root!Schedule, Root!RetryApply,
    Root!RetryUninstall, Root!SendNothing, Root!provider, Root!journal, Root!outside
<1>3. Root!Configurations' = Root!Configurations /\ Root!Intents' = Root!Intents
  BY DEF Root!Configurations, Root!Intents
<1> QED BY <1>1, <1>2, Typing DEF ReconcilerInv, Root!TypeOK, RunRecord, Labels, Ids

\* What the types are after a step.
LEMMA TypesAfter ==
  ASSUME config' \in Root!Configurations, gone' \subseteq Resources, live' \subseteq LiveObject,
         nextId' \in Nat \ {0}, runs' \in Nat, edits' \in Nat, receipt' \in Receipts,
         pending' \in Root!Intents \cup {Root!NoPending}, wire' \subseteq WireRequest,
         run' \in RunRecord,
         approved' \subseteq Ids
  PROVE  Root!TypeOK'
BY DEF Root!TypeOK, LiveObject, Receipts, OwnedEntry, WireRequest, RunRecord, Labels, Ids

\* The steps that begin to journal an action.
LEMMA BeginsKeepTypes ==
  ASSUME ReconcilerInv, NEW x \in Resources, Root!Retire(x) \/ Root!Step(x) \/ Root!Uninstall(x)
  PROVE  Root!TypeOK'
<1> USE DEF ReconcilerInv
<1>0. /\ run \in RunRecord /\ Root!Plan \in Root!Plans
      /\ receipt.owned[x].id \in Ids /\ Root!Change(x).id \in Ids
      /\ UNCHANGED <<config, live, nextId, wire, runs, edits, approved, gone>>
  BY Typing, PlanTyped, JournalFacts, ChangeSays DEF Root!Retire, Root!Step, Root!Uninstall,
    Root!provider, Root!outside
<1>1. CASE Root!Retire(x)
  <2>1. run' \in RunRecord
    BY <1>0, <1>1 DEF Root!Retire, RunRecord, Labels
  <2>2. receipt' \in Receipts /\ pending' \in Root!Intents \cup {Root!NoPending}
    <3>1. CASE Root!Retired(x)
      <4>1. Root!Begin("apply", "delete", x, receipt.owned[x].hash, config[x] = NoHash)
        BY <1>1, <3>1 DEF Root!Retire
      <4>2. x \in Root!OwnedKeys
        BY <4>1 DEF Root!Begin
      <4> QED BY <4>1, <4>2, OwnedHash, BeginSays DEF WorldInv
    <3>2. CASE ~Root!Retired(x)
      BY <1>1, <3>2, Typing DEF Root!Retire, Root!journal
    <3> QED BY <3>1, <3>2
  <2> QED BY <1>0, <2>1, <2>2, Typing, TypesAfter
<1>2. CASE Root!Step(x)
  <2>0. run.pc = "loop" /\ run.op = "apply" /\ x \in run.todo
    BY <1>2 DEF Root!Step, Root!First
  <2>1. CASE Root!Change(x).action = "noop" /\ Root!DoneWith(x) /\ UNCHANGED Root!journal
    BY <1>0, <2>1, Typing, TypesAfter, RunMoves DEF Root!journal
  <2>2. CASE /\ Root!Change(x) = run.read[x]
             /\ Root!Begin("apply", Root!Change(x).action, x,
                   IF Root!Change(x).action = "delete" THEN receipt.owned[x].hash ELSE config[x],
                   Root!Change(x).action = "delete")
             /\ Root!SendTo("apply", Root!Change(x).id)
    <3>1. Root!Change(x).action \in {"create", "update", "delete"}
      BY <2>0, <2>2, ScheduledActions DEF RunInv, RunPrunes
    <3>2. Root!Change(x).action = "delete" => x \in Root!OwnedKeys
      BY <2>2 DEF Root!Begin
    <3>3. (IF Root!Change(x).action = "delete" THEN receipt.owned[x].hash ELSE config[x]) \in Hashes
      BY <3>1, <3>2, OwnedHash, ChangeSays, WorldFacts DEF WorldInv
    <3>4. receipt' \in Receipts /\ pending' \in Root!Intents
      BY <2>2, <3>1, <3>3, BeginSays
    <3> QED BY <1>0, <2>2, <3>4, Typing, TypesAfter, RunMoves
  <2> QED BY <1>2, <2>1, <2>2 DEF Root!Step
<1>3. CASE Root!Uninstall(x)
  <2>1. x \in Root!OwnedKeys /\ Root!Begin("uninstall", "delete", x, receipt.owned[x].hash, FALSE)
    BY <1>3 DEF Root!Uninstall, Root!Begin
  <2>2. receipt' \in Receipts /\ pending' \in Root!Intents
    BY <2>1, OwnedHash, BeginSays DEF WorldInv
  <2>3. run' \in RunRecord
    BY <1>0, <1>3, RunMoves DEF Root!Uninstall, Labels
  <2> QED BY <1>0, <2>2, <2>3, Typing, TypesAfter
<1> QED BY <1>1, <1>2, <1>3

\* The steps that commit an action, and what the run does then.
Commits ==
  \/ Root!RecoverCommit /\ Root!Commit(Root!Change(pending.key).id)
  \/ Root!RetireCommit /\ Root!Commit(Root!NoId)
  \/ Root!Drop /\ Root!Commit(Root!NoId)
  \/ Root!Verify /\ Root!Commit(Root!Change(pending.key).id)

\* The four steps that commit.
LEMMA CommitsAre == Root!RecoverCommit \/ Root!RetireCommit \/ Root!Drop \/ Root!Verify => Commits
BY DEF Commits, Root!RecoverCommit, Root!RetireCommit, Root!Drop, Root!Verify

\* They keep the types.
LEMMA CommitsKeepTypes ==
  ASSUME ReconcilerInv, Root!RecoverCommit \/ Root!RetireCommit \/ Root!Drop \/ Root!Verify
  PROVE  Root!TypeOK'
<1> USE DEF ReconcilerInv
<1>0. /\ run \in RunRecord /\ Root!Plan \in Root!Plans /\ Root!NoId \in Ids
      /\ UNCHANGED <<config, live, nextId, wire, runs, edits, approved, gone>>
  BY Typing, PlanTyped DEF Root!RecoverCommit, Root!RetireCommit, Root!Drop, Root!Verify,
    Root!provider, Root!outside, Ids, Root!NoId
<1>1. pending # Root!NoPending /\ pending.key \in Resources /\ Root!Change(pending.key).id \in Ids
  <2>1. pending # Root!NoPending
    BY DEF Root!RecoverCommit, Root!RetireCommit, Root!Drop, Root!Verify, RunInv, RunJournal,
      Working
  <2> QED BY <2>1, JournalFacts, ChangeSays
<1>2. receipt' \in Receipts /\ pending' = Root!NoPending
  BY <1>0, <1>1, CommitsAre, CommitSays DEF Commits
<1>3. run' \in RunRecord
  <2>1. CASE Root!RecoverCommit
    BY <1>0, <2>1 DEF Root!RecoverCommit, RunRecord
  <2>2. CASE Root!RetireCommit
    BY <1>0, <2>2 DEF Root!RetireCommit, RunRecord, Labels
  <2>3. CASE Root!Drop
    BY <2>3, RunMoves DEF Root!Drop
  <2>4. CASE Root!Verify
    BY <2>4, RunMoves DEF Root!Verify, Labels
  <2> QED BY <2>1, <2>2, <2>3, <2>4
<1> QED BY <1>0, <1>2, <1>3, Typing, TypesAfter

\* The other steps of a run that write the receipt.
LEMMA ReceiptStepsKeepTypes ==
  ASSUME ReconcilerInv,
         Root!Approve \/ Root!Finish \/ Root!Preview \/ Root!Remove \/ Root!NotSubmitted
  PROVE  Root!TypeOK'
<1> USE DEF ReconcilerInv
<1>0. /\ run \in RunRecord /\ Root!Plan \in Root!Plans /\ Root!NoId \in Ids /\ receipt \in Receipts
      /\ receipt.rev + 1 \in Nat /\ config \in Root!Configurations
      /\ Root!OwnedKeys \subseteq Resources
      /\ approved \subseteq Ids /\ Root!Idle \in RunRecord
      /\ pending \in Root!Intents \cup {Root!NoPending}
      /\ UNCHANGED <<config, live, nextId, wire, runs, edits, gone>>
  BY Typing, PlanTyped, JournalFacts, IdleTyped DEF Root!Approve, Root!Finish, Root!Preview,
    Root!Remove, Root!NotSubmitted, Root!provider, Root!outside, Ids, Root!NoId, Root!OwnedKeys
<1>1. CASE Root!Approve
  <2>1. run' \in RunRecord
    BY <1>0, <1>1 DEF Root!Approve, RunRecord, Labels
  <2>2. receipt' \in Receipts
    BY <1>0, <1>1 DEF Root!Approve, Receipts
  <2>3. \A x \in Resources : Root!Plan[x].id \in Ids
    BY PlanTyped, ChangeSays
  <2>4. approved' \subseteq Ids
    BY <1>0, <1>1, <2>3 DEF Root!Approve, Root!Deletions
  <2> QED BY <1>0, <1>1, <2>1, <2>2, <2>4, Typing, TypesAfter DEF Root!Approve
<1>2. CASE Root!Finish
  <2>1. receipt' \in Receipts
    BY <1>0, <1>2 DEF Root!Finish, Receipts
  <2> QED BY <1>0, <1>2, <2>1, Typing, TypesAfter DEF Root!Finish
<1>3. CASE Root!Preview
  <2>1. run' \in RunRecord
    BY <1>0, <1>3 DEF Root!Preview, RunRecord, Labels
  <2>2. \A x \in Root!OwnedKeys : receipt.owned[x].id \in Ids
    BY <1>0, JournalFacts
  <2>3. approved' \subseteq Ids
    BY <1>0, <1>3, <2>2 DEF Root!Preview
  <2> QED BY <1>0, <1>3, <2>1, <2>3, Typing, TypesAfter DEF Root!Preview, Root!journal
<1>4. CASE Root!Remove
  <2>1. receipt' \in Receipts
    BY <1>0, <1>4 DEF Root!Remove, Receipts
  <2> QED BY <1>0, <1>4, <2>1, Typing, TypesAfter DEF Root!Remove
<1>5. CASE Root!NotSubmitted
  <2>1. receipt' \in Receipts
    BY <1>0, <1>5 DEF Root!NotSubmitted, Receipts
  <2> QED BY <1>0, <1>5, <2>1, Typing, TypesAfter DEF Root!NotSubmitted
<1> QED BY <1>1, <1>2, <1>3, <1>4, <1>5

\* A request has the types of the action it was journaled as.
LEMMA SendKeepsTypes == ASSUME ReconcilerInv, Root!Send PROVE Root!TypeOK'
<1> USE DEF ReconcilerInv
<1>1. pending # Root!NoPending
  BY DEF Root!Send, RunInv, RunJournal, Working
<1>2. run' \in RunRecord
  BY RunMoves DEF Root!Send, Labels
<1>3. [run |-> runs, op |-> pending.op, action |-> pending.action, key |-> pending.key,
       id |-> run.id, hash |-> pending.hash] \in WireRequest
  BY <1>1, JournalFacts, RunFacts, Typing DEF WireRequest
<1> QED BY <1>2, <1>3, Typing, TypesAfter DEF Root!Send, Root!journal, Root!outside

\* An identifier is the key or a number.
LEMMA IdentifierTyped ==
  ASSUME Root!TypeOK, NEW x \in Resources
  PROVE  /\ Root!Identifier(x) \in Ids /\ Root!Identifier(x) # Root!NoId
         /\ Root!Identifier(x) = x \/ Root!Identifier(x) = nextId
         /\ Root!HandOut(x) => /\ nextId' \in Nat \ {0} /\ nextId <= nextId'
                               /\ Root!Identifier(x) = x \/ Root!Identifier(x) < nextId'
BY WorldFacts, ReconcilerBounds DEF Root!Identifier, Root!HandOut, Ids, Root!NoId

\* So do the provider and everybody else.
LEMMA OthersKeepTypes ==
  ASSUME ReconcilerInv, Root!Edit \/ Root!Configure \/ \E q \in wire : Root!Land(q)
  PROVE  Root!TypeOK'
<1> USE DEF ReconcilerInv
<1>0. /\ live \subseteq LiveObject /\ wire \subseteq WireRequest /\ run \in RunRecord
      /\ nextId \in Nat \ {0} /\ edits \in Nat /\ gone \subseteq Resources
      /\ config \in Root!Configurations
  BY Typing
<1>1. CASE Root!Configure
  BY <1>1, Typing, TypesAfter DEF Root!Configure, Root!provider, Root!journal
<1>2. CASE Root!Edit
  <2>1. /\ UNCHANGED <<config, receipt, pending, wire, run, runs, approved>> /\ edits' \in Nat
    BY <1>0, <1>2 DEF Root!Edit, Root!journal
  <2>2. live' \subseteq LiveObject /\ nextId' \in Nat \ {0} /\ gone' \subseteq Resources
    <3>1. CASE \E o \in live : /\ live' = live \ {o} /\ UNCHANGED nextId
                               /\ gone' = IF o.own THEN gone \cup {o.key} ELSE gone
      BY <1>0, <3>1, WorldFacts
    <3>2. CASE \E o \in live, h \in Hashes :
                 /\ live' = (live \ {o}) \cup {[o EXCEPT !.hash = h]} /\ UNCHANGED <<nextId, gone>>
      <4>1. \A o \in LiveObject, h \in Hashes : [o EXCEPT !.hash = h] \in LiveObject
        BY DEF LiveObject
      <4> QED BY <1>0, <3>2, <4>1
    <3>3. CASE \E x \in Resources :
                 /\ live' = live \cup {[key |-> x, id |-> Root!Identifier(x),
                                        hash |-> NoHash, own |-> FALSE]}
                 /\ Root!HandOut(x) /\ UNCHANGED gone
      <4>1. \A x \in Resources :
              [key |-> x, id |-> Root!Identifier(x), hash |-> NoHash, own |-> FALSE] \in LiveObject
        BY IdentifierTyped DEF LiveObject
      <4> QED BY <1>0, <3>3, <4>1, IdentifierTyped
    <3> QED BY <1>2, <3>1, <3>2, <3>3 DEF Root!Edit
  <2> QED BY <2>1, <2>2, Typing, TypesAfter
<1>3. ASSUME NEW q \in wire, Root!Land(q) PROVE Root!TypeOK'
  <2>1. UNCHANGED <<config, receipt, pending, edits, runs, approved>> /\ wire' \subseteq WireRequest
    BY <1>0, <1>3 DEF Root!Land, Root!journal
  <2>2. live' \subseteq LiveObject
    <3>1. q \in WireRequest /\ q.key \in Resources /\ q.hash \in Hashes
      BY WorldFacts
    <3>2. [key |-> q.key, id |-> Root!Identifier(q.key), hash |-> q.hash, own |-> TRUE]
            \in LiveObject
      BY <3>1, IdentifierTyped DEF LiveObject
    <3>3. \A o \in LiveObject : [o EXCEPT !.hash = q.hash] \in LiveObject
      BY <3>1 DEF LiveObject
    <3>4. CASE q.action = "create"
      BY <1>0, <1>3, <3>2, <3>4 DEF Root!Land, Root!Effect
    <3>5. CASE q.action = "update"
      BY <1>0, <1>3, <3>3, <3>5 DEF Root!Land, Root!Effect
    <3>6. CASE q.action = "delete"
      BY <1>0, <1>3, <3>6 DEF Root!Land, Root!Effect
    <3> QED BY <3>4, <3>5, <3>6, WorldFacts
  <2>3. nextId' \in Nat \ {0} /\ gone' \subseteq Resources
    BY <1>0, <1>3, IdentifierTyped, WorldFacts DEF Root!Land
  <2>4. run' \in RunRecord
    BY <1>3, RunMoves DEF Root!Land, Labels
  <2> QED BY <2>1, <2>2, <2>3, <2>4, Typing, TypesAfter
<1> QED BY <1>1, <1>2, <1>3

(* ------------------- the Root!journal and the Root!provider's objects -------------- *)

\* Own, without the set of objects in between.
LEMMA OwnIs ==
  \A x : /\ Root!Own(x) \subseteq live
         /\ \A o \in live : o \in Root!Own(x) <=> o.own /\ o.key = x
         /\ Root!Own(x) # {} <=> \E o \in live : o.own /\ o.key = x
BY DEF Root!Own, Root!Objects

\* What depends on neither the journal nor the run.
LEMMA MovesKeepWorld == ASSUME ReconcilerInv, Moves PROVE WorldInv'
<1>1. UNCHANGED <<config, live, nextId, wire, receipt, pending, edits, approved, gone>>
  BY DEF Moves, Root!Start, Root!Stop, Root!Reread, Root!Schedule, Root!RetryApply,
    Root!RetryUninstall, Root!SendNothing, Root!provider, Root!journal, Root!outside
<1> QED BY <1>1 DEF ReconcilerInv, WorldInv, OwnedStands, IdsNameOne, OneEach, GuardsStand,
      ApprovalsStand, Root!OwnedKeys, Known, Creating, Root!Own, Root!Objects, Guarded,
      NothingAbove, Allowed

\* Journaling an action, when its run may.
LEMMA BeginKeepsWorld ==
  ASSUME ReconcilerInv, NEW type \in {"apply", "uninstall"},
         NEW action \in {"create", "update", "delete"}, NEW x \in Resources, NEW hash \in Hashes,
         NEW prune \in BOOLEAN, Root!Begin(type, action, x, hash, prune), pending = Root!NoPending,
         UNCHANGED <<live, nextId, wire, gone, approved>>,
         receipt.state # "removed",
         type = "apply" => receipt.state # "uninstalling",
         type = "uninstall" =>
           action = "delete" /\ NothingAbove(x) /\ \A y \in Resources : Allowed(y),
         action = "create" => Guarded(x),
         action = "delete" => Allowed(x)
  PROVE  WorldInv'
<1> USE DEF ReconcilerInv
<1>1. /\ pending'.type = type /\ pending'.action = action /\ pending'.key = x
      /\ receipt'.owned = receipt.owned /\ pending' \in Root!Intents
      /\ receipt'.state = IF type = "uninstall" THEN "uninstalling" ELSE "installing"
      /\ (action = "create") <=> (x \notin Root!OwnedKeys)
  BY BeginSays
<1>2. pending' # Root!NoPending
  BY <1>1 DEF Root!NoPending
<1>3. ~Creating /\ pending.type = "none"
  BY DEF Creating, Root!NoPending
<1>4. \A q \in wire : q.action # "create"
  BY <1>3 DEF WorldInv, OneEach
<1>5. OwnedStands'
  BY <1>1, <1>2 DEF WorldInv, OwnedStands, Root!OwnedKeys
<1>6. IdsNameOne'
  BY <1>1 DEF WorldInv, IdsNameOne, Known
<1>7. OneEach'
  BY <1>1, <1>3, <1>4 DEF WorldInv, OneEach
<1>8. GuardsStand'
  BY <1>1, <1>2 DEF WorldInv, GuardsStand, Guarded, NothingAbove, Root!Own, Root!Objects, Creating
<1>9. ApprovalsStand'
  BY <1>1, <1>2 DEF WorldInv, ApprovalsStand, Allowed
<1> QED BY <1>5, <1>6, <1>7, <1>8, <1>9 DEF WorldInv

\* Committing an action whose outcome was read.
LEMMA CommitKeepsWorld ==
  ASSUME ReconcilerInv, pending # Root!NoPending, NEW id \in Ids, Root!Commit(id),
         UNCHANGED <<live, nextId, wire, gone, approved>>,
         pending.action = "delete" => Root!Own(pending.key) = {},
         pending.action = "create" => \E o \in Root!Own(pending.key) : o.id = id
  PROVE  WorldInv'
<1> USE DEF ReconcilerInv
<1> DEFINE k == pending.key
<1>1. /\ pending' = Root!NoPending
      /\ receipt'.state = IF pending.type = "uninstall" THEN "uninstalling" ELSE "ready"
      /\ \A x \in Resources \ {k} : receipt'.owned[x] = receipt.owned[x]
      /\ receipt'.owned[k] =
           IF pending.action = "delete" THEN Root!NotOwned
           ELSE [id |-> IF pending.action = "create" THEN id ELSE receipt.owned[k].id,
                 hash |-> pending.hash]
  BY CommitSays
<1>2. /\ k \in Resources /\ pending.type \in {"apply", "uninstall"} /\ pending.hash \in Hashes
      /\ pending.action \in {"create", "update", "delete"} /\ pending'.type = "none"
  BY <1>1, JournalFacts DEF Root!NoPending
<1>3. pending.action = "delete" => receipt'.owned[k] = Root!NotOwned
  BY <1>1
<1>4. pending.action = "create" =>
        /\ receipt'.owned[k] = [id |-> id, hash |-> pending.hash]
        /\ \E o \in live : o.own /\ o.key = k /\ o.id = id
        /\ Root!Own(k) # {}
  BY <1>1, OwnIs
<1>5. pending.action = "update" =>
        /\ receipt'.owned[k] = [id |-> receipt.owned[k].id, hash |-> pending.hash]
        /\ receipt.owned[k].id # Root!NoId
  BY <1>1, <1>2 DEF WorldInv, OwnedStands, Root!OwnedKeys
<1>6. \A q \in wire : q.action # "create"
  BY <1>2, <1>4 DEF WorldInv, OneEach, Creating
<1>7. OwnedStands'
  <2>1. \/ receipt'.owned[k] = Root!NotOwned
        \/ receipt'.owned[k].hash \in Hashes /\ receipt'.owned[k].id # Root!NoId
    BY <1>2, <1>3, <1>4, <1>5 DEF WorldInv, IdsNameOne
  <2> QED BY <1>1, <1>2, <2>1 DEF WorldInv, OwnedStands
<1>8. IdsNameOne'
  <2>1. receipt'.owned[k].id = Root!NoId \/ Known(receipt'.owned[k].id, k)
    BY <1>2, <1>3, <1>4, <1>5 DEF WorldInv, IdsNameOne, Root!NotOwned
  <2>2. \A x \in Resources : receipt'.owned[x].id = Root!NoId \/ Known(receipt'.owned[x].id, x)
    BY <1>1, <2>1 DEF WorldInv, IdsNameOne
  <2> QED BY <2>2 DEF WorldInv, IdsNameOne, Known
<1>9. OneEach'
  <2>1. \A o \in live : o.own => receipt'.owned[o.key].id = o.id
    <3> TAKE o \in live
    <3> HAVE o.own
    <3>1. o.key \in Resources
      BY WorldFacts
    <3>2. CASE o.key # k
      BY <1>1, <3>1, <3>2 DEF WorldInv, OneEach
    <3>3. CASE o.key = k /\ pending.action = "delete"
      BY <3>3, OwnIs
    <3>4. CASE o.key = k /\ pending.action = "create"
      BY <1>4, <3>4 DEF WorldInv, OneEach
    <3>5. CASE o.key = k /\ pending.action = "update"
      BY <1>5, <3>5 DEF WorldInv, OneEach, Creating
    <3> QED BY <1>2, <3>2, <3>3, <3>4, <3>5
  <2>2. receipt'.state # "removed"
    BY <1>1
  <2> QED BY <1>6, <2>1, <2>2 DEF WorldInv, OneEach
<1>10. GuardsStand'
  BY <1>1, <1>2 DEF WorldInv, GuardsStand, OwnedStands, Guarded, NothingAbove, Root!Own,
    Root!Objects, Creating
<1>11. ApprovalsStand'
  BY <1>1, <1>2 DEF WorldInv, ApprovalsStand, OwnedStands, Allowed
<1> QED BY <1>7, <1>8, <1>9, <1>10, <1>11 DEF WorldInv

\* Every step that journals may: nothing stands above what an uninstall removes, what
\* a creation needs was converged, and a deletion was approved.
LEMMA BeginsKeepWorld ==
  ASSUME ReconcilerInv, NEW x \in Resources, Root!Retire(x) \/ Root!Step(x) \/ Root!Uninstall(x)
  PROVE  WorldInv'
<1> USE DEF ReconcilerInv
<1>0. /\ UNCHANGED <<live, nextId, wire, gone, approved>>
      /\ run.pc # "idle" /\ run.pc \in {"retire", "loop"} /\ pending = Root!NoPending
  BY DEF Root!Retire, Root!Step, Root!Uninstall, Root!provider, Root!outside, RunInv, RunJournal
<1>q. ASSUME UNCHANGED Root!journal PROVE WorldInv'
  BY <1>0, <1>q DEF WorldInv, OwnedStands, IdsNameOne, OneEach, GuardsStand, ApprovalsStand,
    Root!OwnedKeys, Known, Creating, Root!Own, Root!Objects, Guarded, NothingAbove, Allowed,
    Root!journal
<1>1. CASE Root!Retire(x)
  <2>0. receipt.state \notin {"uninstalling", "removed"}
    BY <1>1 DEF Root!Retire, RunInv, RunJournal
  <2>1. CASE Root!Retired(x)
    <3>1. Root!Begin("apply", "delete", x, receipt.owned[x].hash, config[x] = NoHash)
      BY <1>1, <2>1 DEF Root!Retire
    <3>2. x \in Root!OwnedKeys
      BY <3>1 DEF Root!Begin
    <3>3. Allowed(x)
      BY <2>1 DEF Root!Retired, Root!Objects, Allowed
    <3> QED BY <1>0, <2>0, <3>1, <3>2, <3>3, OwnedHash, BeginKeepsWorld DEF WorldInv
  <2> QED BY <1>1, <1>q, <2>1 DEF Root!Retire
<1>2. CASE Root!Step(x)
  <2>0. run.pc = "loop" /\ run.op = "apply" /\ x \in run.todo
        /\ receipt.state \notin {"uninstalling", "removed"} /\ Root!Scheduled(x)
    BY <1>2 DEF Root!Step, Root!First, RunInv, RunJournal, RunPrunes
  <2>1. CASE UNCHANGED Root!journal
    BY <2>1, <1>q
  <2>2. CASE /\ Root!Change(x) = run.read[x]
             /\ Root!Change(x).action # "delete" => Root!Converged(x)
             /\ Root!Begin("apply", Root!Change(x).action, x,
                   IF Root!Change(x).action = "delete" THEN receipt.owned[x].hash ELSE config[x],
                   Root!Change(x).action = "delete")
    <3>1. /\ Root!Change(x).action \in {"create", "update", "delete"}
          /\ Root!Change(x).action = "delete" => run.prune
      BY <2>0, <2>2, ScheduledActions
    <3>2. Root!Change(x).action = "delete" => x \in Root!OwnedKeys
      BY <2>2 DEF Root!Begin
    <3>3. (IF Root!Change(x).action = "delete" THEN receipt.owned[x].hash ELSE config[x]) \in Hashes
      BY <3>1, <3>2, OwnedHash, ChangeSays, WorldFacts DEF WorldInv
    <3>4. Root!Change(x).action = "delete" => Allowed(x)
      BY <2>0, <3>1, ChangeSays DEF RunInv, RunPrunes
    <3>5. Root!Change(x).action = "create" => Guarded(x)
      <4> SUFFICES ASSUME Root!Change(x).action = "create", NEW y \in Required,
                          RootRank[y] < RootRank[x]
                   PROVE  Root!Own(y) # {}
        BY DEF Guarded
      <4>1. y \in Resources /\ config[y] # NoHash
        BY ReconcilerBounds, WorldFacts
      <4>2. Root!Change(y).action = "noop"
        BY <2>2, <4>1 DEF Root!Converged
      <4> QED BY <4>1, <4>2, ChangeSays
    <3> QED BY <1>0, <2>0, <2>2, <3>1, <3>3, <3>4, <3>5, BeginKeepsWorld
  <2> QED BY <1>2, <2>1, <2>2 DEF Root!Step
<1>3. CASE Root!Uninstall(x)
  <2>0. /\ x \in Root!Highest(run.todo) /\ run.op = "uninstall" /\ run.pc = "loop"
        /\ receipt.state \notin {"none", "removed"}
    BY <1>3 DEF Root!Uninstall, RunInv, RunJournal
  <2>1. x \in Root!OwnedKeys /\ Root!Begin("uninstall", "delete", x, receipt.owned[x].hash, FALSE)
    BY <1>3 DEF Root!Uninstall, Root!Begin
  <2>2. NothingAbove(x)
    <3> SUFFICES ASSUME NEW y \in Resources, RootRank[x] < RootRank[y] PROVE Root!Own(y) = {}
      BY DEF NothingAbove
    <3>1. RootRank[x] \in Nat /\ RootRank[y] \in Nat
      BY ReconcilerBounds
    <3>2. y \notin run.todo
      BY <2>0, <3>1 DEF Root!Highest
    <3> QED BY <2>0, <3>2 DEF RunInv, RunRemoves
  <2>3. \A y \in Resources : Allowed(y)
    BY <2>0 DEF RunInv, RunRemoves
  <2> QED BY <1>0, <2>0, <2>1, <2>2, <2>3, OwnedHash, BeginKeepsWorld DEF WorldInv
<1> QED BY <1>1, <1>2, <1>3

\* What a run read before it commits.
LEMMA OutcomeRead ==
  ASSUME Root!TypeOK, pending # Root!NoPending,
         IF pending.action = "delete" THEN Root!Objects(pending.key) = {}
         ELSE Root!Change(pending.key).action = "noop" /\ config[pending.key] = pending.hash
  PROVE  /\ pending.action = "delete" => Root!Own(pending.key) = {}
         /\ pending.action # "delete" =>
              \E o \in Root!Own(pending.key) : o.id = Root!Change(pending.key).id
BY JournalFacts, ChangeSays DEF Root!Own

\* Every step that commits has read the outcome.
LEMMA CommitsKeepWorld ==
  ASSUME ReconcilerInv, Root!RecoverCommit \/ Root!RetireCommit \/ Root!Drop \/ Root!Verify
  PROVE  WorldInv'
<1> USE DEF ReconcilerInv
<1>0. /\ UNCHANGED <<live, nextId, wire, gone, approved>> /\ Root!NoId \in Ids
      /\ pending # Root!NoPending /\ pending.key \in Resources
      /\ Root!Change(pending.key).id \in Ids
  <2>1. pending # Root!NoPending
    BY DEF Root!RecoverCommit, Root!RetireCommit, Root!Drop, Root!Verify, RunInv, RunJournal,
      Working
  <2> QED BY <2>1, JournalFacts, ChangeSays
          DEF Root!RecoverCommit, Root!RetireCommit, Root!Drop, Root!Verify, Root!provider,
            Root!outside, Ids, Root!NoId
<1>1. CASE Root!RecoverCommit
  BY <1>0, <1>1, OutcomeRead, CommitKeepsWorld DEF Root!RecoverCommit
<1>2. CASE Root!RetireCommit
  <2>1. pending.action = "delete" /\ Root!Own(pending.key) = {} /\ Root!Commit(Root!NoId)
    BY <1>2 DEF Root!RetireCommit, RunInv, RunJournal, Root!Own
  <2> QED BY <1>0, <2>1, CommitKeepsWorld
<1>3. CASE Root!Drop
  <2>1. pending.action = "delete" /\ Root!Own(pending.key) = {} /\ Root!Commit(Root!NoId)
    BY <1>3 DEF Root!Drop, RunInv, RunJournal, RunRemoves
  <2> QED BY <1>0, <2>1, CommitKeepsWorld
<1>4. CASE Root!Verify
  BY <1>0, <1>4, OutcomeRead, CommitKeepsWorld DEF Root!Verify
<1> QED BY <1>1, <1>2, <1>3, <1>4

\* With no action journaled, whatever stands is owned.
LEMMA OwnedIfStanding ==
  ASSUME ReconcilerInv, pending = Root!NoPending, NEW o \in live, o.own
  PROVE  receipt.owned[o.key].id = o.id /\ o.key \in Root!OwnedKeys
<1>1. receipt.owned[o.key].id = o.id /\ o.id # Root!NoId /\ o.key \in Resources
  BY WorldFacts DEF ReconcilerInv, WorldInv, OneEach, IdsNameOne, Creating, Root!NoPending
<1> QED BY <1>1 DEF Root!OwnedKeys, Root!NotOwned

\* The steps that change the receipt alone: its state, never what it owns.
LEMMA ReceiptStepsKeepWorld ==
  ASSUME ReconcilerInv,
         Root!Approve \/ Root!Finish \/ Root!Preview \/ Root!Remove \/ Root!NotSubmitted
  PROVE  WorldInv'
<1> USE DEF ReconcilerInv
<1>0. /\ UNCHANGED <<config, live, nextId, wire, gone>> /\ receipt \in Receipts
  BY Typing DEF Root!Approve, Root!Finish, Root!Preview, Root!Remove, Root!NotSubmitted,
    Root!provider, Root!outside
\* The state of the receipt changes only so, and more may be approved.
<1>q. ASSUME receipt'.owned = receipt.owned, approved \subseteq approved', UNCHANGED pending,
             \/ receipt'.state = receipt.state
             \/ /\ pending = Root!NoPending /\ receipt'.state \in {"ready", "removed"}
                /\ receipt.state # "removed"
                /\ receipt'.state = "ready" => receipt.state # "uninstalling"
                /\ receipt'.state = "removed" => \A o \in live : ~o.own
      PROVE  WorldInv'
  <2>1. pending = Root!NoPending <=> pending.type = "none"
    BY JournalFacts
  <2>2. OwnedStands'
    BY <1>q, <2>1 DEF WorldInv, OwnedStands, Root!OwnedKeys
  <2>3. IdsNameOne'
    BY <1>0, <1>q DEF WorldInv, IdsNameOne, Known
  <2>4. OneEach'
    BY <1>0, <1>q DEF WorldInv, OneEach, Creating, Root!Own, Root!Objects
  <2>5. GuardsStand'
    <3>1. (\A q \in wire : q.action = "delete" /\ q.key \in Required =>
             receipt.state \in {"uninstalling", "removed"} /\ NothingAbove(q.key))'
      BY <1>0, <1>q DEF WorldInv, GuardsStand, NothingAbove, Root!Own, Root!Objects
    <3> QED BY <1>0, <1>q, <3>1 DEF WorldInv, GuardsStand, Guarded, NothingAbove, Creating,
          Root!Own, Root!Objects
  <2>6. ApprovalsStand'
    BY <1>0, <1>q DEF WorldInv, ApprovalsStand, Allowed
  <2> QED BY <2>2, <2>3, <2>4, <2>5, <2>6 DEF WorldInv
<1>1. CASE Root!Approve
  <2>1. receipt.state \notin {"uninstalling", "removed"} /\ pending = Root!NoPending
    BY <1>1 DEF Root!Approve, RunInv, RunJournal
  <2>2. /\ receipt'.owned = receipt.owned
        /\ receipt'.state = receipt.state \/ receipt'.state = "ready"
    BY <1>0, <1>1 DEF Root!Approve, Receipts
  <2>3. approved \subseteq approved'
    BY <1>1 DEF Root!Approve
  <2> QED BY <1>1, <1>q, <2>1, <2>2, <2>3 DEF Root!Approve
<1>2. CASE Root!Finish
  <2>1. receipt'.owned = receipt.owned /\ receipt'.state = receipt.state
    BY <1>0, <1>2 DEF Root!Finish, Receipts
  <2> QED BY <1>2, <1>q, <2>1 DEF Root!Finish
<1>3. CASE Root!Preview
  BY <1>3, <1>q DEF Root!Preview, Root!journal
<1>4. CASE Root!Remove
  <2>1. pending = Root!NoPending /\ receipt.state # "removed"
    BY <1>4 DEF Root!Remove, RunInv, RunJournal
  <2>2. \A o \in live : ~o.own
    BY <1>4, <2>1, OwnedIfStanding, WorldFacts DEF Root!Remove
  <2>3. receipt'.owned = receipt.owned /\ receipt'.state = "removed"
    BY <1>0, <1>4 DEF Root!Remove, Receipts
  <2> QED BY <1>4, <1>q, <2>1, <2>2, <2>3 DEF Root!Remove
<1>5. CASE Root!NotSubmitted
  <2>1. /\ pending.type = "apply" /\ run.pc = "send" /\ receipt.state = "installing"
        /\ receipt'.owned = receipt.owned /\ receipt'.state = "ready"
        /\ pending' = Root!NoPending /\ UNCHANGED approved
    BY <1>0, <1>5 DEF Root!NotSubmitted, Receipts, WorldInv, OwnedStands
  <2>2. \A q \in wire : q.action # "create"
    BY <2>1 DEF WorldInv, OneEach, RunInv, RunSends
  <2>3. Creating => Root!Own(pending.key) = {}
    BY <2>1 DEF RunInv, RunSends
  <2>4. pending'.type = "none"
    BY <2>1 DEF Root!NoPending
  <2>5. OwnedStands'
    BY <2>1, <2>4 DEF WorldInv, OwnedStands
  <2>6. IdsNameOne'
    BY <1>0, <2>1 DEF WorldInv, IdsNameOne, Known
  <2>7. OneEach'
    BY <1>0, <2>1, <2>2, <2>3, OwnIs DEF WorldInv, OneEach
  <2>8. GuardsStand'
    BY <1>0, <2>1, <2>4 DEF WorldInv, GuardsStand, Guarded, NothingAbove, Creating, Root!Own,
      Root!Objects
  <2>9. ApprovalsStand'
    BY <1>0, <2>1 DEF WorldInv, ApprovalsStand, Allowed
  <2> QED BY <2>5, <2>6, <2>7, <2>8, <2>9 DEF WorldInv
<1> QED BY <1>1, <1>2, <1>3, <1>4, <1>5

\* A request is sent for what is journaled, to an object that was just read.
LEMMA SendKeepsWorld == ASSUME ReconcilerInv, Root!Send PROVE WorldInv'
<1> USE DEF ReconcilerInv
<1> DEFINE s == [run |-> runs, op |-> pending.op, action |-> pending.action, key |-> pending.key,
                 id |-> run.id, hash |-> pending.hash]
<1>0. /\ UNCHANGED <<config, live, nextId, receipt, pending, gone, approved>>
      /\ wire' = wire \cup {s} /\ run.pc = "send" /\ pending # Root!NoPending /\ Root!Submits
  BY DEF Root!Send, Root!journal, Root!outside, RunInv, RunJournal, Working
<1>1. /\ pending.key \in Resources /\ pending.type \in {"apply", "uninstall"}
      /\ pending.action \in {"create", "update", "delete"}
  BY <1>0, JournalFacts
<1>2. pending.action # "create" =>
        /\ run.id = receipt.owned[pending.key].id
        /\ \E o \in live : o.own /\ o.key = pending.key /\ o.id = run.id
  BY <1>0 DEF Root!Submits, Root!Objects
<1>3. OwnedStands'
  BY <1>0 DEF WorldInv, OwnedStands, Root!OwnedKeys
<1>4. IdsNameOne'
  <2>1. pending.action # "create" => Known(run.id, pending.key)
    BY <1>1, <1>2 DEF WorldInv, IdsNameOne
  <2> QED BY <1>0, <2>1 DEF WorldInv, IdsNameOne, Known
<1>5. OneEach'
  <2>1. pending.action = "create" =>
          Creating /\ Root!Own(pending.key) = {} /\ \A q \in wire : q.action # "create"
    BY <1>0, <1>1 DEF RunInv, RunSends, Creating, WorldInv, OwnedStands
  <2> QED BY <1>0, <2>1 DEF WorldInv, OneEach, Creating, Root!Own, Root!Objects
<1>6. GuardsStand'
  <2>1. pending.action = "delete" /\ pending.key \in Required =>
          receipt.state \in {"uninstalling", "removed"} /\ NothingAbove(pending.key)
    BY <1>0, <1>1 DEF RunInv, RunSends, WorldInv, OwnedStands, GuardsStand
  <2>2. \A q \in wire' : q.action = "delete" /\ q.key \in Required =>
          receipt.state \in {"uninstalling", "removed"} /\ NothingAbove(q.key)
    BY <1>0, <2>1 DEF WorldInv, GuardsStand
  <2> QED BY <1>0, <2>2 DEF WorldInv, GuardsStand, Guarded, NothingAbove, Creating, Root!Own,
        Root!Objects
<1>7. ApprovalsStand'
  <2>1. pending.action = "delete" => run.id \in approved
    BY <1>0, <1>2 DEF WorldInv, ApprovalsStand, Allowed
  <2> QED BY <1>0, <2>1 DEF WorldInv, ApprovalsStand, Allowed
<1> QED BY <1>3, <1>4, <1>5, <1>6, <1>7 DEF WorldInv

(* ------------------------- what happens to objects ----------------------- *)

\* Nothing new of this installation stands, and what else is new is known by a new
\* identifier; what is gone of a guard is accounted for.
Shrinks ==
  /\ \A n \in live' : n.own => \E o \in live : o.own /\ o.key = n.key /\ o.id = n.id
  /\ \A n, m \in live' : n.id = m.id => n = m
  /\ \A n \in live' :
       \/ \E o \in live : o.key = n.key /\ o.id = n.id
       \/ /\ n.id = n.key \/ (n.id \in Nat /\ nextId <= n.id /\ n.id < nextId')
          /\ n.id # Root!NoId
  /\ nextId' \in Nat /\ nextId <= nextId'
  /\ \A y \in Required : Root!Own(y) # {} /\ Root!Own(y)' = {} =>
       y \in gone' \/ (receipt.state \in {"uninstalling", "removed"} /\ NothingAbove(y))
  /\ \A y \in gone : y \in gone' \/ Root!Own(y)' # {}

\* What is known stays known.
LEMMA KnownStays ==
  ASSUME Root!TypeOK, live' \subseteq LiveObject, Shrinks, NEW id \in Ids,
         NEW x \in Resources, Known(id, x)
  PROVE  Known(id, x)'
<1>1. id = x \/ (id \in Nat /\ id < nextId')
  BY WorldFacts DEF Known, Shrinks
<1>2. ASSUME NEW n \in live', n.id = id PROVE n.key = x
  <2>1. CASE \E o \in live : o.key = n.key /\ o.id = n.id
    BY <1>2, <2>1 DEF Known
  <2>2. CASE n.id = n.key
    <3>1. n.key \in Resources /\ (id \notin Nat \/ n.key \notin Nat)
      BY <1>2, <2>2, ReconcilerBounds DEF LiveObject
    <3> QED BY <1>2, <2>2, <3>1 DEF Known
  <2>3. CASE n.id \in Nat /\ nextId <= n.id
    BY <1>2, <2>3, ReconcilerBounds, WorldFacts DEF Known
  <2> QED BY <2>1, <2>2, <2>3 DEF Shrinks
<1> QED BY <1>1, <1>2 DEF Known

\* And the invariant outlasts it.
LEMMA ShrinkingKeepsWorld ==
  ASSUME ReconcilerInv, Shrinks, live' \subseteq LiveObject, wire' \subseteq wire,
         UNCHANGED <<receipt, pending, approved>>
  PROVE  /\ WorldInv'
         /\ \A x \in Resources : Root!Own(x) = {} => Root!Own(x)' = {}
         /\ \A x \in Resources : Allowed(x) => Allowed(x)'
<1> USE DEF ReconcilerInv
<1>0. /\ \A x : Root!Own(x) = {} => Root!Own(x)' = {}
      /\ \A x : Allowed(x) => Allowed(x)'
      /\ \A x \in Resources : NothingAbove(x) => NothingAbove(x)'
      /\ \A x \in Resources : Root!Own(x)' # {} => Root!Own(x) # {}
  BY DEF Shrinks, Root!Own, Root!Objects, Allowed, NothingAbove
<1>1. OwnedStands'
  BY DEF WorldInv, OwnedStands, Root!OwnedKeys
<1>2. IdsNameOne'
  <2>1. \A n \in live' : Known(n.id, n.key)' /\ n.id # Root!NoId
    <3> TAKE n \in live'
    <3>1. n.id \in Ids /\ n.key \in Resources
      BY DEF LiveObject
    <3>2. CASE \E o \in live : o.key = n.key /\ o.id = n.id
      BY <3>1, <3>2, KnownStays DEF WorldInv, IdsNameOne
    <3>3. CASE /\ n.id = n.key \/ (n.id \in Nat /\ nextId <= n.id /\ n.id < nextId')
               /\ n.id # Root!NoId
      <4>1. \A m \in live' : m.id = n.id => m = n
        BY DEF Shrinks
      <4> QED BY <3>3, <4>1 DEF Known
    <3> QED BY <3>2, <3>3 DEF Shrinks
  <2>2. \A x \in Resources : receipt.owned[x].id = Root!NoId \/ Known(receipt.owned[x].id, x)'
    BY JournalFacts, KnownStays DEF WorldInv, IdsNameOne
  <2>3. \A q \in wire' : q.action # "create" => Known(q.id, q.key)'
    BY WorldFacts, KnownStays DEF WorldInv, IdsNameOne
  <2>4. \A n, m \in live' : n.id = m.id => n = m
    BY DEF Shrinks
  <2> QED BY <2>1, <2>2, <2>3, <2>4 DEF IdsNameOne
<1>3. OneEach'
  <2>1. \A n, m \in live' : n.own /\ m.own /\ n.key = m.key => n = m
    <3> TAKE n \in live', m \in live'
    <3> HAVE n.own /\ m.own /\ n.key = m.key
    <3>1. PICK o \in live : o.own /\ o.key = n.key /\ o.id = n.id
      BY DEF Shrinks
    <3>2. PICK p \in live : p.own /\ p.key = m.key /\ p.id = m.id
      BY DEF Shrinks
    <3>3. n.id = m.id
      BY <3>1, <3>2 DEF WorldInv, OneEach
    <3> QED BY <3>3 DEF Shrinks
  <2>2. \A q, p \in wire' : q.action = "create" /\ p.action = "create" => q = p
    BY DEF WorldInv, OneEach
  <2>3. \A q \in wire' : q.action = "create" =>
          Creating' /\ pending.op = q.op /\ pending.key = q.key /\ Root!Own(q.key)' = {}
    BY <1>0 DEF WorldInv, OneEach, Creating
  <2>4. \A n \in live' : n.own =>
          receipt.owned[n.key].id = n.id \/ (Creating' /\ pending.key = n.key)
    BY DEF WorldInv, OneEach, Creating, Shrinks
  <2>5. receipt.state = "removed" => pending = Root!NoPending /\ \A n \in live' : ~n.own
    BY DEF WorldInv, OneEach, Shrinks
  <2> QED BY <2>1, <2>2, <2>3, <2>4, <2>5 DEF OneEach
<1>4. GuardsStand'
  <2>1. \A x \in Resources : Guarded(x) =>
          Guarded(x)' \/ (receipt.state \in {"uninstalling", "removed"} /\ Root!Own(x) = {})
    <3> TAKE x \in Resources
    <3> HAVE Guarded(x)
    <3>1. ASSUME ~Guarded(x)'
          PROVE  receipt.state \in {"uninstalling", "removed"} /\ Root!Own(x) = {}
      <4>1. PICK y \in Required : RootRank[y] < RootRank[x] /\ Root!Own(y)' = {} /\ y \notin gone'
        BY <3>1 DEF Guarded
      <4>2. Root!Own(y) # {}
        BY <4>1 DEF Guarded, Shrinks
      <4>3. receipt.state \in {"uninstalling", "removed"} /\ NothingAbove(y)
        BY <4>1, <4>2 DEF Shrinks
      <4> QED BY <4>1, <4>3 DEF NothingAbove
    <3> QED BY <3>1
  <2>2. \A x \in Resources : Root!Own(x)' # {} => Guarded(x)'
    BY <1>0, <2>1 DEF WorldInv, GuardsStand
  <2>3. Creating' => Guarded(pending.key)'
    BY <2>1, JournalFacts DEF WorldInv, GuardsStand, OwnedStands, Creating, Root!NoPending
  <2>4. \A q \in wire' : q.action = "delete" /\ q.key \in Required =>
          receipt.state \in {"uninstalling", "removed"} /\ NothingAbove(q.key)'
    BY <1>0, WorldFacts DEF WorldInv, GuardsStand
  <2>5. pending.type = "uninstall" => NothingAbove(pending.key)'
    BY <1>0, JournalFacts DEF WorldInv, GuardsStand, Root!NoPending
  <2> QED BY <2>2, <2>3, <2>4, <2>5 DEF GuardsStand, Guarded
<1>5. ApprovalsStand'
  BY <1>0 DEF WorldInv, ApprovalsStand, Allowed
<1> QED BY <1>0, <1>1, <1>2, <1>3, <1>4, <1>5 DEF WorldInv

\* A creation arrives and takes effect.
LEMMA CreationKeepsWorld ==
  ASSUME ReconcilerInv, live' \subseteq LiveObject, NEW q \in wire, q.action = "create",
         \A o \in live : o.id # Root!Identifier(q.key),
         live' = live \cup {[key |-> q.key, id |-> Root!Identifier(q.key), hash |-> q.hash,
                             own |-> TRUE]},
         Root!HandOut(q.key), wire' = wire \ {q}, UNCHANGED <<receipt, pending, approved>>,
         gone' = {x \in gone : \A o \in live' : o.own => o.key # x}
  PROVE  /\ WorldInv' /\ Creating /\ pending.key = q.key
         /\ \A x \in Resources \ {q.key} : Root!Own(x) = {} => Root!Own(x)' = {}
         /\ \A x \in Resources \ {q.key} : Allowed(x) => Allowed(x)'
<1> USE DEF ReconcilerInv
<1>p. PICK n : n = [key |-> q.key, id |-> Root!Identifier(q.key), hash |-> q.hash, own |-> TRUE]
  OBVIOUS
<1>0. /\ q.key \in Resources /\ Creating /\ pending.key = q.key /\ pending.op = q.op
      /\ Root!Own(q.key) = {} /\ n.key = q.key /\ n.id = Root!Identifier(q.key) /\ n.own
      /\ pending # Root!NoPending /\ pending.type = "apply" /\ receipt.state = "installing"
      /\ \A p \in wire : p.action = "create" => p = q
  BY <1>p, WorldFacts DEF WorldInv, OneEach, OwnedStands, Creating, Root!NoPending
<1>1. /\ Root!Identifier(q.key) \in Ids /\ Root!Identifier(q.key) # Root!NoId
      /\ nextId' \in Nat /\ nextId <= nextId' /\ nextId \in Nat
      /\ \/ Root!Identifier(q.key) = q.key
         \/ Root!Identifier(q.key) = nextId /\ Root!Identifier(q.key) < nextId'
  BY <1>0, IdentifierTyped, WorldFacts
<1>2. \A id \in Ids, x \in Resources : Known(id, x) => Known(id, x)'
  <2> TAKE id \in Ids, x \in Resources
  <2> HAVE Known(id, x)
  <2>1. id = Root!Identifier(q.key) => x = q.key
    BY <1>0, <1>1, ReconcilerBounds DEF Known
  <2> QED BY <1>0, <1>1, <2>1, ReconcilerBounds DEF Known
<1>n. /\ live' = live \cup {n} /\ n \in live'
      /\ \A o \in live : o.id # n.id
  BY <1>p
<1>3. Known(n.id, n.key)'
  <2>1. n.id = n.key \/ (n.id \in Nat /\ n.id < nextId')
    BY <1>0, <1>1
  <2>2. \A o \in live' : o.id = n.id => o.key = n.key
    BY <1>n
  <2> QED BY <2>1, <2>2 DEF Known
<1>4. OwnedStands'
  BY DEF WorldInv, OwnedStands, Root!OwnedKeys
<1>5. IdsNameOne'
  <2>1. \A o \in live' : Known(o.id, o.key)' /\ o.id # Root!NoId
    <3>1. \A o \in live : Known(o.id, o.key)' /\ o.id # Root!NoId
      BY <1>2, WorldFacts DEF WorldInv, IdsNameOne
    <3>2. n.id # Root!NoId
      BY <1>0, <1>1
    <3> QED BY <1>n, <1>3, <3>1, <3>2
  <2>2. \A x \in Resources : receipt.owned[x].id = Root!NoId \/ Known(receipt.owned[x].id, x)'
    BY <1>2, JournalFacts DEF WorldInv, IdsNameOne
  <2>3. \A p \in wire' : p.action # "create" => Known(p.id, p.key)'
    BY <1>2, WorldFacts DEF WorldInv, IdsNameOne
  <2>4. \A o, m \in live' : o.id = m.id => o = m
    BY <1>n DEF WorldInv, IdsNameOne
  <2> QED BY <2>1, <2>2, <2>3, <2>4 DEF IdsNameOne
<1>6. OneEach'
  <2>1. \A o, m \in live' : o.own /\ m.own /\ o.key = m.key => o = m
    <3>1. \A o \in live : ~(o.own /\ o.key = n.key)
      BY <1>0, OwnIs
    <3> QED BY <1>n, <3>1 DEF WorldInv, OneEach
  <2>2. \A p \in wire' : p.action # "create"
    BY <1>0
  <2>3. \A o \in live' : o.own =>
          receipt.owned[o.key].id = o.id \/ (Creating' /\ pending.key = o.key)
    BY <1>0, <1>n DEF WorldInv, OneEach, Creating
  <2> QED BY <1>0, <2>1, <2>2, <2>3 DEF OneEach
<1>7. \A x : /\ Root!Own(x) # {} => Root!Own(x)' # {}
             /\ Root!Own(x)' # {} => Root!Own(x) # {} \/ x = q.key
  BY <1>0, <1>n DEF Root!Own, Root!Objects
<1>8. GuardsStand'
  <2>1. \A x \in Resources : Guarded(x) => Guarded(x)'
    <3>1. \A y \in gone : y \in gone' \/ Root!Own(y)' # {}
      BY DEF Root!Own, Root!Objects
    <3> QED BY <1>7, <3>1 DEF Guarded
  <2>2. \A x \in Resources : Root!Own(x)' # {} => Guarded(x)'
    BY <1>0, <1>7, <2>1 DEF WorldInv, GuardsStand
  <2>3. Creating' => Guarded(pending.key)'
    BY <1>0, <2>1 DEF WorldInv, GuardsStand
  <2>4. \A p \in wire' : ~(p.action = "delete" /\ p.key \in Required)
    BY <1>0 DEF WorldInv, GuardsStand
  <2> QED BY <1>0, <2>2, <2>3, <2>4 DEF GuardsStand, Guarded
<1>9. ApprovalsStand'
  <2>1. pending.action = "create"
    BY <1>0 DEF Creating
  <2> QED BY <1>0, <2>1 DEF WorldInv, ApprovalsStand, Allowed
<1>10. \A x \in Resources \ {q.key} :
         /\ Root!Own(x) = {} => Root!Own(x)' = {}
         /\ Allowed(x) => Allowed(x)'
  BY <1>0, <1>n, <1>7 DEF Allowed
<1> QED BY <1>0, <1>4, <1>5, <1>6, <1>8, <1>9, <1>10 DEF WorldInv

\* The objects with another hash for some of them.
LEMMA RehashedShrinks ==
  ASSUME ReconcilerInv, UNCHANGED nextId,
         gone \subseteq gone' \cup {x \in Resources : Root!Own(x)' # {}},
         \A n \in live' : \E o \in live : n.key = o.key /\ n.id = o.id /\ n.own = o.own,
         \A o \in live : \E n \in live' : n.key = o.key /\ n.id = o.id /\ n.own = o.own,
         \A n, m \in live' : n.id = m.id => n = m
  PROVE  Shrinks
<1>1. \A y : Root!Own(y) # {} => Root!Own(y)' # {}
  BY DEF Root!Own, Root!Objects
<1>2. nextId \in Nat
  BY WorldFacts DEF ReconcilerInv
<1> QED BY <1>1, <1>2 DEF Shrinks

\* Changes by others are of this kind,
LEMMA EditShrinks == ASSUME ReconcilerInv, Root!Edit PROVE Shrinks
<1> USE DEF ReconcilerInv
<1>0. /\ nextId \in Nat /\ \A o \in live : o.id \in Ids /\ o.own \in BOOLEAN /\ o \in LiveObject
      /\ \A o, n \in live : o.id = n.id => o = n
  BY WorldFacts DEF WorldInv, IdsNameOne
<1>1. CASE \E o \in live : /\ live' = live \ {o} /\ UNCHANGED nextId
                           /\ gone' = IF o.own THEN gone \cup {o.key} ELSE gone
  <2>1. PICK o \in live : /\ live' = live \ {o} /\ UNCHANGED nextId
                          /\ gone' = IF o.own THEN gone \cup {o.key} ELSE gone
    BY <1>1
  <2>2. \A y : Root!Own(y) # {} /\ Root!Own(y)' = {} => y \in gone'
    BY <2>1, OwnIs DEF Root!Own, Root!Objects
  <2>3. \A y \in gone : y \in gone'
    BY <2>1
  <2> QED BY <1>0, <2>1, <2>2, <2>3 DEF Shrinks
<1>2. CASE \E o \in live, h \in Hashes :
             /\ live' = (live \ {o}) \cup {[o EXCEPT !.hash = h]} /\ UNCHANGED <<nextId, gone>>
  <2>1. PICK o \in live, h \in Hashes :
             /\ live' = (live \ {o}) \cup {[o EXCEPT !.hash = h]} /\ UNCHANGED <<nextId, gone>>
    BY <1>2
  <2>2. PICK n : n = [o EXCEPT !.hash = h]
    OBVIOUS
  <2>3. n.key = o.key /\ n.id = o.id /\ n.own = o.own
    BY <1>0, <2>2 DEF LiveObject
  <2>4. live' = (live \ {o}) \cup {n}
    BY <2>1, <2>2
  <2>5. \A m, p \in live' : m.id = p.id => m = p
    BY <1>0, <2>3, <2>4
  <2>6. \A m \in live' : \E p \in live : m.key = p.key /\ m.id = p.id /\ m.own = p.own
    BY <2>3, <2>4
  <2>7. \A p \in live : \E m \in live' : m.key = p.key /\ m.id = p.id /\ m.own = p.own
    BY <2>3, <2>4
  <2> QED BY <2>1, <2>5, <2>6, <2>7, RehashedShrinks
<1>3. CASE \E x \in Resources :
             /\ \A o \in live : o.id # Root!Identifier(x)
             /\ live' = live \cup {[key |-> x, id |-> Root!Identifier(x),
                                    hash |-> NoHash, own |-> FALSE]}
             /\ Root!HandOut(x) /\ UNCHANGED gone
  <2>1. PICK x \in Resources :
             /\ \A o \in live : o.id # Root!Identifier(x)
             /\ live' = live \cup {[key |-> x, id |-> Root!Identifier(x),
                                    hash |-> NoHash, own |-> FALSE]}
             /\ Root!HandOut(x) /\ UNCHANGED gone
    BY <1>3
  <2>2. PICK n : n = [key |-> x, id |-> Root!Identifier(x), hash |-> NoHash, own |-> FALSE]
    OBVIOUS
  <2>3. /\ n.id # Root!NoId /\ nextId' \in Nat /\ nextId <= nextId' /\ ~n.own
        /\ n.id = n.key \/ (n.id \in Nat /\ nextId <= n.id /\ n.id < nextId')
        /\ live' = live \cup {n} /\ \A o \in live : o.id # n.id
    BY <1>0, <2>1, <2>2, IdentifierTyped
  <2>4. \A y : Root!Own(y) # {} => Root!Own(y)' # {}
    BY <2>3 DEF Root!Own, Root!Objects
  <2>5. \A m \in live' : m.own => \E o \in live : o.own /\ o.key = m.key /\ o.id = m.id
    BY <2>3
  <2>6. \A m, p \in live' : m.id = p.id => m = p
    BY <1>0, <2>3
  <2> QED BY <2>1, <2>3, <2>4, <2>5, <2>6 DEF Shrinks
<1> QED BY <1>1, <1>2, <1>3 DEF Root!Edit

\* A request that arrives, short of a creation that takes effect.
LEMMA LandShrinks ==
  ASSUME ReconcilerInv, NEW q \in wire, Root!Land(q),
         q.action = "create" => \E o \in live : o.id = Root!Identifier(q.key)
  PROVE  Shrinks
<1> USE DEF ReconcilerInv
<1>0. /\ nextId \in Nat /\ \A o \in live : o.id \in Ids /\ o.own \in BOOLEAN /\ o \in LiveObject
      /\ \A o, n \in live : o.id = n.id => o = n
      /\ q.key \in Resources /\ q.action \in {"create", "update", "delete"}
      /\ gone' = {x \in gone : \A o \in live' : o.own => o.key # x}
      /\ live' = Root!Effect(q)
  BY WorldFacts DEF WorldInv, IdsNameOne, Root!Land
<1>g. \A y \in gone : y \in gone' \/ Root!Own(y)' # {}
  BY <1>0 DEF Root!Own, Root!Objects
<1>1. CASE q.action = "create"
  <2>1. live' = live /\ Root!HandOut(q.key)
    BY <1>0, <1>1 DEF Root!Effect, Root!Land
  <2>2. nextId' \in Nat /\ nextId <= nextId'
    BY <1>0, <2>1, IdentifierTyped
  <2>3. \A y : Root!Own(y)' = Root!Own(y)
    BY <2>1 DEF Root!Own, Root!Objects
  <2> QED BY <1>0, <1>g, <2>1, <2>2, <2>3 DEF Shrinks
<1>2. CASE q.action = "update"
  <2>1. live' = {IF o.id = q.id THEN [o EXCEPT !.hash = q.hash] ELSE o : o \in live}
        /\ UNCHANGED nextId
    BY <1>0, <1>2 DEF Root!Effect, Root!Land
  <2> DEFINE new(o) == IF o.id = q.id THEN [o EXCEPT !.hash = q.hash] ELSE o
  <2>2. \A o \in live : new(o).key = o.key /\ new(o).id = o.id /\ new(o).own = o.own
    BY <1>0 DEF LiveObject
  <2>3. live' = {new(o) : o \in live}
    BY <2>1
  <2> HIDE DEF new
  <2>4. \A m \in live' : \E o \in live : m = new(o)
    BY <2>3
  <2>5. \A m, p \in live' : m.id = p.id => m = p
    BY <1>0, <2>2, <2>4
  <2>6. \A m \in live' : \E p \in live : m.key = p.key /\ m.id = p.id /\ m.own = p.own
    BY <2>2, <2>4
  <2>7. \A p \in live : \E m \in live' : m.key = p.key /\ m.id = p.id /\ m.own = p.own
    BY <2>2, <2>3
  <2>8. gone \subseteq gone' \cup {x \in Resources : Root!Own(x)' # {}}
    BY <1>g, Typing
  <2> QED BY <2>1, <2>5, <2>6, <2>7, <2>8, RehashedShrinks
<1>3. CASE q.action = "delete"
  <2>1. live' = {o \in live : o.id # q.id} /\ UNCHANGED nextId
    BY <1>0, <1>3 DEF Root!Effect, Root!Land
  <2>2. ASSUME NEW y \in Required, Root!Own(y) # {}, Root!Own(y)' = {}
        PROVE  receipt.state \in {"uninstalling", "removed"} /\ NothingAbove(y)
    <3>1. PICK o \in live : o.own /\ o.key = y /\ o.id = q.id
      BY <2>1, <2>2 DEF Root!Own, Root!Objects
    <3>2. q.key = y
      BY <1>3, <3>1 DEF WorldInv, IdsNameOne, Known
    <3> QED BY <1>3, <3>2 DEF WorldInv, GuardsStand
  <2> QED BY <1>0, <1>g, <2>1, <2>2 DEF Shrinks
<1> QED BY <1>0, <1>1, <1>2, <1>3

\* What others do leaves a run where it is.
LEMMA RunStands ==
  ASSUME ReconcilerInv, UNCHANGED <<config, receipt, pending, approved>>, wire' \subseteq wire,
         run' = run \/ (run.pc = "sent" /\ Root!Go("verify")),
         NEW E, E # {} => /\ E = {pending.key} /\ Creating
                          /\ \E q \in wire : q.action = "create",
         \A x \in Resources \ E : Root!Own(x) = {} => Root!Own(x)' = {},
         \A x \in Resources \ E : Allowed(x) => Allowed(x)'
  PROVE  RunInv'
<1> USE DEF ReconcilerInv
<1>0. /\ run'.op = run.op /\ run'.prune = run.prune /\ run'.todo = run.todo /\ run'.read = run.read
      /\ run'.pc = run.pc \/ (run.pc = "sent" /\ run'.pc = "verify")
  BY Typing DEF Root!Go, RunRecord
<1>1. RunJournal'
  BY <1>0 DEF RunInv, RunJournal, Working, Creating
<1>2. pending.key \in Resources \/ pending = Root!NoPending
  BY JournalFacts
<1>3. RunSends'
  <2>1. CASE run.pc = "send" /\ Creating
    <3>1. \A q \in wire : q.action # "create"
      BY <2>1 DEF RunInv, RunSends
    <3>2. Root!Own(pending.key) = {} /\ pending.key \in Resources /\ E = {}
      BY <2>1, <3>1, <1>2 DEF RunInv, RunSends, Creating, Root!NoPending
    <3>3. Root!Own(pending.key)' = {}
      BY <3>2
    <3> QED BY <1>0, <2>1, <3>1, <3>3 DEF RunInv, RunSends, Creating
  <2>2. CASE ~(run.pc = "send" /\ Creating)
    BY <1>0, <2>2 DEF RunInv, RunSends, Creating
  <2> QED BY <2>1, <2>2
<1>4. RunRemoves'
  <2>1. run.op = "uninstall" /\ run.pc # "idle" => E = {}
    BY DEF RunInv, RunJournal, Creating
  <2>2. run.pc = "drop" => run.op = "uninstall" /\ pending.key \in Resources
    BY <1>2 DEF RunInv, RunJournal
  <2> QED BY <1>0, <2>1, <2>2 DEF RunInv, RunRemoves, Working
<1>5. RunPrunes'
  <2>1. ASSUME run.op = "apply", run.pc \in {"created", "retire", "retiring", "loop"} \cup Working,
               NEW x \in E
        PROVE  config[x] # NoHash
    <3>1. E = {pending.key} /\ Creating /\ x = pending.key
      BY <2>1
    <3>2. run.pc \in Working
      BY <2>1, <3>1 DEF RunInv, RunJournal, Creating, Root!NoPending
    <3> QED BY <2>1, <3>1, <3>2 DEF RunInv, RunPrunes
  <2>2. \A x : Root!Scheduled(x)' = Root!Scheduled(x)
    BY <1>0 DEF Root!Scheduled
  <2> QED BY <1>0, <2>1, <2>2 DEF RunInv, RunPrunes, Working, Creating
<1> QED BY <1>1, <1>3, <1>4, <1>5 DEF RunInv

\* What arrives, and what others do, keeps the invariant whole.
LEMMA OthersKeep ==
  ASSUME ReconcilerInv, Root!Edit \/ Root!Configure \/ \E q \in wire : Root!Land(q)
  PROVE  WorldInv' /\ RunInv'
<1> USE DEF ReconcilerInv
<1>0. live' \subseteq LiveObject
  <2>1. Root!TypeOK'
    BY OthersKeepTypes
  <2>2. LiveObject' = LiveObject
    BY DEF LiveObject, Ids
  <2> QED BY <2>1 DEF Root!TypeOK, LiveObject, Ids
<1>1. CASE Root!Edit
  <2>1. Shrinks /\ UNCHANGED <<config, receipt, pending, approved, wire, run>>
    BY <1>1, EditShrinks DEF Root!Edit, Root!journal
  <2> QED BY <1>0, <2>1, ShrinkingKeepsWorld, RunStands
<1>2. CASE Root!Configure
  <2>1. UNCHANGED <<live, nextId, wire, receipt, pending, approved, gone, run>> /\ run.pc = "idle"
    BY <1>2 DEF Root!Configure, Root!provider, Root!journal
  <2>2. WorldInv'
    BY <2>1 DEF WorldInv, OwnedStands, IdsNameOne, OneEach, GuardsStand, ApprovalsStand,
      Root!OwnedKeys, Known, Creating, Root!Own, Root!Objects, Guarded, NothingAbove, Allowed
  <2>3. RunInv'
    BY <2>1 DEF RunInv, RunJournal, RunSends, RunRemoves, RunPrunes, Creating, Working
  <2> QED BY <2>2, <2>3
<1>3. ASSUME NEW q \in wire, Root!Land(q) PROVE WorldInv' /\ RunInv'
  <2>0. /\ UNCHANGED <<config, receipt, pending, approved>> /\ wire' = wire \ {q}
        /\ run' = run \/ (run.pc = "sent" /\ Root!Go("verify"))
    BY <1>3 DEF Root!Land, Root!journal
  <2>1. CASE q.action = "create" => \E o \in live : o.id = Root!Identifier(q.key)
    <3>1. Shrinks
      BY <1>3, <2>1, LandShrinks
    <3> QED BY <1>0, <2>0, <3>1, ShrinkingKeepsWorld, RunStands
  <2>2. CASE q.action = "create" /\ \A o \in live : o.id # Root!Identifier(q.key)
    <3>1. /\ live' = live \cup {[key |-> q.key, id |-> Root!Identifier(q.key), hash |-> q.hash,
                                 own |-> TRUE]}
          /\ Root!HandOut(q.key) /\ gone' = {x \in gone : \A o \in live' : o.own => o.key # x}
      BY <1>3, <2>2 DEF Root!Land, Root!Effect
    <3>2. /\ WorldInv' /\ Creating /\ pending.key = q.key
          /\ \A x \in Resources \ {q.key} : Root!Own(x) = {} => Root!Own(x)' = {}
          /\ \A x \in Resources \ {q.key} : Allowed(x) => Allowed(x)'
      BY <1>0, <2>0, <2>2, <3>1, CreationKeepsWorld
    <3>3. RunInv'
      BY <2>0, <2>2, <3>2, RunStands
    <3> QED BY <3>2, <3>3
  <2> QED BY <2>1, <2>2
<1> QED BY <1>1, <1>2, <1>3

(* ---------------------------------- the run ------------------------------ *)

\* The lock is free.
LEMMA IdleIs == Root!Idle.pc = "idle" /\ Root!Idle.op = "none"
BY DEF Root!Idle

\* No run, no promise.
LEMMA IdleKeepsRun == ASSUME run' = Root!Idle PROVE RunInv'
BY IdleIs DEF RunInv, RunJournal, RunSends, RunRemoves, RunPrunes, Working

\* A run that only moves stays accounted for.
LEMMA MovesKeepRun == ASSUME ReconcilerInv, Moves PROVE RunInv'
<1> USE DEF ReconcilerInv
<1>0. /\ run \in RunRecord
      /\ UNCHANGED <<config, live, nextId, wire, receipt, pending, edits, approved, gone>>
      /\ pending = Root!NoPending <=> pending.type = "none"
  BY Typing, JournalFacts DEF Moves, Root!Start, Root!Stop, Root!Reread, Root!Schedule,
    Root!RetryApply, Root!RetryUninstall, Root!SendNothing, Root!provider, Root!journal,
    Root!outside
<1>s. /\ Creating' = Creating /\ \A x : Root!Own(x)' = Root!Own(x) /\ Allowed(x)' = Allowed(x)
  BY <1>0 DEF Creating, Root!Own, Root!Objects, Allowed
<1>1. ASSUME NEW op \in {"apply", "uninstall"}, NEW prune \in BOOLEAN, Root!Start(op, prune)
      PROVE  RunInv'
  <2>1. run'.pc = "begin" /\ run'.op = op
    <3>1. run' = [Root!Idle EXCEPT !.pc = "begin", !.op = op, !.prune = prune]
      BY <1>1 DEF Root!Start
    <3> QED BY <3>1, IdleTyped DEF RunRecord
  <2>2. /\ op = "apply" => receipt.state \notin {"removed", "uninstalling"}
        /\ op = "uninstall" => receipt.state \notin {"none", "removed"} /\ pending.type # "apply"
    BY <1>1 DEF Root!Start
  <2> QED BY <1>0, <2>1, <2>2 DEF RunInv, RunJournal, RunSends, RunRemoves, RunPrunes, Working
<1>2. CASE Root!Stop
  BY <1>2, IdleKeepsRun DEF Root!Stop
<1>3. CASE Root!Reread
  <2>1. /\ run'.pc = "retire" /\ run'.op = run.op /\ run'.prune = run.prune
        /\ run.pc = "created"
    BY <1>0, <1>3 DEF Root!Reread, RunRecord
  <2> QED BY <1>0, <1>s, <2>1 DEF RunInv, RunJournal, RunSends, RunRemoves, RunPrunes, Working
<1>4. CASE Root!Schedule
  <2>1. /\ run'.pc = "loop" /\ run'.op = run.op /\ run'.prune = run.prune /\ run'.read = run.read
        /\ run'.todo = {x \in Resources : Root!Scheduled(x)} /\ run.pc = "retire"
    BY <1>0, <1>4 DEF Root!Schedule, RunRecord
  <2>2. \A x : Root!Scheduled(x)' = Root!Scheduled(x)
    BY <2>1 DEF Root!Scheduled
  <2> QED BY <1>0, <1>s, <2>1, <2>2 DEF RunInv, RunJournal, RunSends, RunRemoves, RunPrunes, Working
<1>5. CASE Root!RetryApply
  <2>1. /\ run'.pc = "send" /\ run'.op = "retry" /\ run.pc = "begin" /\ run.op = "apply"
        /\ pending.type = "apply" /\ pending.action # "create"
        /\ Root!Change(pending.key).action = pending.action
    BY <1>0, <1>5 DEF Root!RetryApply, RunRecord
  <2>2. pending.action = "delete" => pending.key \notin Required
    BY <1>0, <2>1, JournalFacts, ChangeSays, WorldFacts
  <2> QED BY <1>0, <1>s, <2>1, <2>2 DEF RunInv, RunJournal, RunSends, RunRemoves, RunPrunes,
        Working, Creating
<1>6. CASE Root!RetryUninstall
  <2>1. /\ run'.pc = "send" /\ run'.op = "resume" /\ run.pc = "begin" /\ run.op = "uninstall"
        /\ pending.type = "uninstall"
    BY <1>0, <1>6 DEF Root!RetryUninstall, Root!SendTo, RunRecord
  <2> QED BY <1>0, <1>s, <2>1 DEF RunInv, RunJournal, RunSends, RunRemoves, RunPrunes, Working,
           Creating, WorldInv, OwnedStands
<1>7. CASE Root!SendNothing
  <2>1. /\ run'.pc = "verify" /\ run'.op = run.op /\ run'.prune = run.prune /\ run'.read = run.read
        /\ run'.todo = run.todo /\ run.pc = "send"
    BY <1>0, <1>7 DEF Root!SendNothing, Root!Go, RunRecord
  <2>2. \A x : Root!Scheduled(x)' = Root!Scheduled(x)
    BY <2>1 DEF Root!Scheduled
  <2> QED BY <1>0, <1>s, <2>1, <2>2 DEF RunInv, RunJournal, RunSends, RunRemoves, RunPrunes, Working
<1> QED BY <1>1, <1>2, <1>3, <1>4, <1>5, <1>6, <1>7 DEF Moves

\* So it does when it sends,
LEMMA SendKeepsRun == ASSUME ReconcilerInv, Root!Send PROVE RunInv'
<1> USE DEF ReconcilerInv
<1>1. /\ run \in RunRecord /\ UNCHANGED <<config, live, receipt, pending, approved>>
  BY Typing DEF Root!Send, Root!journal, Root!outside
<1>2. /\ run'.pc = "sent" /\ run'.op = run.op /\ run'.prune = run.prune /\ run'.read = run.read
      /\ run'.todo = run.todo /\ run.pc = "send"
  BY <1>1 DEF Root!Send, Root!Go, RunRecord
<1>3. \A x : Root!Scheduled(x)' = Root!Scheduled(x)
  BY <1>2 DEF Root!Scheduled
<1>4. /\ Creating' = Creating /\ \A x : Root!Own(x)' = Root!Own(x) /\ Allowed(x)' = Allowed(x)
  BY <1>1 DEF Creating, Root!Own, Root!Objects, Allowed
<1> QED BY <1>1, <1>2, <1>3, <1>4 DEF RunInv, RunJournal, RunSends, RunRemoves, RunPrunes, Working

\* when it journals,
LEMMA BeginsKeepRun ==
  ASSUME ReconcilerInv, NEW x \in Resources, Root!Retire(x) \/ Root!Step(x) \/ Root!Uninstall(x)
  PROVE  RunInv'
<1> USE DEF ReconcilerInv
<1>0. /\ run \in RunRecord /\ UNCHANGED <<config, live, nextId, wire, approved>>
      /\ pending = Root!NoPending /\ pending.type = "none" /\ ~Creating
  <2>1. pending = Root!NoPending
    BY DEF Root!Retire, Root!Step, Root!Uninstall, RunInv, RunJournal
  <2> QED BY <2>1, Typing DEF Root!Retire, Root!Step, Root!Uninstall, Root!provider, Root!outside,
        Creating, Root!NoPending
<1>s. \A y : Root!Own(y)' = Root!Own(y) /\ Allowed(y)' = Allowed(y)
  BY <1>0 DEF Root!Own, Root!Objects, Allowed
<1>1. CASE Root!Retire(x)
  <2>0. /\ run.pc = "retire" /\ run.op = "apply" /\ run'.op = run.op /\ run'.prune = run.prune
        /\ run'.pc = IF Root!Retired(x) THEN "retiring" ELSE "retire"
        /\ receipt.state \notin {"uninstalling", "removed"}
    BY <1>0, <1>1 DEF Root!Retire, RunRecord, RunInv, RunJournal
  <2>1. CASE Root!Retired(x)
    <3>1. /\ Root!Begin("apply", "delete", x, receipt.owned[x].hash, config[x] = NoHash)
          /\ x \in Root!OwnedKeys
      BY <1>1, <2>1 DEF Root!Retire, Root!Begin
    <3>2. /\ pending'.type = "apply" /\ pending'.action = "delete" /\ receipt'.state = "installing"
      BY <3>1, OwnedHash, BeginSays DEF WorldInv
    <3> QED BY <1>0, <1>s, <2>0, <2>1, <3>2
            DEF RunInv, RunJournal, RunSends, RunRemoves, RunPrunes, Working, Creating,
              Root!NoPending
  <2>2. CASE ~Root!Retired(x)
    <3>1. UNCHANGED Root!journal
      BY <1>1, <2>2 DEF Root!Retire
    <3> QED BY <1>0, <1>s, <2>0, <2>2, <3>1
            DEF RunInv, RunJournal, RunSends, RunRemoves, RunPrunes, Working, Creating, Root!journal
  <2> QED BY <2>1, <2>2
<1>2. CASE Root!Step(x)
  <2>0. /\ run.pc = "loop" /\ run.op = "apply" /\ x \in run.todo
        /\ receipt.state \notin {"uninstalling", "removed"} /\ Root!Scheduled(x)
        /\ run.todo \subseteq Resources
    BY <1>0, <1>2 DEF Root!Step, Root!First, RunInv, RunJournal, RunPrunes, RunRecord
  <2>1. CASE Root!DoneWith(x) /\ UNCHANGED Root!journal
    <3>1. /\ run'.pc = "loop" /\ run'.op = run.op /\ run'.prune = run.prune /\ run'.read = run.read
          /\ run'.todo = run.todo \ {x}
      BY <1>0, <2>1 DEF Root!DoneWith, RunRecord
    <3>2. \A y : Root!Scheduled(y)' = Root!Scheduled(y)
      BY <3>1 DEF Root!Scheduled
    <3> QED BY <1>0, <1>s, <2>0, <2>1, <3>1, <3>2
            DEF RunInv, RunJournal, RunSends, RunRemoves, RunPrunes, Working, Creating, Root!journal
  <2>2. CASE /\ Root!Change(x) = run.read[x]
             /\ Root!Begin("apply", Root!Change(x).action, x,
                   IF Root!Change(x).action = "delete" THEN receipt.owned[x].hash ELSE config[x],
                   Root!Change(x).action = "delete")
             /\ Root!SendTo("apply", Root!Change(x).id)
    <3>1. Root!Change(x).action \in {"create", "update", "delete"}
      BY <2>0, <2>2, ScheduledActions
    <3>2. Root!Change(x).action = "delete" => x \in Root!OwnedKeys
      BY <2>2 DEF Root!Begin
    <3>3. (IF Root!Change(x).action = "delete" THEN receipt.owned[x].hash ELSE config[x]) \in Hashes
      BY <3>1, <3>2, OwnedHash, ChangeSays, WorldFacts DEF WorldInv
    <3>4. /\ pending'.type = "apply" /\ pending'.action = Root!Change(x).action /\ pending'.key = x
          /\ receipt'.state = "installing"
      BY <2>2, <3>1, <3>3, BeginSays
    <3>5. /\ run'.pc = "send" /\ run'.op = "apply" /\ run'.prune = run.prune
          /\ run'.read = run.read /\ run'.todo = run.todo
      BY <1>0, <2>2 DEF Root!SendTo, RunRecord
    <3>6. \A y : Root!Scheduled(y)' = Root!Scheduled(y)
      BY <3>5 DEF Root!Scheduled
    <3>7. /\ Root!Change(x).action = "create" => config[x] # NoHash /\ Root!Own(x) = {}
          /\ Root!Change(x).action = "delete" => x \notin Required
          /\ \A q \in wire : q.action # "create"
      BY <1>0, ChangeSays, WorldFacts DEF Root!Own, WorldInv, OneEach
    <3>8. RunJournal'
      BY <3>4, <3>5 DEF RunJournal, Working, Root!NoPending
    <3>9. RunSends'
      BY <1>0, <1>s, <3>4, <3>5, <3>7 DEF RunSends, Creating
    <3>10. RunRemoves'
      BY <3>5 DEF RunRemoves
    <3>11. RunPrunes'
      BY <1>0, <1>s, <2>0, <3>4, <3>5, <3>6, <3>7 DEF RunInv, RunPrunes, Creating, Working
    <3> QED BY <3>8, <3>9, <3>10, <3>11 DEF RunInv
  <2> QED BY <1>2, <2>1, <2>2 DEF Root!Step
<1>3. CASE Root!Uninstall(x)
  <2>0. run.op = "uninstall" /\ run.pc = "loop" /\ receipt.state \notin {"none", "removed"}
    BY <1>3 DEF Root!Uninstall, RunInv, RunJournal
  <2>1. x \in Root!OwnedKeys /\ Root!Begin("uninstall", "delete", x, receipt.owned[x].hash, FALSE)
    BY <1>3 DEF Root!Uninstall, Root!Begin
  <2>2. /\ pending'.type = "uninstall" /\ pending'.action = "delete" /\ pending'.key = x
        /\ receipt'.state = "uninstalling"
    BY <2>1, OwnedHash, BeginSays DEF WorldInv
  <2>3. /\ run'.op = "uninstall" /\ run'.todo = run.todo
        /\ \/ run'.pc = "drop" /\ Root!Own(x) = {}
           \/ run'.pc = "send"
    BY <1>0, <1>3, <2>0 DEF Root!Uninstall, Root!Go, Root!SendTo, RunRecord, Root!Own
  <2> QED BY <1>0, <1>s, <2>0, <2>2, <2>3
          DEF RunInv, RunJournal, RunSends, RunRemoves, RunPrunes, Working, Creating, Root!NoPending
<1> QED BY <1>1, <1>2, <1>3

\* when it commits,
LEMMA CommitsKeepRun ==
  ASSUME ReconcilerInv, Root!RecoverCommit \/ Root!RetireCommit \/ Root!Drop \/ Root!Verify
  PROVE  RunInv'
<1> USE DEF ReconcilerInv
<1>0. /\ run \in RunRecord /\ UNCHANGED <<config, live, nextId, wire, approved>>
      /\ pending # Root!NoPending /\ run.pc # "idle"
  <2>1. pending # Root!NoPending
    BY DEF Root!RecoverCommit, Root!RetireCommit, Root!Drop, Root!Verify, RunInv, RunJournal,
      Working
  <2> QED BY <2>1, Typing DEF Root!RecoverCommit, Root!RetireCommit, Root!Drop, Root!Verify,
        Root!provider, Root!outside
<1>s. \A y : Root!Own(y)' = Root!Own(y) /\ Allowed(y)' = Allowed(y)
  BY <1>0 DEF Root!Own, Root!Objects, Allowed
<1>j. /\ pending' = Root!NoPending /\ pending'.type = "none"
      /\ receipt'.state = IF pending.type = "uninstall" THEN "uninstalling" ELSE "ready"
      /\ pending.type \in {"apply", "uninstall"} /\ pending.key \in Resources
      /\ pending.type = "uninstall" => receipt.state = "uninstalling" /\ pending.action = "delete"
  <2>1. Root!Change(pending.key).id \in Ids /\ Root!NoId \in Ids /\ pending.key \in Resources
    BY <1>0, JournalFacts, ChangeSays DEF Ids, Root!NoId
  <2>2. \E id \in Ids : Root!Commit(id)
    BY <2>1, CommitsAre DEF Commits
  <2>3. /\ pending' = Root!NoPending
        /\ receipt'.state = IF pending.type = "uninstall" THEN "uninstalling" ELSE "ready"
    BY <1>0, <2>2, CommitSays
  <2> QED BY <1>0, <2>1, <2>3, JournalFacts DEF Root!NoPending, WorldInv, OwnedStands
<1>c. ~Creating'
  BY <1>j DEF Creating
<1>o. /\ run.op \in {"apply", "retry"} => pending.type = "apply"
      /\ run.op \in {"uninstall", "resume"} => pending.type = "uninstall"
      /\ run.op \in {"apply", "retry", "uninstall", "resume"}
  BY <1>0, <1>j, RunFacts DEF RunInv, RunJournal
<1>1. CASE Root!RecoverCommit
  <2>1. /\ run'.pc = "begin" /\ run.pc = "begin"
        /\ run'.op = IF pending.type = "uninstall" THEN "resume" ELSE run.op
    BY <1>0, <1>1 DEF Root!RecoverCommit, RunRecord
  <2>2. run.op # "retry"
    BY <2>1 DEF RunInv, RunJournal, Working
  <2> QED BY <1>j, <1>o, <2>1, <2>2 DEF RunInv, RunJournal, RunSends, RunRemoves, RunPrunes, Working
<1>2. CASE Root!RetireCommit
  <2>1. /\ run'.pc = "retire" /\ run.pc = "retiring" /\ run'.op = run.op /\ run'.prune = run.prune
        /\ run.op = "apply"
    BY <1>0, <1>2 DEF Root!RetireCommit, RunRecord, RunInv, RunJournal
  <2> QED BY <1>0, <1>j, <1>s, <1>o, <2>1
          DEF RunInv, RunJournal, RunSends, RunRemoves, RunPrunes, Working
<1>d. ASSUME Root!DoneWith(pending.key), run.pc \in {"drop", "verify"},
             run.op \in {"apply", "uninstall"},
             run.op = "uninstall" => Root!Own(pending.key) = {}
      PROVE  RunInv'
  <2>1. /\ run'.pc = "loop" /\ run'.op = run.op /\ run'.prune = run.prune /\ run'.read = run.read
        /\ run'.todo = run.todo \ {pending.key}
    BY <1>0, <1>d DEF Root!DoneWith, RunRecord
  <2>2. \A y : Root!Scheduled(y)' = Root!Scheduled(y)
    BY <2>1 DEF Root!Scheduled
  <2>3. RunJournal'
    BY <1>d, <1>j, <1>o, <2>1 DEF RunJournal, Working
  <2>4. RunRemoves'
    BY <1>d, <1>s, <2>1 DEF RunInv, RunRemoves, Working
  <2>5. RunPrunes'
    <3>1. run.op = "apply" => run.pc = "verify"
      BY <1>d DEF RunInv, RunJournal
    <3> QED BY <1>0, <1>d, <1>s, <2>1, <2>2, <3>1 DEF RunInv, RunPrunes, Working
  <2> QED BY <2>1, <2>3, <2>4, <2>5 DEF RunInv, RunSends
<1>3. CASE Root!Drop
  BY <1>3, <1>d DEF Root!Drop, RunInv, RunJournal, RunRemoves
<1>4. CASE Root!Verify
  <2>0. run.pc = "verify"
    BY <1>4 DEF Root!Verify
  <2>1. CASE run.op = "retry"
    BY <1>4, <2>1, IdleKeepsRun DEF Root!Verify
  <2>2. CASE run.op = "resume"
    <3>1. run'.pc = "begin" /\ run'.op = "resume"
      BY <1>0, <1>4, <2>2 DEF Root!Verify, Root!Go, RunRecord
    <3> QED BY <1>j, <1>o, <2>2, <3>1 DEF RunInv, RunJournal, RunSends, RunRemoves, RunPrunes,
          Working
  <2>3. CASE run.op \in {"apply", "uninstall"}
    <3>1. run.op = "uninstall" => Root!Own(pending.key) = {}
      BY <1>0, <1>4, <1>j, <1>o, OutcomeRead DEF Root!Verify
    <3> QED BY <1>4, <1>d, <2>0, <2>3, <3>1 DEF Root!Verify
  <2> QED BY <1>o, <2>1, <2>2, <2>3
<1> QED BY <1>1, <1>2, <1>3, <1>4

\* and when it changes the receipt alone; a preview or an approval covers what stands.
LEMMA ReceiptStepsKeepRun ==
  ASSUME ReconcilerInv,
         Root!Approve \/ Root!Finish \/ Root!Preview \/ Root!Remove \/ Root!NotSubmitted
  PROVE  RunInv'
<1> USE DEF ReconcilerInv
<1>0. /\ UNCHANGED <<config, live, nextId, wire>> /\ run \in RunRecord /\ receipt \in Receipts
      /\ Root!Plan \in Root!Plans
  BY Typing, PlanTyped DEF Root!Approve, Root!Finish, Root!Preview, Root!Remove,
    Root!NotSubmitted, Root!provider, Root!outside
<1>1. CASE Root!Approve
  <2>1. /\ run.pc = "begin" /\ run.op = "apply" /\ pending = Root!NoPending /\ pending' = pending
        /\ run'.pc \in {"created", "retire"} /\ run'.op = run.op /\ run'.prune = run.prune
    BY <1>0, <1>1 DEF Root!Approve, RunRecord
  <2>2. receipt'.state \notin {"uninstalling", "removed"}
    BY <1>0, <1>1, <2>1 DEF Root!Approve, Receipts, RunInv, RunJournal
  <2>3. ASSUME run.prune, NEW x \in Resources, config[x] = NoHash, NEW o \in live, o.own, o.key = x
        PROVE  o.id \in approved'
    <3>1. Root!Own(x) = {o}
      BY <2>3, OwnIs DEF WorldInv, OneEach
    <3>2. Root!Change(x).action = "delete" /\ Root!Change(x).id = o.id
      BY <2>3, <3>1, ChangeSays
    <3>3. x \in Root!Deletions(Root!Plan) /\ Root!Plan[x].id = o.id
      BY <3>2, PlanTyped DEF Root!Deletions
    <3> QED BY <1>1, <2>3, <3>3 DEF Root!Approve
  <2>4. \A x \in Resources : run.prune /\ config[x] = NoHash => Allowed(x)'
    BY <1>0, <2>3 DEF Allowed
  <2> QED BY <1>0, <2>1, <2>2, <2>4
          DEF RunInv, RunJournal, RunSends, RunRemoves, RunPrunes, Working, Root!NoPending
<1>2. CASE Root!Finish \/ Root!Remove \/ Root!NotSubmitted
  BY <1>2, IdleKeepsRun DEF Root!Finish, Root!Remove, Root!NotSubmitted
<1>3. CASE Root!Preview
  <2>1. /\ run.pc = "begin" /\ run.op \in {"uninstall", "resume"} /\ pending = Root!NoPending
        /\ UNCHANGED Root!journal
        /\ run'.pc = "loop" /\ run'.op = "uninstall" /\ run'.todo = Root!OwnedKeys
    BY <1>0, <1>3 DEF Root!Preview, RunRecord
  <2>2. receipt.state \notin {"none", "removed"}
    BY <2>1 DEF RunInv, RunJournal
  <2>3. \A x \in Resources \ Root!OwnedKeys : Root!Own(x) = {}
    BY <2>1, OwnedIfStanding, OwnIs
  <2>4. ASSUME NEW o \in live, o.own
        PROVE  o.id \in approved'
    <3>1. receipt.owned[o.key].id = o.id /\ o.key \in Root!OwnedKeys /\ o.key \in Resources
      BY <2>1, <2>4, OwnedIfStanding, WorldFacts
    <3>2. CASE run.op = "resume"
      BY <1>3, <2>4, <3>1, <3>2 DEF Root!Preview, RunInv, RunJournal, WorldInv, ApprovalsStand,
        Allowed
    <3>3. CASE run.op = "uninstall"
      <4>1. Root!Exact(o.key)
        BY <1>3, <3>1 DEF Root!Preview, Root!Objects
      <4> QED BY <1>3, <3>1, <3>3, <4>1 DEF Root!Preview
    <3> QED BY <2>1, <3>2, <3>3
  <2>5. \A x : Root!Own(x)' = Root!Own(x) /\ Allowed(x)'
    BY <1>0, <2>4 DEF Root!Own, Root!Objects, Allowed
  <2> QED BY <2>1, <2>2, <2>3, <2>5
          DEF RunInv, RunJournal, RunSends, RunRemoves, RunPrunes, Working, Root!NoPending,
            Root!journal
<1> QED BY <1>1, <1>2, <1>3

(* ------------------------------- the theorem ----------------------------- *)

\* Nothing is installed initially.
LEMMA RootInitHolds == ASSUME Root!Init PROVE ReconcilerInv
<1>1. /\ config \in Root!Configurations /\ live = {} /\ nextId = 1 /\ wire = {}
      /\ receipt = [state |-> "none", rev |-> 0, desired |-> config,
                    owned |-> [x \in Resources |-> Root!NotOwned]]
      /\ pending = Root!NoPending /\ run = Root!Idle /\ runs = 0 /\ edits = 0 /\ approved = {}
      /\ gone = {}
  BY DEF Root!Init
<1>2. /\ receipt \in Receipts /\ receipt.state = "none"
      /\ \A x \in Resources : receipt.owned[x] = Root!NotOwned
  BY <1>1 DEF Receipts, OwnedEntry, Root!NotOwned, Root!NoId, Ids
<1>3. Root!TypeOK
  BY <1>1, <1>2, IdleTyped, Typing
<1>4. pending.type = "none"
  BY <1>1 DEF Root!NoPending
<1>5. OwnedStands /\ IdsNameOne
  BY <1>1, <1>2, <1>4 DEF OwnedStands, IdsNameOne, Root!NotOwned, Root!NoId
<1>6. OneEach
  BY <1>1, <1>2 DEF OneEach
<1>7. GuardsStand /\ ApprovalsStand
  BY <1>1, <1>2, <1>4, OwnIs DEF GuardsStand, ApprovalsStand, Creating
<1>8. RunInv
  BY <1>1, IdleIs DEF RunInv, RunJournal, RunSends, RunRemoves, RunPrunes, Working
<1> QED BY <1>3, <1>5, <1>6, <1>7, <1>8 DEF ReconcilerInv, WorldInv

\* Every step is one of those.
LEMMA Steps ==
  ASSUME Root!Next
  PROVE  \/ Moves \/ Root!Send
         \/ \E x \in Resources : Root!Retire(x) \/ Root!Step(x) \/ Root!Uninstall(x)
         \/ Root!RecoverCommit \/ Root!RetireCommit \/ Root!Drop \/ Root!Verify
         \/ Root!Approve \/ Root!Finish \/ Root!Preview \/ Root!Remove \/ Root!NotSubmitted
         \/ Root!Edit \/ Root!Configure \/ \E q \in wire : Root!Land(q)
BY DEF Root!Next, Root!Apply, Root!Removal, Moves

\* Every step keeps the invariant.
LEMMA RootStepHolds == ASSUME ReconcilerInv, Root!Next PROVE ReconcilerInv'
<1>1. CASE Moves
  BY <1>1, MovesKeepTypes, MovesKeepWorld, MovesKeepRun DEF ReconcilerInv
<1>2. CASE Root!Send
  BY <1>2, SendKeepsTypes, SendKeepsWorld, SendKeepsRun DEF ReconcilerInv
<1>3. CASE \E x \in Resources : Root!Retire(x) \/ Root!Step(x) \/ Root!Uninstall(x)
  BY <1>3, BeginsKeepTypes, BeginsKeepWorld, BeginsKeepRun DEF ReconcilerInv
<1>4. CASE Root!RecoverCommit \/ Root!RetireCommit \/ Root!Drop \/ Root!Verify
  BY <1>4, CommitsKeepTypes, CommitsKeepWorld, CommitsKeepRun DEF ReconcilerInv
<1>5. CASE Root!Approve \/ Root!Finish \/ Root!Preview \/ Root!Remove \/ Root!NotSubmitted
  BY <1>5, ReceiptStepsKeepTypes, ReceiptStepsKeepWorld, ReceiptStepsKeepRun DEF ReconcilerInv
<1>6. CASE Root!Edit \/ Root!Configure \/ \E q \in wire : Root!Land(q)
  BY <1>6, OthersKeepTypes, OthersKeep DEF ReconcilerInv
<1> QED BY Steps, <1>1, <1>2, <1>3, <1>4, <1>5, <1>6

\* So does no step.
LEMMA RootStutterHolds == ASSUME ReconcilerInv, UNCHANGED Root!vars PROVE ReconcilerInv'
<1>1. UNCHANGED <<config, live, nextId, wire, receipt, pending, run, runs, edits, approved, gone>>
  BY DEF Root!vars
<1>2. Root!TypeOK'
  BY <1>1, Typing, TypesAfter DEF ReconcilerInv
<1>3. WorldInv'
  BY <1>1 DEF ReconcilerInv, WorldInv, OwnedStands, IdsNameOne, OneEach, GuardsStand,
    ApprovalsStand, Root!OwnedKeys, Known, Creating, Root!Own, Root!Objects, Guarded,
    NothingAbove, Allowed
<1>4. RunInv'
  BY <1>1 DEF ReconcilerInv, RunInv, RunJournal, RunSends, RunRemoves, RunPrunes, Creating,
    Working, Root!Own, Root!Objects, Allowed, Root!Scheduled
<1> QED BY <1>2, <1>3, <1>4 DEF ReconcilerInv

\* The instance counts as FiniteSets does.
LEMMA RootCardinality == \A S : Root!Cardinality(S) = Cardinality(S)
BY DEF Root!Cardinality, Cardinality

\* What a set with at most one member counts.
LEMMA AtMostOne ==
  ASSUME NEW S, \A a, b \in S : a = b
  PROVE  Cardinality(S) \in {0, 1} /\ (S = {} => Cardinality(S) = 0)
<1>1. CASE S = {}
  BY <1>1, FS_EmptySet
<1>2. CASE S # {}
  <2>1. PICK a \in S : S = {a}
    BY <1>2
  <2> QED BY <1>2, <2>1, FS_Singleton
<1> QED BY <1>1, <1>2

\* The invariant is what the component promises.
LEMMA RootInvIsSafe == ASSUME ReconcilerInv PROVE Root!Safe
<1> USE DEF ReconcilerInv
<1>1. Root!OneObject
  <2> SUFFICES ASSUME NEW x \in Resources
               PROVE  Cardinality(Root!Own(x)) + Cardinality(Root!Creations(x)) <= 1
    BY RootCardinality DEF Root!OneObject
  <2>1. \A a, b \in Root!Own(x) : a = b
    BY DEF Root!Own, Root!Objects, WorldInv, OneEach
  <2>2. \A a, b \in Root!Creations(x) : a = b
    BY DEF Root!Creations, WorldInv, OneEach
  <2>3. Root!Own(x) = {} \/ Root!Creations(x) = {}
    BY DEF Root!Creations, WorldInv, OneEach
  <2>4. /\ Cardinality(Root!Own(x)) \in {0, 1} /\ (Root!Own(x) = {} => Cardinality(Root!Own(x)) = 0)
        /\ Cardinality(Root!Creations(x)) \in {0, 1}
        /\ (Root!Creations(x) = {} => Cardinality(Root!Creations(x)) = 0)
    BY <2>1, <2>2, AtMostOne
  <2> QED BY <2>3, <2>4
<1>2. Root!NoOrphans
  BY DEF Root!NoOrphans, WorldInv, OneEach, Creating
<1>3. Root!RemovedIsClean
  BY OwnIs DEF Root!RemovedIsClean, WorldInv, OneEach, Root!Creations, Creating, Root!NoPending
<1>4. Root!GuardedOrder
  BY DEF Root!GuardedOrder, WorldInv, GuardsStand, Guarded
<1> QED BY <1>1, <1>2, <1>3, <1>4 DEF Root!Safe

\* Only a deletion that arrives removes an object, and it carries an approved identifier.
LEMMA RootStepApproved == ASSUME ReconcilerInv, Root!Next PROVE Root!DeletesApproved
<1> USE DEF ReconcilerInv
<1>1. CASE ~(Root!Edit \/ Root!Configure \/ \E q \in wire : Root!Land(q))
  <2>1. live' = live
    BY <1>1, Steps DEF Moves, Root!Start, Root!Stop, Root!Reread, Root!Schedule, Root!RetryApply,
      Root!RetryUninstall, Root!SendNothing, Root!Send, Root!Retire, Root!Step, Root!Uninstall,
      Root!RecoverCommit, Root!RetireCommit, Root!Drop, Root!Verify, Root!Approve, Root!Finish,
      Root!Preview, Root!Remove, Root!NotSubmitted, Root!provider
  <2> QED BY <2>1 DEF Root!DeletesApproved
<1>2. CASE Root!Edit \/ Root!Configure
  <2>1. edits \in Nat /\ edits' = edits + 1
    BY <1>2, Typing DEF Root!Edit, Root!Configure
  <2> QED BY <2>1 DEF Root!DeletesApproved
<1>3. ASSUME NEW q \in wire, Root!Land(q) PROVE Root!DeletesApproved
  <2>0. live' = Root!Effect(q)
    BY <1>3 DEF Root!Land
  <2>1. q.action \in {"create", "update", "delete"}
    BY WorldFacts
  <2>2. CASE q.action = "create"
    BY <2>0, <2>2 DEF Root!Effect, Root!DeletesApproved
  <2>3. CASE q.action = "update"
    <3>1. live' = {IF o.id = q.id THEN [o EXCEPT !.hash = q.hash] ELSE o : o \in live}
      BY <2>0, <2>3 DEF Root!Effect
    <3>2. \A o \in live : [o EXCEPT !.hash = q.hash].id = o.id
      BY WorldFacts DEF LiveObject
    <3>3. \A o \in live : \E n \in live' : n.id = o.id
      BY <3>1, <3>2
    <3> QED BY <3>3 DEF Root!DeletesApproved
  <2>4. CASE q.action = "delete"
    <3>1. q.id \in approved
      BY <2>4 DEF WorldInv, ApprovalsStand
    <3>2. live' = {o \in live : o.id # q.id}
      BY <2>0, <2>4 DEF Root!Effect
    <3> QED BY <3>1, <3>2 DEF Root!DeletesApproved
  <2> QED BY <2>1, <2>2, <2>3, <2>4
<1> QED BY <1>1, <1>2, <1>3

\* Where nothing happens nothing is removed.
LEMMA RootStutterApproved == ASSUME UNCHANGED Root!vars PROVE Root!DeletesApproved
BY DEF Root!vars, Root!DeletesApproved

\* Reconciler: one object each, no orphans, a clean tombstone and guards that stand.
THEOREM ReconcilerSafety == Root!Spec => []Root!Safe
<1>1. ReconcilerInv /\ [Root!Next]_(Root!vars) => ReconcilerInv'
  BY RootStepHolds, RootStutterHolds
<1> QED BY <1>1, RootInitHolds, RootInvIsSafe, PTL DEF Root!Spec

\* Reconciler: only approved deletions remove an object of the installation.
THEOREM ReconcilerApproval == Root!Spec => [][Root!DeletesApproved]_(Root!vars)
<1>1. ReconcilerInv /\ [Root!Next]_(Root!vars) => ReconcilerInv'
  BY RootStepHolds, RootStutterHolds
<1>2. ReconcilerInv /\ [Root!Next]_(Root!vars) => Root!DeletesApproved
  BY RootStepApproved, RootStutterApproved
<1> QED BY <1>1, <1>2, RootInitHolds, PTL DEF Root!Spec

-----------------------------------------------------------------------------
(* In the run.                                                                 *)

Reconciling == part \in {"reconciler", "edited"}

\* A behaviour of these parts is one of the reconciler.
LEMMA RootRuns ==
  ASSUME [AnyNext]_allVars, Reconciling \/ Reconciling'
  PROVE  Reconciling /\ (Root!Next \/ UNCHANGED Root!vars)
<1>1. CASE UNCHANGED allVars
  BY <1>1 DEF allVars, Root!vars, Reconciling
<1>2. CASE RootNext \/ EditedNext
  BY <1>2 DEF RootNext, EditedNext, Reconciling
<1>3. ~LockNext /\ ~CanaryNext /\ ~AdapterNext /\ ~PublicationNext /\ ~ForeignNext
  BY DEF LockNext, CanaryNext, AdapterNext, PublicationNext, ForeignNext, Reconciling
<1> QED BY <1>1, <1>2, <1>3 DEF AnyNext

\* They begin with nothing installed, and keep the invariant.
LEMMA RootRunsInit == ASSUME AnyInit, Reconciling PROVE ReconcilerInv
BY RootInitHolds DEF AnyInit, Reconciling, LockInit, RootInit, EditedInit, CanaryInit, AdapterInit,
  PublicationInit, ForeignInit

\* Each of their steps keeps the invariant.
LEMMA RootRunsStep ==
  ASSUME Reconciling => ReconcilerInv, [AnyNext]_allVars
  PROVE  (Reconciling => ReconcilerInv)'
BY RootRuns, RootStepHolds, RootStutterHolds

\* Reconciler, in the run: one object each, no orphans, a clean tombstone and guards that stand.
THEOREM ReconcilerSafetyInRun == AnySpec => []ReconcilerIsSafe
<1> DEFINE Inv == Reconciling => ReconcilerInv
<1>1. AnyInit => Inv
  BY RootRunsInit
<1>2. Inv /\ [AnyNext]_allVars => Inv'
  BY RootRunsStep
<1>3. Inv => ReconcilerIsSafe
  BY RootInvIsSafe DEF ReconcilerIsSafe, Reconciling
<1> QED BY <1>1, <1>2, <1>3, PTL DEF AnySpec

\* Reconciler, in the run: only approved deletions remove an object of the installation.
THEOREM DeletionsApprovedInRun == AnySpec => DeletionsAreApproved
<1> DEFINE Inv == Reconciling => ReconcilerInv
<1>1. AnyInit => Inv
  BY RootRunsInit
<1>2. Inv /\ [AnyNext]_allVars => Inv'
  BY RootRunsStep
<1>3. Inv /\ [AnyNext]_allVars =>
        [part = "reconciler" \/ part = "edited" => Root!DeletesApproved]_allVars
  BY RootRuns, RootStepApproved, RootStutterApproved DEF Reconciling
<1> QED BY <1>1, <1>2, <1>3, PTL DEF AnySpec, DeletionsAreApproved
===============================================================================
