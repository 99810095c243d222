---------------------------- MODULE GatewayAdapter ----------------------------
(***************************************************************************)
(* The Cloudflare adapter (src/cloudflare-provider.ts) that carries out one *)
(* journaled change of the reconciler.  A change is a script of reads that  *)
(* must hold and of requests; between any two of them an administrator may  *)
(* change the same objects in Cloudflare's own dashboard.  The adapter's    *)
(* only safeguards are that it reads everything a request relies on again   *)
(* right before it, and that an error says whether anything was requested.  *)
(*                                                                         *)
(* Ownership is a marker on every object except the application of the      *)
(* portal: that one is known only by the id its creation answered.          *)
(***************************************************************************)
EXTENDS Naturals, Sequences, FiniteSets

CONSTANTS
  Ids,        \* ids of Access applications, none is used twice
  MaxEdits,   \* bound on changes made by administrators
  MaxFaults   \* bound on requests without an answer and failed reads

VARIABLES
  server, portal,  \* the objects named by their key
  apps,            \* the Access applications, with the policies of each
  dns,             \* the records of the hostname
  receipt,         \* the id of each kind the receipt owns, and the pending action
  call,            \* the adapter's call
  outcome,         \* what the last call reported
  edits, faults

vars    == <<server, portal, apps, dns, receipt, call, outcome, edits, faults>>
objects == <<server, portal, apps, dns>>

Kinds == <<"server", "sapp", "spolicy", "portal", "papp", "ppolicy", "dns">>
KindSet == {Kinds[i] : i \in DOMAIN Kinds}
Rank(k) == CHOOSE i \in DOMAIN Kinds : Kinds[i] = k

NoApp  == [kind |-> "none", by |-> "none", pol |-> {}]
Idle   == [op |-> "none", kind |-> "none", pc |-> 0, sub |-> FALSE, wrote |-> FALSE,
           id |-> 0, seen |-> 2]
NoPend == [op |-> "none", kind |-> "none"]

Owns(k)   == receipt.id[k] # 0
Parent(k) == IF k \in {"sapp", "spolicy"} THEN "sapp" ELSE "papp"
Policy(k) == IF k \in {"sapp", "spolicy"} THEN "spolicy" ELSE "ppolicy"
AppId(k)  == receipt.id[Parent(k)]
App(k)    == IF AppId(k) = 0 THEN NoApp ELSE apps[AppId(k)]

\* isExactServerApp, isPortalAppCandidate: the applications of the server and of
\* the hostname, whoever made them.
Candidates(k) == {i \in Ids : apps[i].kind = k}
Unused        == {i \in Ids : apps[i].kind = "none"}
NextId        == CHOOSE i \in Unused : \A j \in Unused : i <= j

-----------------------------------------------------------------------------
(* What a read must show                                                    *)

OwnServer == server \in {"new", "synced", "done"}
OwnPortal == portal \in {"ours", "drift"}

\* assertSourceAccessApplicationAuthority: the server may be gone for a deletion.
SourceAuthority(op) ==
  App("sapp").kind = "sapp" /\ (OwnServer \/ (op = "delete" /\ server = "none"))

\* assertPortalAccessApplicationAuthority.
PortalAuthority(op) ==
  App("papp").kind = "papp" /\ Owns("portal") /\ (OwnPortal \/ (op = "delete" /\ portal = "none"))

\* assertPolicyParent.
ParentHolds(k, op) == IF k = "spolicy" THEN SourceAuthority(op) ELSE PortalAuthority(op)

\* assertPortalAccessApplicationPolicyPhase.
PolicyPhase == App("papp").pol = IF Owns("ppolicy") THEN {"ours"} ELSE {}

\* assertPortalAccessApplicationCandidateSet.
OnlyCandidate == Candidates("papp") = {AppId("papp")}

\* assertDnsDependencies: the portal as desired, behind its application with its
\* one policy.
DnsDependencies ==
  /\ portal = "ours" /\ Owns("portal") /\ Owns("papp") /\ Owns("ppolicy")
  /\ App("papp").kind = "papp" /\ OnlyCandidate /\ App("papp").pol = {"ours"}

\* What each read of a script requires.
Holds(c) ==
  LET k == call.kind IN
  CASE c = "server_absent" -> server = "none"
    [] c = "own_server"    -> OwnServer
    [] c = "no_sapps"      -> Candidates("sapp") = {}
    [] c = "own_sapp"      -> SourceAuthority(call.op)
    [] c = "portal_absent" -> portal = "none"
    [] c = "own_portal"    -> OwnPortal /\ ~Owns("papp")
    [] c = "same_portal"   -> OwnPortal
    [] c = "exact_portal"  -> portal = "ours" /\ Owns("portal")
    [] c = "no_papps"      -> Candidates("papp") = {}
    [] c = "own_papp"      -> PortalAuthority(call.op)
    [] c = "papp_contract" -> App("papp").kind = "papp"
    [] c = "only_papp"     -> OnlyCandidate
    [] c = "no_policies"   -> App(k).pol = {}
    [] c = "policy_phase"  -> PolicyPhase
    [] c = "parent"        -> ParentHolds(k, call.op)
    [] c = "one_policy"    -> App(k).pol = {"ours"}
    [] c = "dns_deps"      -> DnsDependencies
    [] c = "no_dns"        -> dns = {}
    [] c = "own_dns"       -> "ours" \in dns
    [] c = "synced"        -> server \in {"synced", "theirs"}
    [] c = "created_sapp"  -> apps[call.id].kind = "sapp"
    [] c = "created_papp"  -> apps[call.id].kind = "papp"
    [] c = "created_bare"  -> apps[call.id].pol = {}
    [] c = "gone"          -> App(k).kind # Parent(k)
    [] OTHER -> FALSE

\* A deletion of what is already gone succeeds without a request.
AlreadyGone(k) ==
  CASE k = "server" -> server = "none" /\ Candidates("sapp") = {}
    [] k = "sapp"   -> App(k).kind = "none" \/ App(k).kind = "deleted"
    [] k = "portal" -> portal = "none" /\ ~Owns("papp") /\ Candidates("papp") = {}
    [] k = "papp"   -> App(k).kind = "deleted" /\ Candidates("papp") = {}
    [] k \in {"spolicy", "ppolicy"} -> ParentHolds(k, "delete") /\ App(k).pol = {}
    [] OTHER -> "ours" \notin dns

-----------------------------------------------------------------------------
(* The scripts                                                              *)

\* mutateServer.
ServerScript(op) ==
  CASE op = "create" -> <<"server_absent", "no_sapps", "POST", "SYNC", "synced", "PUT">>
    [] op = "update" -> <<"own_server", "SYNC", "synced", "PUT">>
    [] OTHER -> <<"own_server", "no_sapps", "own_server", "no_sapps", "DELETE">>

\* mutateSourceAccessApplication: an update has nothing to send.
SourceApplicationScript(op) ==
  CASE op = "create" ->
         <<"own_server", "no_sapps", "POST", "created_sapp", "own_server", "created_bare">>
    [] op = "update" -> <<"own_server", "own_sapp", "no_policies">>
    [] OTHER -> <<"own_sapp", "no_policies", "own_sapp", "no_policies", "DELETE", "gone">>

\* mutatePortal.
PortalScript(op) ==
  CASE op = "create" -> <<"portal_absent", "no_papps", "POST">>
    [] op = "update" -> <<"same_portal", "PUT">>
    [] OTHER -> <<"own_portal", "no_papps", "own_portal", "no_papps", "DELETE">>

\* mutatePortalAccessApplication: the absence of others is watched for a whole
\* discovery period before the creation.
PortalApplicationScript(op) ==
  CASE op = "create" ->
         <<"exact_portal", "no_papps", "exact_portal", "no_papps", "POST", "created_papp">>
    [] op = "update" -> <<"exact_portal", "papp_contract", "only_papp", "policy_phase",
                          "papp_contract", "exact_portal", "policy_phase", "PUT">>
    [] OTHER -> <<"own_papp", "only_papp", "no_policies", "own_papp", "only_papp", "no_policies",
                  "DELETE", "gone">>

\* mutatePolicy.
PolicyScript(op) ==
  CASE op = "create" -> <<"parent", "no_policies", "parent", "no_policies", "POST">>
    [] op = "update" -> <<"parent", "one_policy", "parent", "one_policy", "PUT">>
    [] OTHER -> <<"parent", "one_policy", "parent", "one_policy", "DELETE">>

\* Mutant of DnsScript: the dependencies of a record are not read again.
DnsScriptOnce(op) ==
  CASE op = "create" -> <<"dns_deps", "no_dns", "POST">>
    [] op = "update" -> <<"dns_deps", "own_dns", "PUT">>
    [] OTHER -> <<"own_dns", "DELETE">>

\* mutateDns.
DnsScript(op) ==
  CASE op = "create" -> <<"dns_deps", "no_dns", "dns_deps", "POST">>
    [] op = "update" -> <<"dns_deps", "own_dns", "dns_deps", "PUT">>
    [] OTHER -> <<"own_dns", "DELETE">>

\* dispatchMutation.
Script(k, op) ==
  CASE k = "server" -> ServerScript(op)
    [] k = "sapp"   -> SourceApplicationScript(op)
    [] k = "portal" -> PortalScript(op)
    [] k = "papp"   -> PortalApplicationScript(op)
    [] k = "dns"    -> DnsScript(op)
    [] OTHER        -> PolicyScript(op)

Steps == Script(call.kind, call.op)
Now   == Steps[call.pc]
Writes == {"POST", "SYNC", "PUT", "DELETE"}

-----------------------------------------------------------------------------
(* What a request does                                                      *)

\* The policies of one application.
SetPolicies(i, pol) == [apps EXCEPT ![i].pol = pol]

\* Requests that name an application by its id, or a policy under it.
AppEffect(k, w) ==
  CASE k \in {"sapp", "papp"} /\ w = "POST" ->
         [apps EXCEPT ![NextId] = [kind |-> k, by |-> "us", pol |-> {}]]
    [] k \in {"sapp", "papp"} /\ w = "DELETE" ->
         [apps EXCEPT ![AppId(k)] = [@ EXCEPT !.kind = "deleted"]]
    [] k \in {"spolicy", "ppolicy"} /\ w \in {"POST", "PUT"} ->
         SetPolicies(AppId(k), App(k).pol \cup {"ours"})
    [] k \in {"spolicy", "ppolicy"} /\ w = "DELETE" ->
         SetPolicies(AppId(k), App(k).pol \ {"ours"})
    [] OTHER -> apps

\* A request takes effect.
Effect(k, w) ==
  /\ server' = IF k # "server" THEN server
               ELSE CASE w = "POST" -> "new" [] w = "PUT" -> "done" [] w = "DELETE" -> "none"
                      [] OTHER -> IF server = "theirs" THEN server ELSE "synced"
  /\ portal' = IF k # "portal" THEN portal
               ELSE IF w = "DELETE" THEN "none" ELSE "ours"
  /\ dns' = IF k # "dns" THEN dns
            ELSE IF w = "DELETE" THEN dns \ {"ours"} ELSE dns \cup {"ours"}
  /\ apps' = AppEffect(k, w)

\* The provider takes the request: a name that is taken is refused, and so is an
\* object that is gone.
Accepts(k, w) ==
  CASE k = "server" -> (w = "POST") = (server = "none")
    [] k = "portal" -> (w = "POST") = (portal = "none")
    [] k \in {"sapp", "papp"} -> IF w = "POST" THEN Unused # {} ELSE App(k).kind = k
    [] k = "dns" -> IF w = "POST" THEN dns = {} ELSE "ours" \in dns
    [] OTHER -> App(k).kind = Parent(k) /\ (w = "POST" \/ "ours" \in App(k).pol)

-----------------------------------------------------------------------------
(* A call                                                                   *)

\* journalAction, then applyChange.  assertLowerRankDependenciesConverged, and
\* deletions from the top.
Begin(k, op) ==
  /\ call = Idle /\ receipt.pending = NoPend
  /\ CASE op = "create" -> ~Owns(k) /\ \A j \in KindSet : Rank(j) < Rank(k) => Owns(j)
       [] op = "update" -> Owns(k)
       [] OTHER -> Owns(k) /\ \A j \in KindSet : Rank(j) > Rank(k) => ~Owns(j)
  /\ receipt' = [receipt EXCEPT !.pending = [op |-> op, kind |-> k]]
  /\ call' = [Idle EXCEPT !.op = op, !.kind = k, !.pc = 1]
  /\ outcome' = "none" /\ UNCHANGED <<objects, edits, faults>>

Return(what) == call' = [call EXCEPT !.pc = 0] /\ outcome' = what

\* applyChange's catch: what failed before any request is known not to be there.
Failure == IF call.sub THEN "unknown" ELSE "not_submitted"

\* exactRead and the listings.
Read ==
  /\ call.pc > 0 /\ Now \notin Writes
  /\ \/ call.op = "delete" /\ call.pc = 1 /\ AlreadyGone(call.kind) /\ Return("done")
     \/ /\ ~(call.op = "delete" /\ call.pc = 1 /\ AlreadyGone(call.kind)) /\ Holds(Now)
        /\ IF call.pc = Len(Steps) THEN Return("done")
           ELSE /\ call' = [call EXCEPT !.pc = @ + 1, !.seen = IF @ = 2 THEN 2 ELSE @ + 1]
                /\ UNCHANGED outcome
     \/ /\ ~(call.op = "delete" /\ call.pc = 1 /\ AlreadyGone(call.kind)) /\ ~Holds(Now)
        /\ Return(Failure)
  /\ UNCHANGED <<objects, receipt, edits, faults>>

\* A read fails, or the waiting time is over.
ReadFails ==
  /\ call.pc > 0 /\ Now \notin Writes /\ faults < MaxFaults /\ faults' = faults + 1
  /\ Return(Failure) /\ UNCHANGED <<objects, receipt, edits>>

\* trackCloudflareMutationAttempt: a request counts before it is made.
Submitted(answered) == TRUE

\* Mutant of CreatedId: the application is looked up by what it protects.
CreatedByListing(k, w) ==
  IF w = "POST" /\ k \in {"sapp", "papp"}
  THEN IF Candidates(k) # {} THEN CHOOSE i \in Candidates(k) : TRUE ELSE NextId
  ELSE call.id

\* requireAppId of the answer.
CreatedId(k, w) == IF w = "POST" /\ k \in {"sapp", "papp"} THEN NextId ELSE call.id

\* A request is made and answered.
Write ==
  /\ call.pc > 0 /\ Now \in Writes /\ Accepts(call.kind, Now)
  /\ Effect(call.kind, Now)
  /\ call' = [call EXCEPT !.sub = Submitted(TRUE), !.wrote = TRUE,
       !.id = CreatedId(call.kind, Now), !.pc = IF @ = Len(Steps) THEN 0 ELSE @ + 1]
  /\ outcome' = IF call.pc = Len(Steps) THEN "done" ELSE outcome
  /\ UNCHANGED <<receipt, edits, faults>>

\* A request is refused, or made and not answered: it took effect or did not.
WriteFails ==
  /\ call.pc > 0 /\ Now \in Writes
  /\ \/ ~Accepts(call.kind, Now) /\ UNCHANGED <<objects, faults>>
     \/ /\ Accepts(call.kind, Now) /\ faults < MaxFaults /\ faults' = faults + 1
        /\ Effect(call.kind, Now) \/ UNCHANGED objects
  /\ call' = [call EXCEPT !.sub = Submitted(FALSE), !.wrote = TRUE, !.pc = 0]
  /\ outcome' = IF Submitted(FALSE) THEN "unknown" ELSE "not_submitted"
  /\ UNCHANGED <<receipt, edits>>

-----------------------------------------------------------------------------
(* What the reconciler makes of it                                          *)

\* readCloudflareObservedState, for servers and portals.
ServerExact == server = "done"
PortalExact == portal = "ours"

\* For the applications: one candidate, and ours.
SourceApplicationExact(i) ==
  /\ Candidates("sapp") = {i} /\ apps[i].by = "us"
  /\ Owns("sapp") \/ apps[i].pol = {}
PortalApplicationExact(i) == Candidates("papp") = {i} /\ i = AppId("papp")

\* For policies: the only one of an application that is the installation's own.
PolicyExact(k) == AppId(k) # 0 /\ App(k).kind = Parent(k) /\ App(k).pol = {"ours"}

\* For records.
DnsExact == dns = {"ours"}

\* makeObserved and reconcile: the object is there as desired under this id.
Exact(k, i) ==
  CASE k = "server" -> i = 1 /\ ServerExact
    [] k = "sapp"   -> SourceApplicationExact(i)
    [] k = "portal" -> i = 1 /\ PortalExact
    [] k = "papp"   -> PortalApplicationExact(i)
    [] k = "dns"    -> i = 1 /\ DnsExact
    [] OTHER        -> i = 1 /\ PolicyExact(k)

\* matchingResources is empty.
Absent(k) ==
  CASE k = "server" -> server = "none"
    [] k = "portal" -> portal = "none"
    [] k \in {"sapp", "papp"} -> Candidates(k) = {} /\ App(k).kind \in {"none", "deleted"}
    [] k = "dns" -> dns = {}
    [] OTHER -> App(k).kind # Parent(k) \/ App(k).pol = {}

\* commitReceiptAction.
Committed(k, i) == [receipt EXCEPT !.id[k] = i, !.pending = NoPend]

\* performPendingMutation after the call: what was changed is read again, except
\* for the markerless application, which is committed from its answer.
Found(k, op) ==
  CASE op = "delete" -> {0 : x \in {y \in {1} : Absent(k)}}
    [] op = "create" /\ k = "papp" -> {call.id}
    [] OTHER -> {i \in Ids : Exact(k, i)}

\* mutate: the action is cleared if nothing was requested, and stays pending if
\* its outcome is not known or the read disagrees.  An uninstallation is never
\* cleared.
Settle ==
  /\ call # Idle /\ call.pc = 0
  /\ CASE outcome = "not_submitted" /\ call.op # "delete" ->
            receipt' = [receipt EXCEPT !.pending = NoPend]
       [] outcome = "done" ->
            \/ \E i \in Found(call.kind, call.op) : receipt' = Committed(call.kind, i)
            \/ Found(call.kind, call.op) = {} /\ UNCHANGED receipt
       [] OTHER -> UNCHANGED receipt
  /\ call' = Idle /\ UNCHANGED <<objects, outcome, edits, faults>>

\* recoverApplyPending and recoverUninstallPending: a later run finds the object
\* as desired or gone, or makes the call of an update or a deletion again.
Recover ==
  LET k == receipt.pending.kind
      op == receipt.pending.op IN
  /\ call = Idle /\ receipt.pending # NoPend
  /\ \/ /\ op # "delete" /\ ~(op = "create" /\ k = "papp")
        /\ \E i \in Ids : Exact(k, i) /\ receipt' = Committed(k, i)
        /\ UNCHANGED <<call, outcome>>
     \/ op = "delete" /\ Absent(k) /\ receipt' = Committed(k, 0) /\ UNCHANGED <<call, outcome>>
     \/ /\ op \in {"update", "delete"} /\ ~Absent(k)
        /\ call' = [Idle EXCEPT !.op = op, !.kind = k, !.pc = 1, !.sub = FALSE]
        /\ outcome' = "none" /\ UNCHANGED receipt
  /\ UNCHANGED <<objects, edits, faults>>

-----------------------------------------------------------------------------
(* Administrators                                                           *)

\* An administrator replaces, changes or deletes an object, or adds one beside it.
EditServer == server' \in {"none", "theirs"} /\ server' # server /\ UNCHANGED <<portal, apps, dns>>
EditPortal ==
  /\ \/ portal' \in {"none", "theirs"} /\ portal' # portal
     \/ portal = "ours" /\ portal' = "drift"
  /\ UNCHANGED <<server, apps, dns>>
EditApp(k) ==
  /\ \/ Unused # {} /\ apps' = [apps EXCEPT ![NextId] = [kind |-> k, by |-> "others", pol |-> {}]]
     \/ \E i \in Candidates(k) : apps' = [apps EXCEPT ![i].kind = "deleted"]
  /\ UNCHANGED <<server, portal, dns>>
EditPolicy(k) ==
  /\ \E i \in Candidates(Parent(k)) :
       \/ "theirs" \notin apps[i].pol /\ apps' = SetPolicies(i, apps[i].pol \cup {"theirs"})
       \/ apps[i].pol # {} /\ apps' = SetPolicies(i, {})
  /\ UNCHANGED <<server, portal, dns>>
EditDns ==
  /\ \/ "theirs" \notin dns /\ dns' = dns \cup {"theirs"}
     \/ dns # {} /\ dns' = {}
  /\ UNCHANGED <<server, portal, apps>>

Edit(k) ==
  /\ edits < MaxEdits /\ edits' = edits + 1
  /\ CASE k = "server" -> EditServer [] k = "portal" -> EditPortal [] k = "dns" -> EditDns
       [] k \in {"sapp", "papp"} -> EditApp(k) [] OTHER -> EditPolicy(k)
  /\ call' = IF call = Idle THEN call ELSE [call EXCEPT !.seen = 0]
  /\ UNCHANGED <<receipt, outcome, faults>>

Init ==
  /\ server = "none" /\ portal = "none" /\ dns = {}
  /\ apps = [i \in Ids |-> NoApp]
  /\ receipt = [id |-> [k \in KindSet |-> 0], pending |-> NoPend]
  /\ call = Idle /\ outcome = "none" /\ edits = 0 /\ faults = 0

Next ==
  \/ \E k \in KindSet, op \in {"create", "update", "delete"} : Begin(k, op)
  \/ Read \/ ReadFails \/ Write \/ WriteFails \/ Settle \/ Recover
  \/ \E k \in KindSet : Edit(k)

Spec == Init /\ [][Next]_vars

-----------------------------------------------------------------------------
(* Properties                                                               *)

\* A server is desired by its key, its marker and, once it is synced, its tools.
ServerStates == {"none", "new", "synced", "done", "theirs"}

\* A portal by its key, its marker and the servers it offers.
PortalStates == {"none", "ours", "drift", "theirs"}

\* An application by what it protects, and the policies under it.
Applications ==
  [kind : {"none", "sapp", "papp", "deleted"}, by : {"none", "us", "others"},
   pol : SUBSET {"ours", "theirs"}]

\* A record by its name and its comment.
Records == {"ours", "theirs"}

\* A change is one operation on one kind.
Operations == [op : {"create", "update", "delete"}, kind : KindSet]

\* validateReceipt, normalizeProviderLocator.
Receipts == [id : [KindSet -> Ids \cup {0}], pending : Operations \cup {NoPend}]

\* GatewayMutation and the MutationAttempt that goes with it.
CallOk ==
  /\ [op |-> call.op, kind |-> call.kind] \in Operations \cup {NoPend}
  /\ call.pc \in 0 .. 8 /\ call.id \in Ids \cup {0} /\ call.seen \in 0 .. 2
  /\ call.sub \in BOOLEAN /\ call.wrote \in BOOLEAN

\* CloudflareGatewayProviderError says whether anything was submitted.
Results == {"none", "done", "not_submitted", "unknown"}

\* Every variable has its type.
TypeOK ==
  /\ server \in ServerStates /\ portal \in PortalStates /\ dns \subseteq Records
  /\ apps \in [Ids -> Applications]
  /\ receipt \in Receipts /\ CallOk /\ outcome \in Results

\* The receipt never owns an application that somebody else made, however alike
\* it is and whenever it appeared.
OwnedIsOurs == \A k \in {"sapp", "papp"} : Owns(k) => apps[receipt.id[k]].by = "us"

\* Whatever the adapter created is in the receipt, or its creation is pending.
NothingForgotten ==
  LET Known(k) == Owns(k) \/ receipt.pending = [op |-> "create", kind |-> k] IN
  /\ OwnServer => Known("server")
  /\ OwnPortal => Known("portal")
  /\ "ours" \in dns => Known("dns")
  /\ \A i \in Ids : apps[i].by = "us" /\ apps[i].kind # "deleted" =>
       /\ i = receipt.id[apps[i].kind] \/ receipt.pending = [op |-> "create", kind |-> apps[i].kind]
       /\ "ours" \in apps[i].pol => Known(Policy(apps[i].kind))

\* No request of the adapter overwrites or removes what is somebody else's, nor an
\* application with somebody else's policy, unless it became so after the reads
\* right before the request: the last one for policies, the last two for the rest.
KeepsForeign ==
  edits' = edits =>
    /\ server = "theirs" /\ server' # server => call.seen < 2
    /\ portal = "theirs" /\ portal' # portal => call.seen < 2
    /\ dns \cap {"theirs"} \subseteq dns'
    /\ \A i \in Ids : apps'[i] # apps[i] => apps[i].by # "others"
    /\ \A i \in Ids : "theirs" \in apps[i].pol /\ apps'[i].kind # apps[i].kind => call.seen = 0

\* The hostname is published only for the portal as desired, behind its application
\* with exactly the installation's policy, unless one of them changed after the
\* adapter's last read.
PublishesGuarded ==
  edits' = edits /\ "ours" \in dns' \ dns => DnsDependencies \/ call.seen = 0

(* The safety of this component: its invariants together.                   *)
Safe ==
  /\ TypeOK /\ OwnedIsOurs /\ NothingForgotten
=============================================================================
