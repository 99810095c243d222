--------------------------- MODULE Stage1Session ---------------------------
(***************************************************************************)
(* The hosted installer's session (hosted-stage1-session.ts,               *)
(* two-stage-deploy-session.ts, two-stage-runtime.ts) and the work of its  *)
(* callbacks: the first Worker (hosted-stage1-bootstrap.ts,                *)
(* customer-bootstrap-worker-deployment.ts) and its exact removal          *)
(* (hosted-stage1-cleanup.ts) under a grant that lives in the callback     *)
(* (hosted-bootstrap-grant.ts).                                            *)
(*                                                                         *)
(* The session object changes its record by compare-and-set and schedules  *)
(* its alarm in the same turn: one step here.  A callback is a sequence of *)
(* provider calls; the alarm, other tabs and a second approval run between *)
(* them.  A call without an answer has reached the provider or not.        *)
(***************************************************************************)
EXTENDS Naturals, FiniteSets

CONSTANTS MaxSessions, MaxAttempts, \* bounds on sessions of the browser and on approvals
          MaxPlans,                 \* bound on install seeds
          MaxFaults                 \* bound on calls that fail or lose their answer

Sessions == 1..MaxSessions
Attempts == 1..MaxAttempts
Typed    == MaxPlans + 1            \* the plan of a saved selection names its Worker after the selection
Seeded   == 1..Typed

VARIABLES
  sess,     \* the record of each session object
  cur,      \* the session the browser's cookie names
  dead,     \* sessions whose expiresAt is past
  cookie,   \* the attempt sealed in the browser's bootstrap cookie, or 0
  expired,  \* attempts, and so capabilities, whose window is closed
  kind, home, seed, \* of each attempt: its kind, its session and the plan, or the recorded attempt, it acts on
  req,      \* where the callback of each attempt is
  ok,       \* how its work went: "yes", "recorded", "fault" or "refused"
  grant,    \* the grant of each attempt
  redeemed, \* how often its code was redeemed
  worker,   \* the Worker of each plan at the provider
  sub,      \* the account has a workers.dev subdomain
  foreign,  \* another script of the account binds the Workers' namespaces
  hands,    \* handoff polls that have the Worker's answer
  released, \* attempts whose capability was given to the customer's Worker
  overtaken, \* history: <<i, k>>, the cleanup i had verified its Worker when that of attempt k was
             \* made under its name (or, k being 0, when the account changed by hand)
  seeds, faults

object  == <<sess, dead>>
client  == <<cur, cookie, hands, released>>
call    == <<kind, home, seed, req, ok, grant, redeemed, expired>>
cloud   == <<worker, sub, foreign, overtaken>>
vars == <<sess, cur, dead, cookie, expired, kind, home, seed, req, ok, grant, redeemed, worker, sub, foreign, hands, released,
          overtaken, seeds, faults>>

Grants     == {"none", "held", "revoked", "lost"}
Outcomes   == {"yes", "recorded", "fault", "refused"}
Provisions == [Attempts -> (0..Typed) \cup Attempts]
Polls      == Attempts \X {"ready", "rejected"}
Workers    == [by : 0..MaxAttempts, code : {"none", "shell", "other", "retired"}, ns : BOOLEAN, dev : BOOLEAN, going : BOOLEAN]

Erased   == [phase |-> "none", sel |-> FALSE, plan |-> 0, att |-> 0, status |-> "none", prov |-> 0]
Draft    == [Erased EXCEPT !.phase = "draft"]
NoWorker == [by |-> 0, code |-> "none", ns |-> FALSE, dev |-> FALSE, going |-> FALSE]

Init ==
  /\ sess = [s \in Sessions |-> IF s = 1 THEN Draft ELSE Erased] /\ cur = 1 /\ dead = {} /\ cookie = 0
  /\ expired = {} /\ kind = [i \in Attempts |-> "bootstrap"] /\ home = [i \in Attempts |-> 0] /\ seed = [i \in Attempts |-> 0]
  /\ req = [i \in Attempts |-> "new"] /\ ok = [i \in Attempts |-> "yes"] /\ grant = [i \in Attempts |-> "none"]
  /\ redeemed = [i \in Attempts |-> 0] /\ worker = [p \in Seeded |-> NoWorker] /\ sub = FALSE /\ foreign \in BOOLEAN
  /\ overtaken = {} /\ hands = {} /\ released = {} /\ seeds = 0 /\ faults = 0

Fault == faults < MaxFaults /\ faults' = faults + 1

-----------------------------------------------------------------------------
(* The session's transitions                                                *)

Live(s)    == s \notin dead          \* requireLive
InWindow(i) == i \notin expired      \* validNow
Open(s)    == sess[s].phase \in {"draft", "failed"}
Set(s, r)  == sess' = [sess EXCEPT ![s] = r]

(* saveHostedStage1Selection                                                *)
SaveSelection ==
  /\ Open(cur) /\ Live(cur)
  /\ Set(cur, [sess[cur] EXCEPT !.phase = "draft", !.sel = TRUE, !.plan = 0])
  /\ UNCHANGED <<dead, client, call, cloud, seeds, faults>>

(* freezePlanFor, freezeHostedStage1Plan: a renewed bootstrap plan keeps     *)
(* its install seed.                                                        *)
FreezePlan ==
  /\ Open(cur) /\ Live(cur)
  /\ LET r == sess[cur] fresh == ~r.sel /\ r.plan = 0
     IN  /\ fresh => seeds < MaxPlans
         /\ seeds' = IF fresh THEN seeds + 1 ELSE seeds
         /\ Set(cur, [r EXCEPT !.phase = "draft", !.plan = IF r.sel THEN Typed ELSE IF fresh THEN seeds + 1 ELSE @])
  /\ UNCHANGED <<dead, client, call, cloud, faults>>

SealCookie(i) == cookie' = i         \* bootstrapCookieFor
(* startAttempt: the raw values go to the browser's cookie.                 *)
StartAttempt(i, k, r) ==
  /\ req[i] = "new" /\ \A j \in Attempts : j < i => req[j] # "new"
  /\ Set(cur, [r EXCEPT !.att = i, !.status = "authorizing"])
  /\ kind' = [kind EXCEPT ![i] = k] /\ home' = [home EXCEPT ![i] = cur]
  /\ req' = [req EXCEPT ![i] = "consent"] /\ SealCookie(i)
  /\ UNCHANGED <<dead, cur, hands, released, ok, grant, redeemed, expired, cloud, seeds, faults>>

(* postBootstrap, authorizeHostedStage1Bootstrap                            *)
AuthorizeBootstrap(i) ==
  /\ Open(cur) /\ Live(cur) /\ sess[cur].plan # 0
  /\ seed' = [seed EXCEPT ![i] = sess[cur].plan]
  /\ StartAttempt(i, "bootstrap", [sess[cur] EXCEPT !.phase = "authorizing"])

(* authorizeHostedStage1Cleanup                                             *)
CleanupOpen(r) == r.phase = "cleanup_required" /\ (r.att = 0 \/ r.att \in expired)
(* postCleanup                                                              *)
AuthorizeCleanup(i) ==
  /\ CleanupOpen(sess[cur])
  /\ seed' = [seed EXCEPT ![i] = sess[cur].prov]
  /\ StartAttempt(i, "cleanup", sess[cur])

(* matchHostedStage1Cookie for a callback                                   *)
Matches(i) == home[i] = cur /\ sess[cur].att = i /\ InWindow(i) /\ sess[cur].phase \in {"authorizing", "cleanup_required"}

(* consumeHostedStage1Callback: claimed before any exchange.                *)
Claimable(i) == sess[home[i]].status = "authorizing"
(* oauthCallback                                                            *)
Callback(i) ==
  /\ cookie = i /\ Matches(i) /\ Claimable(i)
  /\ Set(cur, [sess[cur] EXCEPT !.status = "exchanging"])
  /\ \E at \in {"exchange", "fail"} : req' = [req EXCEPT ![i] = at] /\ ok' = [ok EXCEPT ![i] = IF at = "fail" THEN "fault" ELSE @]
  /\ UNCHANGED <<dead, client, kind, home, seed, grant, redeemed, expired, cloud, seeds, faults>>

(* failHostedStage1Attempt                                                  *)
FailedSession(r) ==
  IF r.phase = "cleanup_required" THEN [r EXCEPT !.att = 0, !.status = "none"]
  ELSE [r EXCEPT !.phase = "failed", !.att = 0, !.status = "none"]
FailAttempt(i) ==
  /\ req[i] = "fail" /\ req' = [req EXCEPT ![i] = "closed"]
  /\ \/ sess' = [sess EXCEPT ![home[i]] = IF @.att = i THEN FailedSession(@) ELSE @] /\ UNCHANGED faults
     \/ Fault /\ UNCHANGED sess
  /\ cookie' = IF cookie = i THEN 0 ELSE cookie
  /\ UNCHANGED <<dead, cur, hands, released, kind, home, seed, ok, grant, redeemed, expired, cloud, seeds>>

(* recordHostedStage1Provision; a refused or failed call fails the attempt. *)
RecordProvision(i) ==
  /\ req[i] = "record"
  /\ LET r == sess[home[i]] good == r.phase = "authorizing" /\ r.att = i /\ r.status = "exchanging"
     IN  \/ /\ good /\ Set(home[i], [r EXCEPT !.phase = "provisioned", !.att = 0, !.status = "none", !.prov = i])
            /\ ok' = [ok EXCEPT ![i] = "recorded"]
            /\ \/ req' = [req EXCEPT ![i] = "closed"] /\ UNCHANGED faults
               \/ Fault /\ req' = [req EXCEPT ![i] = "fail"]
         \/ ~good /\ req' = [req EXCEPT ![i] = "fail"] /\ UNCHANGED <<sess, ok, faults>>
         \/ Fault /\ req' = [req EXCEPT ![i] = "fail"] /\ UNCHANGED <<sess, ok>>
  /\ UNCHANGED <<dead, client, kind, home, seed, grant, redeemed, expired, cloud, seeds>>

(* completeHostedStage1Cleanup; nothing catches a refusal.                  *)
CompleteCleanup(i) ==
  /\ req[i] = "complete" /\ req' = [req EXCEPT ![i] = "closed"]
  /\ LET r == sess[home[i]] good == r.phase = "cleanup_required" /\ r.att = i
     IN  \/ good /\ Set(home[i], [Draft EXCEPT !.sel = r.sel]) /\ dead' = dead \ {home[i]} /\ UNCHANGED faults
         \/ ~good /\ UNCHANGED <<object, faults>>
         \/ Fault /\ UNCHANGED object
  /\ UNCHANGED <<client, kind, home, seed, ok, grant, redeemed, expired, cloud, seeds>>

(* nextDeadline                                                             *)
Due(s) ==
  CASE sess[s].phase = "provisioned" -> sess[s].prov \in expired
    [] sess[s].phase = "authorizing" -> sess[s].att \in expired
    [] sess[s].phase \in {"none", "cleanup_required"} -> FALSE
    [] OTHER -> s \in dead
(* reapHostedStage1Session                                                  *)
Reaped(s) ==
  CASE sess[s].phase = "provisioned" -> [sess[s] EXCEPT !.phase = "cleanup_required"]
    [] sess[s].phase = "authorizing" -> FailedSession(sess[s])
    [] OTHER -> Erased
(* alarm                                                                    *)
Alarm(s) == Due(s) /\ Set(s, Reaped(s)) /\ UNCHANGED <<dead, client, call, cloud, seeds, faults>>

(* The clock                                                                *)
AttemptExpires(i) ==
  /\ req[i] # "new" /\ InWindow(i) /\ expired' = expired \cup {i}
  /\ UNCHANGED <<object, client, kind, home, seed, req, ok, grant, redeemed, cloud, seeds, faults>>
SessionExpires(s) ==
  /\ s \notin dead /\ sess[s].phase # "none" /\ dead' = dead \cup {s}
  /\ UNCHANGED <<sess, client, call, cloud, seeds, faults>>

(* getSession: a session that is gone or over is replaced; postNewSession:  *)
(* an administrator starts again.                                           *)
Rotates == sess[cur].phase = "none" \/ (cur \in dead /\ sess[cur].phase # "cleanup_required")
NewSession ==
  /\ cur < MaxSessions /\ cur' = cur + 1 /\ Set(cur + 1, Draft)
  /\ \/ Rotates /\ UNCHANGED cookie
     \/ sess[cur].phase \in {"draft", "failed", "handed_off"} /\ cookie' = 0
  /\ UNCHANGED <<dead, hands, released, call, cloud, seeds, faults>>
LoseCookie == cookie # 0 /\ cookie' = 0 /\ UNCHANGED <<object, cur, hands, released, call, cloud, seeds, faults>>

-----------------------------------------------------------------------------
(* The grant (hosted-bootstrap-grant.ts)                                    *)

(* exchangeAuthorizationCode, assertUsable and the account read             *)
Exchange(i) ==
  /\ req[i] = "exchange" /\ redeemed' = [redeemed EXCEPT ![i] = @ + 1]
  /\ \/ /\ grant' = [grant EXCEPT ![i] = "held"] /\ req' = [req EXCEPT ![i] = IF kind[i] = "cleanup" THEN "verify" ELSE "account"]
        /\ UNCHANGED <<ok, faults>>
     \/ /\ Fault /\ \E g \in {"none", "lost"} : grant' = [grant EXCEPT ![i] = g]
        /\ ok' = [ok EXCEPT ![i] = "fault"] /\ req' = [req EXCEPT ![i] = "fail"]
  /\ UNCHANGED <<object, client, kind, home, seed, expired, cloud, seeds>>

(* The finally of executeHostedBootstrapGrant: revoked on every path.       *)
Revoke(i) ==
  /\ req[i] = "revoke"
  /\ \/ /\ grant' = [grant EXCEPT ![i] = "revoked"] /\ UNCHANGED <<ok, faults>>
        /\ req' = [req EXCEPT ![i] = IF ok[i] # "yes" THEN "fail" ELSE IF kind[i] = "cleanup" THEN "complete" ELSE "record"]
     \/ /\ Fault /\ grant' = [grant EXCEPT ![i] = "lost"] /\ req' = [req EXCEPT ![i] = "fail"]
        /\ ok' = [ok EXCEPT ![i] = IF @ = "yes" THEN "fault" ELSE @]
  /\ UNCHANGED <<object, client, kind, home, seed, redeemed, expired, cloud, seeds>>

(* A step of the work that ends well, is refused, or fails.                 *)
Step(i, to) == req' = [req EXCEPT ![i] = to] /\ UNCHANGED <<object, client, kind, home, seed, grant, redeemed, expired, seeds>>
Good(i, to) == Step(i, to) /\ UNCHANGED <<ok, faults>>
Bad(i)      == Step(i, "revoke") /\ ok' = [ok EXCEPT ![i] = "fault"] /\ Fault
Refuse(i)   == Step(i, "revoke") /\ ok' = [ok EXCEPT ![i] = "refused"] /\ UNCHANGED faults
Put(p, w)   == worker' = [worker EXCEPT ![p] = w] /\ UNCHANGED <<sub, foreign, overtaken>>

(* The cleanups between their verification and their last write, of which    *)
(* nothing tells them what happens there; k is who made it happen.           *)
Target(i) == IF kind[i] = "cleanup" THEN seed[seed[i]] ELSE seed[i]
Removing(i) == req[i] \in {"retire", "delete"}
Overtakes(k, removals) == overtaken' = overtaken \cup (removals \X {k})

-----------------------------------------------------------------------------
(* The first Worker                                                         *)

(* discoverHostedAccountZones, ensureHostedWorkersSubdomain                 *)
Account(i) ==
  /\ req[i] = "account"
  /\ \/ sub' = TRUE /\ Good(i, "create")
     \/ sub' \in {sub, TRUE} /\ Bad(i)
  /\ UNCHANGED <<worker, foreign, overtaken>>

(* ensureWorker: the exact tags, or the name is taken.                      *)
EnsureWorker(i) ==
  /\ req[i] = "create"
  /\ LET w == worker[seed[i]] made == [NoWorker EXCEPT !.by = i]
     IN  \/ /\ w.by = 0 /\ worker' = [worker EXCEPT ![seed[i]] = made] /\ UNCHANGED <<sub, foreign>>
            /\ Overtakes(i, {j \in Attempts : Removing(j) /\ Target(j) = seed[i]}) /\ (Good(i, "upload") \/ Bad(i))
         \/ w.by = i /\ Good(i, "upload") /\ UNCHANGED cloud
         \/ w.by \notin {0, i} /\ Refuse(i) /\ UNCHANGED cloud
         \/ Bad(i) /\ UNCHANGED cloud

(* inspectExactActive: nothing runs on the Worker of this attempt yet.      *)
Blank(w, i) == w.by = i /\ w.code = "none"
(* stageAssets, uploadMetadata, submitScript, waitForNamespace              *)
Shell(w) == [w EXCEPT !.code = "shell", !.ns = TRUE]
(* deployCustomerBootstrapWorker: the exact active version or one upload,   *)
(* then its namespace.                                                      *)
Upload(i) ==
  /\ req[i] = "upload"
  /\ LET w == worker[seed[i]]
     IN  \/ Blank(w, i) /\ Put(seed[i], Shell(w)) /\ (Good(i, "expose") \/ Bad(i))
         \/ ~Blank(w, i) /\ Refuse(i) /\ UNCHANGED cloud
         \/ Bad(i) /\ UNCHANGED cloud

(* setWorkerBootstrapSubdomain, then the signed ownership handoff, which    *)
(* an expired capability does not get.                                      *)
Expose(i) ==
  /\ req[i] = "expose"
  /\ \/ /\ worker[seed[i]].by = i /\ Put(seed[i], [worker[seed[i]] EXCEPT !.dev = TRUE])
        /\ ((InWindow(i) /\ Good(i, "revoke")) \/ (~InWindow(i) /\ Refuse(i)) \/ Bad(i))
     \/ worker[seed[i]].by # i /\ Refuse(i) /\ UNCHANGED cloud
     \/ Bad(i) /\ UNCHANGED cloud

-----------------------------------------------------------------------------
(* Its exact removal                                                        *)

(* The provision of the session as the callback claimed it; a session keeps  *)
(* it until its cleanup completes.                                           *)
Recorded(i) == seed[i]
Unshared == ~foreign                 \* foreignBindingsUnshared

\* Mutant of Verify: the active version is not compared with the recorded one.
VerifyTagsOnly(i) ==
  /\ req[i] = "verify" /\ UNCHANGED cloud
  /\ LET w == worker[Target(i)] mine == w.by # 0 /\ w.by = Recorded(i) /\ Unshared
     IN  (mine /\ Good(i, "retire")) \/ (~mine /\ Refuse(i)) \/ Bad(i)
(* removeExactBootstrapRoot: the reads that precede every mutation; the     *)
(* hosted caller refuses a root that is already absent.                     *)
Verify(i) ==
  /\ req[i] = "verify" /\ UNCHANGED cloud
  /\ LET w == worker[Target(i)] mine == w.by # 0 /\ w.by = Recorded(i) /\ Unshared
     IN  \/ mine /\ w.code = "shell" /\ Good(i, "retire")
         \/ mine /\ w.code = "retired" /\ ~w.ns /\ Good(i, "delete")
         \/ (~mine \/ w.code \notin {"shell", "retired"}) /\ Refuse(i)
         \/ Bad(i)

(* disableWorkersDev, retireNamespace: both by the Worker's name.  Only the *)
(* readback, by its id, tells whether it was the recorded one.              *)
Retire(i) ==
  /\ req[i] = "retire"
  /\ LET p == Target(i) w == worker[p]
     IN  \/ w.by # 0 /\ Put(p, [w EXCEPT !.dev = FALSE]) /\ Bad(i)
         \/ /\ w.by # 0 /\ Put(p, [w EXCEPT !.dev = FALSE, !.code = "retired", !.ns = FALSE])
            /\ (w.by = Recorded(i) /\ Good(i, "delete")) \/ (w.by # Recorded(i) /\ Refuse(i)) \/ Bad(i)
         \/ w.by = 0 /\ Refuse(i) /\ UNCHANGED cloud
         \/ Bad(i) /\ UNCHANGED cloud

(* deleteWorker, by the recorded id: an answer of 202 leaves it to go later.*)
Delete(i) ==
  /\ req[i] = "delete"
  /\ LET p == Target(i) w == worker[p]
     IN  \/ w.by = Recorded(i) /\ (Put(p, NoWorker) \/ Put(p, [w EXCEPT !.going = TRUE])) /\ (Good(i, "prove") \/ Bad(i))
         \/ w.by # Recorded(i) /\ Refuse(i) /\ UNCHANGED cloud
         \/ Bad(i) /\ UNCHANGED cloud
Vanish(p) == worker[p].going /\ Put(p, NoWorker) /\ UNCHANGED <<object, client, call, seeds, faults>>

(* proveWorkerAbsent: a bounded wait                                        *)
Proven(i) == worker[Target(i)].by = 0
Prove(i) ==
  /\ req[i] = "prove" /\ UNCHANGED cloud
  /\ (Proven(i) /\ Good(i, "revoke")) \/ Bad(i)

(* The customer deploys something else to the Worker, or another script      *)
(* begins or ceases to bind it; external, at any time.                       *)
Alter(p) ==
  /\ worker[p].by # 0 /\ worker[p].code # "other"
  /\ worker' = [worker EXCEPT ![p].code = "other"] /\ Overtakes(0, {i \in Attempts : Removing(i) /\ Target(i) = p})
  /\ UNCHANGED <<object, client, call, sub, foreign, seeds, faults>>
Bind ==
  /\ foreign' = ~foreign /\ Overtakes(0, {i \in Attempts : Removing(i)})
  /\ UNCHANGED <<object, client, call, worker, sub, seeds, faults>>

-----------------------------------------------------------------------------
(* The token-free handoff                                                   *)

(* readBootstrapHealth, completeHostedStage1Handoff                         *)
Answers(w) == w.dev /\ w.code = "shell"
(* getHandoff: the shell answers as expected, or as another install; a      *)
(* shell that does not answer yet is polled again.                          *)
PollHandoff ==
  /\ cookie # 0 /\ home[cookie] = cur /\ sess[cur].phase = "provisioned" /\ sess[cur].prov = cookie /\ InWindow(cookie)
  /\ \E a \in {"ready", "rejected"} :
        /\ a = "ready" => Answers(worker[seed[cookie]])
        /\ hands' = hands \cup {<<cookie, a>>}
  /\ UNCHANGED <<object, cur, cookie, released, call, cloud, seeds, faults>>

\* Mutant of Markable: the poll's own check of the phase is taken for the mark's.
MarkableLate(i) == sess[home[i]].prov = i
(* markHostedStage1CleanupRequired                                          *)
CleanupRequired(r) == IF r.phase = "provisioned" THEN [r EXCEPT !.phase = "cleanup_required"] ELSE r
(* markHostedStage1HandedOff, before the address that carries the           *)
(* capability is returned                                                   *)
Markable(i) == sess[home[i]].phase = "provisioned" /\ sess[home[i]].prov = i /\ InWindow(i)
AnswerHandoff(h) ==
  /\ h \in hands /\ hands' = hands \ {h}
  /\ LET i == h[1] s == home[i]
     IN  \/ /\ h[2] = "ready" /\ Markable(i) /\ Set(s, [sess[s] EXCEPT !.phase = "handed_off"])
            /\ released' = released \cup {i} /\ cookie' = IF cookie = i THEN 0 ELSE cookie
         \/ h[2] = "ready" /\ ~Markable(i) /\ UNCHANGED <<sess, released, cookie>>
         \/ /\ h[2] = "rejected" /\ UNCHANGED released
            /\ sess' = [sess EXCEPT ![s] = CleanupRequired(@)]
            /\ cookie' = IF sess[s].phase = "provisioned" /\ cookie = i THEN 0 ELSE cookie
  /\ UNCHANGED <<dead, cur, call, cloud, seeds, faults>>

-----------------------------------------------------------------------------
Request(i) ==
  \/ AuthorizeBootstrap(i) \/ AuthorizeCleanup(i) \/ Callback(i) \/ AttemptExpires(i)
Work(i) ==
  \/ Exchange(i) \/ Revoke(i) \/ Account(i) \/ EnsureWorker(i) \/ Upload(i) \/ Expose(i)
  \/ Verify(i) \/ Retire(i) \/ Delete(i) \/ Prove(i)
  \/ FailAttempt(i) \/ RecordProvision(i) \/ CompleteCleanup(i)
Browser == SaveSelection \/ FreezePlan \/ NewSession \/ LoseCookie \/ PollHandoff \/ (\E h \in hands : AnswerHandoff(h))

Next ==
  \/ Browser
  \/ \E i \in Attempts : Request(i) \/ Work(i)
  \/ \E s \in Sessions : Alarm(s) \/ SessionExpires(s)
  \/ \E p \in Seeded : Vanish(p) \/ Alter(p)
  \/ Bind

Spec == Init /\ [][Next]_vars

(* Windows close, alarms fire, and a running callback finishes.             *)
Fairness ==
  /\ \A i \in Attempts : WF_vars(AttemptExpires(i)) /\ WF_vars(Work(i))
  /\ \A s \in Sessions : WF_vars(Alarm(s)) /\ WF_vars(SessionExpires(s))
FairSpec == Spec /\ Fairness

-----------------------------------------------------------------------------
(* Properties                                                               *)

SessionRecord == [phase : {"none", "draft", "authorizing", "provisioned", "handed_off", "failed", "cleanup_required"},
                  sel : BOOLEAN, plan : 0..Typed, att : 0..MaxAttempts, status : {"none", "authorizing", "exchanging"},
                  prov : 0..MaxAttempts]
Points == {"new", "consent", "exchange", "account", "create", "upload", "expose", "verify", "retire", "delete", "prove", "revoke",
           "record", "complete", "fail", "closed"}

PhaseInvariantsHold(r) ==
  /\ r.phase \in {"none", "draft", "failed", "authorizing"} => r.prov = 0
  /\ r.phase = "authorizing" => r.plan # 0 /\ r.att # 0 /\ kind[r.att] = "bootstrap"
  /\ r.phase \in {"provisioned", "handed_off", "cleanup_required"} => r.plan # 0 /\ r.prov # 0
  /\ r.phase \in {"draft", "failed", "provisioned", "handed_off"} => r.att = 0

(* phaseInvariantsHold on every record, and the types of the rest.          *)
TypeOK ==
  /\ sess \in [Sessions -> SessionRecord] /\ cur \in Sessions /\ dead \subseteq Sessions /\ cookie \in 0..MaxAttempts
  /\ req \in [Attempts -> Points] /\ ok \in [Attempts -> Outcomes]
  /\ grant \in [Attempts -> Grants]
  /\ worker \in [Seeded -> Workers] /\ seed \in Provisions /\ overtaken \subseteq Attempts \X (0..MaxAttempts) /\ hands \subseteq Polls
  /\ \A s \in Sessions : PhaseInvariantsHold(sess[s])

(* A capability that left the installer belongs to a Worker the installer   *)
(* never removes again, whatever the alarm, a late answer of another tab or *)
(* a later approval does (markHostedStage1HandedOff before the answer); and *)
(* only a cleanup that was about to retire another Worker of its name when  *)
(* it was made can retire it, by that name.                                 *)
ReleasedIsKept == \A i \in released :
  LET w == worker[seed[i]] IN
  w.by = i /\ ~w.going /\ (w.code \in {"shell", "other"} \/ \E j \in Attempts : <<j, i>> \in overtaken)

(* A Worker whose provision was recorded stays on record until it is        *)
(* handed over or gone: neither expiry, erasure, a failed cleanup nor a new *)
(* session drops it (reapHostedStage1Session).                              *)
ProvisionIsRemembered ==
  \A i \in Attempts : ok[i] = "recorded" =>
    \/ i \in released
    \/ \E s \in Sessions : sess[s].prov = i
    \/ worker[seed[i]].by # i

(* A session that records a provision, or a cleanup that completed, has its *)
(* grant revoked (executeHostedBootstrapGrant returns after the finally).   *)
RecordedIsRevoked ==
  /\ \A s \in Sessions : sess[s].prov # 0 => grant[sess[s].prov] = "revoked"
  /\ \A i \in Attempts : req[i] = "complete" => grant[i] = "revoked" /\ worker[Target(i)].by # Recorded(i)

(* Two deliveries of a callback redeem one code once.                       *)
RedeemedOnce == \A i \in Attempts : redeemed[i] <= 1

(* A Worker that was changed by hand or that another script binds is not    *)
(* retired or removed (readExactVersion, foreignBindingsUnshared), unless   *)
(* that came after the cleanup had verified it: at the PUT and the DELETE   *)
(* nothing is read again.                                                   *)
Retired(p) == worker'[p].code = "retired" /\ worker[p].code # "retired"
KeepsNotOurs ==
  \A p \in Seeded :
    /\ worker[p].by # 0 /\ ~worker[p].going /\ (foreign \/ worker[p].code = "other")
    /\ worker'[p].by # worker[p].by \/ worker'[p].going \/ Retired(p)
    => \E i \in Attempts, k \in 0..MaxAttempts : Removing(i) /\ Target(i) = p /\ <<i, k>> \in overtaken

(* An approval ends: the alarm fails it when its window closes; a capability*)
(* nobody collected becomes a cleanup obligation.                           *)
Undecided == sess[cur].phase \in {"authorizing", "provisioned"}
Decided   == sess[cur].phase \notin {"authorizing", "provisioned"}
ApprovalEnds == Undecided ~> Decided

(* The comment on removeExactBootstrapRoot: an already-absent root is       *)
(* success.                                                                 *)
AbsentIsSuccess == \A i \in Attempts : kind[i] = "cleanup" /\ req[i] = "fail" /\ ok[i] = "refused" => worker[Target(i)].by # 0

(* The installer page on an approval that lapses: nothing is left behind.   *)
LapsedLeavesNothing ==
  \A s \in Sessions : sess[s].phase = "failed" /\ sess[s].plan # 0 /\ faults = 0
    /\ (\A i \in Attempts : home[i] = s => req[i] \in {"consent", "closed"}) => worker[sess[s].plan].by = 0

(* The safety of this component: its invariants together.                   *)
Safe ==
  /\ TypeOK /\ ReleasedIsKept /\ ProvisionIsRemembered /\ RecordedIsRevoked /\ RedeemedOnce
=============================================================================
