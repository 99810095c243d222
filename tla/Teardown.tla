------------------------------ MODULE Teardown ------------------------------
(***************************************************************************)
(* A gateway removes what it installed (the teardown journal and executor  *)
(* of payload/worker/index.js, customer-teardown-router.ts,                *)
(* customer-teardown-driver.ts and customer-bigquery-teardown.ts).         *)
(*                                                                         *)
(* An administrator prepares an action and consents; the callback hands    *)
(* the grant to a driver that keeps it in memory and applies the removal   *)
(* in bounded passes, one alarm each: the installation object checks that  *)
(* no other Portal uses a server, proves every resource, deletes them one  *)
(* by one in a fixed order, arming each DELETE in its journal, and proves  *)
(* that all are gone; then the BigQuery bridge goes the same way.  Only a  *)
(* completed removal with a revoked grant is handed off to the installer.  *)
(* A request is identified by its attempt; time is the set of expired      *)
(* actions.  Both objects may restart between any two steps.               *)
(***************************************************************************)
EXTENDS Naturals, Sequences, FiniteSets

CONSTANTS Order,       \* the kinds of the receipt's resources, in removal order
          Optional,    \* resources a partial installation may not have created
          MaxActions,  \* bound on prepared actions
          MaxAttempts, \* bound on consents that were started
          MaxOutside,  \* bound on changes of sharing made outside the gateway
          MaxFaults    \* bound on restarts and on requests that fail

VARIABLES
  live,     \* the receipt's resources that exist
  bridge,   \* the resources of the BigQuery bridge that exist
  foreign,  \* what stands in the way: another "portal" uses a server, a "resource" is no longer as recorded,
            \* or an unowned server refers to the "bridge"
  root,     \* STORAGE_KEY of the installation object: [status, removed, pending]
  prog,     \* ROOT_TEARDOWN_PROGRESS_KEY: [att, phase, checked]
  bj, bp,   \* journal and progress of the bridge's removal
  actions,  \* TEARDOWNS_KEY: the status of each action
  expired,  \* actions whose expiresAt is past
  other,    \* another lifecycle change is open
  attempt,  \* the attempt record: [id, action, phase, warn]
  req,      \* the browser requests of each attempt
  pending,  \* the driver's #pending, in memory: an attempt or 0
  grant,    \* the consent grant of each attempt
  outcome,  \* the outcome record: [att, result]
  pass,     \* the driver's pass: [att, at, done]
  alarm, flying, outside, faults

cloud   == <<live, bridge, flying>>
journal == <<root, prog, bj, bp>>
ledger  == <<actions, expired, other>>
browser == <<req, attempt>>
driver  == <<pending, grant, outcome>>
bounds  == <<foreign, outside, faults>>
vars == <<live, bridge, foreign, root, prog, bj, bp, actions, expired, other, attempt, req, pending, grant,
          outcome, pass, alarm, flying, outside, faults>>

N == Len(Order)
Resources == 1..N
BridgeOrder == <<"domain", "worker", "bridge_application">>
Bridge   == 1..3
Obstacles == {"none", "portal", "resource", "bridge"}
Actions  == 1..MaxActions
Attempts == 1..MaxAttempts
Nobody   == [att |-> 0, phase |-> "none"]
NoProgress == [att |-> 0, phase |-> "none", checked |-> 0]
NoPass     == [att |-> 0, at |-> "none", done |-> FALSE]
NoAttempt  == [id |-> 0, action |-> 0, phase |-> "settled", warn |-> FALSE]
Ready      == [status |-> "ready", removed |-> 0, pending |-> Nobody]

Init ==
  /\ live \in {Resources \ m : m \in SUBSET Optional} /\ bridge = Bridge
  /\ foreign \in (IF MaxOutside = 0 THEN {"none"} ELSE Obstacles)
  /\ root = Ready /\ prog = NoProgress
  /\ bj = [removed |-> 0, pending |-> 0] /\ bp = [att |-> 0, phase |-> "none"]
  /\ actions = [a \in Actions |-> "none"] /\ expired = {} /\ other = FALSE
  /\ attempt = NoAttempt /\ req = [i \in Attempts |-> [at |-> "new", action |-> 0, seen |-> <<0, "settled">>]]
  /\ pending = 0 /\ grant = [i \in Attempts |-> "none"] /\ outcome = [att |-> 0, result |-> "none"]
  /\ pass = NoPass /\ alarm = FALSE /\ flying = 0 /\ outside = 0 /\ faults = 0

Fault == faults < MaxFaults /\ faults' = faults + 1 /\ UNCHANGED <<foreign, outside>>

-----------------------------------------------------------------------------
(* The teardown journal                                                     *)

Open == {"authorization_required", "applying"}

(* currentTeardownLocksRuntime                                               *)
LocksRuntime ==
  \E a \in Actions : \/ actions[a] \in {"applying", "gateway_removed", "recovery_required"}
                     \/ actions[a] = "authorization_required" /\ a \notin expired

(* prepareTeardownAction: the expired actions leave the journal.             *)
Prepare ==
  /\ ~other
  /\ \A a \in Actions : actions[a] \in Open => a \in expired
  /\ \E a \in Actions :
       /\ \A b \in Actions : b < a <=> actions[b] # "none" \/ b \in expired
       /\ actions' = [b \in Actions |-> IF b = a THEN "authorization_required"
                                        ELSE IF b \in expired THEN "none" ELSE actions[b]]
  /\ UNCHANGED <<cloud, journal, expired, other, browser, driver, pass, alarm, bounds>>

(* Whether the journal accepts a signed command for the action.              *)
Proves(a)  == ~other /\ actions[a] \in Open \cup {"gateway_removed"} /\ a \notin expired

Unstarted == root.status = "tearing_down" /\ root.removed = 0 /\ root.pending = Nobody

\* Mutant of SettleAction: a settlement that looks only at the deletions that were confirmed.
SettleConfirmed(a) ==
  IF root.status # "removed" /\ root.removed = 0
  THEN /\ root' = Ready /\ prog' = NoProgress /\ actions' = [actions EXCEPT ![a] = "failed"]
  ELSE /\ actions' = [actions EXCEPT ![a] = "recovery_required"] /\ UNCHANGED <<root, prog>>
(* settleCurrentTeardownAction and settleRootTeardown: a removal that armed  *)
(* no deletion returns to the ready receipt and releases the lock.           *)
SettleAction(a) ==
  IF root.status = "ready" \/ Unstarted
  THEN /\ root' = Ready /\ prog' = (IF Unstarted THEN NoProgress ELSE prog)
       /\ actions' = [actions EXCEPT ![a] = "failed"]
  ELSE /\ actions' = [actions EXCEPT ![a] = "recovery_required"] /\ UNCHANGED <<root, prog>>

Settles(a) ==
  \/ actions[a] # "none" /\ SettleAction(a) /\ UNCHANGED <<foreign, outside, faults>>
  \/ actions[a] = "none" /\ UNCHANGED <<actions, root, prog, bounds>>
  \/ Fault /\ UNCHANGED <<actions, root, prog>>

-----------------------------------------------------------------------------
(* The consent (customer-teardown-router.ts)                                *)

Stamp == <<attempt.id, attempt.phase>>     \* identifies the record's revision
To(i, at) == req' = [req EXCEPT ![i].at = at]
Lost(g, i) == [g EXCEPT ![i] = IF @ = "held" THEN "lost" ELSE @]
Forgotten == IF pending = 0 THEN grant ELSE Lost(grant, pending)

(* start: the attempt record is read and the journal proves the action.      *)
StartRead(i) ==
  /\ req[i].at = "new" /\ \A j \in Attempts : j < i => req[j].at # "new"
  /\ attempt.phase = "settled" \/ attempt.action \in expired
  /\ \E a \in Actions :
       Proves(a) /\ req' = [req EXCEPT ![i] = [at |-> "proved", action |-> a, seen |-> Stamp]]
  /\ UNCHANGED <<cloud, journal, ledger, attempt, driver, pass, alarm, bounds>>

(* An attempt that was exchanging may have left a grant behind.              *)
WarnPrior == attempt.warn \/ attempt.phase = "exchanging"

StartWrite(i) ==
  /\ req[i].at = "proved"
  /\ IF req[i].seen = Stamp
     THEN /\ attempt' = [id |-> i, action |-> req[i].action, phase |-> "authorizing", warn |-> WarnPrior]
          /\ To(i, "relay")
     ELSE To(i, "refused") /\ UNCHANGED attempt
  /\ UNCHANGED <<cloud, journal, ledger, driver, pass, alarm, bounds>>

(* settle: the record, then the gateway's journal.                           *)
SettleRequest(i, unconfirmed) ==
  IF Stamp = <<i, attempt.phase>> /\ attempt.phase # "settled"
  THEN /\ attempt' = [attempt EXCEPT !.phase = "settled", !.warn = @ \/ unconfirmed]
       /\ To(i, "settle")
  ELSE To(i, "failed") /\ UNCHANGED attempt
SettleCommand(i) ==
  /\ req[i].at = "settle" /\ Settles(req[i].action) /\ To(i, "failed")
  /\ UNCHANGED <<cloud, bj, bp, expired, other, attempt, driver, pass, alarm>>

(* The ticket and the relay, or the settlement when either fails.            *)
Relay(i) ==
  /\ req[i].at = "relay"
  /\ \/ To(i, "consent") /\ UNCHANGED <<attempt, bounds>>
     \/ Fault /\ SettleRequest(i, FALSE)
  /\ UNCHANGED <<cloud, journal, ledger, driver, pass, alarm>>

(* callback: denied, or the attempt is consumed before the code is.          *)
Callback(i) ==
  /\ req[i].at = "consent" /\ Stamp = <<i, "authorizing">> /\ attempt.action \notin expired
  /\ \/ attempt' = [attempt EXCEPT !.phase = "exchanging"] /\ To(i, "exchange") /\ UNCHANGED bounds
     \/ Fault /\ SettleRequest(i, FALSE)
  /\ UNCHANGED <<cloud, journal, ledger, driver, pass, alarm>>

(* The exchange and the account check; a failed one may have issued a grant. *)
Exchange(i) ==
  /\ req[i].at = "exchange"
  /\ \/ grant' = [grant EXCEPT ![i] = "held"] /\ To(i, "handover") /\ UNCHANGED <<attempt, bounds>>
     \/ Fault /\ \E g \in {"none", "lost", "revoked"} :
          grant' = [grant EXCEPT ![i] = g] /\ SettleRequest(i, g # "revoked")
  /\ UNCHANGED <<cloud, journal, ledger, pending, outcome, pass, alarm>>

(* driver.start: the grant of an earlier attempt is discarded.               *)
HandOver(i) ==
  /\ req[i].at = "handover" /\ To(i, "done")
  /\ pending' = i /\ grant' = Forgotten /\ alarm' = TRUE
  /\ UNCHANGED <<cloud, journal, ledger, attempt, outcome, pass, bounds>>

-----------------------------------------------------------------------------
(* The passes (customer-teardown-driver.ts)                                 *)

Idle == pass.at = "none"
Goto(at) == pass' = [pass EXCEPT !.at = at]
Pause == pass' = NoPass /\ alarm' = TRUE
Fail == Goto("end") /\ UNCHANGED alarm

(* continue: what the attempt record and the memory make of an alarm.        *)
Alarm ==
  /\ alarm /\ Idle /\ alarm' = FALSE
  /\ \/ /\ attempt.phase # "exchanging"
        /\ grant' = Forgotten /\ pending' = 0 /\ UNCHANGED <<attempt, outcome, pass>>
     \/ /\ attempt.phase = "exchanging" /\ pending # attempt.id
        /\ grant' = Forgotten /\ pending' = 0
        /\ attempt' = [attempt EXCEPT !.phase = "settled", !.warn = TRUE]
        /\ outcome' = [att |-> attempt.id, result |-> "interrupted"] /\ UNCHANGED pass
     \/ /\ attempt.phase = "exchanging" /\ pending = attempt.id
        /\ pass' = [att |-> pending, at |-> (IF attempt.action \in expired THEN "end" ELSE "apply"), done |-> FALSE]
        /\ UNCHANGED <<attempt, pending, grant, outcome>>
  /\ UNCHANGED <<cloud, journal, ledger, req, bounds>>

Claimed == IF Idle THEN 0 ELSE req[pass.att].action
MyBridge == IF bp.att = pass.att THEN bp.phase ELSE "preflight"

(* The bridge as preflight and verification expect it.                       *)
BridgeProven == \A x \in Bridge : IF x <= bj.removed THEN x \notin bridge
                                  ELSE x \in bridge \/ (bj.pending # 0 /\ x = bj.removed + 1)

(* processTeardownActionApply up to the lifecycle lock: the bridge's         *)
(* preflight comes first.                                                    *)
Apply ==
  /\ pass.at = "apply"
  /\ LET ok == grant[pass.att] = "held" /\ Proves(Claimed) /\ (MyBridge = "preflight" => BridgeProven /\ foreign # "bridge")
     IN  IF ok THEN /\ bp' = [att |-> pass.att, phase |-> IF MyBridge = "preflight" THEN "remove" ELSE MyBridge]
                    /\ actions' = [actions EXCEPT ![Claimed] = IF @ = "authorization_required" THEN "applying" ELSE @]
                    /\ Goto("open") /\ UNCHANGED alarm
         ELSE Fail /\ UNCHANGED <<bp, actions>>
  /\ UNCHANGED <<cloud, root, prog, bj, expired, other, browser, driver, bounds>>

(* processRootTeardownApply: the first apply opens the journal.              *)
OpenRoot ==
  /\ pass.at = "open" /\ Goto("step")
  /\ root' = IF root.status = "ready" THEN [root EXCEPT !.status = "tearing_down"] ELSE root
  /\ UNCHANGED <<cloud, prog, bj, bp, ledger, browser, driver, alarm, bounds>>

(* The progress of this request; a fresh consent proves the graph again.     *)
Progress == IF prog.att = pass.att THEN prog ELSE [att |-> pass.att, phase |-> "sharing_preflight", checked |-> 0]
Step(ph) == pass.at = "step" /\ Progress.phase \in ph /\ Claimed \notin expired

(* Another Portal that uses a server stops the removal.                      *)
Sharing ==
  /\ Step({"sharing_preflight", "sharing_delete"})
  /\ IF foreign = "portal" THEN Fail /\ UNCHANGED prog
     ELSE /\ Pause
          /\ prog' = [Progress EXCEPT !.phase = IF @ = "sharing_preflight" THEN "preflight" ELSE "delete"]
  /\ UNCHANGED <<cloud, root, bj, bp, ledger, browser, driver, bounds>>

(* What the journal lets a proof find at a resource.                         *)
Expected(x) ==
  IF x <= root.removed THEN x \notin live
  ELSE x \in live \/ x \in Optional \/ (root.pending # Nobody /\ x = root.removed + 1)
Altered(x) == foreign = "resource" /\ x = N /\ x \in live
Agrees(x) == Expected(x) /\ ~Altered(x)

AfterPreflight == [Progress EXCEPT !.phase = "remove", !.checked = 0]

(* preflight and verify: one resource each pass; the last one ends them.     *)
Proof ==
  /\ Step({"preflight", "verify"})
  /\ LET x == Progress.checked + 1
     IN  IF ~Agrees(x) THEN Fail /\ UNCHANGED <<root, prog>>
         ELSE IF x < N THEN Pause /\ prog' = [Progress EXCEPT !.checked = x] /\ UNCHANGED root
         ELSE IF root.removed = N
         THEN /\ root' = [root EXCEPT !.status = "removed"]
              /\ prog' = [Progress EXCEPT !.phase = "complete", !.checked = x] /\ Goto("bridge") /\ UNCHANGED alarm
         ELSE Pause /\ prog' = AfterPreflight /\ UNCHANGED root
  /\ UNCHANGED <<cloud, bj, bp, ledger, browser, driver, bounds>>

Removed == [root EXCEPT !.removed = @ + 1, !.pending = Nobody]
Turn == /\ pass.at = "step" /\ Progress.phase \in {"remove", "delete"} /\ Claimed \notin expired

(* remove and delete: verification once all are gone, the sharing check      *)
(* before a server, a resource already gone, or the DELETE armed.            *)
Remove ==
  /\ Turn
  /\ LET x == root.removed + 1
     IN  IF root.removed = N
         THEN Pause /\ prog' = [Progress EXCEPT !.phase = "verify", !.checked = 0] /\ UNCHANGED root
         ELSE IF Progress.phase = "remove" /\ Order[x] = "server"
         THEN Pause /\ prog' = [Progress EXCEPT !.phase = "sharing_delete"] /\ UNCHANGED root
         ELSE IF x \notin live
         THEN Pause /\ root' = Removed /\ prog' = [Progress EXCEPT !.phase = "remove"]
         ELSE IF Altered(x) \/ (root.pending.att = pass.att /\ root.pending.phase # "not_applied")
         THEN Fail /\ UNCHANGED <<root, prog>>
         ELSE /\ root' = [root EXCEPT !.pending = [att |-> pass.att, phase |-> "send_armed"]]
              /\ Goto("send") /\ UNCHANGED <<prog, alarm>>
  /\ UNCHANGED <<cloud, bj, bp, ledger, browser, driver, bounds>>

(* The DELETE: answered, accepted only, refused, or without an answer.       *)
Send ==
  /\ pass.at = "send"
  /\ LET x == root.removed + 1
     IN  \/ Claimed \in expired /\ Fail /\ UNCHANGED <<cloud, root, bounds>>
         \/ /\ Claimed \notin expired /\ live' = live \ {x} /\ Goto("readback")
            /\ root' = [root EXCEPT !.pending.phase = "submitted"]
            /\ UNCHANGED <<bridge, flying, alarm, bounds>>
         \/ /\ Fault /\ Claimed \notin expired /\ flying = 0 /\ Order[x] = "application" /\ flying' = x
            /\ root' = [root EXCEPT !.pending.phase = "submitted"] /\ Goto("readback")
            /\ UNCHANGED <<live, bridge, alarm>>
         \/ /\ Fault /\ Claimed \notin expired /\ Fail /\ UNCHANGED cloud
            /\ root' = [root EXCEPT !.pending.phase = "not_applied"]
         \/ /\ Fault /\ Claimed \notin expired /\ Fail /\ UNCHANGED <<root, live, bridge>> /\ flying = 0
            /\ flying' \in {0, x}
  /\ UNCHANGED <<prog, bj, bp, ledger, browser, driver>>

(* Only the absence that was read back counts.                               *)
Readback ==
  /\ pass.at = "readback"
  /\ IF root.removed + 1 \in live THEN Fail /\ UNCHANGED <<root, prog>>
     ELSE root' = Removed /\ prog' = [Progress EXCEPT !.phase = "remove"] /\ Pause
  /\ UNCHANGED <<cloud, bj, bp, ledger, browser, driver, bounds>>

(* A pass whose action expired answers nothing.                              *)
StepExpired ==
  /\ pass.at = "step" /\ Claimed \in expired /\ Fail
  /\ UNCHANGED <<cloud, journal, ledger, browser, driver, bounds>>
(* A later pass finds the receipt's resources removed by this request.       *)
RootComplete ==
  /\ Step({"complete"})
  /\ IF root.status = "removed" THEN Goto("bridge") /\ UNCHANGED alarm ELSE Fail
  /\ UNCHANGED <<cloud, journal, ledger, browser, driver, bounds>>

-----------------------------------------------------------------------------
(* The bridge (customer-bigquery-teardown.ts)                               *)

(* Access stays until the route and the Worker are proven gone.              *)
GuardStands(x) == IF BridgeOrder[x] = "bridge_application" THEN bridge \subseteq {x} ELSE 3 \in bridge

(* remove, then verify: one resource or one proof each pass.                 *)
BridgeStep ==
  /\ pass.at = "bridge"
  /\ LET x == bj.removed + 1
     IN  IF Claimed \in expired \/ MyBridge = "preflight" \/ (MyBridge # "complete" /\ foreign = "bridge")
         THEN Fail /\ UNCHANGED <<bj, bp>>
         ELSE IF MyBridge = "complete" THEN Goto("removed") /\ UNCHANGED <<bj, bp, alarm>>
         ELSE IF bj.removed = 3
         THEN IF BridgeProven THEN Goto("removed") /\ bp' = [bp EXCEPT !.phase = "complete"] /\ UNCHANGED <<bj, alarm>>
              ELSE Fail /\ UNCHANGED <<bj, bp>>
         ELSE IF x \notin bridge
         THEN IF bj.pending # 0 THEN Pause /\ bj' = [removed |-> x, pending |-> 0] /\ UNCHANGED bp
              ELSE Fail /\ UNCHANGED <<bj, bp>>
         ELSE IF bj.pending = pass.att \/ ~GuardStands(x) THEN Fail /\ UNCHANGED <<bj, bp>>
         ELSE bj' = [bj EXCEPT !.pending = pass.att] /\ Goto("bridge_send") /\ UNCHANGED <<bp, alarm>>
  /\ UNCHANGED <<cloud, root, prog, ledger, browser, driver, bounds>>

BridgeSend ==
  /\ pass.at = "bridge_send"
  /\ LET x == bj.removed + 1
     IN  \/ /\ bridge' = bridge \ {x} /\ bj' = [removed |-> x, pending |-> 0] /\ Pause /\ UNCHANGED <<live, flying, bounds>>
         \/ Fault /\ Fail /\ UNCHANGED <<bj, live, flying>> /\ bridge' \in {bridge, bridge \ {x}}
  /\ UNCHANGED <<root, prog, bp, ledger, browser, driver>>

(* The action is recorded as removed and the driver has its completion.      *)
GatewayRemoved ==
  /\ pass.at = "removed" /\ actions' = [actions EXCEPT ![Claimed] = IF @ = "none" THEN @ ELSE "gateway_removed"]
  /\ pass' = [pass EXCEPT !.at = "end", !.done = TRUE]
  /\ UNCHANGED <<cloud, journal, expired, other, browser, driver, alarm, bounds>>

-----------------------------------------------------------------------------
(* The end of an attempt                                                    *)

Revoke ==
  /\ pass.at = "end" /\ Goto("settle")
  /\ \/ grant[pass.att] = "held" /\ grant' = [grant EXCEPT ![pass.att] = "revoked"] /\ UNCHANGED bounds
     \/ grant[pass.att] = "lost" /\ UNCHANGED <<grant, bounds>>
     \/ Fault /\ grant' = Lost(grant, pass.att)
  /\ UNCHANGED <<cloud, journal, ledger, browser, pending, outcome, alarm>>

(* The record of this attempt, if no later one replaced it.                  *)
SettleRecord ==
  /\ pass.at = "settle"
  /\ IF Stamp = <<pass.att, "exchanging">>
     THEN /\ attempt' = [attempt EXCEPT !.phase = "settled", !.warn = @ \/ grant[pass.att] # "revoked"]
          /\ Goto("command")
     ELSE pass' = [pass EXCEPT !.at = "close", !.done = FALSE] /\ UNCHANGED attempt
  /\ UNCHANGED <<cloud, journal, ledger, req, driver, alarm, bounds>>
SettleGateway ==
  /\ pass.at = "command" /\ Settles(Claimed)
  /\ pass' = [pass EXCEPT !.at = "close", !.done = @ /\ actions[Claimed] # "none" /\ faults' = faults]
  /\ UNCHANGED <<cloud, bj, bp, expired, other, browser, driver, alarm>>

(* Only a completed removal whose grant is revoked is handed off.            *)
HandsOff == pass.done /\ grant[pass.att] = "revoked"
Close ==
  /\ pass.at = "close" /\ pass' = NoPass /\ grant' = Forgotten /\ pending' = 0
  /\ outcome' = [att |-> pass.att, result |-> IF HandsOff THEN "removed" ELSE "recovery_required"]
  /\ UNCHANGED <<cloud, journal, ledger, browser, alarm, bounds>>

-----------------------------------------------------------------------------
(* Time, restarts, the provider and everybody else                          *)

(* A pass does not outlive an action prepared after its own had expired.     *)
Expire(a) ==
  /\ actions[a] # "none" /\ a \notin expired
  /\ Claimed \notin expired
  /\ expired' = expired \cup {a}
  /\ UNCHANGED <<cloud, journal, actions, other, browser, driver, pass, alarm, bounds>>

(* The management object restarts: memory and requests are lost, a pass that *)
(* ran is retried by its alarm.                                              *)
Restart ==
  /\ Fault /\ pending' = 0 /\ pass' = NoPass /\ alarm' = (alarm \/ ~Idle)
  /\ grant' = [i \in Attempts |-> IF grant[i] = "held" THEN "lost" ELSE grant[i]]
  /\ req' = [i \in Attempts |-> IF req[i].at \in {"new", "consent", "done"} THEN req[i] ELSE [req[i] EXCEPT !.at = "failed"]]
  /\ UNCHANGED <<cloud, journal, ledger, attempt, outcome>>

Land ==
  /\ flying # 0 /\ live' = live \ {flying} /\ flying' = 0
  /\ UNCHANGED <<bridge, journal, ledger, browser, driver, pass, alarm, bounds>>
Share ==
  /\ outside < MaxOutside /\ outside' = outside + 1 /\ foreign' \in Obstacles \ {foreign}
  /\ UNCHANGED <<cloud, journal, ledger, browser, driver, pass, alarm, faults>>

OtherBegins ==
  /\ ~other /\ ~LocksRuntime /\ other' = TRUE
  /\ UNCHANGED <<cloud, journal, actions, expired, browser, driver, pass, alarm, bounds>>
OtherEnds ==
  /\ other /\ other' = FALSE
  /\ UNCHANGED <<cloud, journal, actions, expired, browser, driver, pass, alarm, bounds>>

RequestStep(i) == StartWrite(i) \/ SettleCommand(i) \/ Relay(i) \/ Exchange(i) \/ HandOver(i)
RootStep  == OpenRoot \/ Sharing \/ Proof \/ Remove \/ Send \/ Readback \/ StepExpired \/ RootComplete
EndStep   == Revoke \/ SettleRecord \/ SettleGateway \/ Close
PassStep  == Apply \/ RootStep \/ BridgeStep \/ BridgeSend \/ GatewayRemoved \/ EndStep

Next ==
  \/ Prepare \/ Alarm \/ PassStep \/ Restart \/ Land \/ Share \/ OtherBegins \/ OtherEnds
  \/ \E i \in Attempts : StartRead(i) \/ Callback(i) \/ RequestStep(i)
  \/ \E a \in Actions : Expire(a)

Spec == Init /\ [][Next]_vars
(* Requests and passes that run go on, and a set alarm fires.                *)
FairSpec == /\ Spec /\ WF_vars(Alarm) /\ WF_vars(PassStep)
            /\ \A i \in Attempts : WF_vars(RequestStep(i))

-----------------------------------------------------------------------------
(* Properties                                                               *)

Progresses == [att : 0..MaxAttempts, checked : 0..N,
               phase : {"none", "sharing_preflight", "preflight", "remove", "sharing_delete", "delete", "verify", "complete"}]
TypeOK ==
  /\ live \subseteq Resources /\ bridge \subseteq Bridge /\ flying \in 0..N
  /\ root \in [status : {"ready", "tearing_down", "removed"}, removed : 0..N,
               pending : [att : 0..MaxAttempts, phase : {"none", "send_armed", "submitted", "not_applied"}]]
  /\ prog \in Progresses
  /\ bj \in [removed : 0..3, pending : 0..MaxAttempts]
  /\ bp \in [att : 0..MaxAttempts, phase : {"none", "preflight", "remove", "complete"}]
  /\ actions \in [Actions -> {"none", "failed", "gateway_removed", "recovery_required"} \cup Open]
  /\ attempt \in [id : 0..MaxAttempts, action : 0..MaxActions, phase : {"authorizing", "exchanging", "settled"}, warn : BOOLEAN]
  /\ pending \in 0..MaxAttempts /\ grant \in [Attempts -> {"none", "held", "revoked", "lost"}]
  /\ outcome.att \in 0..MaxAttempts /\ pass.att \in 0..MaxAttempts /\ {other, alarm} \subseteq BOOLEAN /\ foreign \in Obstacles

(* Every resource that is gone, or that a DELETE without an answer may still *)
(* take, is in the journal: among the removed ones or at the armed boundary  *)
(* ("a journal with no removed resource and no pending entry proves that the *)
(* provider was only read").  So the ready receipt never comes back over a   *)
(* deletion, and the bridge's journal says the same of the bridge.           *)
DeletionsAreJournaled ==
  /\ \A x \in (Resources \ (live \cup Optional)) \cup ({flying} \ {0}) :
       \/ x <= root.removed
       \/ x = root.removed + 1 /\ root.pending # Nobody
  /\ \A x \in Bridge \ bridge : x <= bj.removed \/ (x = bj.removed + 1 /\ bj.pending # 0)

(* The order of removal holds whatever was lost or retried: nothing goes     *)
(* before what precedes it, the Portal before its servers, the bridge after  *)
(* the receipt's resources, and its Access application last.                 *)
RemovedInOrder ==
  /\ \A x \in Resources \ (live \cup Optional) : \A y \in live : x < y
  /\ bridge # Bridge => live = {}
  /\ bridge \cap {1, 2} # {} => 3 \in bridge

(* The installer is handed a completed removal only: everything the receipts *)
(* name is gone and the grant that removed it is revoked.                    *)
HandoffIsEarned ==
  outcome.result = "removed" => live = {} /\ bridge = {} /\ grant[outcome.att] = "revoked"

(* A grant nobody revoked stays visible: the attempt record warns of it, or  *)
(* its own attempt is still exchanging and the next one will warn.           *)
RevocationIsHonest ==
  \A i \in Attempts : grant[i] = "lost" =>
    attempt.warn \/ (attempt.id = i /\ attempt.phase = "exchanging")

(* The complete graph is proved before the first deletion: a server another  *)
(* Portal uses, a resource that is not the recorded one or a foreign server  *)
(* on the bridge, there all along, stops the removal with everything in      *)
(* place, although other resources would go first.                           *)
ForeignStops == foreign # "none" /\ outside = 0 => Resources \ Optional \subseteq live /\ bridge = Bridge

(* Nothing else changes the gateway while a deletion is on its way.          *)
RemovalIsAlone == pass.at \in {"send", "readback", "bridge_send"} => ~other

(* "Unknown or partial removal stays locked"                                 *)
(* (docs/TEARDOWN_IMPLEMENTATION.md): a journal that holds a removed         *)
(* resource or an armed deletion keeps the other lifecycle changes out.      *)
PartialStaysLocked == root.removed > 0 \/ root.pending # Nobody => LocksRuntime

(* A consent that meets neither a fault nor another Portal finishes the      *)
(* removal before it expires, in one pass after the other.                   *)
Due  == attempt.phase = "exchanging"
Done == outcome.result = "removed" \/ expired # {} \/ other
ConsentFinishes == Due ~> Done

(* The safety of this component: its invariants together.                   *)
Safe ==
  /\ TypeOK /\ DeletionsAreJournaled /\ RemovedInOrder /\ HandoffIsEarned /\ RevocationIsHonest
  /\ ForeignStops /\ RemovalIsAlone
=============================================================================
