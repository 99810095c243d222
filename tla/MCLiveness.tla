------------------------------ MODULE MCLiveness ------------------------------
(*******************************************************************************)
(* Liveness for TLC.  Each behaviour is one of one part: part says which, the  *)
(* variables of the others stay 0.  The fairness is that of the components,    *)
(* and asked of a part only where it is the one that runs.                     *)
(*******************************************************************************)
EXTENDS Naturals, FiniteSets, TLC

CONSTANTS
    Chosen, toolA, toolB, person, c1, c2, planA, core, b1, w1, w2, NoFile

VARIABLES
    part, journal, saved, records, credential, portal, drift, app, pc, last, step, faults, edits,
    label, rev, toolEdit, labelEdit, floor, names, offered, stage, op, after, tail, checksAfter,
    active, slots, outside, act, live, groups, agents, change, attempt, cb, spent, wire, landed,
    writes, other, check, perms, started, others, checks, contested, served, running, expired,
    slot, att, pending, grant, outcome, pass, armed, handover, alarm, flying, sent, bridge,
    foreign, root, prog, bj, bp, actions, req, stale, old, offer, job, memory, passes, pauses,
    lags, sess, cur, dead, cookie, kind, home, seed, ok, redeemed, worker, sub, hands, released,
    seeds, receipt, snapshot, approval, run, report, now, bucket, receipts, loader, mirror, github,
    used

allVars == <<part, journal, saved, records, credential, portal, drift, app, pc, last, step, faults,
             edits, label, rev, toolEdit, labelEdit, floor, names, offered, stage, op, after, tail,
             checksAfter, active, slots, outside, act, live, groups, agents, change, attempt, cb,
             spent, wire, landed, writes, other, check, perms, started, others, checks, contested,
             served, running, expired, slot, att, pending, grant, outcome, pass, armed, handover,
             alarm, flying, sent, bridge, foreign, root, prog, bj, bp, actions, req, stale, old,
             offer, job, memory, passes, pauses, lags, sess, cur, dead, cookie, kind, home, seed,
             ok, redeemed, worker, sub, hands, released, seeds, receipt, snapshot, approval, run,
             report, now, bucket, receipts, loader, mirror, github, used>>

Switch == INSTANCE TokenSwitch WITH
    MaxFaults <- 2, MaxEdits <- 1
Edits == INSTANCE SourceEdits WITH
    Sources <- {1}, Tools <- {toolA, toolB},
    Choices <- {[tools |-> {toolA}, all |-> FALSE], [tools |-> {toolA, toolB}, all |-> FALSE]},
    Labels <- {"old"}, Requests <- 1 .. 3, CheckLimit <- 1, MaxRevision <- 1, MaxFaults <- 0,
    MaxOutside <- 0
Team == INSTANCE TeamAccess WITH
    People <- {person}, Individuals <- {}, MaxFaults <- 2, MaxEdits <- 0
Change == INSTANCE CredentialChange WITH
    Admins <- {person}, Callbacks <- {c1, c2}, MaxChanges <- 1, MaxAttempts <- 2, MaxEdits <- 0,
    MaxOthers <- 1, MaxChecks <- 0, relays <- offer
Update == INSTANCE RuntimeUpdate WITH
    MaxRelease <- 2, MaxActions <- 2, MaxAttempts <- 1, MaxOutside <- 1, MaxFaults <- 1
Gateway == INSTANCE Teardown WITH
    Order <- <<"portal", "application", "server">>, Optional <- {}, MaxActions <- 2,
    MaxAttempts <- 2, MaxOutside <- 0, MaxFaults <- 0
Root == INSTANCE RootRemoval WITH
    MaxAttempts <- 2, MaxPasses <- 3, MaxPauses <- 1, MaxFaults <- 0, MaxLags <- 0
Session == INSTANCE Stage1Session WITH
    MaxSessions <- 1, MaxAttempts <- 1, MaxPlans <- 1, MaxFaults <- 1, overtaken <- contested
Canary == INSTANCE CanaryLifecycle WITH
    Kinds <- 1 .. 3, Portal <- 2, Markerless <- {3}, MaxFaults <- 2, MaxEdits <- 0
Publication == INSTANCE ReleasePublication WITH
    Plans <- {planA}, Paths <- {core}, Bytes <- {b1}, Signed <- {planA}, Workers <- {w1, w2},
    Loaders <- {}, Mirrors <- {}, Manifest <- planA :> (core :> b1), Blob <- planA :> (core :> b1),
    Carried <- [r \in {w1, w2} |-> core :> b1], SizeOf <- b1 :> 1,
    PlanOf <- [r \in {w1, w2} |-> planA], Behind <- w1 :> 0 @@ w2 :> 1, PinOf <- <<>>, MaxTime <- 1,
    MaxLost <- 1, MaxRestarts <- 1, MaxForeign <- 0

butSwitch == <<label, rev, toolEdit, labelEdit, floor, names, offered, stage, op, after, tail,
               checksAfter, active, slots, outside, act, live, groups, agents, change, attempt, cb,
               spent, wire, landed, writes, other, check, perms, started, others, checks,
               contested, served, running, expired, slot, att, pending, grant, outcome, pass,
               armed, handover, alarm, flying, sent, bridge, foreign, root, prog, bj, bp, actions,
               req, stale, old, offer, job, memory, passes, pauses, lags, sess, cur, dead, cookie,
               kind, home, seed, ok, redeemed, worker, sub, hands, released, seeds, receipt,
               snapshot, approval, run, report, now, bucket, receipts, loader, mirror, github,
               used>>
IdleButSwitch ==
    /\ label = 0 /\ rev = 0 /\ toolEdit = 0 /\ labelEdit = 0 /\ floor = 0 /\ names = 0
    /\ offered = 0 /\ stage = 0 /\ op = 0 /\ after = 0 /\ tail = 0 /\ checksAfter = 0 /\ active = 0
    /\ slots = 0 /\ outside = 0 /\ act = 0 /\ live = 0 /\ groups = 0 /\ agents = 0 /\ change = 0
    /\ attempt = 0 /\ cb = 0 /\ spent = 0 /\ wire = 0 /\ landed = 0 /\ writes = 0 /\ other = 0
    /\ check = 0 /\ perms = 0 /\ started = 0 /\ others = 0 /\ checks = 0 /\ contested = 0
    /\ served = 0 /\ running = 0 /\ expired = 0 /\ slot = 0 /\ att = 0 /\ pending = 0 /\ grant = 0
    /\ outcome = 0 /\ pass = 0 /\ armed = 0 /\ handover = 0 /\ alarm = 0 /\ flying = 0 /\ sent = 0
    /\ bridge = 0 /\ foreign = 0 /\ root = 0 /\ prog = 0 /\ bj = 0 /\ bp = 0 /\ actions = 0
    /\ req = 0 /\ stale = 0 /\ old = 0 /\ offer = 0 /\ job = 0 /\ memory = 0 /\ passes = 0
    /\ pauses = 0 /\ lags = 0 /\ sess = 0 /\ cur = 0 /\ dead = 0 /\ cookie = 0 /\ kind = 0
    /\ home = 0 /\ seed = 0 /\ ok = 0 /\ redeemed = 0 /\ worker = 0 /\ sub = 0 /\ hands = 0
    /\ released = 0 /\ seeds = 0 /\ receipt = 0 /\ snapshot = 0 /\ approval = 0 /\ run = 0
    /\ report = 0 /\ now = 0 /\ bucket = 0 /\ receipts = 0 /\ loader = 0 /\ mirror = 0
    /\ github = 0 /\ used = 0
SwitchInit == part = "switch" /\ Switch!Init /\ IdleButSwitch
SwitchNext == part = "switch" /\ Switch!Next /\ UNCHANGED <<part, butSwitch>>

butEdits == <<journal, records, credential, app, pc, last, step, edits, act, live, groups, agents,
              change, attempt, cb, spent, wire, landed, writes, other, check, perms, started,
              others, checks, contested, served, running, expired, slot, att, pending, grant,
              outcome, pass, armed, handover, alarm, flying, sent, bridge, foreign, root, prog, bj,
              bp, actions, req, stale, old, offer, job, memory, passes, pauses, lags, sess, cur,
              dead, cookie, kind, home, seed, ok, redeemed, worker, sub, hands, released, seeds,
              receipt, snapshot, approval, run, report, now, bucket, receipts, loader, mirror,
              github, used>>
IdleButEdits ==
    /\ journal = 0 /\ records = 0 /\ credential = 0 /\ app = 0 /\ pc = 0 /\ last = 0 /\ step = 0
    /\ edits = 0 /\ act = 0 /\ live = 0 /\ groups = 0 /\ agents = 0 /\ change = 0 /\ attempt = 0
    /\ cb = 0 /\ spent = 0 /\ wire = 0 /\ landed = 0 /\ writes = 0 /\ other = 0 /\ check = 0
    /\ perms = 0 /\ started = 0 /\ others = 0 /\ checks = 0 /\ contested = 0 /\ served = 0
    /\ running = 0 /\ expired = 0 /\ slot = 0 /\ att = 0 /\ pending = 0 /\ grant = 0 /\ outcome = 0
    /\ pass = 0 /\ armed = 0 /\ handover = 0 /\ alarm = 0 /\ flying = 0 /\ sent = 0 /\ bridge = 0
    /\ foreign = 0 /\ root = 0 /\ prog = 0 /\ bj = 0 /\ bp = 0 /\ actions = 0 /\ req = 0
    /\ stale = 0 /\ old = 0 /\ offer = 0 /\ job = 0 /\ memory = 0 /\ passes = 0 /\ pauses = 0
    /\ lags = 0 /\ sess = 0 /\ cur = 0 /\ dead = 0 /\ cookie = 0 /\ kind = 0 /\ home = 0
    /\ seed = 0 /\ ok = 0 /\ redeemed = 0 /\ worker = 0 /\ sub = 0 /\ hands = 0 /\ released = 0
    /\ seeds = 0 /\ receipt = 0 /\ snapshot = 0 /\ approval = 0 /\ run = 0 /\ report = 0 /\ now = 0
    /\ bucket = 0 /\ receipts = 0 /\ loader = 0 /\ mirror = 0 /\ github = 0 /\ used = 0
EditsInit == part = "edits" /\ Edits!Init /\ IdleButEdits
EditsNext == part = "edits" /\ Edits!Next /\ UNCHANGED <<part, butEdits>>

butTeam == <<journal, records, credential, portal, drift, app, last, step, label, rev, toolEdit,
             labelEdit, floor, names, offered, stage, op, after, tail, checksAfter, active, slots,
             outside, change, attempt, cb, spent, wire, landed, writes, other, check, perms,
             started, others, checks, contested, served, running, expired, slot, att, pending,
             grant, outcome, pass, armed, handover, alarm, flying, sent, bridge, foreign, root,
             prog, bj, bp, actions, req, stale, old, offer, job, memory, passes, pauses, lags,
             sess, cur, dead, cookie, kind, home, seed, ok, redeemed, worker, sub, hands, released,
             seeds, receipt, snapshot, approval, run, report, now, bucket, receipts, loader,
             mirror, github, used>>
IdleButTeam ==
    /\ journal = 0 /\ records = 0 /\ credential = 0 /\ portal = 0 /\ drift = 0 /\ app = 0
    /\ last = 0 /\ step = 0 /\ label = 0 /\ rev = 0 /\ toolEdit = 0 /\ labelEdit = 0 /\ floor = 0
    /\ names = 0 /\ offered = 0 /\ stage = 0 /\ op = 0 /\ after = 0 /\ tail = 0 /\ checksAfter = 0
    /\ active = 0 /\ slots = 0 /\ outside = 0 /\ change = 0 /\ attempt = 0 /\ cb = 0 /\ spent = 0
    /\ wire = 0 /\ landed = 0 /\ writes = 0 /\ other = 0 /\ check = 0 /\ perms = 0 /\ started = 0
    /\ others = 0 /\ checks = 0 /\ contested = 0 /\ served = 0 /\ running = 0 /\ expired = 0
    /\ slot = 0 /\ att = 0 /\ pending = 0 /\ grant = 0 /\ outcome = 0 /\ pass = 0 /\ armed = 0
    /\ handover = 0 /\ alarm = 0 /\ flying = 0 /\ sent = 0 /\ bridge = 0 /\ foreign = 0 /\ root = 0
    /\ prog = 0 /\ bj = 0 /\ bp = 0 /\ actions = 0 /\ req = 0 /\ stale = 0 /\ old = 0 /\ offer = 0
    /\ job = 0 /\ memory = 0 /\ passes = 0 /\ pauses = 0 /\ lags = 0 /\ sess = 0 /\ cur = 0
    /\ dead = 0 /\ cookie = 0 /\ kind = 0 /\ home = 0 /\ seed = 0 /\ ok = 0 /\ redeemed = 0
    /\ worker = 0 /\ sub = 0 /\ hands = 0 /\ released = 0 /\ seeds = 0 /\ receipt = 0
    /\ snapshot = 0 /\ approval = 0 /\ run = 0 /\ report = 0 /\ now = 0 /\ bucket = 0
    /\ receipts = 0 /\ loader = 0 /\ mirror = 0 /\ github = 0 /\ used = 0
TeamInit == part = "team" /\ Team!Init /\ IdleButTeam
TeamNext == part = "team" /\ Team!Next /\ UNCHANGED <<part, butTeam>>

butChange == <<journal, saved, records, credential, portal, drift, app, pc, last, step, faults,
               label, rev, toolEdit, labelEdit, floor, names, offered, stage, op, after, tail,
               checksAfter, active, slots, outside, act, groups, agents, served, running, expired,
               slot, att, pending, grant, outcome, pass, armed, handover, alarm, flying, sent,
               bridge, foreign, root, prog, bj, bp, actions, req, stale, old, job, memory,
               passes, pauses, lags, sess, cur, dead, cookie, kind, home, seed, ok, redeemed,
               worker, sub, hands, released, seeds, receipt, snapshot, approval, run, report, now,
               bucket, receipts, loader, mirror, github, used>>
IdleButChange ==
    /\ journal = 0 /\ saved = 0 /\ records = 0 /\ credential = 0 /\ portal = 0 /\ drift = 0
    /\ app = 0 /\ pc = 0 /\ last = 0 /\ step = 0 /\ faults = 0 /\ label = 0 /\ rev = 0
    /\ toolEdit = 0 /\ labelEdit = 0 /\ floor = 0 /\ names = 0 /\ offered = 0 /\ stage = 0
    /\ op = 0 /\ after = 0 /\ tail = 0 /\ checksAfter = 0 /\ active = 0 /\ slots = 0
    /\ outside = 0 /\ act = 0 /\ groups = 0 /\ agents = 0 /\ served = 0 /\ running = 0
    /\ expired = 0 /\ slot = 0 /\ att = 0 /\ pending = 0 /\ grant = 0 /\ outcome = 0 /\ pass = 0
    /\ armed = 0 /\ handover = 0 /\ alarm = 0 /\ flying = 0 /\ sent = 0 /\ bridge = 0
    /\ foreign = 0 /\ root = 0 /\ prog = 0 /\ bj = 0 /\ bp = 0 /\ actions = 0 /\ req = 0
    /\ stale = 0 /\ old = 0 /\ job = 0 /\ memory = 0 /\ passes = 0 /\ pauses = 0
    /\ lags = 0 /\ sess = 0 /\ cur = 0 /\ dead = 0 /\ cookie = 0 /\ kind = 0 /\ home = 0
    /\ seed = 0 /\ ok = 0 /\ redeemed = 0 /\ worker = 0 /\ sub = 0 /\ hands = 0 /\ released = 0
    /\ seeds = 0 /\ receipt = 0 /\ snapshot = 0 /\ approval = 0 /\ run = 0 /\ report = 0
    /\ now = 0 /\ bucket = 0 /\ receipts = 0 /\ loader = 0 /\ mirror = 0 /\ github = 0 /\ used = 0
ChangeInit == part = "change" /\ Change!Init /\ IdleButChange
ChangeNext == part = "change" /\ Change!Next /\ UNCHANGED <<part, butChange>>

butUpdate == <<saved, records, credential, portal, drift, app, pc, last, step, edits, label, rev,
               toolEdit, labelEdit, names, offered, stage, op, after, tail, checksAfter, active,
               slots, act, live, groups, agents, change, attempt, cb, spent, wire, landed, writes,
               check, perms, started, others, checks, contested, bridge, foreign, root, prog, bj,
               bp, actions, req, stale, old, offer, job, memory, passes, pauses, lags, sess, cur,
               dead, cookie, kind, home, seed, ok, redeemed, worker, sub, hands, released, seeds,
               receipt, snapshot, approval, run, report, now, bucket, receipts, loader, mirror,
               github, used>>
IdleButUpdate ==
    /\ saved = 0 /\ records = 0 /\ credential = 0 /\ portal = 0 /\ drift = 0 /\ app = 0 /\ pc = 0
    /\ last = 0 /\ step = 0 /\ edits = 0 /\ label = 0 /\ rev = 0 /\ toolEdit = 0 /\ labelEdit = 0
    /\ names = 0 /\ offered = 0 /\ stage = 0 /\ op = 0 /\ after = 0 /\ tail = 0 /\ checksAfter = 0
    /\ active = 0 /\ slots = 0 /\ act = 0 /\ live = 0 /\ groups = 0 /\ agents = 0 /\ change = 0
    /\ attempt = 0 /\ cb = 0 /\ spent = 0 /\ wire = 0 /\ landed = 0 /\ writes = 0 /\ check = 0
    /\ perms = 0 /\ started = 0 /\ others = 0 /\ checks = 0 /\ contested = 0 /\ bridge = 0
    /\ foreign = 0 /\ root = 0 /\ prog = 0 /\ bj = 0 /\ bp = 0 /\ actions = 0 /\ req = 0
    /\ stale = 0 /\ old = 0 /\ offer = 0 /\ job = 0 /\ memory = 0 /\ passes = 0 /\ pauses = 0
    /\ lags = 0 /\ sess = 0 /\ cur = 0 /\ dead = 0 /\ cookie = 0 /\ kind = 0 /\ home = 0
    /\ seed = 0 /\ ok = 0 /\ redeemed = 0 /\ worker = 0 /\ sub = 0 /\ hands = 0 /\ released = 0
    /\ seeds = 0 /\ receipt = 0 /\ snapshot = 0 /\ approval = 0 /\ run = 0 /\ report = 0 /\ now = 0
    /\ bucket = 0 /\ receipts = 0 /\ loader = 0 /\ mirror = 0 /\ github = 0 /\ used = 0
UpdateInit == part = "update" /\ Update!Init /\ IdleButUpdate
UpdateNext == part = "update" /\ Update!Next /\ UNCHANGED <<part, butUpdate>>

butGateway == <<journal, saved, records, credential, portal, drift, app, pc, last, step, edits,
                label, rev, toolEdit, labelEdit, floor, names, offered, stage, op, after, tail,
                checksAfter, active, slots, act, groups, agents, change, cb, spent, wire, landed,
                writes, check, perms, started, others, checks, contested, served, running, slot,
                att, armed, handover, sent, stale, old, offer, job, memory, passes, pauses, lags,
                sess, cur, dead, cookie, kind, home, seed, ok, redeemed, worker, sub, hands,
                released, seeds, receipt, snapshot, approval, run, report, now, bucket, receipts,
                loader, mirror, github, used>>
IdleButGateway ==
    /\ journal = 0 /\ saved = 0 /\ records = 0 /\ credential = 0 /\ portal = 0 /\ drift = 0
    /\ app = 0 /\ pc = 0 /\ last = 0 /\ step = 0 /\ edits = 0 /\ label = 0 /\ rev = 0
    /\ toolEdit = 0 /\ labelEdit = 0 /\ floor = 0 /\ names = 0 /\ offered = 0 /\ stage = 0
    /\ op = 0 /\ after = 0 /\ tail = 0 /\ checksAfter = 0 /\ active = 0 /\ slots = 0 /\ act = 0
    /\ groups = 0 /\ agents = 0 /\ change = 0 /\ cb = 0 /\ spent = 0 /\ wire = 0 /\ landed = 0
    /\ writes = 0 /\ check = 0 /\ perms = 0 /\ started = 0 /\ others = 0 /\ checks = 0
    /\ contested = 0 /\ served = 0 /\ running = 0 /\ slot = 0 /\ att = 0 /\ armed = 0
    /\ handover = 0 /\ sent = 0 /\ stale = 0 /\ old = 0 /\ offer = 0 /\ job = 0 /\ memory = 0
    /\ passes = 0 /\ pauses = 0 /\ lags = 0 /\ sess = 0 /\ cur = 0 /\ dead = 0 /\ cookie = 0
    /\ kind = 0 /\ home = 0 /\ seed = 0 /\ ok = 0 /\ redeemed = 0 /\ worker = 0 /\ sub = 0
    /\ hands = 0 /\ released = 0 /\ seeds = 0 /\ receipt = 0 /\ snapshot = 0 /\ approval = 0
    /\ run = 0 /\ report = 0 /\ now = 0 /\ bucket = 0 /\ receipts = 0 /\ loader = 0 /\ mirror = 0
    /\ github = 0 /\ used = 0
GatewayInit == part = "teardown" /\ Gateway!Init /\ IdleButGateway
GatewayNext == part = "teardown" /\ Gateway!Next /\ UNCHANGED <<part, butGateway>>

butRoot == <<journal, saved, records, credential, portal, drift, app, pc, last, step, edits, label,
             rev, toolEdit, labelEdit, floor, names, offered, stage, op, after, tail, checksAfter,
             active, slots, outside, act, groups, agents, change, attempt, cb, spent, wire, landed,
             writes, other, check, perms, started, others, checks, contested, served, running,
             slot, att, outcome, armed, handover, bridge, root, prog, bj, bp, actions, sess, cur,
             dead, cookie, kind, home, seed, ok, redeemed, worker, sub, hands, released, seeds,
             receipt, snapshot, approval, run, report, now, bucket, receipts, loader, mirror,
             github, used>>
IdleButRoot ==
    /\ journal = 0 /\ saved = 0 /\ records = 0 /\ credential = 0 /\ portal = 0 /\ drift = 0
    /\ app = 0 /\ pc = 0 /\ last = 0 /\ step = 0 /\ edits = 0 /\ label = 0 /\ rev = 0
    /\ toolEdit = 0 /\ labelEdit = 0 /\ floor = 0 /\ names = 0 /\ offered = 0 /\ stage = 0
    /\ op = 0 /\ after = 0 /\ tail = 0 /\ checksAfter = 0 /\ active = 0 /\ slots = 0 /\ outside = 0
    /\ act = 0 /\ groups = 0 /\ agents = 0 /\ change = 0 /\ attempt = 0 /\ cb = 0 /\ spent = 0
    /\ wire = 0 /\ landed = 0 /\ writes = 0 /\ other = 0 /\ check = 0 /\ perms = 0 /\ started = 0
    /\ others = 0 /\ checks = 0 /\ contested = 0 /\ served = 0 /\ running = 0 /\ slot = 0
    /\ att = 0 /\ outcome = 0 /\ armed = 0 /\ handover = 0 /\ bridge = 0 /\ root = 0 /\ prog = 0
    /\ bj = 0 /\ bp = 0 /\ actions = 0 /\ sess = 0 /\ cur = 0 /\ dead = 0 /\ cookie = 0 /\ kind = 0
    /\ home = 0 /\ seed = 0 /\ ok = 0 /\ redeemed = 0 /\ worker = 0 /\ sub = 0 /\ hands = 0
    /\ released = 0 /\ seeds = 0 /\ receipt = 0 /\ snapshot = 0 /\ approval = 0 /\ run = 0
    /\ report = 0 /\ now = 0 /\ bucket = 0 /\ receipts = 0 /\ loader = 0 /\ mirror = 0
    /\ github = 0 /\ used = 0
RootInit == part = "root" /\ Root!Init /\ IdleButRoot
RootNext == part = "root" /\ Root!Next /\ UNCHANGED <<part, butRoot>>

butSession == <<journal, saved, records, credential, portal, drift, app, pc, last, step, edits,
                label, rev, toolEdit, labelEdit, floor, names, offered, stage, op, after, tail,
                checksAfter, active, slots, outside, act, live, groups, agents, change, attempt,
                cb, spent, wire, landed, writes, other, check, perms, started, others, checks,
                served, running, slot, att, pending, outcome, pass, armed, handover,
                alarm, flying, sent, bridge, root, prog, bj, bp, actions, stale, old, offer, job,
                memory, passes, pauses, lags, receipt, snapshot, approval, run, report, now,
                bucket, receipts, loader, mirror, github, used>>
IdleButSession ==
    /\ journal = 0 /\ saved = 0 /\ records = 0 /\ credential = 0 /\ portal = 0 /\ drift = 0
    /\ app = 0 /\ pc = 0 /\ last = 0 /\ step = 0 /\ edits = 0 /\ label = 0 /\ rev = 0
    /\ toolEdit = 0 /\ labelEdit = 0 /\ floor = 0 /\ names = 0 /\ offered = 0 /\ stage = 0
    /\ op = 0 /\ after = 0 /\ tail = 0 /\ checksAfter = 0 /\ active = 0 /\ slots = 0 /\ outside = 0
    /\ act = 0 /\ live = 0 /\ groups = 0 /\ agents = 0 /\ change = 0 /\ attempt = 0 /\ cb = 0
    /\ spent = 0 /\ wire = 0 /\ landed = 0 /\ writes = 0 /\ other = 0 /\ check = 0 /\ perms = 0
    /\ started = 0 /\ others = 0 /\ checks = 0 /\ served = 0 /\ running = 0
    /\ slot = 0 /\ att = 0 /\ pending = 0 /\ outcome = 0 /\ pass = 0 /\ armed = 0 /\ handover = 0
    /\ alarm = 0 /\ flying = 0 /\ sent = 0 /\ bridge = 0 /\ root = 0 /\ prog = 0 /\ bj = 0
    /\ bp = 0 /\ actions = 0 /\ stale = 0 /\ old = 0 /\ offer = 0 /\ job = 0 /\ memory = 0
    /\ passes = 0 /\ pauses = 0 /\ lags = 0 /\ receipt = 0 /\ snapshot = 0 /\ approval = 0
    /\ run = 0 /\ report = 0 /\ now = 0 /\ bucket = 0 /\ receipts = 0 /\ loader = 0 /\ mirror = 0
    /\ github = 0 /\ used = 0
SessionInit == part = "session" /\ Session!Init /\ IdleButSession
SessionNext == part = "session" /\ Session!Next /\ UNCHANGED <<part, butSession>>

butCanary == <<journal, saved, records, credential, portal, drift, app, pc, last, step, label, rev,
               toolEdit, labelEdit, floor, names, offered, stage, op, after, tail, checksAfter,
               active, slots, outside, act, groups, agents, change, attempt, cb, spent, landed,
               writes, other, check, perms, started, others, checks, contested, served, running,
               expired, slot, att, pending, grant, outcome, pass, armed, handover, alarm, flying,
               sent, bridge, foreign, root, prog, bj, bp, actions, req, stale, old, offer, job,
               memory, passes, pauses, lags, sess, cur, dead, cookie, kind, home, seed, ok,
               redeemed, worker, sub, hands, released, seeds, now, bucket, receipts, loader,
               mirror, github, used>>
IdleButCanary ==
    /\ journal = 0 /\ saved = 0 /\ records = 0 /\ credential = 0 /\ portal = 0 /\ drift = 0
    /\ app = 0 /\ pc = 0 /\ last = 0 /\ step = 0 /\ label = 0 /\ rev = 0 /\ toolEdit = 0
    /\ labelEdit = 0 /\ floor = 0 /\ names = 0 /\ offered = 0 /\ stage = 0 /\ op = 0 /\ after = 0
    /\ tail = 0 /\ checksAfter = 0 /\ active = 0 /\ slots = 0 /\ outside = 0 /\ act = 0
    /\ groups = 0 /\ agents = 0 /\ change = 0 /\ attempt = 0 /\ cb = 0 /\ spent = 0 /\ landed = 0
    /\ writes = 0 /\ other = 0 /\ check = 0 /\ perms = 0 /\ started = 0 /\ others = 0 /\ checks = 0
    /\ contested = 0 /\ served = 0 /\ running = 0 /\ expired = 0 /\ slot = 0 /\ att = 0
    /\ pending = 0 /\ grant = 0 /\ outcome = 0 /\ pass = 0 /\ armed = 0 /\ handover = 0
    /\ alarm = 0 /\ flying = 0 /\ sent = 0 /\ bridge = 0 /\ foreign = 0 /\ root = 0 /\ prog = 0
    /\ bj = 0 /\ bp = 0 /\ actions = 0 /\ req = 0 /\ stale = 0 /\ old = 0 /\ offer = 0 /\ job = 0
    /\ memory = 0 /\ passes = 0 /\ pauses = 0 /\ lags = 0 /\ sess = 0 /\ cur = 0 /\ dead = 0
    /\ cookie = 0 /\ kind = 0 /\ home = 0 /\ seed = 0 /\ ok = 0 /\ redeemed = 0 /\ worker = 0
    /\ sub = 0 /\ hands = 0 /\ released = 0 /\ seeds = 0 /\ now = 0 /\ bucket = 0 /\ receipts = 0
    /\ loader = 0 /\ mirror = 0 /\ github = 0 /\ used = 0
CanaryInit == part = "canary" /\ Canary!Init /\ IdleButCanary
CanaryNext == part = "canary" /\ Canary!Next /\ UNCHANGED <<part, butCanary>>

butPublication == <<journal, saved, records, credential, portal, drift, app, pc, last, step,
                    faults, edits, label, rev, toolEdit, labelEdit, floor, names, offered, stage,
                    op, after, tail, checksAfter, active, slots, outside, act, live, groups,
                    agents, change, attempt, cb, spent, landed, writes, other, check, perms,
                    started, others, checks, contested, served, running, expired, slot, att,
                    pending, grant, outcome, pass, armed, handover, alarm, flying, sent, bridge,
                    foreign, root, prog, bj, bp, actions, req, stale, old, offer, job, memory,
                    passes, pauses, lags, sess, cur, dead, cookie, kind, home, seed, ok, redeemed,
                    sub, hands, released, seeds, receipt, snapshot, approval, run, report>>
IdleButPublication ==
    /\ journal = 0 /\ saved = 0 /\ records = 0 /\ credential = 0 /\ portal = 0 /\ drift = 0
    /\ app = 0 /\ pc = 0 /\ last = 0 /\ step = 0 /\ faults = 0 /\ edits = 0 /\ label = 0 /\ rev = 0
    /\ toolEdit = 0 /\ labelEdit = 0 /\ floor = 0 /\ names = 0 /\ offered = 0 /\ stage = 0
    /\ op = 0 /\ after = 0 /\ tail = 0 /\ checksAfter = 0 /\ active = 0 /\ slots = 0 /\ outside = 0
    /\ act = 0 /\ live = 0 /\ groups = 0 /\ agents = 0 /\ change = 0 /\ attempt = 0 /\ cb = 0
    /\ spent = 0 /\ landed = 0 /\ writes = 0 /\ other = 0 /\ check = 0 /\ perms = 0 /\ started = 0
    /\ others = 0 /\ checks = 0 /\ contested = 0 /\ served = 0 /\ running = 0 /\ expired = 0
    /\ slot = 0 /\ att = 0 /\ pending = 0 /\ grant = 0 /\ outcome = 0 /\ pass = 0 /\ armed = 0
    /\ handover = 0 /\ alarm = 0 /\ flying = 0 /\ sent = 0 /\ bridge = 0 /\ foreign = 0 /\ root = 0
    /\ prog = 0 /\ bj = 0 /\ bp = 0 /\ actions = 0 /\ req = 0 /\ stale = 0 /\ old = 0 /\ offer = 0
    /\ job = 0 /\ memory = 0 /\ passes = 0 /\ pauses = 0 /\ lags = 0 /\ sess = 0 /\ cur = 0
    /\ dead = 0 /\ cookie = 0 /\ kind = 0 /\ home = 0 /\ seed = 0 /\ ok = 0 /\ redeemed = 0
    /\ sub = 0 /\ hands = 0 /\ released = 0 /\ seeds = 0 /\ receipt = 0 /\ snapshot = 0
    /\ approval = 0 /\ run = 0 /\ report = 0
PublicationInit == part = "publication" /\ Publication!Init /\ IdleButPublication
PublicationNext == part = "publication" /\ Publication!Next /\ UNCHANGED <<part, butPublication>>

AnyInit == part \in Chosen /\ (
    SwitchInit \/ EditsInit \/ TeamInit \/ ChangeInit \/ UpdateInit \/ GatewayInit \/ RootInit \/
    SessionInit \/ CanaryInit \/ PublicationInit)
AnyNext ==
    SwitchNext \/ EditsNext \/ TeamNext \/ ChangeNext \/ UpdateNext \/ GatewayNext \/ RootNext \/
    SessionNext \/ CanaryNext \/ PublicationNext
AnySpec == AnyInit /\ [][AnyNext]_allVars

\* The administrator presses Continue, the customer gives the token and repairs what the page reports.
switchVars == Switch!vars
SwitchFairness ==
    /\ WF_switchVars(part = "switch" /\ Switch!Continue)
    /\ WF_switchVars(part = "switch" /\ Switch!GiveCredential)
    /\ WF_switchVars(part = "switch" /\ Switch!Repair)
    /\ WF_switchVars(part = "switch" /\ Switch!Step)

\* Every request is served; the first one stands for any.
editsVars == Edits!vars
EditsFairness ==
    /\ \A r \in 1 .. 3 :
        /\ WF_editsVars(part = "edits" /\ Edits!Serve(r))

\* An administrator resumes an unfinished save, and an attempt goes on.
teamVars == Team!vars
TeamFairness ==
    /\ WF_teamVars(part = "team" /\ (Team!Unfinished /\ Team!Save(act.want)))
    /\ WF_teamVars(part = "team" /\ Team!Step)

\* Windows pass and requests are answered.
changeVars == Change!vars
ChangeFairness ==
    /\ WF_changeVars(part = "change" /\ Change!ApprovalExpires)
    /\ WF_changeVars(part = "change" /\ Change!WindowPasses)
    /\ WF_changeVars(part = "change" /\ Change!AttemptExpires)
    /\ WF_changeVars(part = "change" /\ Change!CheckEnd)
    /\ \A c \in {c1, c2} :
        /\ WF_changeVars(part = "change" /\ Change!WriteAnswered(c, FALSE))
        /\ WF_changeVars(part = "change" /\ Change!End(c))

\* Alarms are retried, passes end by their deadlines, a version is rolled out, the updates page is read.
updateVars == Update!vars
UpdateFairness ==
    /\ WF_updateVars(part = "update" /\ Update!Alarm)
    /\ WF_updateVars(part = "update" /\ Update!PassStep)
    /\ WF_updateVars(part = "update" /\ Update!Land)
    /\ WF_updateVars(part = "update" /\ Update!Read)
    /\ WF_updateVars(part = "update" /\ (served # running /\ Update!Restart))
    /\ \A i \in 1 .. 2 :
        /\ WF_updateVars(part = "update" /\ Update!Expire(i))

\* Alarms are retried and requests end.
teardownVars == Gateway!vars
GatewayFairness ==
    /\ WF_teardownVars(part = "teardown" /\ Gateway!Alarm)
    /\ WF_teardownVars(part = "teardown" /\ Gateway!PassStep)
    /\ \A i \in 1 .. 2 :
        /\ WF_teardownVars(part = "teardown" /\ Gateway!RequestStep(i))

\* As for Teardown.
rootVars == Root!vars
RootFairness ==
    /\ WF_rootVars(part = "root" /\ Root!Alarm)
    /\ WF_rootVars(part = "root" /\ Root!PassStep)
    /\ \A i \in 1 .. 2 :
        /\ WF_rootVars(part = "root" /\ Root!RequestStep(i))

\* Windows close, alarms fire, and a running callback finishes.
sessionVars == Session!vars
SessionFairness ==
    /\ \A i \in 1 .. 1 :
        /\ WF_sessionVars(part = "session" /\ Session!AttemptExpires(i))
        /\ WF_sessionVars(part = "session" /\ Session!Work(i))
    /\ \A s \in 1 .. 1 :
        /\ WF_sessionVars(part = "session" /\ Session!Alarm(s))
        /\ WF_sessionVars(part = "session" /\ Session!SessionExpires(s))

\* Runs are previewed, approved and go on; requests arrive.
canaryVars == Canary!vars
CanaryFairness ==
    /\ WF_canaryVars(part = "canary" /\ Canary!Preview)
    /\ WF_canaryVars(part = "canary" /\ Canary!Start)
    /\ WF_canaryVars(part = "canary" /\ Canary!RunStep)
    /\ WF_canaryVars(part = "canary" /\ Canary!Land)

\* A person restarts a publication that failed, and clocks go on.
publicationVars == Publication!vars
PublicationFairness ==
    /\ WF_publicationVars(part = "publication" /\ Publication!Tick)
    /\ \A r \in {w1, w2} :
        /\ WF_publicationVars(part = "publication" /\ Publication!PublishStep(r))
        /\ WF_publicationVars(part = "publication" /\ Publication!Again(r))

FairSpec ==
    /\ AnySpec
    /\ SwitchFairness /\ EditsFairness /\ TeamFairness /\ ChangeFairness /\ UpdateFairness
    /\ GatewayFairness /\ RootFairness /\ SessionFairness /\ CanaryFairness /\ PublicationFairness

-------------------------------------------------------------------------------
Due ==
    \/ part = "switch" /\ Switch!Due
    \/ part = "edits" /\ Edits!Due(1)
    \/ part = "team" /\ Team!Due
    \/ part = "change" /\ Change!Due
    \/ part = "update" /\ Update!Due
    \/ part = "teardown" /\ Gateway!Due
    \/ part = "root" /\ Root!Due
    \/ part = "session" /\ Session!Undecided
    \/ part = "canary" /\ Canary!Due
    \/ part = "publication" /\ Publication!Due

Done ==
    \/ part = "switch" /\ Switch!Done
    \/ part = "edits" /\ Edits!Done(1)
    \/ part = "team" /\ Team!Done
    \/ part = "change" /\ Change!Done
    \/ part = "update" /\ Update!Done
    \/ part = "teardown" /\ Gateway!Done
    \/ part = "root" /\ Root!Done
    \/ part = "session" /\ Session!Decided
    \/ part = "canary" /\ Canary!Done
    \/ part = "publication" /\ Publication!Done

\* Whatever each part has begun, it ends (Due and Done of the components): a switch of credentials
\* closes; a request to a source's queue is answered; a Team save ends; neither an abandoned approval
\* nor a lost write locks the gateway; the journal names the running release and no handover stays; a
\* consent to remove the gateway or its root removes it unless it expires or something else stands in
\* its way; an approval of Stage 1 is decided; a canary is removed or waits for an operator; an
\* intended release is published.
EverythingEnds ==
    Due ~> Done

===============================================================================
