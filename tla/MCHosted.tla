------------------------------- MODULE MCHosted -------------------------------
(*******************************************************************************)
(* The hosted installer and its relay for TLC: Stage1Session, Ownership,       *)
(* CodeRelay, GrantExchange and WorkerUpload.  Each behaviour is one of one    *)
(* part: part says which, the variables of the others stay 0, and those of     *)
(* CodeRelay as they begin.  Stage1Session has two parts: one session with     *)
(* more approvals and faults, and two sessions of one browser.  CodeRelay has  *)
(* three parts: two installations, foreign clocks and keys (over a longer      *)
(* time), and two rivals for a row of the challenge table.                     *)
(*******************************************************************************)
EXTENDS CodeRelay

CONSTANTS
    Chosen, None,
    MaxSessions, MaxAttempts, MaxPlans, SessionFaults,
    Permits, Plans, Tabs, MaxIssued, MaxVersions, OwnerFaults, MaxStarts,
    Accounts, Home, PageSize, MaxPages, MaxZones, RevokeAttempts,
    MaxBuckets, UploadFaults, MaxOutside

ASSUME SessionBounds ==
    MaxSessions \in Nat \ {0} /\ {MaxAttempts, MaxPlans, SessionFaults} \subseteq Nat
ASSUME OwnerBounds == MaxIssued \in Nat /\ MaxVersions \in Nat \ {0}
ASSUME GrantBounds ==
    /\ Home \in Accounts /\ MaxZones \in Nat
    /\ {PageSize, MaxPages, RevokeAttempts} \subseteq Nat \ {0}
ASSUME UploadBounds == MaxBuckets \in Nat

VARIABLES
    part, sess, cur, dead, cookie, expired, kind, home, seed, req, ok, grant, redeemed, worker,
    sub, foreign, hands, released, overtaken, seeds, faults, permit, configured, ownerIssued,
    accepted,
    adopted, late, oauth, start, pass, versions, active, wire, host, ready, closing, starts, call,
    consent, zones, live, held, usable, pc, bound, outcome, queue, failed, tries, deployments,
    stored, subs, error, buckets, bucket, list, made, outside

allVars == <<part, vars, sess, cur, dead, cookie, expired, kind, home, seed, req, ok, grant,
             redeemed, worker, sub, foreign, hands, released, overtaken, seeds, faults, permit,
             configured,
             ownerIssued, accepted, adopted, late, oauth, start, pass, versions, active, wire,
             host, ready, closing, starts, call, consent, zones, live, held, usable, pc, bound,
             outcome, queue, failed, tries, deployments, stored, subs, error, buckets, bucket,
             list, made, outside>>

\* Two uninstallations u1 and u2 of one gateway, an installation i of the other, and a client x that
\* has the certificate of the first and the key of the second.
Certificate == [c \in {"u1", "u2", "i", "x"} |-> IF c = "i" THEN "g2" ELSE "g1"]
Key == [c \in {"u1", "u2", "i", "x"} |-> IF c \in {"i", "x"} THEN "g2" ELSE "g1"]
Operation == [c \in {"u1", "u2", "i", "x"} |-> IF c = "i" THEN "install" ELSE "uninstall"]
KindsRemoved ==
    [c \in {"u1", "u2", "i", "x"} |->
        IF c = "i" THEN {} ELSE IF c = "u1" THEN {"worker", "mcp_portal"} ELSE {"dns_record"}]
Skew == [c \in {"u1", "u2", "i", "x"} |-> IF c = "i" THEN -1 ELSE 1]

Session == INSTANCE Stage1Session WITH MaxFaults <- SessionFaults
Owner == INSTANCE Ownership WITH issued <- ownerIssued, MaxFaults <- OwnerFaults
Grant == INSTANCE GrantExchange
Upload == INSTANCE WorkerUpload WITH MaxFaults <- UploadFaults

butSession == <<vars, permit, configured, ownerIssued, accepted, adopted, late, oauth, start,
                pass, versions, active, wire, host, ready, closing, starts, call, consent, zones,
                live, held, usable, pc, bound, outcome, queue, failed, tries, deployments, stored,
                subs, error, buckets, bucket, list, made, outside>>
IdleButSession ==
    /\ Init /\ permit = 0 /\ configured = 0 /\ ownerIssued = 0 /\ accepted = 0 /\ adopted = 0
    /\ late = 0 /\ oauth = 0 /\ start = 0 /\ pass = 0 /\ versions = 0 /\ active = 0 /\ wire = 0
    /\ host = 0 /\ ready = 0 /\ closing = 0 /\ starts = 0 /\ call = 0 /\ consent = 0 /\ zones = 0
    /\ live = 0 /\ held = 0 /\ usable = 0 /\ pc = 0 /\ bound = 0 /\ outcome = 0 /\ queue = 0
    /\ failed = 0 /\ tries = 0 /\ deployments = 0 /\ stored = 0 /\ subs = 0 /\ error = 0
    /\ buckets = 0 /\ bucket = 0 /\ list = 0 /\ made = 0 /\ outside = 0
\* One session, and two sessions with one approval whose calls are answered.
SessionInit == part = "session" /\ Session!Init /\ IdleButSession
SessionNext == part = "session" /\ Session!Next /\ cur' = 1 /\ UNCHANGED <<part, butSession>>

RotationInit == part = "rotation" /\ Session!Init /\ IdleButSession
RotationNext ==
    /\ part = "rotation" /\ Session!Next /\ faults' = 0
    /\ \A i \in Session!Attempts \ {1} : req'[i] = "new"
    /\ UNCHANGED <<part, butSession>>

butOwner == <<vars, sess, cur, dead, cookie, expired, kind, home, seed, req, ok, grant, redeemed,
              worker, sub, foreign, hands, released, overtaken, seeds, call, consent, zones, live,
              held,
              usable, pc, bound, outcome, queue, failed, tries, deployments, stored, subs, error,
              buckets, bucket, list, made, outside>>
IdleButOwner ==
    /\ Init /\ sess = 0 /\ cur = 0 /\ dead = 0 /\ cookie = 0 /\ expired = 0 /\ kind = 0
    /\ home = 0 /\ seed = 0 /\ req = 0 /\ ok = 0 /\ grant = 0 /\ redeemed = 0 /\ worker = 0
    /\ sub = 0 /\ foreign = 0 /\ hands = 0 /\ released = 0 /\ overtaken = 0 /\ seeds = 0
    /\ call = 0 /\ consent = 0
    /\ zones = 0 /\ live = 0 /\ held = 0 /\ usable = 0 /\ pc = 0 /\ bound = 0 /\ outcome = 0
    /\ queue = 0 /\ failed = 0 /\ tries = 0 /\ deployments = 0 /\ stored = 0 /\ subs = 0
    /\ error = 0 /\ buckets = 0 /\ bucket = 0 /\ list = 0 /\ made = 0 /\ outside = 0
OwnerInit == part = "owner" /\ Owner!Init /\ IdleButOwner
OwnerNext == part = "owner" /\ Owner!Next /\ UNCHANGED <<part, butOwner>>

butRelay == <<sess, cur, dead, cookie, expired, kind, home, seed, req, ok, grant, redeemed,
              worker, sub, foreign, hands, released, overtaken, seeds, faults, permit, configured,
              ownerIssued, accepted, adopted, late, oauth, start, pass, versions, active, wire,
              host, ready, closing, starts, call, consent, zones, live, held, usable, pc, bound,
              outcome, queue, failed, tries, deployments, stored, subs, error, buckets, bucket,
              list, made, outside>>
IdleButRelay ==
    /\ sess = 0 /\ cur = 0 /\ dead = 0 /\ cookie = 0 /\ expired = 0 /\ kind = 0 /\ home = 0
    /\ seed = 0 /\ req = 0 /\ ok = 0 /\ grant = 0 /\ redeemed = 0 /\ worker = 0 /\ sub = 0
    /\ foreign = 0 /\ hands = 0 /\ released = 0 /\ overtaken = 0 /\ seeds = 0 /\ faults = 0
    /\ permit = 0
    /\ configured = 0 /\ ownerIssued = 0 /\ accepted = 0 /\ adopted = 0 /\ late = 0 /\ oauth = 0
    /\ start = 0 /\ pass = 0 /\ versions = 0 /\ active = 0 /\ wire = 0 /\ host = 0 /\ ready = 0
    /\ closing = 0 /\ starts = 0 /\ call = 0 /\ consent = 0 /\ zones = 0 /\ live = 0 /\ held = 0
    /\ usable = 0 /\ pc = 0 /\ bound = 0 /\ outcome = 0 /\ queue = 0 /\ failed = 0 /\ tries = 0
    /\ deployments = 0 /\ stored = 0 /\ subs = 0 /\ error = 0 /\ buckets = 0 /\ bucket = 0
    /\ list = 0 /\ made = 0 /\ outside = 0

\* Only some of the clients ask for a ticket.
Asking(clients) == \A c \in Clients \ clients : client'[c] = NoClient

RelayInit == part = "relay" /\ Init /\ IdleButRelay
RelayNext ==
    part = "relay" /\ Next /\ now' <= 1 /\ Asking({"u1", "i"}) /\ UNCHANGED <<part, butRelay>>

ClocksInit == part = "clocks" /\ Init /\ IdleButRelay
ClocksNext == part = "clocks" /\ Next /\ Asking({"u1", "x"}) /\ UNCHANGED <<part, butRelay>>

RivalsInit == part = "rivals" /\ Init /\ IdleButRelay
RivalsNext ==
    part = "rivals" /\ Next /\ now' <= 2 /\ Asking({"u1", "u2"}) /\ UNCHANGED <<part, butRelay>>

butGrant == <<vars, sess, cur, dead, cookie, expired, kind, home, seed, req, ok, grant, redeemed,
              worker, sub, foreign, hands, released, overtaken, seeds, faults, permit, configured,
              ownerIssued, accepted, adopted, late, oauth, start, pass, versions, active, wire,
              host, ready, closing, starts, deployments, stored, subs, error, buckets, bucket,
              list, made, outside>>
IdleButGrant ==
    /\ Init /\ sess = 0 /\ cur = 0 /\ dead = 0 /\ cookie = 0 /\ expired = 0 /\ kind = 0
    /\ home = 0 /\ seed = 0 /\ req = 0 /\ ok = 0 /\ grant = 0 /\ redeemed = 0 /\ worker = 0
    /\ sub = 0 /\ foreign = 0 /\ hands = 0 /\ released = 0 /\ overtaken = 0 /\ seeds = 0
    /\ faults = 0
    /\ permit = 0 /\ configured = 0 /\ ownerIssued = 0 /\ accepted = 0 /\ adopted = 0 /\ late = 0
    /\ oauth = 0 /\ start = 0 /\ pass = 0 /\ versions = 0 /\ active = 0 /\ wire = 0 /\ host = 0
    /\ ready = 0 /\ closing = 0 /\ starts = 0 /\ deployments = 0 /\ stored = 0 /\ subs = 0
    /\ error = 0 /\ buckets = 0 /\ bucket = 0 /\ list = 0 /\ made = 0 /\ outside = 0
GrantInit == part = "grant" /\ Grant!Init /\ IdleButGrant
GrantNext == part = "grant" /\ Grant!Next /\ UNCHANGED <<part, butGrant>>

butUpload == <<vars, sess, cur, dead, cookie, expired, kind, home, seed, req, ok, grant, redeemed,
               sub, foreign, hands, released, seeds, permit, configured, ownerIssued, accepted,
               adopted, oauth, start, pass, active, host, ready, closing, starts, call,
               consent, zones, live, held, usable, bound, outcome, queue, failed, tries>>
IdleButUpload ==
    /\ Init /\ sess = 0 /\ cur = 0 /\ dead = 0 /\ cookie = 0 /\ expired = 0 /\ kind = 0
    /\ home = 0 /\ seed = 0 /\ req = 0 /\ ok = 0 /\ grant = 0 /\ redeemed = 0 /\ sub = 0
    /\ foreign = 0 /\ hands = 0 /\ released = 0 /\ seeds = 0 /\ permit = 0 /\ configured = 0
    /\ ownerIssued = 0 /\ accepted = 0 /\ adopted = 0 /\ oauth = 0 /\ start = 0
    /\ pass = 0 /\ active = 0 /\ host = 0 /\ ready = 0 /\ closing = 0 /\ starts = 0 /\ call = 0
    /\ consent = 0 /\ zones = 0 /\ live = 0 /\ held = 0 /\ usable = 0 /\ bound = 0 /\ outcome = 0
    /\ queue = 0 /\ failed = 0 /\ tries = 0
UploadInit == part = "upload" /\ Upload!Init /\ IdleButUpload
UploadNext == part = "upload" /\ Upload!Next /\ UNCHANGED <<part, butUpload>>

AnyInit == part \in Chosen /\ (
    SessionInit \/ RotationInit \/ OwnerInit \/ RelayInit \/ ClocksInit \/ RivalsInit \/
    GrantInit \/ UploadInit)
AnyNext ==
    SessionNext \/ RotationNext \/ OwnerNext \/ RelayNext \/ ClocksNext \/ RivalsNext \/
    GrantNext \/ UploadNext
AnySpec == AnyInit /\ [][AnyNext]_allVars

-------------------------------------------------------------------------------
\* Stage1Session: a capability that left the installer belongs to a Worker the installer never
\* removes, and retires only by a cleanup that was about to retire another of its name, a recorded
\* Worker stays on record until it is handed over or gone, a recorded provision has its grant
\* revoked, and two deliveries of a callback redeem one code once.
SessionIsSafe ==
    part \in {"session", "rotation"} => Session!Safe

\* Ownership: the handoff the gateway accepted is the configuration its setup holds, and the adopted
\* version carries the signed bootstrap and was the one sole deployment when the readback closed.
OwnerIsSafe ==
    part = "owner" => Owner!Safe

\* RelayIsSafe is CodeRelay's own.

\* GrantExchange: work runs only with exactly the operation's scopes on the account and the zone it
\* is bound to, every token of an answer is revoked or tried as often as the call may, and one that
\* lives on is reported.
GrantIsSafe ==
    part = "grant" => Grant!Safe

\* WorkerUpload: the error's outcome says what its call may have done, submissions exist, a version
\* is created with whole assets, and the release becomes two of anything only by a request that was
\* undecided when it was sent anew, or that landed after the recovery had looked.
UploadIsSafe ==
    part = "upload" => Upload!Safe

\* Stage1Session and GrantExchange: no step retires or removes a Worker that was changed by hand or
\* that another script binds, unless since its verification, and the install gives up on its zone
\* only when no page it may read shows it.
StepsSpareOthers ==
    [][/\ part \in {"session", "rotation"} => Session!KeepsNotOurs
       /\ part = "grant" => Grant!FindsZone]_allVars

===============================================================================
