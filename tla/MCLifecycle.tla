----------------------------- MODULE MCLifecycle ------------------------------
(*******************************************************************************)
(* Updates and removals for TLC: RuntimeUpdate, Teardown, RootRemoval and      *)
(* CleanupWorker.  Each behaviour is one of one part: part says which, the     *)
(* variables of the others stay 0, and those of RuntimeUpdate, which this      *)
(* module extends, as they begin.  Variables that the other parts share        *)
(* between them are called its...  RuntimeUpdate has two parts, with outside   *)
(* deployments or with more approvals; Teardown has two, with more faults or   *)
(* with resources changed by hand; CleanupWorker has three: two requests, a    *)
(* gateway without control state, and one request with more faults and changes *)
(* by hand.                                                                    *)
(*******************************************************************************)
EXTENDS RuntimeUpdate, Sequences, TLC

CONSTANTS
    Chosen, r1, r2, None,
    RootAttempts, RootPasses, RootPauses, RootFaults, RootLags,      \* of RootRemoval
    GatewayOrder, GatewayOptional, GatewayActions, GatewayAttempts,
    GatewayOutside, GatewayFaults,                                   \* of Teardown
    CleanupRequests, CleanupExtras, CleanupFaults, CleanupHands   \* of CleanupWorker

ASSUME RootBounds == RootAttempts \in Nat /\ RootPasses \in Nat
ASSUME GatewayBounds ==
    /\ GatewayActions \in Nat /\ GatewayAttempts \in Nat
    /\ GatewayOutside \in Nat /\ GatewayFaults \in Nat
\* A receipt names something, and what every installation has is removed last.
ASSUME GatewayOrderFits ==
    /\ GatewayOrder \in Seq({"portal", "application", "server"}) /\ Len(GatewayOrder) # 0
    /\ GatewayOptional \subseteq 1..Len(GatewayOrder) /\ Len(GatewayOrder) \notin GatewayOptional

ASSUME CleanupFits ==
    /\ CleanupExtras \in Nat /\ None # "removed"
    /\ None \notin [req : CleanupRequests, phase : {"send_armed", "submitted", "not_applied"}]

RemovalOrder == <<"portal", "application", "server">>

VARIABLES
    part, itsJournal, itsExpired, itsOther, itsPending, itsGrant, itsOutcome, itsPass, itsAlarm,
    itsFlying, itsSent, itsOutside, itsFaults, live, bridge, foreign, root, prog, bj, bp, actions,
    attempt, req, stale, old, offer, job, memory, passes, pauses, lags, mapped, portal, wire,
    kept, unknown, replayed, used

allVars == <<part, vars, itsJournal, itsExpired, itsOther, itsPending, itsGrant, itsOutcome,
             itsPass, itsAlarm, itsFlying, itsSent, itsOutside, itsFaults, live, bridge, foreign,
             root, prog, bj, bp, actions, attempt, req, stale, old, offer, job, memory, passes,
             pauses, lags, mapped, portal, wire, kept, unknown, replayed, used>>

Gateway == INSTANCE Teardown WITH
    Order <- GatewayOrder, Optional <- GatewayOptional, MaxActions <- GatewayActions,
    MaxAttempts <- GatewayAttempts, MaxOutside <- GatewayOutside, MaxFaults <- GatewayFaults,
    expired <- itsExpired, other <- itsOther,
    pending <- itsPending, grant <- itsGrant, outcome <- itsOutcome, pass <- itsPass,
    alarm <- itsAlarm, flying <- itsFlying, outside <- itsOutside, faults <- itsFaults
Root == INSTANCE RootRemoval WITH
    MaxAttempts <- RootAttempts, MaxPasses <- RootPasses, MaxPauses <- RootPauses,
    MaxFaults <- RootFaults, MaxLags <- RootLags,
    flying <- itsFlying, expired <- itsExpired, grant <- itsGrant, pending <- itsPending,
    sent <- itsSent, alarm <- itsAlarm, pass <- itsPass, faults <- itsFaults
Cleanup == INSTANCE CleanupWorker WITH
    Requests <- CleanupRequests, NExtras <- CleanupExtras,
    MaxFaults <- CleanupFaults, MaxHands <- CleanupHands, journal <- itsJournal, pass <- itsPass

butUpdate == <<itsJournal, itsExpired, itsOther, itsPending, itsGrant, itsOutcome, itsPass,
               itsAlarm, itsFlying, itsSent, itsOutside, itsFaults, live, bridge, foreign, root,
               prog, bj, bp, actions, attempt, req, stale, old, offer, job, memory, passes,
               pauses, lags, mapped, portal, wire, kept, unknown, replayed, used>>
IdleButUpdate ==
    /\ itsJournal = 0 /\ itsExpired = 0 /\ itsOther = 0 /\ itsPending = 0 /\ itsGrant = 0
    /\ itsOutcome = 0 /\ itsPass = 0 /\ itsAlarm = 0 /\ itsFlying = 0 /\ itsSent = 0
    /\ itsOutside = 0 /\ itsFaults = 0 /\ live = 0 /\ bridge = 0 /\ foreign = 0 /\ root = 0
    /\ prog = 0 /\ bj = 0 /\ bp = 0 /\ actions = 0 /\ attempt = 0 /\ req = 0 /\ stale = 0
    /\ old = 0 /\ offer = 0 /\ job = 0 /\ memory = 0 /\ passes = 0 /\ pauses = 0 /\ lags = 0
    /\ mapped = 0 /\ portal = 0 /\ wire = 0 /\ kept = 0 /\ unknown = 0 /\ replayed = 0 /\ used = 0

\* With outside deployments, or with more than one approval.
UpdateInit == part = "update" /\ Init /\ IdleButUpdate
UpdateNext == part = "update" /\ Next /\ att'[2] = att[2] /\ UNCHANGED <<part, butUpdate>>

UpdatesInit == part = "updates" /\ Init /\ IdleButUpdate
UpdatesNext == part = "updates" /\ Next /\ outside' = 0 /\ UNCHANGED <<part, butUpdate>>

butGateway == <<vars, itsJournal, itsSent, stale, old, offer, job, memory, passes, pauses, lags,
                mapped, portal, wire, kept, unknown, replayed, used>>
IdleButGateway ==
    /\ Init /\ itsJournal = 0 /\ itsSent = 0 /\ stale = 0 /\ old = 0 /\ offer = 0 /\ job = 0
    /\ memory = 0 /\ passes = 0 /\ pauses = 0 /\ lags = 0 /\ mapped = 0 /\ portal = 0 /\ wire = 0
    /\ kept = 0 /\ unknown = 0 /\ replayed = 0 /\ used = 0
GatewayInit == part = "teardown" /\ Gateway!Init /\ foreign = "none" /\ IdleButGateway
GatewayNext ==
    part = "teardown" /\ Gateway!Next /\ itsOutside' = 0 /\ UNCHANGED <<part, butGateway>>

MeddledInit == part = "meddled" /\ Gateway!Init /\ IdleButGateway
MeddledNext ==
    /\ part = "meddled" /\ Gateway!Next /\ actions'[2] = "none" /\ itsFaults' <= 1
    /\ UNCHANGED <<part, butGateway>>

butRoot == <<vars, itsJournal, itsOther, itsOutcome, itsOutside, bridge, root, prog, bj, bp,
             actions, attempt, mapped, portal, wire, kept, unknown, replayed, used>>
IdleButRoot ==
    /\ Init /\ itsJournal = 0 /\ itsOther = 0 /\ itsOutcome = 0 /\ itsOutside = 0 /\ bridge = 0
    /\ root = 0 /\ prog = 0 /\ bj = 0 /\ bp = 0 /\ actions = 0 /\ attempt = 0 /\ mapped = 0
    /\ portal = 0 /\ wire = 0 /\ kept = 0 /\ unknown = 0 /\ replayed = 0 /\ used = 0
RootInit == part = "root" /\ Root!Init /\ IdleButRoot
RootNext ==
    part = "root" /\ Root!Next /\ pauses' + lags' + itsFaults' <= 2 /\ UNCHANGED <<part, butRoot>>

butCleanup == <<vars, itsExpired, itsOther, itsPending, itsGrant, itsOutcome, itsAlarm, itsFlying,
                itsSent, itsOutside, itsFaults, bridge, foreign, root, prog, bj, bp, actions,
                attempt, req, stale, old, offer, job, memory, passes, pauses, lags>>
IdleButCleanup ==
    /\ Init /\ itsExpired = 0 /\ itsOther = 0 /\ itsPending = 0 /\ itsGrant = 0 /\ itsOutcome = 0
    /\ itsAlarm = 0 /\ itsFlying = 0 /\ itsSent = 0 /\ itsOutside = 0 /\ itsFaults = 0
    /\ bridge = 0 /\ foreign = 0 /\ root = 0 /\ prog = 0 /\ bj = 0 /\ bp = 0 /\ actions = 0
    /\ attempt = 0 /\ req = 0 /\ stale = 0 /\ old = 0 /\ offer = 0 /\ job = 0 /\ memory = 0
    /\ passes = 0 /\ pauses = 0 /\ lags = 0
CleanupInit == part = "cleanup" /\ Cleanup!Init /\ Cleanup!HasControl /\ ~Cleanup!RootSource /\ IdleButCleanup
CleanupNext ==
    /\ part = "cleanup" /\ Cleanup!Next /\ used'.hands = 0 /\ used'.faults <= 1
    /\ UNCHANGED <<part, butCleanup>>

PlainInit == part = "plain" /\ Cleanup!Init /\ ~Cleanup!HasControl /\ ~Cleanup!RootSource /\ IdleButCleanup
PlainNext ==
    /\ part = "plain" /\ Cleanup!Next /\ used'.faults <= 1
    /\ UNCHANGED <<part, butCleanup>>

ReplayInit == part = "replay" /\ Cleanup!Init /\ Cleanup!HasControl /\ IdleButCleanup
ReplayNext ==
    /\ part = "replay" /\ Cleanup!Next /\ itsPass'[r2] = Cleanup!Claim
    /\ UNCHANGED <<part, butCleanup>>

AnyInit == part \in Chosen /\ (
    UpdateInit \/ UpdatesInit \/ GatewayInit \/ MeddledInit \/ RootInit \/ CleanupInit \/
    PlainInit \/ ReplayInit)
AnyNext ==
    UpdateNext \/ UpdatesNext \/ GatewayNext \/ MeddledNext \/ RootNext \/ CleanupNext \/
    PlainNext \/ ReplayNext
AnySpec == AnyInit /\ [][AnyNext]_allVars

\* The requests of the cleanup are interchangeable.
Interchangeable ==
    Permutations({r1, r2})

-------------------------------------------------------------------------------
\* UpdateIsSafe and UploadsKeepFloor are RuntimeUpdate's own.

\* Teardown: whatever is gone, or may still go, is in the journal, in the order of removal; the
\* installer is handed a completed removal only, a grant that was lost is warned of, a foreign
\* resource that was there all along stops everything, and nothing else changes the gateway
\* meanwhile.
TeardownIsSafe ==
    part \in {"teardown", "meddled"} => Gateway!Safe

\* RootRemoval: what the job counts as verified is gone, the page is never served without its Access
\* protection and the Worker goes last, every write is armed before it is sent, lost grants are
\* warned of, and a foreign binding stops the removal before its first write.
RootIsSafe ==
    part = "root" => Root!Safe

\* CleanupWorker: what a journal lists as removed is gone, what somebody took over is kept, the
\* Portal offers no deleted source, the root waits for every source, and a request never repeats a
\* deletion it got no answer for.
CleanupIsSafe ==
    part \in {"cleanup", "plain", "replay"} => Cleanup!Safe

===============================================================================
