------------------------------- MODULE MCAccess -------------------------------
(*******************************************************************************)
(* The parts of the management Worker that decide who and what gets in, for    *)
(* TLC: TeamAccess, CredentialChange and AgentEntrance.  Each behaviour is     *)
(* one of one part: part says which, the variables of the others stay 0, and   *)
(* those of CredentialChange as they begin.  TeamAccess has two parts, the     *)
(* second with changes made in the dashboard of Cloudflare; CredentialChange   *)
(* has two, with two callbacks or with checks.                                 *)
(*******************************************************************************)
EXTENDS CredentialChange, TLC

CONSTANTS
    Chosen, p, q, d, c1, c2, r1, mail, crm, None,
    People, Individuals, MaxTeamFaults, MaxTeamEdits,       \* of TeamAccess
    EntranceSources, EntranceLabel, EntranceRequests, EntranceLimit, EntranceFaults,
    EntranceRestarts, EntranceWindows, EntranceChanges      \* of AgentEntrance

VARIABLES
    part, saved, act, teamLive, groups, agents, pc, faults, teamEdits, entrance, domain, op, busy,
    agent, source, rate, req, known, lines, used

allVars == <<part, vars, saved, act, teamLive, groups, agents, pc, faults, teamEdits, entrance,
             domain, op, busy, agent, source, rate, req, known, lines, used>>

\* Identifiers of sources are compared, a rate is a number, and what stands for nothing is not what it
\* stands beside.
ASSUME EntranceNumbers ==
    EntranceSources \subseteq Nat /\ EntranceLimit \in Nat
ASSUME EntranceNone ==
    /\ None \notin BOOLEAN
    /\ None \notin {"ours", "foreign", "answered", "complete", "failed", "too_large", "cancelled"}

LabelOf == <<mail, crm>>

Team == INSTANCE TeamAccess WITH
    MaxFaults <- MaxTeamFaults, MaxEdits <- MaxTeamEdits, live <- teamLive, edits <- teamEdits
Entrance == INSTANCE AgentEntrance WITH
    Sources <- EntranceSources, Label <- EntranceLabel, Requests <- EntranceRequests,
    Limit <- EntranceLimit, MaxFaults <- EntranceFaults, MaxRestarts <- EntranceRestarts,
    MaxWindows <- EntranceWindows, MaxChanges <- EntranceChanges

\* CredentialChange at rest.
Rest == Init /\ perms = Permissions

butTeam == <<vars, entrance, domain, op, busy, agent, source, rate, req, known, lines, used>>
IdleButTeam ==
    /\ Rest /\ entrance = 0 /\ domain = 0 /\ op = 0 /\ busy = 0 /\ agent = 0 /\ source = 0
    /\ rate = 0 /\ req = 0 /\ known = 0 /\ lines = 0 /\ used = 0
\* Nobody changes anything in the dashboard.
TeamInit == part = "team" /\ Team!Init /\ IdleButTeam
TeamNext == part = "team" /\ Team!Next /\ teamEdits' = 0 /\ UNCHANGED <<part, butTeam>>

\* Somebody does, and nobody is granted access on their own.
DashboardInit == part = "dashboard" /\ Team!Init /\ IdleButTeam
DashboardNext ==
    /\ part = "dashboard" /\ Team!Next
    /\ act'.want.direct = {} /\ \A app \in Team!Apps : teamLive'[app].direct = {}
    /\ UNCHANGED <<part, butTeam>>

butChange == <<saved, act, teamLive, groups, agents, pc, faults, teamEdits, entrance, domain, op,
               busy, agent, source, rate, req, known, lines, used>>
IdleButChange ==
    /\ saved = 0 /\ act = 0 /\ teamLive = 0 /\ groups = 0 /\ agents = 0 /\ pc = 0 /\ faults = 0
    /\ teamEdits = 0 /\ entrance = 0 /\ domain = 0 /\ op = 0 /\ busy = 0 /\ agent = 0 /\ source = 0
    /\ rate = 0 /\ req = 0 /\ known = 0 /\ lines = 0 /\ used = 0
\* Two callbacks, and nobody edits or checks.
ChangeInit == part = "change" /\ Rest /\ IdleButChange
ChangeNext ==
    /\ part = "change" /\ Next /\ edits' = 0 /\ checks' = 0
    /\ UNCHANGED <<part, butChange>>
\* One change and one callback, with edits and checks.
CheckInit == part = "check" /\ Init /\ IdleButChange
CheckNext ==
    /\ part = "check" /\ Next /\ change'.id <= 1 /\ cb'[c2] = Idle
    /\ UNCHANGED <<part, butChange>>

butEntrance == <<vars, saved, act, teamLive, groups, agents, pc, faults, teamEdits>>
IdleButEntrance ==
    /\ Rest /\ saved = 0 /\ act = 0 /\ teamLive = 0 /\ groups = 0 /\ agents = 0 /\ pc = 0
    /\ faults = 0 /\ teamEdits = 0
EntranceInit == part = "entrance" /\ Entrance!Init /\ IdleButEntrance
EntranceNext == part = "entrance" /\ Entrance!Next /\ UNCHANGED <<part, butEntrance>>

AnyInit == part \in Chosen /\ (
    TeamInit \/ DashboardInit \/ ChangeInit \/ CheckInit \/ EntranceInit)
AnyNext ==
    TeamNext \/ DashboardNext \/ ChangeNext \/ CheckNext \/ EntranceNext
AnySpec == AnyInit /\ [][AnyNext]_allVars

-------------------------------------------------------------------------------
\* TeamAccess: however a Team save is interrupted, resumed or cancelled, its group and agent policies
\* are single and known, no policy names a group that is gone, an ended save is live as saved, and
\* nobody gets access before the members are set.
TeamIsSafe ==
    part \in {"team", "dashboard"} => Team!Safe

\* AgentEntrance: a domain the gateway attached is never forgotten, switching the agent off holds
\* from the next request, a tool's name keeps its source, every call writes one audit line, and the
\* rate limit holds up to restarts.
EntranceIsSafe ==
    part = "entrance" => Entrance!Safe

===============================================================================
