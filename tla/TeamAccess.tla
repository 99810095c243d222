----------------------------- MODULE TeamAccess -----------------------------
(***************************************************************************)
(* Saving Team access (payload/worker/index.js, planTeamAccessChange,      *)
(* prepareTeamAction, processTeamAction and what they call).               *)
(*                                                                         *)
(* One named team, one installed source, some people granted on their own  *)
(* and one list of agent tokens.  A save is a plan (before and after of    *)
(* every policy, the change of the team's Access group, the changes of the *)
(* agent policies) with a journal that arms every write before it is sent. *)
(* A save and its retries run one at a time in the object's mutation       *)
(* queue; an attempt may end anywhere, its last write done or not.  A      *)
(* write takes place, if at all, before the next request.  A journal entry *)
(* and the write it arms are one step: nothing else of the Worker can come *)
(* between them, and the outcomes say what an interruption leaves behind.  *)
(***************************************************************************)
EXTENDS Naturals, FiniteSets

CONSTANTS People,       \* who can be in the team
          Individuals,  \* who can be granted on their own
          MaxFaults,    \* bound on failed calls and evictions
          MaxEdits      \* bound on changes made in Cloudflare's dashboard

VARIABLES
  saved,   \* the Team state: people, team, agents and the ids of group and agent policies
  act,     \* pendingAction: status, request and journal
  live,    \* the people's policies of the Portal and of the source
  groups,  \* the Access groups with the team's name
  agents,  \* the agent policies with the gateway's name, per application
  pc,      \* the next step of the attempt that runs
  faults, edits

provider == <<live, groups, agents>>
bounds   == <<faults, edits>>
vars     == <<saved, act, live, groups, agents, pc, faults, edits>>

Apps     == {"portal", "source"}
Tokens   == 0..2                   \* lists of agent tokens, 0 the empty one
Ids      == 1..3
Requests == [direct : SUBSET Individuals, team : SUBSET People, grant : BOOLEAN, tokens : Tokens]
Entries  == Apps \cup {"group", "portal_agents", "source_agents"}
AgentKey(app) == IF app = "portal" THEN "portal_agents" ELSE "source_agents"

(* What is stored of the Team, and what the policies and groups select.      *)
Teams    == [direct : SUBSET Individuals, team : SUBSET People, grant : BOOLEAN, tokens : Tokens,
             gid : Ids \cup {0}, aids : [Apps -> Ids \cup {0}]]
Selectors     == [direct : SUBSET Individuals, groups : SUBSET Ids]
Groups        == [id : Ids, members : SUBSET People]
AgentPolicies == [id : Ids, tokens : Tokens \ {0}]

NoAids    == [app \in Apps |-> 0]
NoRequest == [direct |-> {}, team |-> {}, grant |-> FALSE, tokens |-> 0]
Clean     == [e \in Entries |-> "none"]
NoAction  == [st |-> "none", want |-> NoRequest, journal |-> Clean, gid |-> 0, aids |-> NoAids]
Record(r, gid, aids) ==
  [direct |-> r.direct, team |-> r.team, grant |-> r.grant, tokens |-> r.tokens, gid |-> gid, aids |-> aids]
Request(s) == [direct |-> s.direct, team |-> s.team, grant |-> s.grant, tokens |-> s.tokens]

Unfinished == act.st \in {"authorization_required", "applying", "recovery_required"}

Init ==
  /\ saved = Record(NoRequest, 0, NoAids) /\ act = NoAction
  /\ live = [app \in Apps |-> [direct |-> {}, groups |-> {}]]
  /\ groups = {} /\ agents = [app \in Apps |-> {}]
  /\ pc = "idle" /\ faults = 0 /\ edits = 0

-----------------------------------------------------------------------------
(* The plan: it is computed again from the saved state and the retained      *)
(* request whenever it is needed, and its hash must not have changed.        *)

GroupChange ==
  CASE act.want.team = {} -> IF saved.gid # 0 THEN "delete" ELSE "none"
    [] act.want.team # {} /\ saved.gid = 0 -> "create"
    [] act.want.team # {} /\ saved.gid # 0 -> IF saved.team # act.want.team THEN "update" ELSE "none"

PolicyOf(r, gid, app) ==
  [direct |-> r.direct,
   groups |-> IF r.team # {} /\ (app = "portal" \/ r.grant) THEN {gid} ELSE {}]
Gid         == IF saved.gid # 0 THEN saved.gid ELSE act.gid
Before(app) == PolicyOf(saved, saved.gid, app)
After(app)  == PolicyOf(act.want, Gid, app)
PolicyChanges == {app \in Apps : Before(app) # After(app)}
AgentChanges  == IF saved.tokens # act.want.tokens THEN Apps ELSE {}
MembershipOnly == PolicyChanges = {} /\ AgentChanges = {} /\ GroupChange = "update"

(* bindTeamPlan: without the id of a group still to be created the plan      *)
(* cannot be bound to it.                                                    *)
Bound == GroupChange = "create" => act.gid # 0

-----------------------------------------------------------------------------
(* verifyTeamPolicies and agentPolicyState                                   *)

Fits(phase, before, after) ==
  /\ phase = "none" => before
  /\ phase = "send_armed" => before \/ after
  /\ phase = "verified" => after
PolicyFits(app) ==
  LET unbound == PolicyOf([act.want EXCEPT !.team = {}], 0, app) IN
  Fits(act.journal[app], live[app] = Before(app), live[app] = IF Bound THEN After(app) ELSE unbound)

AgentPhase(app) == act.journal[AgentKey(app)]
AgentId(app) == IF act.aids[app] # 0 THEN act.aids[app] ELSE saved.aids[app]
AgentFits(app) ==
  LET id == AgentId(app)
      own == IF id # 0 THEN {a \in agents[app] : a.id = id} ELSE agents[app]
      is(tokens) == IF tokens = 0 THEN own = {} ELSE \E a \in own : a.tokens = tokens IN
  /\ Cardinality(agents[app]) <= 1
  /\ id # 0 => agents[app] = own
  /\ id = 0 /\ agents[app] # {} => AgentPhase(app) = "send_armed"
  /\ \/ act.want.tokens = 0 /\ own = {}
     \/ Fits(AgentPhase(app), is(saved.tokens), is(act.want.tokens))
AgentIsAfter(app) == {a.tokens : a \in agents[app]} = {act.want.tokens} \ {0}
Verified == \A app \in Apps : PolicyFits(app) /\ AgentFits(app)

-----------------------------------------------------------------------------
(* prepareTeamAction: a save begins, or the unfinished one is resumed with    *)
(* exactly its request, and keeps its journal.                               *)

Save(r) ==
  /\ pc = "idle"
  /\ Unfinished => r = act.want
  /\ act' = IF Unfinished THEN [act EXCEPT !.st = "authorization_required"]
            ELSE [NoAction EXCEPT !.st = "authorization_required", !.want = r]
  /\ pc' = "claim"
  /\ UNCHANGED <<saved, provider, bounds>>

(* The initiating administrator cancels a save that has written nothing.     *)
Cancel ==
  /\ pc = "idle" /\ act.st \in {"authorization_required", "recovery_required"} /\ act.journal = Clean
  /\ act' = [NoAction EXCEPT !.st = "failed"]
  /\ UNCHANGED <<saved, provider, pc, bounds>>

-----------------------------------------------------------------------------
(* processTeamAction                                                        *)

Claim ==
  /\ pc = "claim"
  /\ act' = [act EXCEPT !.st = "applying"] /\ pc' = IF MembershipOnly THEN "groups" ELSE "verify"
  /\ UNCHANGED <<saved, provider, bounds>>

Fail == act' = [act EXCEPT !.st = "recovery_required"] /\ pc' = "idle"
Verify ==
  /\ pc = "verify"
  /\ IF Verified THEN pc' = "groups" /\ UNCHANGED act ELSE Fail
  /\ UNCHANGED <<saved, provider, bounds>>

(* A call that is not answered, or an eviction: the attempt is over and its   *)
(* status is persisted or not.                                               *)
Fault(a) ==
  /\ faults < MaxFaults /\ faults' = faults + 1 /\ UNCHANGED edits
  /\ act' \in {[a EXCEPT !.st = "recovery_required"], a} /\ pc' = "idle"
Interrupt == pc # "idle" /\ Fault(act) /\ UNCHANGED <<saved, provider>>

Enter(a, e, phase) == [a EXCEPT !.journal[e] = phase]
(* A write: armed, sent, answered and verified; or it is not answered.        *)
Write(armed, done, change, then) ==
  \/ change /\ act' = done /\ pc' = then /\ UNCHANGED bounds
  \/ (change \/ UNCHANGED provider) /\ Fault(armed)

Fresh(used) == CHOOSE i \in Ids \ used : \A j \in Ids \ used : i <= j
GroupIds == {g.id : g \in groups} \cup {saved.gid, act.gid} \cup UNION {live[app].groups : app \in Apps}

(* The groups before any policy names them: created, or their members set.    *)
(* Cloudflare refuses a write without the permission before applying it; an   *)
(* entry that this attempt armed is then forgotten.                          *)
Refused ==
  /\ faults < MaxFaults /\ faults' = faults + 1 /\ UNCHANGED <<edits, provider>>
  /\ act' = [act EXCEPT !.st = "recovery_required"] /\ pc' = "idle"

\* Mutant of CreateGroup: a create sent again without a look at what the first one left.
CreateGroupBlindly ==
  /\ pc = "groups" /\ GroupChange = "create" /\ act.journal["group"] # "verified"
  /\ LET id == Fresh(GroupIds) IN
       \/ Write(Enter(act, "group", "send_armed"), [Enter(act, "group", "verified") EXCEPT !.gid = id],
                groups' = groups \cup {[id |-> id, members |-> act.want.team]} /\ UNCHANGED <<live, agents>>,
                "rebind")
       \/ Refused
  /\ UNCHANGED saved
CreateGroup ==
  /\ pc = "groups" /\ GroupChange = "create" /\ act.journal["group"] # "verified"
  /\ act.journal["group"] = "send_armed" => groups = {}
  /\ LET id == Fresh(GroupIds) IN
       \/ Write(Enter(act, "group", "send_armed"), [Enter(act, "group", "verified") EXCEPT !.gid = id],
                groups' = groups \cup {[id |-> id, members |-> act.want.team]} /\ UNCHANGED <<live, agents>>,
                "rebind")
       \/ Refused
  /\ UNCHANGED saved

(* The one group with the team's name and exactly these members is the one    *)
(* whose creation was not answered.                                          *)
FindGroup ==
  /\ pc = "groups" /\ GroupChange = "create" /\ act.journal["group"] = "send_armed" /\ groups # {}
  /\ IF \E g \in groups : groups = {g} /\ g.members = act.want.team
     THEN /\ act' = [Enter(act, "group", "verified") EXCEPT !.gid = (CHOOSE g \in groups : TRUE).id]
          /\ pc' = "rebind"
     ELSE Fail
  /\ UNCHANGED <<saved, provider, bounds>>

SetMembers(team) == groups' = {[g EXCEPT !.members = team] : g \in groups} /\ UNCHANGED <<live, agents>>
UpdateGroup ==
  /\ pc = "groups" /\ GroupChange = "update" /\ act.journal["group"] # "verified"
  /\ IF \E g \in groups : g.id = saved.gid /\ g.members = act.want.team
     THEN /\ act' = Enter(act, "group", "verified") /\ pc' = "rebind" /\ UNCHANGED <<provider, bounds>>
     ELSE \/ Write(Enter(act, "group", "send_armed"), Enter(act, "group", "verified"),
                   SetMembers(act.want.team), "rebind")
          \/ Refused
  /\ UNCHANGED saved
GroupsDone ==
  /\ pc = "groups"
  /\ GroupChange \in {"create", "update"} => act.journal["group"] = "verified"
  /\ pc' = "rebind" /\ UNCHANGED <<saved, act, provider, bounds>>

(* A plan that could not be bound before is verified once more, with the id.  *)
Rebind ==
  /\ pc = "rebind"
  /\ IF MembershipOnly THEN pc' = "complete" /\ UNCHANGED act
     ELSE IF Verified THEN pc' = "portal" /\ UNCHANGED act ELSE Fail
  /\ UNCHANGED <<saved, provider, bounds>>

Following == [portal |-> "source", source |-> "portal_agents"]
(* A policy that already reads as planned is not written again.               *)
PolicyStands(app) ==
  /\ pc = app /\ (app \notin PolicyChanges \/ live[app] = After(app))
  /\ act' = IF app \in PolicyChanges THEN Enter(act, app, "verified") ELSE act
  /\ pc' = Following[app] /\ UNCHANGED <<saved, provider, bounds>>
WritePolicy(app) ==
  /\ pc = app /\ app \in PolicyChanges /\ live[app] # After(app)
  /\ IF PolicyFits(app)
     THEN Write(Enter(act, app, "send_armed"), Enter(act, app, "verified"),
                live' = [live EXCEPT ![app] = After(app)] /\ UNCHANGED <<groups, agents>>, Following[app])
     ELSE Fail /\ UNCHANGED <<provider, bounds>>
  /\ UNCHANGED saved

(* applyAgentPolicy: created, replaced or deleted; a creation that was not    *)
(* answered is found by its name and tokens.                                 *)
FollowingAgents == [portal |-> "source_agents", source |-> "delete"]
AgentStands(app) ==
  /\ pc = AgentKey(app)
  /\ app \in AgentChanges => AgentIsAfter(app) /\ AgentFits(app)
  /\ act' = IF app \notin AgentChanges THEN act
            ELSE [Enter(act, AgentKey(app), "verified") EXCEPT
                    !.aids[app] = IF agents[app] = {} THEN 0 ELSE (CHOOSE a \in agents[app] : TRUE).id]
  /\ pc' = FollowingAgents[app] /\ UNCHANGED <<saved, provider, bounds>>
NewAgentId(app) ==
  IF saved.aids[app] # 0 THEN saved.aids[app] ELSE Fresh({a.id : a \in agents[app]} \cup {act.aids[app]})
AgentPut(app) ==
  /\ agents' = [agents EXCEPT ![app] = {a \in @ : a.id # NewAgentId(app)} \cup
                  IF act.want.tokens = 0 THEN {} ELSE {[id |-> NewAgentId(app), tokens |-> act.want.tokens]}]
  /\ UNCHANGED <<live, groups>>
WriteAgents(app) ==
  /\ pc = AgentKey(app) /\ app \in AgentChanges /\ ~AgentIsAfter(app)
  /\ IF AgentFits(app)
     THEN LET known(phase, id) == [Enter(act, AgentKey(app), phase) EXCEPT !.aids[app] = id]
              id == IF act.want.tokens = 0 THEN 0 ELSE NewAgentId(app) IN
          \/ Write(known("send_armed", 0), known("verified", id), AgentPut(app), FollowingAgents[app])
          \/ AgentPut(app) /\ Fault(known("send_armed", id))
     ELSE Fail /\ UNCHANGED <<provider, bounds>>
  /\ UNCHANGED saved
DriftedAgents(app) ==
  /\ pc = AgentKey(app) /\ app \in AgentChanges /\ AgentIsAfter(app) /\ ~AgentFits(app)
  /\ Fail /\ UNCHANGED <<saved, provider, bounds>>

(* The group of a team that has no members any more, once no policy names it. *)
DeleteGroup ==
  /\ pc = "delete" /\ GroupChange = "delete" /\ act.journal["group"] # "verified"
  /\ IF groups = {} /\ act.journal["group"] = "send_armed"
     THEN /\ act' = Enter(act, "group", "verified") /\ pc' = "final" /\ UNCHANGED <<provider, bounds>>
     ELSE \/ Write(Enter(act, "group", "send_armed"), Enter(act, "group", "verified"),
                   groups' = {g \in groups : g.id # saved.gid} /\ UNCHANGED <<live, agents>>, "final")
          \/ Refused
  /\ UNCHANGED saved
NothingToDelete ==
  /\ pc = "delete" /\ (GroupChange # "delete" \/ act.journal["group"] = "verified")
  /\ pc' = "final" /\ UNCHANGED <<saved, act, provider, bounds>>

(* The complete graph is read once more, and must be as planned.              *)
FinalVerify ==
  /\ pc = "final"
  /\ IF Verified /\ \A app \in Apps : live[app] = After(app) /\ AgentIsAfter(app)
     THEN pc' = "complete" /\ UNCHANGED act ELSE Fail
  /\ UNCHANGED <<saved, provider, bounds>>

(* The new state and the end of the action in one write.                      *)
Complete ==
  /\ pc = "complete" /\ pc' = "idle"
  /\ saved' = Record(act.want, IF act.want.team = {} THEN 0 ELSE Gid,
                     [app \in Apps |-> IF act.want.tokens = 0 THEN 0 ELSE AgentId(app)])
  /\ act' = [NoAction EXCEPT !.st = "succeeded"]
  /\ UNCHANGED <<provider, bounds>>

-----------------------------------------------------------------------------
(* teamSnapshot: while nothing is unfinished, what Cloudflare says of people  *)
(* and of the team is adopted; agents never are.                             *)
ReadTeam ==
  /\ pc = "idle" /\ ~Unfinished
  /\ live["portal"].groups = {saved.gid} \ {0} /\ live["source"].groups \subseteq live["portal"].groups
  /\ live["source"].direct \subseteq live["portal"].direct
  /\ LET team == UNION {g.members : g \in groups}
         r == [Request(saved) EXCEPT !.direct = live["source"].direct, !.team = team,
                 !.grant = IF saved.gid # 0 THEN live["source"].groups # {} ELSE @] IN
       /\ r # Request(saved) /\ saved' = Record(r, saved.gid, saved.aids) /\ act' = NoAction
  /\ UNCHANGED <<provider, pc, bounds>>

(* Somebody changes a policy, the group or an agent policy in Cloudflare.     *)
EditGroup  == \E team \in (SUBSET People) \ {{}} : groups # {} /\ SetMembers(team)
EditPolicy ==
  /\ \/ \E d \in SUBSET Individuals : live' = [app \in Apps |-> [live[app] EXCEPT !.direct = d]]
     \/ \E g \in SUBSET live["portal"].groups : live' = [live EXCEPT !["source"].groups = g]
  /\ UNCHANGED <<groups, agents>>
EditAgents == \E app \in Apps : agents' = [agents EXCEPT ![app] = {}] /\ UNCHANGED <<live, groups>>
Edit ==
  /\ edits < MaxEdits /\ edits' = edits + 1 /\ UNCHANGED <<saved, act, pc, faults>>
  /\ EditGroup \/ EditPolicy \/ EditAgents

Step ==
  \/ Claim \/ Verify \/ CreateGroup \/ FindGroup \/ UpdateGroup \/ GroupsDone \/ Rebind
  \/ \E app \in Apps : \/ PolicyStands(app) \/ WritePolicy(app)
                       \/ AgentStands(app) \/ WriteAgents(app) \/ DriftedAgents(app)
  \/ DeleteGroup \/ NothingToDelete \/ FinalVerify \/ Complete
Next == (\E r \in Requests : Save(r)) \/ Cancel \/ Step \/ Interrupt \/ ReadTeam \/ Edit

(* An administrator resumes an unfinished save, which is what the page asks   *)
(* for; an attempt goes on unless it is interrupted.                         *)
Fairness == WF_vars(Unfinished /\ Save(act.want)) /\ WF_vars(Step)
Spec == Init /\ [][Next]_vars
FairSpec == Spec /\ Fairness

-----------------------------------------------------------------------------
TypeOK ==
  /\ saved \in Teams
  /\ act.want \in Requests /\ act.gid \in Ids \cup {0} /\ act.aids \in [Apps -> Ids \cup {0}]
  /\ act.journal \in [Entries -> {"none", "send_armed", "verified"}]
  /\ act.st \in {"none", "authorization_required", "applying", "recovery_required", "succeeded", "failed"}
  /\ live \in [Apps -> Selectors] /\ groups \subseteq Groups /\ agents \in [Apps -> SUBSET AgentPolicies]

(* However often a save was interrupted and resumed, there is one group for   *)
(* the team and one agent policy per application, and each is known: saved,   *)
(* or the journal of the unfinished save still leads to it.                   *)
NothingForgotten ==
  /\ Cardinality(groups) <= 1
  /\ \A g \in groups : saved.gid = g.id \/ (Unfinished /\ act.journal["group"] # "none")
  /\ \A app \in Apps :
       /\ Cardinality(agents[app]) <= 1
       /\ \A a \in agents[app] : saved.aids[app] = a.id \/ (Unfinished /\ AgentPhase(app) # "none")

(* A policy never names a group that is gone.                                 *)
NamesExistingGroups ==
  edits = 0 => \A app \in Apps : live[app].groups \subseteq {g.id : g \in groups}

(* A save that ended, completed or cancelled, leaves exactly the saved team   *)
(* in front of the Portal and of the source.                                  *)
SettledIsLive ==
  ~Unfinished /\ edits = 0 =>
    /\ \A app \in Apps : live[app] = Before(app)
    /\ {g.members : g \in groups} = {saved.team} \ {{}}
    /\ \A app \in Apps : {a.tokens : a \in agents[app]} = {saved.tokens} \ {0}

(* Nobody reaches the source whom neither the saved nor the requested team    *)
(* lets reach it, unless the request also takes the source from the team: the *)
(* members are set before the policy is.                                     *)
Reach == live["source"].direct \cup UNION {g.members : g \in {h \in groups : h.id \in live["source"].groups}}
Granted(r) == r.direct \cup IF r.grant THEN r.team ELSE {}
NoEarlyAccess ==
  edits = 0 /\ ~(Unfinished /\ saved.grant /\ ~act.want.grant) =>
    Reach \subseteq Granted(saved) \cup (IF Unfinished THEN Granted(act.want) ELSE {})

(* A save that was begun ends.                                               *)
Due  == Unfinished
Done == ~Unfinished
SaveEnds == Due ~> Done

(* The safety of this component: its invariants together.                   *)
Safe ==
  /\ TypeOK /\ NothingForgotten /\ NamesExistingGroups /\ SettledIsLive /\ NoEarlyAccess
=============================================================================
