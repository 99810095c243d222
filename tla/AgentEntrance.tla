---------------------------- MODULE AgentEntrance ----------------------------
(***************************************************************************)
(* The agent entrance of the management Worker: one hostname, attached to  *)
(* the Worker as a custom domain, on which hosted agents call the Portal's *)
(* tools with a bearer.  Administrators turn it on and off through the     *)
(* queue of the management object; admission and audit bypass that queue,  *)
(* so an agent's request interleaves with Team saves, with changes of the  *)
(* sources and with the entrance being turned off.                         *)
(*                                                                         *)
(* One agent is modelled.  A source's identifier is a number, its place in *)
(* the order of identifiers; a prefix is a label and the place among the   *)
(* sources of that label, as `_2`, `_3` give it.  A provider request takes *)
(* effect at once or not at all; its answer may be lost either way.        *)
(***************************************************************************)
EXTENDS Naturals, FiniteSets

CONSTANTS
    Sources,        \* identifiers of sources, numbers
    Label,          \* the label of each source
    Requests,       \* requests of the agent
    Limit,          \* requests admitted per window
    None,
    MaxFaults, MaxRestarts, MaxWindows, MaxChanges    \* bounds

VARIABLES
    entrance,   \* the stored record: status and domain
    domain,     \* the custom domain of the hostname at Cloudflare
    op,         \* the queue's operation under way
    busy,       \* another lifecycle holds the gateway
    agent,      \* the Team's record of the agent, and what is pending
    source,     \* the sources and their server records
    rate,       \* requests counted in this object's memory
    req,        \* the requests
    known,      \* the names the agent was last given, and their sources
    lines,      \* audit lines per request
    used        \* how often each fault happened

vars == <<entrance, domain, op, busy, agent, source, rate, req, known, lines, used>>

Off == [status |-> "off", domain |-> None]

NoOp == [kind |-> "none", step |-> "none", domain |-> None]

IdleRequest ==
    [step |-> "idle", kind |-> "list", name |-> None, tools |-> {}, target |-> None,
     end |-> None, pulling |-> FALSE, afterOff |-> FALSE]

Names == {<<l, n>> : l \in {Label[s] : s \in Sources}, n \in 1..Cardinality(Sources)}

Init ==
    /\ entrance = Off
    /\ domain = None
    /\ op = NoOp
    /\ busy = FALSE
    /\ agent = [on |-> TRUE, pending |-> None]
    /\ source \in [Sources -> {[status |-> "installed", server |-> 1, reached |-> TRUE],
                               [status |-> "none", server |-> 1, reached |-> FALSE]}]
    /\ rate = [count |-> 0, admitted |-> 0]
    /\ req = [r \in Requests |-> IdleRequest]
    /\ known = {}
    /\ lines = [r \in Requests |-> 0]
    /\ used = [faults |-> 0, restarts |-> 0, windows |-> 0, changes |-> 0]

(***************************************************************************)
(* Turning the entrance on and off.                                        *)
(***************************************************************************)
Start(kind) ==
    /\ op = NoOp
    /\ ~busy
    /\ agent.pending = None
    /\ op' = [kind |-> kind, step |-> "look", domain |-> entrance.domain]
    /\ UNCHANGED <<entrance, domain, busy, agent, source, rate, req, known, lines, used>>

\* Refused while the entrance is being turned off.
Attach == entrance.status # "detach_armed" /\ Start("attach")

\* An entrance that was never recorded is off already.
Detach == entrance.status # "off" /\ Start("detach")

Leave == op' = NoOp

\* The listing for the hostname: nothing, the one domain of this Worker, or
\* somebody else's, which refuses the request.
Look ==
    /\ op.step = "look"
    /\ \/ /\ op.domain # None
          /\ op' = [op EXCEPT !.step = IF op.kind = "attach" THEN "read" ELSE "arm"]
       \/ /\ op.domain = None
          /\ domain # "foreign"
          /\ op' = [op EXCEPT !.domain = domain,
                       !.step = IF op.kind = "detach" THEN (IF domain = None THEN "forget" ELSE "arm")
                                ELSE IF domain = None THEN "arm" ELSE "read"]
       \/ /\ op.domain = None
          /\ domain = "foreign"
          /\ Leave
    /\ UNCHANGED <<entrance, domain, busy, agent, source, rate, req, known, lines, used>>

\* The write is recorded before it is sent.
Arm ==
    /\ op.step = "arm"
    /\ entrance' = [status |-> IF op.kind = "attach" THEN "attach_armed" ELSE "detach_armed",
                    domain |-> op.domain]
    /\ op' = [op EXCEPT !.step = "send"]
    /\ UNCHANGED <<domain, busy, agent, source, rate, req, known, lines, used>>

\* PUT of the domain.  A refusal changes nothing and is forgotten; a lost
\* answer leaves the record armed.
SendAttach ==
    /\ op.step = "send"
    /\ op.kind = "attach"
    /\ \/ /\ domain \in {None, "ours"}
          /\ domain' = "ours"
          /\ op' = [op EXCEPT !.domain = "ours", !.step = "read"]
          /\ UNCHANGED <<entrance, used>>
       \/ /\ domain = "foreign"
          /\ entrance' = Off
          /\ Leave
          /\ UNCHANGED <<domain, used>>
       \/ /\ used.faults < MaxFaults
          /\ used' = [used EXCEPT !.faults = @ + 1]
          /\ domain' \in {domain, IF domain = None THEN "ours" ELSE domain}
          /\ Leave
          /\ UNCHANGED entrance
    /\ UNCHANGED <<busy, agent, source, rate, req, known, lines>>

\* The domain is read back exactly before the entrance is on.
ReadAttached ==
    /\ op.step = "read"
    /\ \/ /\ domain = "ours"
          /\ entrance' = [status |-> "attached", domain |-> "ours"]
       \/ /\ domain # "ours"
          /\ UNCHANGED entrance
    /\ Leave
    /\ UNCHANGED <<domain, busy, agent, source, rate, req, known, lines, used>>

\* GET, DELETE, and a GET that must find nothing.  A domain given to another
\* service under the same identifier is drift; a new identifier means that the
\* recorded one is gone.
SendDetach ==
    /\ op.step = "send"
    /\ op.kind = "detach"
    /\ \/ /\ domain' = IF domain = "ours" THEN None ELSE domain
          /\ op' = [op EXCEPT !.step = "forget"]
          /\ UNCHANGED used
       \/ /\ domain = "foreign"
          /\ Leave
          /\ UNCHANGED <<domain, used>>
       \/ /\ used.faults < MaxFaults
          /\ used' = [used EXCEPT !.faults = @ + 1]
          /\ domain' \in {domain, IF domain = "foreign" THEN domain ELSE None}
          /\ Leave
    /\ UNCHANGED <<entrance, busy, agent, source, rate, req, known, lines>>

Forget ==
    /\ op.step = "forget"
    /\ entrance' = Off
    /\ Leave
    /\ UNCHANGED <<domain, busy, agent, source, rate, req, known, lines, used>>

\* Someone attaches the hostname to another service, or frees it again.
Elsewhere ==
    /\ used.changes < MaxChanges
    /\ used' = [used EXCEPT !.changes = @ + 1]
    /\ domain' \in {None, "foreign"} \ {domain}
    /\ UNCHANGED <<entrance, op, busy, agent, source, rate, req, known, lines>>

OtherLifecycle ==
    /\ op = NoOp
    /\ busy' = ~busy
    /\ UNCHANGED <<entrance, domain, op, agent, source, rate, req, known, lines, used>>

(***************************************************************************)
(* What else changes under the entrance.                                   *)
(***************************************************************************)
Change == op = NoOp /\ used.changes < MaxChanges /\ used' = [used EXCEPT !.changes = @ + 1]

\* The agent is off in the saved Team, or in the one that is being saved.
SwitchedOff == ~agent.on \/ agent.pending = FALSE

\* A request that has not begun while the agent is off begins after that; once
\* the agent is on again no request under way did.
Remember ==
    req' = [r \in Requests |-> [req[r] EXCEPT
               !.afterOff = SwitchedOff' /\ (@ \/ req[r].step = "idle")]]

\* A Team save is recorded as pending, and later succeeds or is cancelled.
SaveTeam ==
    /\ Change
    /\ agent.pending = None
    /\ \E on \in BOOLEAN : agent' = [agent EXCEPT !.pending = on]
    /\ Remember
    /\ UNCHANGED <<entrance, domain, op, busy, source, rate, known, lines>>

TeamSaved ==
    /\ op = NoOp
    /\ agent.pending # None
    /\ agent' = [on |-> agent.pending, pending |-> None]
    /\ Remember
    /\ UNCHANGED <<entrance, domain, op, busy, source, rate, known, lines, used>>

TeamCancelled ==
    /\ op = NoOp
    /\ agent.pending # None
    /\ agent' = [agent EXCEPT !.pending = None]
    /\ Remember
    /\ UNCHANGED <<entrance, domain, op, busy, source, rate, known, lines, used>>

\* A draft is saved and installed, with the agent's policy on it, or removed;
\* a source is switched to a new server record.
ChangeSource ==
    /\ Change
    /\ \E s \in Sources :
        \/ /\ source[s].status = "none"
           /\ source' = [source EXCEPT ![s].status = "draft"]
        \/ /\ source[s].status = "draft"
           /\ source' = [source EXCEPT ![s].status = "installed", ![s].reached = TRUE]
        \/ /\ source[s].status = "installed"
           /\ source' = [source EXCEPT ![s].server = 3 - @]
    /\ UNCHANGED <<entrance, domain, op, busy, agent, rate, req, known, lines>>

(***************************************************************************)
(* One request.                                                            *)
(***************************************************************************)
Present == {s \in Sources : source[s].status # "none"}

\* The prefix of a source: its label, numbered among the sources of that label
\* in the order of their identifiers.
Slug(s) == <<Label[s], 1 + Cardinality({t \in Present : Label[t] = Label[s] /\ t < s})>>

\* The tools offered: of installed sources that the agent's policy reaches.
Offered ==
    {[name |-> Slug(s), source |-> s, server |-> source[s].server] :
        s \in {s \in Sources : source[s].status = "installed" /\ source[s].reached}}

Begin(r) ==
    /\ req[r].step = "idle"
    /\ \/ req' = [req EXCEPT ![r].step = "begun", ![r].kind = "list"]
       \/ \E name \in Names :
            req' = [req EXCEPT ![r].step = "begun", ![r].kind = "call", ![r].name = name]
    /\ UNCHANGED <<entrance, domain, op, busy, agent, source, rate, known, lines, used>>

\* Mutant of Enabled: a Team change counts when it is finished.
EnabledUntilSaved == agent.on

\* An enabled agent on the Portal's policy; an unfinished Team change that
\* switches it off counts at once.
Enabled == agent.on /\ agent.pending # FALSE

WithinRate == rate.count < Limit

Admitted == entrance.status = "attached" /\ Enabled /\ WithinRate

Admit(r) ==
    /\ req[r].step = "begun"
    /\ IF Admitted
       THEN /\ req' = [req EXCEPT ![r].step = "admitted", ![r].tools = Offered]
            /\ rate' = [count |-> rate.count + 1, admitted |-> rate.admitted + 1]
       ELSE /\ req' = [req EXCEPT ![r].step = "refused"]
            /\ UNCHANGED rate
    /\ UNCHANGED <<entrance, domain, op, busy, agent, source, known, lines, used>>

NewWindow ==
    /\ used.windows < MaxWindows
    /\ used' = [used EXCEPT !.windows = @ + 1]
    /\ rate' = [count |-> 0, admitted |-> 0]
    /\ UNCHANGED <<entrance, domain, op, busy, agent, source, req, known, lines>>

\* The Worker's isolate and the management object restart: the queue's
\* operation and the counted requests are lost.
Restart ==
    /\ used.restarts < MaxRestarts
    /\ used' = [used EXCEPT !.restarts = @ + 1]
    /\ op' = NoOp
    /\ rate' = [rate EXCEPT !.count = 0]
    /\ UNCHANGED <<entrance, domain, busy, agent, source, req, known, lines>>

Line(r) == lines' = [lines EXCEPT ![r] = @ + 1]

\* The list is fetched and shown under the agent's names; a call goes to the
\* Portal's name of the tool, or is refused with an audit line.
Forward(r) ==
    /\ req[r].step = "admitted"
    /\ \/ /\ req[r].kind = "list"
          /\ req' = [req EXCEPT ![r].step = "listing"]
          /\ UNCHANGED lines
       \/ \E t \in req[r].tools :
          /\ req[r].kind = "call"
          /\ t.name = req[r].name
          /\ req' = [req EXCEPT ![r].step = "calling", ![r].target = t]
          /\ UNCHANGED lines
       \/ /\ req[r].kind = "call"
          /\ \A t \in req[r].tools : t.name # req[r].name
          /\ req' = [req EXCEPT ![r].step = "refused"]
          /\ Line(r)
    /\ UNCHANGED <<entrance, domain, op, busy, agent, source, rate, known, used>>

\* The list as the Portal answers it, cut down to the tools of the admission.
ListAnswered(r) ==
    /\ req[r].step = "listing"
    /\ known' = {[name |-> t.name, source |-> t.source] :
                    t \in {t \in req[r].tools : source[t.source].server = t.server}}
    /\ req' = [req EXCEPT ![r].step = "done"]
    /\ UNCHANGED <<entrance, domain, op, busy, agent, source, rate, lines, used>>

\* A call without a body to pass on ends with its line: no answer, denied, or
\* an empty answer.
CallEnds(r) ==
    /\ req[r].step = "calling"
    /\ req' = [req EXCEPT ![r].step = "done", ![r].end = "answered"]
    /\ Line(r)
    /\ UNCHANGED <<entrance, domain, op, busy, agent, source, rate, known, used>>

CallStreams(r) ==
    /\ req[r].step = "calling"
    /\ req' = [req EXCEPT ![r].step = "streaming"]
    /\ UNCHANGED <<entrance, domain, op, busy, agent, source, rate, known, lines, used>>

\* The body reports its end once.
Finish(r) ==
    IF req[r].end = None THEN Line(r) ELSE UNCHANGED lines

Pull(r) ==
    /\ req[r].step = "streaming"
    /\ ~req[r].pulling
    /\ req' = [req EXCEPT ![r].pulling = TRUE]
    /\ UNCHANGED <<entrance, domain, op, busy, agent, source, rate, known, lines, used>>

\* The read under way brings a chunk, the end, a failure or one byte too many;
\* after a cancellation it still comes back, with the end.
Pulled(r) ==
    /\ req[r].step = "streaming"
    /\ req[r].pulling
    /\ \/ /\ req[r].end = None
          /\ req' = [req EXCEPT ![r].pulling = FALSE]
          /\ UNCHANGED lines
       \/ \E end \in {"complete", "failed", "too_large"} :
          /\ req[r].end = None \/ end = "complete"
          /\ Finish(r)
          /\ req' = [req EXCEPT ![r].pulling = FALSE, ![r].step = "done",
                        ![r].end = IF @ = None THEN end ELSE @]
    /\ UNCHANGED <<entrance, domain, op, busy, agent, source, rate, known, used>>

\* The agent goes away, also while a read is under way.
Cancel(r) ==
    /\ req[r].step = "streaming"
    /\ req[r].end = None
    /\ Finish(r)
    /\ req' = [req EXCEPT ![r].end = "cancelled",
                  ![r].step = IF req[r].pulling THEN @ ELSE "done"]
    /\ UNCHANGED <<entrance, domain, op, busy, agent, source, rate, known, used>>

Again(r) ==
    /\ req[r].step \in {"refused", "done"}
    /\ req' = [req EXCEPT ![r] = [IdleRequest EXCEPT !.afterOff = SwitchedOff]]
    /\ lines' = [lines EXCEPT ![r] = 0]
    /\ UNCHANGED <<entrance, domain, op, busy, agent, source, rate, known, used>>

Operation == Look \/ Arm \/ SendAttach \/ ReadAttached \/ SendDetach \/ Forget

Answer(r) ==
    \/ Admit(r) \/ Forward(r) \/ ListAnswered(r) \/ CallEnds(r) \/ CallStreams(r)
    \/ Pull(r) \/ Pulled(r)

Next ==
    \/ Attach \/ Detach \/ Operation \/ Elsewhere \/ OtherLifecycle
    \/ SaveTeam \/ TeamSaved \/ TeamCancelled \/ ChangeSource
    \/ NewWindow \/ Restart
    \/ \E r \in Requests : Begin(r) \/ Answer(r) \/ Cancel(r) \/ Again(r)

Spec == Init /\ [][Next]_vars

(***************************************************************************)
(* Fairness: an administrator who turns the entrance off repeats it until  *)
(* it is off, and other lifecycles and Team saves end.                     *)
(***************************************************************************)
OffSpec ==
    /\ Spec
    /\ WF_vars(Operation)
    /\ SF_vars(Detach)
    /\ WF_vars(busy /\ OtherLifecycle)
    /\ WF_vars(TeamSaved \/ TeamCancelled)

-----------------------------------------------------------------------------
\* Every variable has its type.
TypeOK ==
    /\ entrance.status \in {"off", "attach_armed", "attached", "detach_armed"}
    /\ entrance.status = "attached" => entrance.domain # None
    /\ domain \in {None, "ours", "foreign"}
    /\ agent \in [on : BOOLEAN, pending : BOOLEAN \union {None}]
    /\ rate.count \in 0..Limit
    /\ \A r \in Requests : lines[r] \in Nat

\* A domain this gateway attached is never forgotten: the hostname leads to this
\* Worker only if the record says that it does or may, whatever answers were
\* lost and wherever the object restarted.
DomainIsRecorded == domain = "ours" => entrance.status # "off"

\* Switching the agent off takes effect with its next request: a request that
\* began after the change was recorded, and while it stands, never reaches the
\* Portal, although the Team save may still be running.
OffIsImmediate ==
    \A r \in Requests :
        req[r].afterOff /\ SwitchedOff
        => req[r].step \notin {"admitted", "listing", "calling", "streaming"}

\* A tool's name keeps its meaning: a call under a name the agent was given
\* reaches the source it was given for, and is not refused as unknown while that
\* source is offered, also when the source has moved to a new server record.
MeansSource(k, r) ==
    k.name = req[r].name =>
        /\ req[r].target # None => req[r].target.source = k.source
        /\ req[r].step = "refused" /\ lines[r] > 0
           => k.source \notin {t.source : t \in req[r].tools}
SharesLabel(s) == \E t \in Sources \ {s} : Label[t] = Label[s]
NameKeepsSource ==
    \A r \in Requests : \A k \in known : SharesLabel(k.source) \/ MeansSource(k, r)

\* What docs/AGENT_ACCESS.md says of names, without that exception.
EveryNameKeepsSource == \A r \in Requests : \A k \in known : MeansSource(k, r)

\* Each call that went to the Portal or was refused there writes one audit
\* line, however its answer ends, and none writes two.
OneLinePerCall ==
    \A r \in Requests :
        /\ lines[r] <= 1
        /\ req[r].step = "done" /\ req[r].kind = "call" => lines[r] = 1

\* At most the limit is admitted in a window, and at most once more for each
\* time the object that counts was restarted in it.
RateHolds == rate.admitted <= Limit * (1 + used.restarts)

\* An entrance being turned off is turned off in the end, unless the hostname
\* belongs to somebody else by now.
OffEnds == entrance.status = "detach_armed" ~> (entrance.status = "off" \/ domain = "foreign")

(* The safety of this component: its invariants together.                   *)
Safe ==
  /\ TypeOK /\ DomainIsRecorded /\ OffIsImmediate /\ NameKeepsSource /\ OneLinePerCall /\ RateHolds
=============================================================================
