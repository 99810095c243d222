----------------------------- MODULE SourceOauth -----------------------------
(***************************************************************************)
(* Authorising a source: an administrator starts an attempt, consents at   *)
(* the source's provider, and the browser's callback exchanges the code    *)
(* and imports the tokens into the source's server record at Cloudflare.   *)
(* Starts and callbacks run in the queue of the management object; between *)
(* them the sources may be edited, another attempt started, the callback   *)
(* repeated or arrive in another browser, and inside a callback the server *)
(* record may be changed by hand at Cloudflare.                            *)
(*                                                                         *)
(* Attempts are numbered as they are started.  Scopes are "read", which    *)
(* every restricted source needs, "profile", the identity scopes, and      *)
(* "write".  A provider that declares no scope granted what was requested, *)
(* except for Meta Ads, whose earlier logins may have granted more.        *)
(***************************************************************************)
EXTENDS Naturals, FiniteSets

CONSTANTS
    Sources,
    Kind,           \* of each source: "plain", "tickets" (Gorgias) or "ads" (Meta Ads)
    Browsers,       \* each with its own administrator
    Advertised,     \* the scope sets a provider may advertise
    None,
    MaxAttempts, MaxEdits, MaxDrifts, MaxRestarts, MaxArrivals    \* bounds

VARIABLES
    stored,     \* the attempt in storage, 0 for none
    attempt,    \* what each attempt holds
    op,         \* the queue's operation
    revision,   \* of the saved sources
    installed,  \* installed sources; the others have an installation under way
    registered, \* the scope set Cloudflare shows for each server record
    cookie,     \* the attempt named by each browser's cookie
    grant,      \* the consent given for each attempt
    exchanges,  \* token requests sent per attempt
    imports,    \* what was imported
    used        \* how often each bounded event happened

vars == <<stored, attempt, op, revision, installed, registered, cookie, grant, exchanges, imports, used>>

Attempts == 1..MaxAttempts

Scopes == {"read", "write", "profile"}

NoAttempt ==
    [source |-> None, browser |-> None, revision |-> 0, registered |-> None, requested |-> {},
     open |-> FALSE, late |-> FALSE]

NoOp == [kind |-> "none", step |-> "none", id |-> 0, browser |-> None, answer |-> None, drifted |-> FALSE]

Init ==
    /\ stored = 0
    /\ attempt = [a \in Attempts |-> NoAttempt]
    /\ op = NoOp
    /\ revision = 1
    /\ installed \in SUBSET Sources
    /\ registered \in {r \in [Sources -> {None, {"read"}}] :
                          \A s \in Sources : s \notin installed => r[s] = None}
    /\ cookie = [b \in Browsers |-> 0]
    /\ grant = [a \in Attempts |-> None]
    /\ exchanges = [a \in Attempts |-> 0]
    /\ imports = {}
    /\ used = [starts |-> 0, edits |-> 0, drifts |-> 0, restarts |-> 0, arrivals |-> 0]

Count(what) == used' = [used EXCEPT ![what] = @ + 1]

(***************************************************************************)
(* Scopes.                                                                 *)
(***************************************************************************)
TicketScopes == {"read", "profile"}
AdsScopes == {"read"}
AdsGranted == {"read", "profile"}

\* What to request of a provider that supports these scopes, or None.
SourceScopes(s, supported) ==
    CASE Kind[s] = "plain" -> supported
      [] Kind[s] = "tickets" -> IF "read" \in supported THEN TicketScopes \intersect supported ELSE None
      [] Kind[s] = "ads" -> IF "read" \in supported THEN AdsScopes ELSE None

ScopeVerified(s, scope, requested) ==
    CASE Kind[s] = "plain" -> TRUE
      [] Kind[s] = "tickets" ->
            scope # None /\ "read" \in scope /\ scope \subseteq TicketScopes \intersect requested
      [] Kind[s] = "ads" ->
            scope # None /\ AdsScopes \subseteq scope \intersect requested /\ scope \subseteq AdsGranted

\* A reconnection never widens what was requested.
ReconnectVerified(s, scope, requested) ==
    \/ scope = {} /\ requested = {} /\ Kind[s] = "plain"
    \/ /\ scope # {}
       /\ scope \subseteq requested \union (IF Kind[s] = "ads" THEN {"profile"} ELSE {})

\* The scope an answer confirms: Meta Ads is asked for what the app was really
\* granted, whatever the answer declares.
ConfirmedScope(s, g) == IF Kind[s] = "ads" THEN g.actual ELSE g.declared

(***************************************************************************)
(* Starting.                                                               *)
(***************************************************************************)
\* The source's action or its installed record is checked; starting over
\* invalidates the earlier attempt, also when discovery fails afterwards.
BeginStart(s, b) ==
    /\ op = NoOp
    /\ used.starts < MaxAttempts
    /\ Count("starts")
    /\ stored' = 0
    /\ op' = [NoOp EXCEPT !.kind = "start", !.step = "discover", !.id = used.starts + 1]
    /\ attempt' = [attempt EXCEPT ![used.starts + 1] =
                      [NoAttempt EXCEPT !.source = s, !.browser = b, !.revision = revision,
                                        !.registered = registered[s]]]
    /\ UNCHANGED <<revision, installed, registered, cookie, grant, exchanges, imports>>

\* The provider's metadata: a reconnection keeps the scopes of the server
\* record, everything else requests what this source may have.
Discover ==
    /\ op.step = "discover"
    /\ LET a == attempt[op.id]
           known == a.source \in installed /\ a.registered # None IN
       \E supported \in Advertised :
          LET scopes == IF known THEN a.registered ELSE SourceScopes(a.source, supported) IN
          /\ SourceScopes(a.source, supported) # None
          /\ known => ScopeVerified(a.source, scopes, scopes)
          /\ attempt' = [attempt EXCEPT ![op.id].requested = scopes]
    /\ op' = [op EXCEPT !.step = "register"]
    /\ UNCHANGED <<stored, revision, installed, registered, cookie, grant, exchanges, imports, used>>

\* Discovery, the callback check and the registration may each fail.
StartFails ==
    /\ op.step \in {"discover", "register"}
    /\ op' = NoOp
    /\ UNCHANGED <<stored, attempt, revision, installed, registered, cookie, grant, exchanges, imports, used>>

\* The attempt is stored; its cookie reaches the browser with the answer, or is
\* lost with it.
Register ==
    /\ op.step = "register"
    /\ stored' = op.id
    /\ attempt' = [attempt EXCEPT ![op.id].open = TRUE]
    /\ cookie' \in {cookie, [cookie EXCEPT ![attempt[op.id].browser] = op.id]}
    /\ op' = NoOp
    /\ UNCHANGED <<revision, installed, registered, grant, exchanges, imports, used>>

(***************************************************************************)
(* At the provider, and between the two requests.                          *)
(***************************************************************************)
\* An attempt's address is opened, and its consent given or denied.
Consent(a) ==
    /\ attempt[a].open
    /\ grant[a] = None
    /\ grant' \in {[grant EXCEPT ![a] = g] : g \in {"code", "denied"}}
    /\ UNCHANGED <<stored, attempt, op, revision, installed, registered, cookie, exchanges, imports, used>>

Expire(a) ==
    /\ a = stored
    /\ ~attempt[a].late
    /\ attempt' = [attempt EXCEPT ![a].late = TRUE]
    /\ UNCHANGED <<stored, op, revision, installed, registered, cookie, grant, exchanges, imports, used>>

\* Any change of the saved sources, through the queue.
Edit ==
    /\ op = NoOp
    /\ used.edits < MaxEdits
    /\ Count("edits")
    /\ revision' = revision + 1
    /\ UNCHANGED <<stored, attempt, op, installed, registered, cookie, grant, exchanges, imports>>

\* The server record is changed at Cloudflare by hand, at any moment.
Drift(s) ==
    /\ used.drifts < MaxDrifts
    /\ s \in installed
    /\ Count("drifts")
    /\ registered' = [registered EXCEPT ![s] = {"read", "write"}]
    /\ registered' # registered
    /\ op' = [op EXCEPT !.drifted = op.kind = "finish"]
    /\ UNCHANGED <<stored, attempt, revision, installed, cookie, grant, exchanges, imports>>

(***************************************************************************)
(* The callback.                                                           *)
(***************************************************************************)
\* Mutated: the state alone names the attempt.
MutMatches(a, b) == stored = a

\* State, browser and administrator are those of the stored attempt.
Matches(a, b) == stored = a /\ cookie[b] = a /\ attempt[a].browser = b

\* The attempt is consumed before any request.
Consumed(a) == 0

\* The browser comes back with the state of attempt a, any number of times and
\* in any browser; every answer clears that browser's cookie, if it arrives.
Callback(a, b) ==
    /\ op = NoOp
    /\ used.arrivals < MaxArrivals
    /\ grant[a] # None
    /\ Count("arrivals")
    /\ IF ~Matches(a, b)
       THEN /\ cookie' \in {cookie, [cookie EXCEPT ![b] = 0]}
            /\ UNCHANGED <<stored, op>>
       ELSE /\ stored' = Consumed(a)
            /\ IF attempt[a].late \/ grant[a] = "denied"
               THEN /\ cookie' \in {cookie, [cookie EXCEPT ![b] = 0]}
                    /\ UNCHANGED op
               ELSE /\ op' = [NoOp EXCEPT !.kind = "finish", !.step = "check", !.id = a, !.browser = b]
                    /\ UNCHANGED cookie
    /\ UNCHANGED <<attempt, revision, installed, registered, grant, exchanges, imports>>

\* The end of a callback clears the cookie, unless its answer is lost.
Leave ==
    /\ cookie' \in {cookie, [cookie EXCEPT ![op.browser] = 0]}
    /\ op' = NoOp

\* Mutant of Bound: the saved sources may have changed.
MutBound(a) == registered[attempt[a].source] = attempt[a].registered

\* The sources, the action and the server record are those of the start.
Bound(a) ==
    /\ revision = attempt[a].revision
    /\ registered[attempt[a].source] = attempt[a].registered

\* The context is read again; another lifecycle, a missing credential or a
\* provider that cannot be read refuse as well.
Check ==
    /\ op.step = "check"
    /\ \/ Bound(op.id) /\ op' = [op EXCEPT !.step = "exchange"] /\ UNCHANGED cookie
       \/ Leave
    /\ UNCHANGED <<stored, attempt, revision, installed, registered, grant, exchanges, imports, used>>

\* What a provider may grant, and declare, for an attempt.
Answers(a) ==
    {g \in [actual : SUBSET Scopes, declared : {None} \union SUBSET Scopes] :
        Kind[a.source] = "ads" \/ g.declared = g.actual \/ (g.declared = None /\ g.actual = a.requested)}

\* The token request spends the code at the provider; its answer may be lost.
Exchange ==
    /\ op.step = "exchange"
    /\ exchanges' = [exchanges EXCEPT ![op.id] = @ + 1]
    /\ grant' = [grant EXCEPT ![op.id] = "spent"]
    /\ \/ /\ grant[op.id] = "code"
          /\ \E g \in Answers(attempt[op.id]) : op' = [op EXCEPT !.step = "scope", !.answer = g]
          /\ UNCHANGED cookie
       \/ Leave
    /\ UNCHANGED <<stored, attempt, revision, installed, registered, imports, used>>

\* What the answer declares, and what was confirmed, is what may be granted.
VerifyScope ==
    /\ op.step = "scope"
    /\ LET a == attempt[op.id]
           g == op.answer
           confirmed == ConfirmedScope(a.source, g) IN
       \/ /\ Kind[a.source] = "ads" /\ g.declared # None
             => ScopeVerified(a.source, g.declared, a.requested)
          /\ ScopeVerified(a.source, confirmed, a.requested)
          /\ a.source \in installed /\ confirmed # None
             => ReconnectVerified(a.source, confirmed, a.requested)
          /\ op' = [op EXCEPT !.step = "recheck"]
          /\ UNCHANGED cookie
       \/ Leave
    /\ UNCHANGED <<stored, attempt, revision, installed, registered, grant, exchanges, imports, used>>

\* The binding is read again immediately before the write.
Recheck ==
    /\ op.step = "recheck"
    /\ \/ Bound(op.id) /\ op' = [op EXCEPT !.step = "import", !.drifted = FALSE] /\ UNCHANGED cookie
       \/ Leave
    /\ UNCHANGED <<stored, attempt, revision, installed, registered, grant, exchanges, imports, used>>

\* The tokens are written; the answer, or the whole request, may be lost.  The
\* sync that follows changes nothing here.
Import ==
    /\ op.step = "import"
    /\ \/ /\ imports' = imports \union {[id |-> op.id, browser |-> op.browser, revision |-> revision,
                                        scope |-> op.answer.actual,
                                        before |-> registered[attempt[op.id].source],
                                        drifted |-> op.drifted]}
          /\ registered' = [registered EXCEPT ![attempt[op.id].source] = attempt[op.id].requested]
       \/ UNCHANGED <<imports, registered>>
    /\ stored' = IF stored = op.id THEN 0 ELSE stored
    /\ Leave
    /\ UNCHANGED <<attempt, revision, installed, grant, exchanges, used>>

Restart ==
    /\ used.restarts < MaxRestarts
    /\ op # NoOp
    /\ Count("restarts")
    /\ op' = NoOp
    /\ UNCHANGED <<stored, attempt, revision, installed, registered, cookie, grant, exchanges, imports>>

Next ==
    \/ \E s \in Sources, b \in Browsers : BeginStart(s, b)
    \/ Discover \/ StartFails \/ Register
    \/ \E a \in Attempts : Consent(a) \/ Expire(a) \/ \E b \in Browsers : Callback(a, b)
    \/ Edit \/ \E s \in Sources : Drift(s)
    \/ Check \/ Exchange \/ VerifyScope \/ Recheck \/ Import \/ Restart

Spec == Init /\ [][Next]_vars

-----------------------------------------------------------------------------
\* Every variable has its type.
TypeOK ==
    /\ stored \in 0..MaxAttempts
    /\ cookie \in [Browsers -> 0..MaxAttempts]
    /\ op.id \in 0..MaxAttempts
    /\ op.kind = "finish" => stored = 0 /\ op.browser \in Browsers
    /\ \A s \in Sources : registered[s] \in {None} \union SUBSET Scopes
    /\ \A i \in imports : i.id \in Attempts

\* A consent is exchanged and imported at most once, through repeated callbacks,
\* lost answers and restarts.
ExchangedOnce ==
    /\ \A a \in Attempts : exchanges[a] <= 1
    /\ \A i, j \in imports : i.id = j.id => i = j

\* Starting over ends the attempts before it, whether or not the new one gets
\* as far as the provider: only the newest start's callback is ever worked on.
NewestOnly == op.kind = "finish" => op.id = used.starts

\* Consent does not outlive an edit: what is imported belongs to the sources as
\* they were when the attempt was started, in the browser that started it.
ConsentIsCurrent ==
    \A i \in imports :
        /\ i.revision = attempt[i.id].revision
        /\ i.browser = attempt[i.id].browser

\* A server record that was changed by hand since the start is not overwritten,
\* unless the change came after the last look at it.
DriftIsSeen ==
    \A i \in imports : i.before = attempt[i.id].registered \/ i.drifted

\* The scopes in force stay narrow: a restricted source never gets more than its
\* reviewed scopes, and a reconnection never more than was registered before.
NarrowScope ==
    \A i \in imports :
        LET a == attempt[i.id] IN
        /\ Kind[a.source] = "tickets" => i.scope \subseteq TicketScopes
        /\ Kind[a.source] = "ads" => i.scope \subseteq AdsGranted
        /\ Kind[a.source] = "plain" /\ a.source \in installed => i.scope \subseteq a.requested

(* The safety of this component: its invariants together.                   *)
Safe ==
  /\ TypeOK /\ ExchangedOnce /\ NewestOnly /\ ConsentIsCurrent /\ DriftIsSeen /\ NarrowScope
=============================================================================
