------------------------------ MODULE MCSources -------------------------------
(*******************************************************************************)
(* The parts of the management Worker that look after sources, for TLC:        *)
(* TokenSwitch, SourceInstall, SourceEdits and SourceOauth.  Each behaviour    *)
(* is one of one part: part says which, the variables of the others stay as    *)
(* they were: at 0, and those of TokenSwitch at a source that is signed in.    *)
(* SourceEdits and SourceOauth have two parts each, which bound the steps of    *)
(* one instance: one has more data, the other more requests or sources.        *)
(*******************************************************************************)
EXTENDS TokenSwitch, FiniteSets, TLC

CONSTANTS
    Chosen, t1, t2, t3, toolA, toolB, b1, b2, None,
    InstallSources, InstallRevision, InstallFaults,  \* of SourceInstall
    EditSources, EditTools, EditChoices, EditLabels, EditRequests, CheckLimit, EditRevision,
    EditFaults, MaxOutside,                          \* of SourceEdits
    OauthSources, OauthKind, OauthBrowsers, Advertised, MaxAttempts, OauthEdits, OauthDrifts,
    OauthRestarts, OauthArrivals                     \* of SourceOauth

VARIABLES
     part, status, content, revision, action, owned, removal, objects, extra, wide, connected, wire,
    outlived, req, label, rev, toolEdit, labelEdit, floor, names, offered, stage, op, after, tail, checksAfter,
    active, slots, outside, stored, attempt, installed, registered, cookie, grant, exchanges,
    imports, used, sourceSaved, sourcePortal, sourceDrift, sourceFaults

allVars == <<part, vars, status, content, revision, action, owned, removal, objects, extra, wide,
             connected, wire, outlived, req, label, rev, toolEdit, labelEdit, floor, names, offered, stage,
             op, after, tail, checksAfter, active, slots, outside, stored, attempt, installed,
             registered, cookie, grant, exchanges, imports, used, sourceSaved, sourcePortal,
             sourceDrift, sourceFaults>>

\* What names a source is never what stands for no source.
ASSUME SourceNames ==
    "none" \notin InstallSources
ASSUME SourceBounds ==
    InstallRevision \in Nat /\ InstallFaults \in Nat
\* There is something to edit, a first selection names its tools, and a saved set of sources has a
\* revision.
ASSUME EditSubjects ==
    EditSources # {} /\ EditLabels # {} /\ IsFiniteSet(EditRequests)
ASSUME EditSelections ==
    /\ EditChoices \subseteq [tools : SUBSET EditTools, all : BOOLEAN]
    /\ \E c \in EditChoices : ~c.all
ASSUME EditLimits ==
    CheckLimit \in Nat /\ EditRevision \in Nat \ {0}
\* Every source that is authorised is of one kind, and providers speak of scopes.
ASSUME OauthKinds ==
    OauthKind \in [OauthSources -> {"plain", "tickets", "ads"}]
ASSUME OauthScopes ==
    /\ Advertised \subseteq SUBSET {"read", "write", "profile"}
    /\ \A scopes \in SUBSET {"read", "write", "profile"} : scopes # None
ASSUME OauthBounds ==
    /\ MaxAttempts \in Nat /\ OauthEdits \in Nat /\ OauthDrifts \in Nat
    /\ OauthRestarts \in Nat /\ OauthArrivals \in Nat

AllChoices ==
    {[tools |-> t, all |-> FALSE] : t \in {{toolA}, {toolA, toolB}}}
    \cup {[tools |-> {toolA}, all |-> TRUE]}
ScopeSets == {{"read"}, {"read", "write"}, {"write"}}
KindOf == t1 :> "ads" @@ t2 :> "tickets" @@ t3 :> "plain"

Install == INSTANCE SourceInstall WITH
    Sources <- InstallSources, MaxRevision <- InstallRevision, MaxFaults <- InstallFaults,
    portal <- sourcePortal, faults <- sourceFaults
Edits == INSTANCE SourceEdits WITH
    Sources <- EditSources, Tools <- EditTools, Choices <- EditChoices, Labels <- EditLabels,
    Requests <- EditRequests, MaxRevision <- EditRevision, MaxFaults <- EditFaults,
    saved <- sourceSaved, portal <- sourcePortal, drift <- sourceDrift, faults <- sourceFaults
Oauth == INSTANCE SourceOauth WITH
    Sources <- OauthSources, Kind <- OauthKind, Browsers <- OauthBrowsers,
    MaxEdits <- OauthEdits, MaxDrifts <- OauthDrifts, MaxRestarts <- OauthRestarts,
    MaxArrivals <- OauthArrivals

butSwitch == <<status, content, revision, action, owned, removal, objects, extra, wide,
    connected, wire, outlived, req, label, rev, toolEdit, labelEdit, floor, names, offered, stage, op, after, tail,
    checksAfter, active, slots, outside, stored, attempt, installed, registered, cookie, grant,
    exchanges, imports, used, sourceSaved, sourcePortal, sourceDrift, sourceFaults>>
IdleButSwitch ==
    /\ status = 0 /\ content = 0 /\ revision = 0 /\ action = 0 /\ owned = 0 /\ removal = 0
    /\ objects = 0 /\ extra = 0 /\ wide = 0 /\ connected = 0 /\ wire = 0 /\ outlived = 0
    /\ req = 0 /\ label = 0 /\ rev = 0
    /\ toolEdit = 0 /\ labelEdit = 0 /\ floor = 0 /\ names = 0 /\ offered = 0 /\ stage = 0
    /\ op = 0 /\ after = 0 /\ tail = 0 /\ checksAfter = 0 /\ active = 0 /\ slots = 0
    /\ outside = 0 /\ stored = 0 /\ attempt = 0 /\ installed = 0 /\ registered = 0 /\ cookie = 0
    /\ grant = 0 /\ exchanges = 0 /\ imports = 0 /\ used = 0 /\ sourceSaved = 0
    /\ sourcePortal = 0 /\ sourceDrift = 0 /\ sourceFaults = 0
SwitchInit == part = "switch" /\ Init /\ IdleButSwitch
SwitchNext == part = "switch" /\ Next /\ UNCHANGED <<part, butSwitch>>

butInstall == <<vars, label, rev, toolEdit, labelEdit, floor, names, offered, stage, op, after,
    tail, checksAfter, active, slots, outside, stored, attempt, installed, registered, cookie,
    grant, exchanges, imports, used, sourceSaved, sourceDrift>>
IdleButInstall ==
    /\ Init /\ label = 0 /\ rev = 0 /\ toolEdit = 0 /\ labelEdit = 0 /\ floor = 0 /\ names = 0
    /\ offered = 0 /\ stage = 0 /\ op = 0 /\ after = 0 /\ tail = 0 /\ checksAfter = 0
    /\ active = 0 /\ slots = 0 /\ outside = 0 /\ stored = 0 /\ attempt = 0 /\ installed = 0
    /\ registered = 0 /\ cookie = 0 /\ grant = 0 /\ exchanges = 0 /\ imports = 0 /\ used = 0
    /\ sourceSaved = 0 /\ sourceDrift = 0
InstallInit == part = "install" /\ Install!Init /\ IdleButInstall
InstallNext == part = "install" /\ Install!Next /\ UNCHANGED <<part, butInstall>>

butEdits == <<vars, status, content, revision, action, owned, removal, objects, extra, wide,
    connected, wire, outlived, req, stored, attempt, installed, registered, cookie, grant, exchanges, imports, used>>
IdleButEdits ==
    /\ Init /\ status = 0 /\ content = 0 /\ revision = 0 /\ action = 0 /\ owned = 0 /\ removal = 0
    /\ objects = 0 /\ extra = 0 /\ wide = 0 /\ connected = 0 /\ wire = 0 /\ outlived = 0
    /\ req = 0 /\ stored = 0
    /\ attempt = 0 /\ installed = 0 /\ registered = 0 /\ cookie = 0 /\ grant = 0 /\ exchanges = 0
    /\ imports = 0 /\ used = 0
\* One request at a time.
EditsInit == part = "edits" /\ Edits!Init /\ IdleButEdits
EditsNext ==
    /\ part = "edits"
    /\ \/ Edits!Restart
       \/ \E r \in EditRequests \cap {1} : Edits!Arrive(r) \/ Edits!Serve(r)
       \/ \E s \in EditSources : Edits!Upstream(s) \/ Edits!Tamper(s)
    /\ UNCHANGED <<part, butEdits>>

\* Several requests, which select tools of one source and keep its label.
QueueInit == part = "queue" /\ Edits!Init /\ IdleButEdits
QueueNext ==
    /\ part = "queue" /\ Edits!Next /\ UNCHANGED <<part, butEdits>>
    /\ outside' = 0
    /\ \A r \in EditRequests :
         op'[r].src = Edits!Idle.src /\ op'[r].lab = Edits!Idle.lab /\ ~op'[r].sel.all

butOauth == <<vars, status, content, action, owned, removal, objects, extra, wide, connected, wire,
    outlived, req, label, rev, toolEdit, labelEdit, floor, names, offered, stage, after, tail, checksAfter,
    active, slots, outside, sourceSaved, sourcePortal, sourceDrift, sourceFaults>>
IdleButOauth ==
    /\ Init /\ status = 0 /\ content = 0 /\ action = 0 /\ owned = 0 /\ removal = 0 /\ objects = 0
    /\ extra = 0 /\ wide = 0 /\ connected = 0 /\ wire = 0 /\ outlived = 0 /\ req = 0 /\ label = 0 /\ rev = 0 /\ toolEdit = 0
    /\ labelEdit = 0 /\ floor = 0 /\ names = 0 /\ offered = 0 /\ stage = 0 /\ after = 0
    /\ tail = 0 /\ checksAfter = 0 /\ active = 0 /\ slots = 0 /\ outside = 0 /\ sourceSaved = 0
    /\ sourcePortal = 0 /\ sourceDrift = 0 /\ sourceFaults = 0
\* Several attempts at sources with no reviewed scopes.
Plain(s) == s \in OauthSources => OauthKind[s] = "plain"
OauthInit ==
    /\ part = "oauth" /\ Oauth!Init /\ IdleButOauth
    /\ \A s \in OauthSources : Plain(s) \/ (s \notin installed /\ registered[s] = None)
OauthNext ==
    /\ part = "oauth" /\ Oauth!Next /\ UNCHANGED <<part, butOauth>>
    /\ \A a \in Oauth!Attempts : Plain(attempt'[a].source)

\* One attempt in one browser, at a source of any kind.
ScopesInit == part = "scopes" /\ Oauth!Init /\ IdleButOauth
ScopesNext ==
    /\ part = "scopes" /\ Oauth!Next /\ UNCHANGED <<part, butOauth>>
    /\ used'.starts <= 1 /\ \A a \in Oauth!Attempts : attempt'[a].browser # b2

AnyInit == part \in Chosen /\ (
    SwitchInit \/ InstallInit \/ EditsInit \/ QueueInit \/ OauthInit \/ ScopesInit)
AnyNext ==
    SwitchNext \/ InstallNext \/ EditsNext \/ QueueNext \/ OauthNext \/ ScopesNext
AnySpec == AnyInit /\ [][AnyNext]_allVars

\* The sources being installed are interchangeable.
Interchangeable ==
    Permutations(InstallSources)

-------------------------------------------------------------------------------
\* SwitchIsSafe and SwitchSwapsRecords are TokenSwitch's own.

\* SourceInstall: lost answers, expired approvals and renewals make no second object; what Cloudflare
\* holds or may still create is in a record; the Portal maps only what Access guards, an installed
\* source is whole, and a removal takes the server before its protection; a creation that was still
\* undecided when its approval was renewed may make a second policy or bring a server back.
InstallIsSafe ==
    part = "install" => Install!Safe

\* SourceEdits: the Portal exposes only tools that the saved or the journaled selection approves, an
\* unfinished edit stays resumable, names follow the saved label, older runtimes are kept out first,
\* and no check overlaps a mutation in the queue.
EditsAreSafe ==
    part \in {"edits", "queue"} => Edits!Safe

\* SourceOauth: a consent is exchanged and imported once, only for the newest start, for the sources
\* as they were and the browser that started it, over no change made by hand that was there to be
\* seen, and with no wider scopes than the reviewed or registered ones.
ConsentIsSafe ==
    part \in {"oauth", "scopes"} => Oauth!Safe

===============================================================================
