--------------------------- MODULE GrantExchange ---------------------------
(***************************************************************************)
(* One consent's Cloudflare grant, from the authorization code to the      *)
(* revocation (customer-cloudflare-grant.ts, oauth.ts,                     *)
(* hosted-bootstrap-grant.ts, http.ts).  A hosted call exchanges the code  *)
(* with the client secret, deploys or cleans up, and revokes each token    *)
(* once; a customer call exchanges it with PKCE, binds the token to the    *)
(* installed account, works, and tries each revocation up to three times.  *)
(* A token answer may carry a refresh token, other scopes or unusable      *)
(* metadata; an answer that is not read leaves live tokens nobody holds.   *)
(***************************************************************************)
EXTENDS Integers, Sequences, FiniteSets

CONSTANTS
    Accounts,       \* the accounts the person who consents can pick from
    Home,           \* the account the gateway is installed in
    PageSize,       \* zones of one page of the listing
    MaxPages,       \* pages the listing is read for
    MaxZones,       \* zones the account list of the model holds at most
    RevokeAttempts  \* attempts of the customer's revocation of one token

Tokens == {"access", "refresh"}

\* What the calls differ in: who exchanges the code and how the account is bound.
Calls == {"bootstrap", "cleanup", "install", "operation"}

Hosted(k) == k \in {"bootstrap", "cleanup"}

\* The account is read off the listing, or one resource of it is probed.
Listed(k) == k \in {"bootstrap", "install"}

ScopeSets == {"exact", "less", "more"}

\* How the provider's filter of zones answers: as it should, with nothing, or without filtering.
Filters == {"right", "empty", "unfiltered"}

Zone == [acc : Accounts, name : {"wanted", "other"}, status : {"active", "pending"}]

\* What the provider granted: scopes, accounts, and what the answer looks like.
Consents == [scopes : ScopeSets, accounts : (SUBSET Accounts) \ {{}},
             refresh : BOOLEAN, metadata : BOOLEAN, filter : Filters]

Nothing == "nothing"

Outcomes == {Nothing, "done", "token_exchange_failed", "refresh_token_returned", "scope_mismatch",
             "provider_unavailable", "account_ambiguous", "account_mismatch", "zone_ambiguous",
             "zone_mismatch", "deploy_failed", "revoke_failed"}

VARIABLES
    call,      \* which call runs
    consent,   \* the provider's grant: scopes, accounts, metadata of the answer
    zones,     \* the zones of all the accounts, in the order of the listing
    live,      \* tokens the provider issued and has not revoked
    held,      \* the tokens in the grant object
    usable,    \* assertUsable passed
    pc,
    bound,     \* the account and the zone the work is done in
    outcome,   \* the result or the first error
    queue,     \* tokens still to be revoked, with the attempts made
    failed,    \* a token could not be revoked
    tries      \* revocation requests made for each token (history)

vars == <<call, consent, zones, live, held, usable, pc, bound, outcome, queue, failed, tries>>

Init ==
    /\ call \in Calls
    /\ consent \in Consents
    \* A call that never gets to the zones is left without any.
    /\ LET asks == call = "install" /\ consent.scopes = "exact" /\ ~consent.refresh /\ consent.metadata
       IN  /\ zones \in UNION {[1..n -> Zone] : n \in 0..(IF asks THEN MaxZones ELSE 0)}
           /\ ~asks => consent.filter = "right"
    /\ live = {} /\ held = {} /\ usable = FALSE /\ pc = "exchange"
    /\ bound = [acc |-> Nothing, zone |-> 0]
    /\ outcome = Nothing /\ queue = <<>> /\ failed = FALSE
    /\ tries = [t \in Tokens |-> 0]

-----------------------------------------------------------------------------
(* The exchange *)

Issued == {"access"} \cup (IF consent.refresh THEN {"refresh"} ELSE {})

\* Every credential of a successful answer is captured before its metadata is looked at.
Captured == Issued

\* A refused exchange, or one whose answer was not read in time or not whole: no grant object.
Refuse ==
    /\ pc = "exchange"
    /\ \E landed \in BOOLEAN : live' = IF landed THEN Issued ELSE {}
    /\ outcome' = "token_exchange_failed"
    /\ pc' = "end"
    /\ UNCHANGED <<call, consent, zones, held, usable, bound, queue, failed, tries>>

Exchange ==
    /\ pc = "exchange"
    /\ live' = Issued
    /\ held' = Captured
    /\ pc' = "assert"
    /\ UNCHANGED <<call, consent, zones, usable, bound, outcome, queue, failed, tries>>

\* The revocation takes the captured tokens, access first.
ToRevoke == IF held = Tokens THEN <<"access", "refresh">> ELSE <<"access">>

Stop(code) ==
    /\ outcome' = code
    /\ queue' = ToRevoke
    /\ pc' = "revoke"

\* metadata, refresh token, scopes: the hosted call learns of the refresh token by looking at the
\* answer itself, after the scopes.
AssertError ==
    LET refresh == "refresh" \in held
        scopes == consent.scopes # "exact"
    IN  IF ~consent.metadata THEN "token_exchange_failed"
        ELSE IF ~Hosted(call) /\ refresh THEN "refresh_token_returned"
        ELSE IF scopes THEN "scope_mismatch"
        ELSE IF refresh THEN "refresh_token_returned"
        ELSE Nothing

AssertUsable ==
    /\ pc = "assert"
    /\ IF AssertError = Nothing
       THEN usable' = TRUE /\ pc' = "account" /\ UNCHANGED <<outcome, queue>>
       ELSE Stop(AssertError) /\ UNCHANGED usable
    /\ UNCHANGED <<call, consent, zones, live, held, bound, failed, tries>>

-----------------------------------------------------------------------------
(* Which account, which zone *)

\* A read of the provider fails: transport, deadline, status, body or envelope.
ReadFails ==
    /\ pc \in {"account", "zone"}
    /\ Stop("provider_unavailable")
    /\ UNCHANGED <<call, consent, zones, live, held, usable, bound, failed, tries>>

\* Two accounts of a page of two are enough to know that the consent is ambiguous.
ListAccounts ==
    /\ pc = "account" /\ usable /\ Listed(call)
    /\ IF Cardinality(consent.accounts) # 1 THEN Stop("account_ambiguous") /\ UNCHANGED bound
       ELSE LET only == CHOOSE a \in consent.accounts : TRUE
            IN  IF call = "install" /\ only # Home THEN Stop("account_mismatch") /\ UNCHANGED bound
                ELSE /\ bound' = [bound EXCEPT !.acc = only]
                     /\ pc' = IF call = "install" THEN "zone" ELSE "work"
                     /\ UNCHANGED <<outcome, queue>>
    /\ UNCHANGED <<call, consent, zones, live, held, usable, failed, tries>>

\* 401, 403 and 404: the consent covers another account.
ProbeAccount ==
    /\ pc = "account" /\ usable /\ ~Listed(call)
    /\ IF Home \in consent.accounts
       THEN bound' = [bound EXCEPT !.acc = Home] /\ pc' = "work" /\ UNCHANGED <<outcome, queue>>
       ELSE Stop("account_mismatch") /\ UNCHANGED bound
    /\ UNCHANGED <<call, consent, zones, live, held, usable, failed, tries>>

Matches(i) == zones[i] = [acc |-> Home, name |-> "wanted", status |-> "active"]

\* The zones the token's listing shows, and where it shows one.
Visible == {i \in DOMAIN zones : zones[i].acc \in consent.accounts}
Place(i) == Cardinality({j \in Visible : j <= i})

\* The filtered read asks for two at most: two are enough to know.
FilterAnswer ==
    CASE consent.filter = "right" -> {i \in Visible : Matches(i)}
      [] consent.filter = "empty" -> {}
      [] OTHER -> {i \in Visible : Place(i) <= 2}

\* Pages are read until one is not full, MaxPages at most.
Pages == LET full == Cardinality(Visible) \div PageSize
         IN  IF full < MaxPages THEN full + 1 ELSE MaxPages

Found == {i \in Visible : Place(i) <= Pages * PageSize /\ Matches(i)}

\* The filter's answer counts, even a wrong one; only without any the pages do.
ResolveZone ==
    /\ pc = "zone" /\ usable
    /\ LET answer == IF FilterAnswer = {} THEN Found ELSE FilterAnswer IN
       \/ Cardinality(answer) > 1 /\ Stop("zone_ambiguous") /\ UNCHANGED bound
       \/ /\ Cardinality(answer) <= 1
          /\ \E i \in answer : Matches(i) /\ bound' = [bound EXCEPT !.zone = i]
          /\ pc' = "work" /\ UNCHANGED <<outcome, queue>>
       \/ /\ Cardinality(answer) <= 1 /\ \A i \in answer : ~Matches(i)
          /\ Stop("zone_mismatch") /\ UNCHANGED bound
    /\ UNCHANGED <<call, consent, zones, live, held, usable, failed, tries>>

\* The fixed executor, with the token.
Execute ==
    /\ pc = "work" /\ usable
    /\ \E result \in {"done", "deploy_failed"} : Stop(result)
    /\ UNCHANGED <<call, consent, zones, live, held, usable, bound, failed, tries>>

-----------------------------------------------------------------------------
(* Revocation *)

Attempts == IF Hosted(call) THEN 1 ELSE RevokeAttempts

\* Mutant of FailedAfter: the last revocation speaks for all.
FailedOfLast(confirmed) == ~confirmed

\* A token that could not be revoked stays reported when a later one can be.
FailedAfter(confirmed) == failed \/ ~confirmed

\* The next token is tried whether or not this one was revoked.
Rest(confirmed) == Tail(queue)

\* One request: revoked and confirmed, revoked without an answer, or refused.
Revoke(revoked, confirmed) ==
    /\ pc = "revoke" /\ queue # <<>> /\ (confirmed => revoked)
    /\ LET t == Head(queue)
           last == confirmed \/ tries[t] + 1 = Attempts
       IN  /\ live' = IF revoked THEN live \ {t} ELSE live
           /\ tries' = [tries EXCEPT ![t] = @ + 1]
           /\ queue' = IF last THEN Rest(confirmed) ELSE queue
           /\ failed' = IF last THEN FailedAfter(confirmed) ELSE failed
    /\ UNCHANGED <<call, consent, zones, held, usable, pc, bound, outcome>>

\* A failed revocation replaces the result, and the grant is discarded either way.
Discard ==
    /\ pc = "revoke" /\ queue = <<>>
    /\ outcome' = IF failed THEN "revoke_failed" ELSE outcome
    /\ held' = {} /\ usable' = FALSE /\ pc' = "end"
    /\ UNCHANGED <<call, consent, zones, live, bound, queue, failed, tries>>

Next ==
    \/ Refuse \/ Exchange \/ AssertUsable
    \/ ReadFails \/ ListAccounts \/ ProbeAccount
    \/ ResolveZone \/ Execute
    \/ \E revoked, confirmed \in BOOLEAN : Revoke(revoked, confirmed)
    \/ Discard

Spec == Init /\ [][Next]_vars

\* withDeadline and the bounded reads end every request.
FairSpec == Spec /\ WF_vars(Next)

-----------------------------------------------------------------------------
\* The grant object: what it holds, and that only an object with tokens is usable.
GrantObject == held \subseteq Tokens /\ usable \in BOOLEAN /\ (usable => held # {})

TypeOK ==
    /\ call \in Calls /\ consent \in Consents /\ live \subseteq Tokens /\ GrantObject
    /\ failed \in BOOLEAN /\ outcome \in Outcomes
    /\ pc \in {"exchange", "assert", "account", "zone", "work", "revoke", "end"}
    /\ bound.acc \in Accounts \cup {Nothing} /\ bound.zone \in 0 .. MaxZones
    /\ tries \in [Tokens -> 0 .. RevokeAttempts]
    /\ \A i \in DOMAIN queue : queue[i] \in held

\* The executor runs only with a token that has exactly the operation's scopes, came without a
\* refresh token, and reaches the account and the zone the work is bound to.
WorkIsAuthorized ==
    pc = "work" =>
        /\ consent.scopes = "exact" /\ ~consent.refresh
        /\ bound.acc \in consent.accounts
        /\ ~Hosted(call) => bound.acc = Home
        /\ Listed(call) => Cardinality(consent.accounts) = 1
        /\ call = "install" => Matches(bound.zone)

\* A token that is alive when the call has ended is one whose revocation failed and is reported as
\* such, or one of an exchange whose answer was never read.
LiveIsReported ==
    pc = "end" /\ live # {} => outcome = "revoke_failed" \/ (outcome = "token_exchange_failed" /\ tries["access"] = 0)

\* Every token the answer carried is tried, as often as the call may: one failure never spares the
\* others, and a malformed answer never hides one.
EveryTokenTried ==
    pc = "end" /\ (\E t \in Tokens : tries[t] > 0 \/ outcome \notin {"token_exchange_failed"}) =>
        \A t \in Issued : tries[t] = Attempts \/ (tries[t] > 0 /\ t \notin live)

\* The install finds the one zone it was asked for when the pages it may read show it, whether the
\* provider's filter works or answers nothing; only an unfiltered answer can hide it.
FindsZone ==
    pc = "zone" /\ outcome' = "zone_mismatch" /\ consent.filter # "unfiltered" =>
        ~ \E i \in Visible : Place(i) <= PageSize * MaxPages /\ Matches(i)

\* Every call ends, with nothing in memory.
CallEnds == <>(pc = "end" /\ held = {})

(* The safety of this component: its invariants together.                   *)
Safe ==
  /\ TypeOK /\ WorkIsAuthorized /\ LiveIsReported /\ EveryTokenTried
=============================================================================
