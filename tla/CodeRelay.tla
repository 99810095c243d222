------------------------------ MODULE CodeRelay ------------------------------
(***************************************************************************)
(* The code relay at auth.ankka.ai.  A customer gateway proves that it     *)
(* holds the key its ownership certificate names (a signed challenge       *)
(* request, then a signed proof of the challenge), receives a short relay  *)
(* ticket for one fixed operation, and exchanges the ticket for an         *)
(* authorization whose scopes the operation alone decides.  The provider   *)
(* sends the code to the relay, which forwards it to the callback sealed   *)
(* in the state.                                                           *)
(*                                                                         *)
(* A client is one call of requestCustomerGatewayRelayTicket followed by   *)
(* beginCustomerBootstrapRelay.  Requests may be delivered late, twice or  *)
(* never, and answers may be lost.  `now` is the relay's clock; a gateway  *)
(* reads it with an offset.                                                *)
(***************************************************************************)
EXTENDS Integers, FiniteSets, Sequences

CONSTANTS
  Gateways,        \* installations, each with one certificate and one key
  Clients,         \* ticket requests
  CertificateOf,   \* the certificate a client presents
  KeyOf,           \* the installation whose key the client signs with
  OperationOf,     \* its fixed operation
  KindsOf,         \* the resource kinds of its receipt (uninstall only)
  SkewOf,          \* offset of the clock the client reads
  RequestTTL, ChallengeTTL, TicketTTL, RelayTTL, ClockSkew,
  MaxTime, MaxChallenges

CustomerOperations == {"install", "upgrade", "rollback", "source-add",
  "bigquery-add", "bigquery-remove", "source-update", "source-remove",
  "management-credential", "uninstall"}

ReceiptKinds == {"worker", "durable_object_namespace", "worker_custom_domain",
  "mcp_server", "mcp_portal", "access_application", "access_policy",
  "dns_record"}

ASSUME ClientsAssumption ==
  /\ CertificateOf \in [Clients -> Gateways] /\ KeyOf \in [Clients -> Gateways]
  /\ OperationOf \in [Clients -> CustomerOperations]
  /\ KindsOf \in [Clients -> SUBSET ReceiptKinds]
  /\ SkewOf \in [Clients -> Int]

\* The code's lifetimes are two minutes for requests, challenges and tickets, ten
\* for a sealed state, and it tolerates half a minute between two clocks.
ASSUME TimesAssumption ==
  /\ {RequestTTL, ChallengeTTL, TicketTTL, RelayTTL, ClockSkew, MaxTime, MaxChallenges} \subseteq Nat
  /\ ChallengeTTL <= RequestTTL /\ ChallengeTTL <= TicketTTL + ClockSkew

VARIABLES
  now,         \* the relay's clock
  challenges,  \* the challenge table: one row per certificate and operation
  issued,      \* for which certificate and operation each challenge was made
  network,     \* requests that were sent and may (still, or again) arrive
  client,      \* where each client stands
  tickets,     \* tickets issued
  states,      \* authorizations out in a browser, each with its sealed state
  forwarded    \* the last redirect to a callback made for each client

vars == <<now, challenges, issued, network, client, tickets, states, forwarded>>

(* ------------------------------ authority ------------------------------ *)

SourceScopes == {"zone-access.write", "mcp-portals.write"}
WorkerReleaseScopes == {"workers-scripts.write"}
InstallScopes == {"access-acct.read", "zone-access.write", "dns.write",
  "mcp-portals.write", "workers-routes.read", "workers-scripts.write",
  "zone.read"}

OperationAuthority ==
  [op \in CustomerOperations \ {"uninstall"} |->
     CASE op = "install" -> InstallScopes
       [] op \in {"upgrade", "rollback", "management-credential"} ->
            WorkerReleaseScopes
       [] op \in {"bigquery-add", "bigquery-remove"} ->
            SourceScopes \cup {"workers-scripts.write", "workers-routes.read"}
       [] OTHER -> SourceScopes]

UninstallResourceScopes ==
  [k \in ReceiptKinds |->
     CASE k \in {"worker", "durable_object_namespace", "worker_custom_domain"} ->
            WorkerReleaseScopes
       [] k \in {"mcp_server", "mcp_portal"} -> {"mcp-portals.write"}
       [] k \in {"access_application", "access_policy"} -> {"zone-access.write"}
       [] OTHER -> {"dns.write"}]

UninstallScopesForReceipt(kinds) == UNION {UninstallResourceScopes[k] : k \in kinds}

ExactOperationScopes(op, kinds) ==
  IF op = "uninstall" THEN UninstallScopesForReceipt(kinds)
                      ELSE OperationAuthority[op]

ScopeCeiling(op) == ExactOperationScopes(op, ReceiptKinds)

\* Kinds belong to an uninstall and to nothing else.
ValidReceiptKinds(op, kinds) == (op = "uninstall") <=> (kinds # {})

(* -------------------------- records and messages ------------------------ *)

Callbacks == Gateways \X {"bootstrap", "gateway"}

\* The challenge table, tickets, sealed states, and where a client stands.
ChallengeRows ==
  [certificate : Gateways, op : CustomerOperations, challenge : 1..MaxChallenges, expiresAt : Nat]
RelayTickets ==
  [serial : Nat, challenge : 1..MaxChallenges, gateway : Gateways, op : CustomerOperations,
   kinds : SUBSET ReceiptKinds, callback : Callbacks, issuedAt : Nat, expiresAt : Nat]
RelayStates ==
  [client : Clients, ticket : Nat, gateway : Gateways, op : CustomerOperations,
   callback : Callbacks, scopes : SUBSET InstallScopes, expiresAt : Nat]
ClientRecords ==
  [step : {"idle", "challenge", "prove", "proof", "ticket", "begin", "authorize", "done", "failed"},
   since : Nat, challenge : 0..MaxChallenges, expiresAt : Nat, ticket : Nat,
   reason : {"none", "invalid", "clock", "signature", "replayed", "expired",
             "operation_mismatch", "relay_unavailable", "relay_rejected"}]

Send(m) == network' = network \cup {m}

(* ------------------------------- the client ----------------------------- *)

\* The key unsealed for a signature, and the certificate issued for a key.
SigningKey(c) == KeyOf[c]
PresentedCertificate(c) == CertificateOf[c]

ClientNow(c) == now + SkewOf[c]

\* The origin that serves the client: the bootstrap shell during the install,
\* the management hostname afterwards.
OwnCallback(c) ==
  IF OperationOf[c] = "install" THEN <<KeyOf[c], "bootstrap">>
                                ELSE <<KeyOf[c], "gateway">>

ValidExpiry(c, expiresAt, ttl) ==
  /\ expiresAt > ClientNow(c) - ClockSkew
  /\ expiresAt <= ClientNow(c) + ttl + ClockSkew

NoClient == [step |-> "idle", since |-> 0, challenge |-> 0, expiresAt |-> 0,
             ticket |-> 0, reason |-> "none"]

Go(c, step) == client' = [client EXCEPT ![c].step = step]

Fail(c, reason) ==
  client' = [client EXCEPT ![c].step = "failed", ![c].reason = reason]

ChallengeRequest(c) ==
  [kind |-> "request", client |-> c, op |-> OperationOf[c],
   certificate |-> PresentedCertificate(c), signer |-> SigningKey(c),
   issuedAt |-> ClientNow(c)]

RequestTicket(c) ==
  /\ client[c].step = "idle"
  /\ \/ /\ ValidReceiptKinds(OperationOf[c], KindsOf[c])
        /\ Send(ChallengeRequest(c))
        /\ client' = [client EXCEPT ![c] = [@ EXCEPT !.step = "challenge", !.since = now]]
     \/ /\ ~ ValidReceiptKinds(OperationOf[c], KindsOf[c])
        /\ Fail(c, "invalid")
        /\ UNCHANGED network
  /\ UNCHANGED <<now, challenges, issued, tickets, states, forwarded>>

OwnershipProof(c) ==
  [kind |-> "proof", client |-> c, op |-> OperationOf[c],
   certificate |-> PresentedCertificate(c), signer |-> SigningKey(c),
   callback |-> <<CertificateOf[c], "gateway">>, kinds |-> KindsOf[c],
   challenge |-> client[c].challenge, expiresAt |-> client[c].expiresAt,
   issuedAt |-> ClientNow(c)]

\* The challenge arrived: check its expiry against the local clock, sign it.
SignProof(c) ==
  /\ client[c].step = "prove"
  /\ \/ /\ ValidExpiry(c, client[c].expiresAt, ChallengeTTL)
        /\ Send(OwnershipProof(c))
        /\ Go(c, "proof")
     \/ /\ ~ ValidExpiry(c, client[c].expiresAt, ChallengeTTL)
        /\ Fail(c, "clock")
        /\ UNCHANGED network
  /\ UNCHANGED <<now, challenges, issued, tickets, states, forwarded>>

\* A call that is not answered in time; the request itself may still arrive.
RequestTimeout(c) ==
  /\ client[c].step \in {"challenge", "proof", "begin"}
  /\ Fail(c, "relay_unavailable")
  /\ UNCHANGED <<now, challenges, issued, network, tickets, states, forwarded>>

(* ------------------------------- the relay ------------------------------ *)

\* The key a verified certificate names, and a signature under it.
CertifiedKey(certificate) == certificate

Signed(m) == m.signer = CertifiedKey(m.certificate)

RequestRefusal(m) ==
  IF m.issuedAt > now + ClockSkew THEN "clock"
  ELSE IF m.issuedAt + RequestTTL <= now THEN "clock"
  ELSE IF ~ Signed(m) THEN "signature"
  ELSE "none"

Unexpired(rows) == {r \in rows : r.expiresAt > now}

\* Prune what expired, then replace the row of this certificate and operation.
PutChallenge(g, op, id) ==
  {r \in Unexpired(challenges) : r.certificate # g \/ r.op # op} \cup
    {[certificate |-> g, op |-> op, challenge |-> id,
      expiresAt |-> now + ChallengeTTL]}

Waits(c, step) == client[c].step = step

\* A request for a challenge, and a proof, may be delivered again.
Delivered(m) == \E keep \in BOOLEAN : network' = IF keep THEN network ELSE network \ {m}

Refuse(m, step, reason) ==
  IF Waits(m.client, step) THEN Fail(m.client, reason) ELSE UNCHANGED client

IssueChallenge(m) ==
  /\ m.kind = "request"
  /\ Delivered(m)
  /\ \/ /\ RequestRefusal(m) # "none"
        /\ Refuse(m, "challenge", RequestRefusal(m))
        /\ UNCHANGED <<challenges, issued>>
     \/ /\ RequestRefusal(m) = "none"
        /\ Len(issued) < MaxChallenges
        /\ issued' = Append(issued, <<m.certificate, m.op>>)
        /\ challenges' = PutChallenge(m.certificate, m.op, Len(issued) + 1)
        /\ \/ UNCHANGED client
           \/ /\ Waits(m.client, "challenge")
              /\ client' = [client EXCEPT ![m.client] = [@ EXCEPT
                   !.step = "prove", !.since = now, !.challenge = Len(issued) + 1,
                   !.expiresAt = now + ChallengeTTL]]
  /\ UNCHANGED <<now, tickets, states, forwarded>>

ProofRefusal(m) ==
  IF m.callback # <<m.certificate, "gateway">> THEN "invalid"
  ELSE IF ~ ValidReceiptKinds(m.op, m.kinds) THEN "invalid"
  ELSE IF \/ m.issuedAt > now + ClockSkew
          \/ m.expiresAt <= m.issuedAt
          \/ m.expiresAt - m.issuedAt > ChallengeTTL + ClockSkew
          \/ m.expiresAt <= now THEN "clock"
  ELSE IF ~ Signed(m) THEN "signature"
  ELSE "none"

\* The row the proof names, exactly; deleting it makes the challenge single-use.
ExactRow(m) == [certificate |-> m.certificate, op |-> m.op,
                challenge |-> m.challenge, expiresAt |-> m.expiresAt]

\* Mutant of Consume: the row is checked and kept.
ConsumeNothing(m) == UNCHANGED challenges

Consume(m) == challenges' = challenges \ {ExactRow(m)}

RelayCallbackFor(g, op) ==
  IF op = "install" THEN <<g, "bootstrap">> ELSE <<g, "gateway">>

RelayTicket(m) ==
  [serial |-> Cardinality(tickets) + 1, challenge |-> m.challenge,
   gateway |-> m.certificate, op |-> m.op, kinds |-> m.kinds,
   callback |-> RelayCallbackFor(m.certificate, m.op),
   issuedAt |-> now, expiresAt |-> now + TicketTTL]

IssueTicket(m) ==
  /\ m.kind = "proof"
  /\ Delivered(m)
  /\ \/ /\ ProofRefusal(m) # "none"
        /\ Refuse(m, "proof", ProofRefusal(m))
        /\ UNCHANGED <<challenges, tickets>>
     \/ /\ ProofRefusal(m) = "none"
        /\ ExactRow(m) \notin challenges
        /\ Refuse(m, "proof", "replayed")
        /\ UNCHANGED <<challenges, tickets>>
     \/ /\ ProofRefusal(m) = "none"
        /\ ExactRow(m) \in challenges
        /\ Consume(m)
        /\ tickets' = tickets \cup {RelayTicket(m)}
        /\ \/ UNCHANGED client
           \/ /\ Waits(m.client, "proof")
              /\ client' = [client EXCEPT ![m.client] = [@ EXCEPT
                   !.step = "ticket", !.since = now, !.ticket = RelayTicket(m).serial,
                   !.expiresAt = RelayTicket(m).expiresAt]]
  /\ UNCHANGED <<now, issued, states, forwarded>>

PruneExpired ==
  /\ Unexpired(challenges) # challenges
  /\ challenges' = Unexpired(challenges)
  /\ UNCHANGED <<now, issued, network, client, tickets, states, forwarded>>

\* The client checks the ticket's expiry and posts it with its own state and
\* its own callback.
BeginRelay(c) ==
  /\ client[c].step = "ticket"
  /\ \/ /\ ValidExpiry(c, client[c].expiresAt, TicketTTL)
        /\ Send([kind |-> "start", client |-> c, op |-> OperationOf[c],
                 ticket |-> client[c].ticket, callback |-> OwnCallback(c)])
        /\ Go(c, "begin")
     \/ /\ ~ ValidExpiry(c, client[c].expiresAt, TicketTTL)
        /\ Fail(c, "clock")
        /\ UNCHANGED network
  /\ UNCHANGED <<now, challenges, issued, tickets, states, forwarded>>

TicketRefusal(t, m) ==
  IF t.expiresAt <= now THEN "expired"
  ELSE IF t.op # m.op \/ t.callback # m.callback THEN "operation_mismatch"
  ELSE "none"

\* The sealed state and the authorization it travels with.
FixedRelayAuthorization(t, m) ==
  [client |-> m.client, ticket |-> t.serial, gateway |-> t.gateway, op |-> m.op,
   callback |-> t.callback, scopes |-> ExactOperationScopes(m.op, t.kinds),
   expiresAt |-> now + RelayTTL]

ValidAuthorization(c, a) ==
  a.scopes = ExactOperationScopes(OperationOf[c], KindsOf[c])

Start(m) ==
  /\ m.kind = "start"
  /\ network' = network \ {m}
  /\ \E t \in tickets :
       /\ t.serial = m.ticket
       /\ \/ /\ TicketRefusal(t, m) # "none"
             /\ Refuse(m, "begin", TicketRefusal(t, m))
             /\ UNCHANGED states
          \/ /\ TicketRefusal(t, m) = "none"
             /\ LET a == FixedRelayAuthorization(t, m) IN
                \/ UNCHANGED <<client, states>>
                \/ /\ Waits(m.client, "begin")
                   /\ \/ /\ ValidAuthorization(m.client, a)
                         /\ states' = states \cup {a}
                         /\ Go(m.client, "authorize")
                      \/ /\ ~ ValidAuthorization(m.client, a)
                         /\ Fail(m.client, "relay_rejected")
                         /\ UNCHANGED states
  /\ UNCHANGED <<now, challenges, issued, tickets, forwarded>>

EchoedScopeWithinCeiling(echoed, op) == echoed # {} /\ echoed \subseteq ScopeCeiling(op)

Redirect(a, what, scopes) ==
  {f \in forwarded : f.client # a.client} \cup
    {[what |-> what, to |-> a.callback, client |-> a.client,
      ticket |-> a.ticket, scopes |-> scopes, at |-> now]}

\* The sealed state is the relay's own and has not expired.
OpenState(a) == a \in states /\ now < a.expiresAt

\* The provider returns the browser with a code; a reload sends it again.
RelayCode(a) ==
  /\ OpenState(a)
  /\ EchoedScopeWithinCeiling(a.scopes, a.op)
  /\ forwarded' = Redirect(a, "code", a.scopes)
  /\ UNCHANGED <<now, challenges, issued, network, client, tickets, states>>

\* Every rejection of the provider becomes one fixed error.
RelayError(a) ==
  /\ OpenState(a)
  /\ forwarded' = Redirect(a, "authorization_rejected", {})
  /\ UNCHANGED <<now, challenges, issued, network, client, tickets, states>>

\* The gateway takes the first answer for its own state and closes the attempt.
ReceiveRedirect(c) ==
  /\ client[c].step = "authorize"
  /\ \E f \in forwarded :
       /\ f.client = c
       /\ f.to = OwnCallback(c)
       /\ Go(c, IF f.what = "code" THEN "done" ELSE "failed")
  /\ UNCHANGED <<now, challenges, issued, network, tickets, states, forwarded>>

Tick ==
  /\ now < MaxTime
  /\ now' = now + 1
  /\ UNCHANGED <<challenges, issued, network, client, tickets, states, forwarded>>

Init ==
  /\ now = 0
  /\ challenges = {}
  /\ issued = <<>>
  /\ network = {}
  /\ client = [c \in Clients |-> NoClient]
  /\ tickets = {}
  /\ states = {}
  /\ forwarded = {}

Handle == \E m \in network : IssueChallenge(m) \/ IssueTicket(m) \/ Start(m)
Browser == \E a \in states : RelayCode(a) \/ RelayError(a)
ClientStep(c) ==
  \/ RequestTicket(c)
  \/ SignProof(c)
  \/ BeginRelay(c)
  \/ RequestTimeout(c)
  \/ ReceiveRedirect(c)

Next ==
  \/ \E c \in Clients : ClientStep(c)
  \/ Handle
  \/ Browser
  \/ PruneExpired
  \/ Tick

Spec == Init /\ [][Next]_vars

(* ------------------------------ properties ------------------------------ *)

\* The shape of the state.
TypeOK ==
  /\ now \in 0..MaxTime
  /\ Len(issued) \in 0..MaxChallenges
  /\ challenges \subseteq ChallengeRows /\ \A r \in challenges : r.challenge <= Len(issued)
  /\ tickets \subseteq RelayTickets /\ states \subseteq RelayStates
  /\ client \in [Clients -> ClientRecords]

\* A challenge buys at most one ticket, however often its proof is delivered.
OneTicketPerChallenge ==
  \A t, u \in tickets : t.challenge = u.challenge => t = u

\* A code reaches only the callback of the installation that signed for it:
\* the origin that client is served from, with the operation's own scopes, on
\* the strength of a ticket that its own certificate obtained.
CodesGoHome ==
  \A f \in forwarded :
    /\ f.to = OwnCallback(f.client)
    /\ f.what = "code" =>
         f.scopes = ExactOperationScopes(OperationOf[f.client], KindsOf[f.client])
    /\ \E t \in tickets : /\ t.serial = f.ticket
                          /\ t.gateway = KeyOf[f.client]
                          /\ t.op = OperationOf[f.client]

\* No code is forwarded later than one ticket and one sealed state allow after
\* the challenge was consumed, although neither is ever stored or withdrawn.
ForwardedInTime ==
  \A f \in forwarded : \A t \in tickets :
    t.serial = f.ticket => f.at < t.issuedAt + TicketTTL + RelayTTL

\* Tickets, and rows of the challenge table, come only from the holder of the
\* certified key: a client that merely has the certificate gets nothing.
PossessionNeeded ==
  \A c \in Clients :
    KeyOf[c] # CertificateOf[c] =>
      client[c].step \notin {"prove", "proof", "ticket", "begin", "authorize", "done"}

\* A gateway whose clock is within the tolerated offset is refused for its
\* clock only when the exchange itself lasted nearly a challenge's lifetime.
ClocksAreTolerated ==
  \A c \in Clients :
    /\ client[c].reason = "clock"
    /\ SkewOf[c] \in -ClockSkew..ClockSkew
    => now - client[c].since >= ChallengeTTL - ClockSkew

\* A proof is refused as replayed only if its challenge did buy a ticket or a
\* later challenge of the same certificate and operation took its place.
ReplayHasCause ==
  \A c \in Clients :
    client[c].reason = "replayed" =>
      \/ \E t \in tickets : t.challenge = client[c].challenge
      \/ \E k \in 1..Len(issued) :
           k > client[c].challenge /\ issued[k] = issued[client[c].challenge]

\* The safety of the relay: a challenge buys one ticket, only for the holder of
\* the certified key; a code reaches only the callback of the installation that
\* signed for it, in time; clocks within the tolerance are tolerated, and a
\* proof is called replayed only with a cause.
RelayIsSafe ==
  /\ TypeOK /\ OneTicketPerChallenge /\ CodesGoHome /\ ForwardedInTime /\ PossessionNeeded
  /\ ClocksAreTolerated /\ ReplayHasCause
=============================================================================
