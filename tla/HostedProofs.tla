------------------------------ MODULE HostedProofs ------------------------------
(*******************************************************************************)
(* The hosted installer and its relay: what run hosted checks of CodeRelay and *)
(* of the instances Session, Owner, Grant and Upload of MCHosted, proved for   *)
(* every value of their constants.                                             *)
(*                                                                             *)
(* CodeRelay: a message says what its client was when it sent it, and a client *)
(* sends one message of each kind, so a message is judged by how far its       *)
(* client has come since (Rank).  A row of the challenge table that is gone    *)
(* left for a cause: it bought a ticket, it was replaced or it expired.  A     *)
(* sealed state and a redirect name a ticket by its serial, which no later     *)
(* ticket has.                                                                 *)
(*                                                                             *)
(* Stage1Session: an attempt is of one session and, once it has recorded its   *)
(* provision, does nothing more; a session gives up a provision only when it   *)
(* was handed over or its Worker is gone (Ebbs), and no Worker is given to an  *)
(* attempt that is on record (OwnersMove).  From its exposure until its        *)
(* session owes a cleanup a Worker stands (Standing), and what a cleanup       *)
(* retires does not.                                                           *)
(*                                                                             *)
(* Ownership: a start that is still reading holds the attempt, so nobody       *)
(* certifies another review between the reading and the acceptance; and the    *)
(* version a pass has read stays what it is, so it is the one adopted.         *)
(*                                                                             *)
(* GrantExchange: a token that is still queued was not tried as often as the   *)
(* call may, and one that is not was, and is reported when it lives on.        *)
(*                                                                             *)
(* WorkerUpload: the submissions a call knows of, from its own answers or from *)
(* the failed call before it, come in order and account for all there is of    *)
(* this release; of a kind that was not overtaken there is one copy or one     *)
(* request under way; and a listing read to its end has seen every version.    *)
(*******************************************************************************)
EXTENDS MCHosted, FiniteSetTheorems, TLAPS


Rank(step) ==
  CASE step = "idle"      -> 0
    [] step = "challenge" -> 1
    [] step = "prove"     -> 2
    [] step = "proof"     -> 3
    [] step = "ticket"    -> 4
    [] step = "begin"     -> 5
    [] step = "authorize" -> 6
    [] OTHER              -> 7

Tolerated(c) == SkewOf[c] \in -ClockSkew..ClockSkew

(* What a message says of its client, and since when.                       *)
MessageStands(m) ==
  LET c == m.client IN
  /\ c \in Clients /\ m.op = OperationOf[c]
  /\ m.kind \in {"request", "proof", "start"}
  /\ m.kind \in {"request", "proof"} =>
       /\ m.certificate = CertificateOf[c] /\ m.signer = KeyOf[c]
       /\ m.issuedAt \in Int /\ m.issuedAt <= now + SkewOf[c]
  /\ m.kind = "request" =>
       /\ Rank(client[c].step) >= 1
       /\ client[c].step = "challenge" => m.issuedAt = client[c].since + SkewOf[c]
  /\ m.kind = "proof" =>
       /\ Rank(client[c].step) >= 3
       /\ m.callback = <<CertificateOf[c], "gateway">> /\ m.kinds = KindsOf[c]
       /\ m.challenge \in 1..Len(issued) /\ m.expiresAt \in Nat
       /\ client[c].step = "proof" =>
            /\ m.challenge = client[c].challenge /\ m.expiresAt = client[c].expiresAt
            /\ m.issuedAt >= client[c].since + SkewOf[c]
  /\ m.kind = "start" =>
       Rank(client[c].step) >= 5 /\ m.callback = OwnCallback(c) /\ m.ticket \in Nat

(* The row of a challenge is there, or it left for a cause.                 *)
BoughtOrReplaced(k) ==
  \/ \E t \in tickets : t.challenge = k
  \/ \E j \in 1..Len(issued) : j > k /\ issued[j] = issued[k]
Accounted(r) == r \in challenges \/ r.expiresAt <= now \/ BoughtOrReplaced(r.challenge)
RowOf(c) == [certificate |-> CertificateOf[c], op |-> OperationOf[c],
             challenge |-> client[c].challenge, expiresAt |-> client[c].expiresAt]

(* Where a client stands.                                                   *)
ClientStands(c) ==
  /\ client[c].since <= now
  /\ Rank(client[c].step) \in 2..6 \/ client[c].step = "done" => KeyOf[c] = CertificateOf[c]
  /\ client[c].step \in {"prove", "proof"} =>
       /\ client[c].challenge \in 1..Len(issued)
       /\ issued[client[c].challenge] = <<CertificateOf[c], OperationOf[c]>>
       /\ client[c].expiresAt = client[c].since + ChallengeTTL
       /\ Accounted(RowOf(c))
  /\ client[c].step = "ticket" => client[c].expiresAt = client[c].since + TicketTTL
  /\ client[c].reason # "none" => client[c].step = "failed"
  /\ client[c].reason = "clock" /\ Tolerated(c) => now - client[c].since >= ChallengeTTL - ClockSkew
  /\ client[c].reason = "replayed" =>
       client[c].challenge \in 1..Len(issued) /\ BoughtOrReplaced(client[c].challenge)

RowsStand ==
  /\ issued \in Seq(Gateways \X CustomerOperations)
  /\ \A r \in challenges :
       /\ r.challenge \in 1..Len(issued) /\ issued[r.challenge] = <<r.certificate, r.op>>
       /\ \A t \in tickets : t.challenge # r.challenge
       /\ \A q \in challenges : q.challenge = r.challenge => q = r

TicketsStand ==
  /\ IsFiniteSet(tickets)
  /\ \A t \in tickets :
       /\ t.serial \in 1..Cardinality(tickets) /\ t.challenge \in 1..Len(issued)
       /\ t.expiresAt = t.issuedAt + TicketTTL
       /\ t.callback = RelayCallbackFor(t.gateway, t.op)
       /\ \A u \in tickets : u.serial = t.serial \/ u.challenge = t.challenge => u = t

(* The ticket that a sealed state or a redirect goes back to.               *)
ComesFrom(c, serial) ==
  \E t \in tickets : t.serial = serial /\ t.gateway = KeyOf[c] /\ t.op = OperationOf[c]
InTime(serial, time) ==
  \A t \in tickets : t.serial = serial => time < t.issuedAt + TicketTTL + RelayTTL

StatesStand ==
  \A a \in states :
    /\ a.client \in Clients /\ a.callback = OwnCallback(a.client) /\ a.op = OperationOf[a.client]
    /\ a.scopes = ExactOperationScopes(OperationOf[a.client], KindsOf[a.client])
    /\ ComesFrom(a.client, a.ticket) /\ InTime(a.ticket, a.expiresAt)

ForwardedStand ==
  \A f \in forwarded :
    /\ f.to = OwnCallback(f.client)
    /\ f.what = "code" => f.scopes = ExactOperationScopes(OperationOf[f.client], KindsOf[f.client])
    /\ ComesFrom(f.client, f.ticket) /\ InTime(f.ticket, f.at) /\ f.at \in Int

RelayInv ==
  /\ TypeOK /\ RowsStand /\ TicketsStand /\ StatesStand /\ ForwardedStand
  /\ \A m \in network : MessageStands(m)
  /\ \A c \in Clients : ClientStands(c)

(* ------------------------------ the vocabulary --------------------------- *)

(* What a step leaves of the past: tickets and the record of challenges     *)
(* grow, and a row of the table goes only for a cause.                      *)
Grows ==
  /\ now' \in Int /\ now <= now'
  /\ tickets \subseteq tickets'
  /\ Len(issued) \in Nat /\ Len(issued') \in Nat /\ Len(issued) <= Len(issued')
  /\ \A k \in 1..Len(issued) : issued'[k] = issued[k]
  /\ \A r \in challenges :
       r \in challenges' \/ r.expiresAt <= now' \/ BoughtOrReplaced(r.challenge)'

(* Every client stands where it stood or has come further.                  *)
ClientsAdvance ==
  \A c \in Clients : client'[c] = client[c] \/ Rank(client'[c].step) > Rank(client[c].step)

(* What becomes of one client, field by field; no other client moves.       *)
Becomes(c, step, since, challenge, expiresAt, ticket, reason) ==
  /\ client' \in [Clients -> ClientRecords]
  /\ client'[c].step = step /\ client'[c].since = since
  /\ client'[c].challenge = challenge /\ client'[c].expiresAt = expiresAt
  /\ client'[c].ticket = ticket /\ client'[c].reason = reason
  /\ \A d \in Clients : d # c => client'[d] = client[d]

Steps == {"idle", "challenge", "prove", "proof", "ticket", "begin", "authorize", "done", "failed"}
Reasons == {"none", "invalid", "clock", "signature", "replayed", "expired",
            "operation_mismatch", "relay_unavailable", "relay_rejected"}

LEMMA ScopesAreInstallScopes ==
  ASSUME NEW op \in CustomerOperations, NEW kinds \in SUBSET ReceiptKinds
  PROVE  ExactOperationScopes(op, kinds) \subseteq InstallScopes
<1>1. \A k \in ReceiptKinds : UninstallResourceScopes[k] \subseteq InstallScopes
  BY DEF UninstallResourceScopes, ReceiptKinds, InstallScopes, WorkerReleaseScopes
<1>2. CASE op = "uninstall"
  <2>1. ExactOperationScopes(op, kinds) = UNION {UninstallResourceScopes[k] : k \in kinds}
    BY <1>2 DEF ExactOperationScopes, UninstallScopesForReceipt
  <2> QED BY <2>1, <1>1
<1>3. CASE op # "uninstall"
  <2>1. ExactOperationScopes(op, kinds) = OperationAuthority[op]
    BY <1>3 DEF ExactOperationScopes
  <2>2. op \in CustomerOperations \ {"uninstall"}
    BY <1>3
  <2>3. OperationAuthority[op] \subseteq InstallScopes
    BY <2>2 DEF OperationAuthority, CustomerOperations, InstallScopes, SourceScopes,
      WorkerReleaseScopes
  <2> QED BY <2>1, <2>3
<1> QED BY <1>2, <1>3

LEMMA ClientFields ==
  ASSUME TypeOK, NEW c \in Clients
  PROVE  /\ client[c].step \in Steps /\ client[c].since \in Nat
         /\ client[c].challenge \in 0..MaxChallenges /\ client[c].expiresAt \in Nat
         /\ client[c].ticket \in Nat /\ client[c].reason \in Reasons
BY DEF TypeOK, ClientRecords, Steps, Reasons

LEMMA BoundsAreNat ==
  /\ RequestTTL \in Nat /\ ChallengeTTL \in Nat /\ TicketTTL \in Nat /\ RelayTTL \in Nat
  /\ ClockSkew \in Nat /\ MaxTime \in Nat /\ MaxChallenges \in Nat
  /\ ChallengeTTL <= RequestTTL /\ ChallengeTTL <= TicketTTL + ClockSkew
BY TimesAssumption DEF TimesAssumption

LEMMA GoMoves ==
  ASSUME TypeOK, NEW c \in Clients, NEW s \in Steps, Go(c, s)
  PROVE  Becomes(c, s, client[c].since, client[c].challenge, client[c].expiresAt,
                 client[c].ticket, client[c].reason)
BY DEF TypeOK, ClientRecords, Steps, Go, Becomes

LEMMA FailMoves ==
  ASSUME TypeOK, NEW c \in Clients, NEW reason \in Reasons, Fail(c, reason)
  PROVE  Becomes(c, "failed", client[c].since, client[c].challenge, client[c].expiresAt,
                 client[c].ticket, reason)
BY DEF TypeOK, ClientRecords, Reasons, Fail, Becomes

LEMMA RequestMoves ==
  ASSUME TypeOK, NEW c \in Clients,
         client' = [client EXCEPT ![c] = [@ EXCEPT !.step = "challenge", !.since = now]]
  PROVE  Becomes(c, "challenge", now, client[c].challenge, client[c].expiresAt, client[c].ticket, client[c].reason)
<1> DEFINE r == [client[c] EXCEPT !.step = "challenge", !.since = now]
<1>1. client \in [Clients -> ClientRecords] /\ now \in Nat
  BY BoundsAreNat DEF TypeOK
<1>2. /\ r \in ClientRecords
      /\ r.step = "challenge" /\ r.since = now /\ r.challenge = client[c].challenge
      /\ r.expiresAt = client[c].expiresAt /\ r.ticket = client[c].ticket
      /\ r.reason = client[c].reason
  BY <1>1 DEF ClientRecords
<1>3. client' = [client EXCEPT ![c] = r]
  BY <1>1
<1> HIDE DEF r
<1> QED BY <1>1, <1>2, <1>3 DEF Becomes

LEMMA ChallengeMoves ==
  ASSUME TypeOK, NEW c \in Clients, NEW k \in 0..MaxChallenges, NEW e \in Nat,
         client' = [client EXCEPT ![c] = [@ EXCEPT !.step = "prove", !.since = now, !.challenge = k, !.expiresAt = e]]
  PROVE  Becomes(c, "prove", now, k, e, client[c].ticket, client[c].reason)
<1> DEFINE r == [client[c] EXCEPT !.step = "prove", !.since = now, !.challenge = k, !.expiresAt = e]
<1>1. client \in [Clients -> ClientRecords] /\ now \in Nat
  BY BoundsAreNat DEF TypeOK
<1>2. /\ r \in ClientRecords
      /\ r.step = "prove" /\ r.since = now /\ r.challenge = k
      /\ r.expiresAt = e /\ r.ticket = client[c].ticket /\ r.reason = client[c].reason
  BY <1>1 DEF ClientRecords
<1>3. client' = [client EXCEPT ![c] = r]
  BY <1>1
<1> HIDE DEF r
<1> QED BY <1>1, <1>2, <1>3 DEF Becomes

LEMMA TicketMoves ==
  ASSUME TypeOK, NEW c \in Clients, NEW k \in Nat, NEW e \in Nat,
         client' = [client EXCEPT ![c] = [@ EXCEPT !.step = "ticket", !.since = now, !.ticket = k, !.expiresAt = e]]
  PROVE  Becomes(c, "ticket", now, client[c].challenge, e, k, client[c].reason)
<1> DEFINE r == [client[c] EXCEPT !.step = "ticket", !.since = now, !.ticket = k, !.expiresAt = e]
<1>1. client \in [Clients -> ClientRecords] /\ now \in Nat
  BY BoundsAreNat DEF TypeOK
<1>2. /\ r \in ClientRecords
      /\ r.step = "ticket" /\ r.since = now /\ r.challenge = client[c].challenge
      /\ r.expiresAt = e /\ r.ticket = k /\ r.reason = client[c].reason
  BY <1>1 DEF ClientRecords
<1>3. client' = [client EXCEPT ![c] = r]
  BY <1>1
<1> HIDE DEF r
<1> QED BY <1>1, <1>2, <1>3 DEF Becomes

LEMMA RankIsInt == \A s : Rank(s) \in 0..7
BY DEF Rank

(* ------------------------- what a step leaves alone ---------------------- *)

LEMMA CausesStay ==
  ASSUME Grows, NEW k \in 1..Len(issued), BoughtOrReplaced(k)
  PROVE  BoughtOrReplaced(k)'
BY DEF Grows, BoughtOrReplaced

LEMMA MessagesStay ==
  ASSUME TypeOK, Grows, ClientsAdvance, NEW m, MessageStands(m)
  PROVE  MessageStands(m)'
<1> DEFINE c == m.client
<1>1. /\ c \in Clients /\ m.op = OperationOf[c] /\ m.kind \in {"request", "proof", "start"}
      /\ SkewOf[c] \in Int
  BY ClientsAssumption DEF MessageStands, ClientsAssumption
<1>2. /\ now \in Int /\ now' \in Int /\ now <= now'
      /\ Rank(client[c].step) \in 0..7 /\ Rank(client'[c].step) \in 0..7
      /\ client'[c] = client[c] \/ Rank(client'[c].step) > Rank(client[c].step)
  BY <1>1, RankIsInt DEF TypeOK, Grows, ClientsAdvance
<1>3. ASSUME m.kind \in {"request", "proof"}
      PROVE  /\ m.certificate = CertificateOf[c] /\ m.signer = KeyOf[c]
             /\ m.issuedAt \in Int /\ m.issuedAt <= now' + SkewOf[c]
  <2>1. /\ m.certificate = CertificateOf[c] /\ m.signer = KeyOf[c]
        /\ m.issuedAt \in Int /\ m.issuedAt <= now + SkewOf[c]
    BY <1>3 DEF MessageStands
  <2> QED BY <2>1, <1>1, <1>2
<1>4. ASSUME m.kind = "request"
      PROVE  /\ Rank(client'[c].step) >= 1
             /\ client'[c].step = "challenge" => m.issuedAt = client'[c].since + SkewOf[c]
  <2>1. /\ Rank(client[c].step) >= 1
        /\ client[c].step = "challenge" => m.issuedAt = client[c].since + SkewOf[c]
    BY <1>4 DEF MessageStands
  <2>2. client'[c].step = "challenge" => Rank(client'[c].step) = 1
    BY DEF Rank
  <2> QED BY <2>1, <2>2, <1>2
<1>5. ASSUME m.kind = "proof"
      PROVE  /\ Rank(client'[c].step) >= 3
             /\ m.callback = <<CertificateOf[c], "gateway">> /\ m.kinds = KindsOf[c]
             /\ m.challenge \in 1..Len(issued') /\ m.expiresAt \in Nat
             /\ client'[c].step = "proof" =>
                  /\ m.challenge = client'[c].challenge /\ m.expiresAt = client'[c].expiresAt
                  /\ m.issuedAt >= client'[c].since + SkewOf[c]
  <2>1. /\ Rank(client[c].step) >= 3
        /\ m.callback = <<CertificateOf[c], "gateway">> /\ m.kinds = KindsOf[c]
        /\ m.challenge \in 1..Len(issued) /\ m.expiresAt \in Nat
        /\ client[c].step = "proof" =>
             /\ m.challenge = client[c].challenge /\ m.expiresAt = client[c].expiresAt
             /\ m.issuedAt >= client[c].since + SkewOf[c]
    BY <1>5 DEF MessageStands
  <2>2. client'[c].step = "proof" => Rank(client'[c].step) = 3
    BY DEF Rank
  <2>3. m.challenge \in 1..Len(issued')
    BY <2>1 DEF Grows
  <2> QED BY <2>1, <2>2, <2>3, <1>2
<1>6. ASSUME m.kind = "start"
      PROVE  Rank(client'[c].step) >= 5 /\ m.callback = OwnCallback(c) /\ m.ticket \in Nat
  <2>1. Rank(client[c].step) >= 5 /\ m.callback = OwnCallback(c) /\ m.ticket \in Nat
    BY <1>6 DEF MessageStands
  <2> QED BY <2>1, <1>2
<1> QED BY <1>1, <1>3, <1>4, <1>5, <1>6 DEF MessageStands

LEMMA ClientKeeps ==
  ASSUME TypeOK, Grows, NEW c \in Clients, client'[c] = client[c], ClientStands(c)
  PROVE  ClientStands(c)'
<1>1. now \in Int /\ now' \in Int /\ now <= now' /\ client[c].since \in Nat
  BY ClientFields DEF TypeOK, Grows
<1>2. client'[c].since <= now'
  BY <1>1 DEF ClientStands
<1>3. ASSUME client[c].step \in {"prove", "proof"}
      PROVE  /\ client[c].challenge \in 1..Len(issued')
             /\ issued'[client[c].challenge] = <<CertificateOf[c], OperationOf[c]>>
             /\ Accounted(RowOf(c))'
  <2>1. /\ client[c].challenge \in 1..Len(issued)
        /\ issued[client[c].challenge] = <<CertificateOf[c], OperationOf[c]>>
        /\ Accounted(RowOf(c))
    BY <1>3 DEF ClientStands
  <2>2. RowOf(c)' = RowOf(c)
    BY DEF RowOf
  <2>3. RowOf(c).challenge = client[c].challenge /\ RowOf(c).expiresAt \in Nat
    BY ClientFields DEF RowOf
  <2>4. \/ RowOf(c) \in challenges' \/ RowOf(c).expiresAt <= now'
        \/ BoughtOrReplaced(client[c].challenge)'
    <3>1. CASE RowOf(c) \in challenges
      BY <3>1, <2>3 DEF Grows
    <3>2. CASE RowOf(c).expiresAt <= now
      BY <3>2, <2>3, <1>1
    <3>3. CASE BoughtOrReplaced(client[c].challenge)
      BY <3>3, <2>1, CausesStay
    <3> QED BY <3>1, <3>2, <3>3, <2>1, <2>3 DEF Accounted
  <2>5. Accounted(RowOf(c))'
    BY <2>2, <2>3, <2>4 DEF Accounted
  <2> QED BY <2>1, <2>5 DEF Grows
<1>4. ASSUME client[c].reason = "clock", Tolerated(c)
      PROVE  now' - client[c].since >= ChallengeTTL - ClockSkew
  BY <1>1, <1>4, BoundsAreNat DEF ClientStands
<1>5. ASSUME client[c].reason = "replayed"
      PROVE  client[c].challenge \in 1..Len(issued') /\ BoughtOrReplaced(client[c].challenge)'
  <2>1. client[c].challenge \in 1..Len(issued) /\ BoughtOrReplaced(client[c].challenge)
    BY <1>5 DEF ClientStands
  <2> QED BY <2>1, CausesStay DEF Grows
<1> QED BY <1>2, <1>3, <1>4, <1>5 DEF ClientStands, Tolerated

(* A step keeps the invariant if it keeps the tables and if the clients and *)
(* messages that it does touch stand.                                       *)
LEMMA Assembled ==
  ASSUME RelayInv, Grows, ClientsAdvance,
         TypeOK', RowsStand', TicketsStand', StatesStand', ForwardedStand',
         \A m \in network' : m \in network \/ MessageStands(m)',
         \A c \in Clients : client'[c] = client[c] \/ ClientStands(c)'
  PROVE  RelayInv'
<1>1. \A m \in network' : MessageStands(m)'
  BY MessagesStay DEF RelayInv
<1>2. \A c \in Clients : ClientStands(c)'
  BY ClientKeeps DEF RelayInv
<1> QED BY <1>1, <1>2 DEF RelayInv

LEMMA NothingLost ==
  ASSUME RelayInv, UNCHANGED <<now, challenges, issued, tickets>>
  PROVE  Grows
BY BoundsAreNat DEF RelayInv, TypeOK, Grows

LEMMA TablesKept ==
  ASSUME RelayInv, UNCHANGED <<challenges, issued, tickets, states, forwarded>>
  PROVE  RowsStand' /\ TicketsStand' /\ StatesStand' /\ ForwardedStand'
BY DEF RelayInv, RowsStand, TicketsStand, StatesStand, ForwardedStand, ComesFrom, InTime

(* A step that touches clients and messages only.                           *)
LEMMA QuietStands ==
  ASSUME RelayInv, UNCHANGED <<now, challenges, issued, tickets, states, forwarded>>,
         client' \in [Clients -> ClientRecords], ClientsAdvance,
         \A m \in network' : m \in network \/ MessageStands(m)',
         \A c \in Clients : client'[c] = client[c] \/ ClientStands(c)'
  PROVE  RelayInv'
<1>1. TypeOK'
  BY DEF RelayInv, TypeOK
<1> QED BY <1>1, Assembled, NothingLost, TablesKept

LEMMA OneAdvances ==
  ASSUME NEW c \in Clients, NEW s, NEW since, NEW k, NEW e, NEW ticket, NEW reason,
         Becomes(c, s, since, k, e, ticket, reason), Rank(s) > Rank(client[c].step)
  PROVE  ClientsAdvance
BY DEF Becomes, ClientsAdvance

(* A client that gives up, for a reason it can account for.                 *)
LEMMA FailStands ==
  ASSUME RelayInv, NEW c \in Clients, NEW reason \in Reasons, Fail(c, reason), now' = now, Grows,
         client[c].step \notin {"done", "failed"},
         reason = "clock" /\ Tolerated(c) => now - client[c].since >= ChallengeTTL - ClockSkew,
         reason = "replayed" =>
           client[c].challenge \in 1..Len(issued) /\ BoughtOrReplaced(client[c].challenge)
  PROVE  /\ client' \in [Clients -> ClientRecords] /\ ClientsAdvance
         /\ \A d \in Clients : client'[d] = client[d] \/ ClientStands(d)'
<1>1. Becomes(c, "failed", client[c].since, client[c].challenge, client[c].expiresAt,
              client[c].ticket, reason)
  BY FailMoves DEF RelayInv
<1>2. client[c].step \in Steps /\ client[c].since <= now
  BY ClientFields DEF RelayInv, ClientStands
<1>3. Rank("failed") > Rank(client[c].step)
  BY <1>2 DEF Rank, Steps
<1>4. ClientsAdvance
  BY <1>1, <1>3, OneAdvances
<1>5. ASSUME reason = "replayed"
      PROVE  client[c].challenge \in 1..Len(issued') /\ BoughtOrReplaced(client[c].challenge)'
  <2>1. client[c].challenge \in 1..Len(issued) /\ BoughtOrReplaced(client[c].challenge)
    BY <1>5
  <2>2. client'[c].challenge = client[c].challenge
    BY <1>1 DEF Becomes
  <2> QED BY <2>1, <2>2, CausesStay DEF Grows
<1>6. ClientStands(c)'
  <2>1. \A s : s = "failed" => Rank(s) = 7
    BY DEF Rank
  <2>2. client'[c].step = "failed" /\ client'[c].since = client[c].since
        /\ client'[c].challenge = client[c].challenge /\ client'[c].reason = reason
    BY <1>1 DEF Becomes
  <2> QED BY <1>2, <1>5, <2>1, <2>2 DEF ClientStands, Tolerated
<1> QED BY <1>1, <1>4, <1>6 DEF Becomes

(* A client that goes on to a step where nothing is said of its expiry.     *)
LEMMA GoStands ==
  ASSUME RelayInv, NEW c \in Clients, NEW s \in {"proof", "begin", "authorize", "done", "failed"},
         Go(c, s), UNCHANGED <<now, challenges, issued, tickets>>,
         \/ client[c].step = "prove" /\ s = "proof"
         \/ client[c].step = "ticket" /\ s = "begin"
         \/ client[c].step = "begin" /\ s = "authorize"
         \/ client[c].step = "authorize" /\ s \in {"done", "failed"}
  PROVE  /\ client' \in [Clients -> ClientRecords] /\ ClientsAdvance
         /\ \A d \in Clients : client'[d] = client[d] \/ ClientStands(d)'
<1>1. Becomes(c, s, client[c].since, client[c].challenge, client[c].expiresAt,
              client[c].ticket, client[c].reason)
  BY GoMoves DEF RelayInv, Steps
<1>2. ClientStands(c) /\ client[c].reason = "none"
  BY DEF RelayInv, ClientStands
<1>3. Rank(s) > Rank(client[c].step) /\ KeyOf[c] = CertificateOf[c]
  BY <1>2 DEF Rank, ClientStands
<1>4. ClientsAdvance
  BY <1>1, <1>3, OneAdvances
<1>5. s = "proof" => client[c].step = "prove"
  OBVIOUS
<1>6. ASSUME s = "proof"
      PROVE  /\ client[c].challenge \in 1..Len(issued)
             /\ issued[client[c].challenge] = <<CertificateOf[c], OperationOf[c]>>
             /\ client[c].expiresAt = client[c].since + ChallengeTTL
             /\ Accounted(RowOf(c))'
  <2>1. RowOf(c)' = RowOf(c)
    BY <1>1 DEF RowOf, Becomes
  <2> QED BY <1>2, <1>5, <1>6, <2>1 DEF ClientStands, Accounted, BoughtOrReplaced
<1>7. client[c].since <= now
  BY <1>2 DEF ClientStands
<1>8. ClientStands(c)'
  BY <1>1, <1>2, <1>3, <1>6, <1>7 DEF Becomes, ClientStands
<1> QED BY <1>1, <1>4, <1>8 DEF Becomes

(* -------------------------- the client's actions ------------------------- *)

(* The invariant's parts about one client and its message.                  *)
LEMMA ClientFacts ==
  ASSUME RelayInv, NEW c \in Clients
  PROVE  /\ now \in Int /\ client[c].since \in Nat /\ client[c].since <= now
         /\ SkewOf[c] \in Int /\ ClientNow(c) = now + SkewOf[c]
         /\ client[c].step \in Steps
         /\ client[c].step # "failed" => client[c].reason = "none"
BY ClientFields, ClientsAssumption DEF RelayInv, ClientStands, ClientsAssumption, ClientNow, TypeOK

LEMMA RequestTicketStands ==
  ASSUME RelayInv, NEW c \in Clients, RequestTicket(c)
  PROVE  RelayInv'
<1>1. /\ client[c].step = "idle" /\ client[c].reason = "none"
      /\ UNCHANGED <<now, challenges, issued, tickets, states, forwarded>>
  BY ClientFacts DEF RequestTicket
<1>2. Grows
  BY <1>1, NothingLost
<1>3. CASE /\ Send(ChallengeRequest(c))
           /\ client' = [client EXCEPT ![c] = [@ EXCEPT !.step = "challenge", !.since = now]]
  <2>1. Becomes(c, "challenge", now, client[c].challenge, client[c].expiresAt,
                client[c].ticket, client[c].reason)
    BY <1>3, RequestMoves DEF RelayInv
  <2>2. \A s : (s = "challenge" => Rank(s) = 1) /\ (s = "idle" => Rank(s) = 0)
    BY DEF Rank
  <2>3. ClientsAdvance
    BY <1>1, <2>1, <2>2, OneAdvances
  <2>4. ClientStands(c)'
    BY <1>1, <2>1, <2>2, ClientFacts DEF Becomes, ClientStands
  <2> DEFINE m == ChallengeRequest(c)
  <2>5. /\ m.kind = "request" /\ m.client = c /\ m.op = OperationOf[c]
        /\ m.certificate = CertificateOf[c] /\ m.signer = KeyOf[c]
        /\ m.issuedAt = now + SkewOf[c] /\ m.issuedAt \in Int
    BY ClientFacts DEF ChallengeRequest, PresentedCertificate, SigningKey
  <2>6. \A x : x = m => MessageStands(x)'
    <3> HIDE DEF m
    <3> QED BY <1>1, <2>1, <2>2, <2>5, ClientFacts DEF Becomes, MessageStands
  <2>7. \A x \in network' : x \in network \/ MessageStands(x)'
    BY <1>3, <2>6 DEF Send
  <2> QED BY <1>1, <2>1, <2>3, <2>4, <2>7, QuietStands DEF Becomes
<1>4. CASE Fail(c, "invalid") /\ UNCHANGED network
  BY <1>1, <1>2, <1>4, FailStands, QuietStands DEF Reasons
<1> QED BY <1>3, <1>4 DEF RequestTicket

LEMMA SignProofStands ==
  ASSUME RelayInv, NEW c \in Clients, SignProof(c)
  PROVE  RelayInv'
<1>1. /\ client[c].step = "prove" /\ client[c].reason = "none"
      /\ UNCHANGED <<now, challenges, issued, tickets, states, forwarded>>
  BY ClientFacts DEF SignProof
<1>2. client[c].challenge \in 1..Len(issued) /\ client[c].expiresAt \in Nat
  BY <1>1, ClientFields DEF RelayInv, ClientStands
<1>3. client[c].expiresAt = client[c].since + ChallengeTTL
  BY <1>1 DEF RelayInv, ClientStands
<1>4. CASE Send(OwnershipProof(c)) /\ Go(c, "proof")
  <2>1. Becomes(c, "proof", client[c].since, client[c].challenge, client[c].expiresAt,
                client[c].ticket, client[c].reason)
    BY <1>4, GoMoves DEF RelayInv, Steps
  <2>2. \A s : s = "proof" => Rank(s) = 3
    BY DEF Rank
  <2>3. /\ client' \in [Clients -> ClientRecords] /\ ClientsAdvance
        /\ \A d \in Clients : client'[d] = client[d] \/ ClientStands(d)'
    BY <1>1, <1>4, GoStands
  <2> DEFINE m == OwnershipProof(c)
  <2>4. /\ m.kind = "proof" /\ m.client = c /\ m.op = OperationOf[c]
        /\ m.certificate = CertificateOf[c] /\ m.signer = KeyOf[c] /\ m.kinds = KindsOf[c]
        /\ m.callback = <<CertificateOf[c], "gateway">> /\ m.challenge = client[c].challenge
        /\ m.expiresAt = client[c].expiresAt /\ m.issuedAt = now + SkewOf[c]
    BY ClientFacts DEF OwnershipProof, PresentedCertificate, SigningKey
  <2>5. \A x : x = m => MessageStands(x)'
    <3> HIDE DEF m
    <3>1. m.issuedAt \in Int /\ m.issuedAt <= now' + SkewOf[c]
          /\ m.issuedAt >= client[c].since + SkewOf[c]
      BY <1>1, <2>4, ClientFacts
    <3> QED BY <1>1, <1>2, <2>1, <2>2, <2>4, <3>1 DEF Becomes, MessageStands
  <2>6. \A x \in network' : x \in network \/ MessageStands(x)'
    BY <1>4, <2>5 DEF Send
  <2> QED BY <1>1, <2>3, <2>6, QuietStands
<1>5. CASE /\ ~ ValidExpiry(c, client[c].expiresAt, ChallengeTTL) /\ Fail(c, "clock")
           /\ UNCHANGED network
  <2>1. ASSUME Tolerated(c) PROVE now - client[c].since >= ChallengeTTL - ClockSkew
    <3>1. /\ SkewOf[c] \in Int /\ -ClockSkew <= SkewOf[c] /\ SkewOf[c] <= ClockSkew
      BY <2>1, ClientFacts, BoundsAreNat DEF Tolerated
    <3>2. \/ client[c].expiresAt <= now + SkewOf[c] - ClockSkew
          \/ client[c].expiresAt > now + SkewOf[c] + ChallengeTTL + ClockSkew
      BY <1>3, <1>5, <3>1, ClientFacts, BoundsAreNat DEF ValidExpiry
    <3> QED BY <1>3, <3>1, <3>2, ClientFacts, BoundsAreNat
  <2>2. Grows
    BY <1>1, NothingLost
  <2> QED BY <1>1, <1>5, <2>1, <2>2, FailStands, QuietStands DEF Reasons
<1> QED BY <1>4, <1>5 DEF SignProof

LEMMA RequestTimeoutStands ==
  ASSUME RelayInv, NEW c \in Clients, RequestTimeout(c)
  PROVE  RelayInv'
BY NothingLost, FailStands, QuietStands DEF RequestTimeout, Reasons

LEMMA BeginRelayStands ==
  ASSUME RelayInv, NEW c \in Clients, BeginRelay(c)
  PROVE  RelayInv'
<1>1. /\ client[c].step = "ticket" /\ client[c].reason = "none"
      /\ UNCHANGED <<now, challenges, issued, tickets, states, forwarded>>
  BY ClientFacts DEF BeginRelay
<1>2. /\ client[c].expiresAt = client[c].since + TicketTTL /\ client[c].expiresAt \in Nat
      /\ client[c].ticket \in Nat
  BY <1>1, ClientFields DEF RelayInv, ClientStands
<1> DEFINE m == [kind |-> "start", client |-> c, op |-> OperationOf[c],
                 ticket |-> client[c].ticket, callback |-> OwnCallback(c)]
<1>3. CASE Send(m) /\ Go(c, "begin")
  <2>1. /\ client' \in [Clients -> ClientRecords] /\ ClientsAdvance
        /\ \A d \in Clients : client'[d] = client[d] \/ ClientStands(d)'
    BY <1>1, <1>3, GoStands
  <2>2. client'[c].step = "begin"
    BY <1>3, GoMoves DEF RelayInv, Steps, Becomes
  <2>3. \A s : s = "begin" => Rank(s) = 5
    BY DEF Rank
  <2>4. m.kind = "start" /\ m.client = c /\ m.op = OperationOf[c] /\ m.ticket \in Nat
        /\ m.callback = OwnCallback(c)
    BY <1>2
  <2> HIDE DEF m
  <2>5. \A x : x = m => MessageStands(x)'
    BY <2>2, <2>3, <2>4 DEF MessageStands
  <2>6. \A x \in network' : x \in network \/ MessageStands(x)'
    BY <1>3, <2>5 DEF Send
  <2> QED BY <1>1, <2>1, <2>6, QuietStands
<1>4. CASE ~ ValidExpiry(c, client[c].expiresAt, TicketTTL) /\ Fail(c, "clock") /\ UNCHANGED network
  <2>1. ASSUME Tolerated(c) PROVE now - client[c].since >= ChallengeTTL - ClockSkew
    <3>1. /\ SkewOf[c] \in Int /\ -ClockSkew <= SkewOf[c] /\ SkewOf[c] <= ClockSkew
      BY <2>1, ClientFacts, BoundsAreNat DEF Tolerated
    <3>2. \/ client[c].expiresAt <= now + SkewOf[c] - ClockSkew
          \/ client[c].expiresAt > now + SkewOf[c] + TicketTTL + ClockSkew
      BY <1>2, <1>4, <3>1, ClientFacts, BoundsAreNat DEF ValidExpiry
    <3> QED BY <1>2, <3>1, <3>2, ClientFacts, BoundsAreNat
  <2>2. Grows
    BY <1>1, NothingLost
  <2> QED BY <1>1, <1>4, <2>1, <2>2, FailStands, QuietStands DEF Reasons
<1> QED BY <1>3, <1>4 DEF BeginRelay

LEMMA ReceiveRedirectStands ==
  ASSUME RelayInv, NEW c \in Clients, ReceiveRedirect(c)
  PROVE  RelayInv'
<1>1. PICK f \in forwarded : Go(c, IF f.what = "code" THEN "done" ELSE "failed")
  BY DEF ReceiveRedirect
<1>2. Go(c, "done") \/ Go(c, "failed")
  BY <1>1
<1>3. /\ client' \in [Clients -> ClientRecords] /\ ClientsAdvance
      /\ \A d \in Clients : client'[d] = client[d] \/ ClientStands(d)'
  BY <1>2, GoStands DEF ReceiveRedirect
<1> QED BY <1>3, QuietStands DEF ReceiveRedirect

(* -------------------------- the relay's actions -------------------------- *)

LEMMA RefuseStands ==
  ASSUME RelayInv, NEW m \in network, NEW step \in {"challenge", "proof", "begin"},
         NEW reason \in Reasons, Refuse(m, step, reason), network' \subseteq network,
         UNCHANGED <<now, challenges, issued, tickets, states, forwarded>>,
         Waits(m.client, step) /\ reason = "clock" /\ Tolerated(m.client) =>
           now - client[m.client].since >= ChallengeTTL - ClockSkew,
         Waits(m.client, step) /\ reason = "replayed" =>
           /\ client[m.client].challenge \in 1..Len(issued)
           /\ BoughtOrReplaced(client[m.client].challenge)
  PROVE  RelayInv'
<1> DEFINE c == m.client
<1>1. c \in Clients
  BY DEF RelayInv, MessageStands
<1>2. CASE client[c].step = step
  <2>1. Fail(c, reason)
    BY <1>2 DEF Refuse, Waits
  <2>2. Grows
    BY NothingLost
  <2>3. /\ client[c].step \notin {"done", "failed"}
        /\ reason = "clock" /\ Tolerated(c) => now - client[c].since >= ChallengeTTL - ClockSkew
        /\ reason = "replayed" =>
             client[c].challenge \in 1..Len(issued) /\ BoughtOrReplaced(client[c].challenge)
    BY <1>2 DEF Waits
  <2> HIDE DEF c
  <2> QED BY <1>1, <2>1, <2>2, <2>3, FailStands, QuietStands
<1>3. CASE client[c].step # step
  <2>1. UNCHANGED client
    BY <1>3 DEF Refuse, Waits
  <2>2. client' \in [Clients -> ClientRecords] /\ ClientsAdvance
    BY <2>1 DEF RelayInv, TypeOK, ClientsAdvance
  <2> QED BY <2>1, <2>2, QuietStands
<1> QED BY <1>2, <1>3

(* The facts about a message that may still arrive.                         *)
LEMMA RequestFacts ==
  ASSUME RelayInv, NEW m \in network, m.kind = "request"
  PROVE  /\ m.client \in Clients /\ m.op = OperationOf[m.client]
         /\ m.certificate = CertificateOf[m.client] /\ m.signer = KeyOf[m.client]
         /\ m.issuedAt \in Int
         /\ client[m.client].step = "challenge" =>
              m.issuedAt = client[m.client].since + SkewOf[m.client]
BY DEF RelayInv, MessageStands

LEMMA ProofFacts ==
  ASSUME RelayInv, NEW m \in network, m.kind = "proof"
  PROVE  /\ m.client \in Clients /\ m.op = OperationOf[m.client]
         /\ m.certificate = CertificateOf[m.client] /\ m.signer = KeyOf[m.client]
         /\ m.issuedAt \in Int /\ m.issuedAt <= now + SkewOf[m.client]
         /\ m.kinds = KindsOf[m.client] /\ m.challenge \in 1..Len(issued) /\ m.expiresAt \in Nat
         /\ client[m.client].step = "proof" =>
              /\ m.challenge = client[m.client].challenge
              /\ m.expiresAt = client[m.client].expiresAt
              /\ m.issuedAt >= client[m.client].since + SkewOf[m.client]
BY DEF RelayInv, MessageStands

LEMMA PutChallengeGrows ==
  ASSUME RelayInv, NEW g \in Gateways, NEW op \in CustomerOperations,
         Len(issued) < MaxChallenges, issued' = Append(issued, <<g, op>>),
         challenges' = PutChallenge(g, op, Len(issued) + 1), UNCHANGED <<now, tickets>>
  PROVE  /\ Grows /\ RowsStand'
         /\ Len(issued') = Len(issued) + 1 /\ issued'[Len(issued) + 1] = <<g, op>>
         /\ [certificate |-> g, op |-> op, challenge |-> Len(issued) + 1,
             expiresAt |-> now + ChallengeTTL] \in challenges'
         /\ challenges' \subseteq ChallengeRows
         /\ \A r \in challenges' : r.challenge <= Len(issued')
<1> DEFINE row == [certificate |-> g, op |-> op, challenge |-> Len(issued) + 1,
                   expiresAt |-> now + ChallengeTTL]
<1>1. /\ issued \in Seq(Gateways \X CustomerOperations) /\ Len(issued) \in Nat
      /\ now \in Nat /\ challenges \subseteq ChallengeRows
  BY BoundsAreNat DEF RelayInv, RowsStand, TypeOK
<1>2. /\ Len(issued') = Len(issued) + 1 /\ issued'[Len(issued) + 1] = <<g, op>>
      /\ \A k \in 1..Len(issued) : issued'[k] = issued[k]
      /\ issued' \in Seq(Gateways \X CustomerOperations)
  BY <1>1
<1>3. /\ row \in ChallengeRows /\ row.challenge = Len(issued) + 1
      /\ row.certificate = g /\ row.op = op
  BY <1>1, BoundsAreNat DEF ChallengeRows
<1>4. challenges' = {r \in challenges : r.expiresAt > now /\ (r.certificate # g \/ r.op # op)}
                      \cup {row}
  BY DEF PutChallenge, Unexpired
<1> HIDE DEF row
<1>5. \A r \in challenges : r.challenge \in 1..Len(issued) /\ issued[r.challenge] = <<r.certificate, r.op>>
  BY DEF RelayInv, RowsStand
<1>6. \A r \in challenges : r \in challenges' \/ r.expiresAt <= now' \/ BoughtOrReplaced(r.challenge)'
  <2> SUFFICES ASSUME NEW r \in challenges, r \notin challenges', ~ (r.expiresAt <= now')
               PROVE  BoughtOrReplaced(r.challenge)'
    OBVIOUS
  <2>1. r.certificate = g /\ r.op = op
    BY <1>1, <1>4 DEF ChallengeRows
  <2>2. Len(issued) + 1 \in 1..Len(issued') /\ Len(issued) + 1 > r.challenge
    BY <1>1, <1>2, <1>5
  <2>3. issued'[Len(issued) + 1] = issued'[r.challenge]
    BY <1>2, <1>5, <2>1
  <2> QED BY <2>2, <2>3 DEF BoughtOrReplaced
<1>7. Grows
  BY <1>1, <1>2, <1>6 DEF Grows
<1>8. \A t \in tickets : t.challenge \in 1..Len(issued)
  BY DEF RelayInv, TicketsStand
<1>9. RowsStand'
  <2>1. ASSUME NEW r \in challenges'
        PROVE  /\ r.challenge \in 1..Len(issued') /\ issued'[r.challenge] = <<r.certificate, r.op>>
               /\ \A t \in tickets : t.challenge # r.challenge
    BY <1>1, <1>2, <1>3, <1>4, <1>5, <1>8 DEF RelayInv, RowsStand
  <2>2. ASSUME NEW r \in challenges', NEW q \in challenges', q.challenge = r.challenge
        PROVE  q = r
    BY <1>1, <1>3, <1>4, <1>5, <2>2 DEF RelayInv, RowsStand
  <2> QED BY <1>2, <2>1, <2>2 DEF RowsStand
<1>10. challenges' \subseteq ChallengeRows /\ \A r \in challenges' : r.challenge <= Len(issued')
  BY <1>1, <1>2, <1>3, <1>4, <1>9 DEF RowsStand
<1> QED BY <1>2, <1>4, <1>7, <1>9, <1>10 DEF row

LEMMA IssueChallengeStands ==
  ASSUME RelayInv, NEW m \in network, IssueChallenge(m)
  PROVE  RelayInv'
<1> DEFINE c == m.client
<1>1. /\ m.kind = "request" /\ network' \subseteq network
      /\ UNCHANGED <<now, tickets, states, forwarded>>
  BY DEF IssueChallenge, Delivered
<1>2. /\ c \in Clients /\ m.op = OperationOf[c] /\ m.certificate = CertificateOf[c]
      /\ m.signer = KeyOf[c] /\ m.issuedAt \in Int
      /\ client[c].step = "challenge" => m.issuedAt = client[c].since + SkewOf[c]
  BY <1>1, RequestFacts
<1>3. CASE /\ RequestRefusal(m) # "none" /\ Refuse(m, "challenge", RequestRefusal(m))
           /\ UNCHANGED <<challenges, issued>>
  <2>1. RequestRefusal(m) \in {"clock", "signature"}
    BY <1>3 DEF RequestRefusal
  <2>2. ASSUME Waits(c, "challenge"), RequestRefusal(m) = "clock", Tolerated(c)
        PROVE  now - client[c].since >= ChallengeTTL - ClockSkew
    <3>1. /\ SkewOf[c] \in Int /\ -ClockSkew <= SkewOf[c] /\ SkewOf[c] <= ClockSkew
          /\ now \in Int /\ client[c].since \in Nat /\ client[c].since <= now
      BY <1>2, <2>2, ClientFacts, BoundsAreNat DEF Tolerated
    <3>2. m.issuedAt = client[c].since + SkewOf[c]
      BY <1>2, <2>2 DEF Waits
    <3>3. m.issuedAt > now + ClockSkew \/ m.issuedAt + RequestTTL <= now
      BY <2>2 DEF RequestRefusal
    <3> QED BY <3>1, <3>2, <3>3, BoundsAreNat
  <2> QED BY <1>1, <1>3, <2>1, <2>2, RefuseStands DEF Reasons
<1>4. CASE /\ RequestRefusal(m) = "none" /\ Len(issued) < MaxChallenges
           /\ issued' = Append(issued, <<m.certificate, m.op>>)
           /\ challenges' = PutChallenge(m.certificate, m.op, Len(issued) + 1)
  <2>1. /\ m.certificate \in Gateways /\ m.op \in CustomerOperations
        /\ KeyOf[c] = CertificateOf[c]
    <3>1. m.certificate \in Gateways /\ m.op \in CustomerOperations
      BY <1>2, ClientsAssumption DEF ClientsAssumption
    <3>2. Signed(m)
      BY <1>4 DEF RequestRefusal
    <3> QED BY <1>2, <3>1, <3>2 DEF Signed, CertifiedKey
  <2>2. /\ Grows /\ RowsStand'
        /\ Len(issued') = Len(issued) + 1 /\ issued'[Len(issued) + 1] = <<m.certificate, m.op>>
        /\ [certificate |-> m.certificate, op |-> m.op, challenge |-> Len(issued) + 1,
            expiresAt |-> now + ChallengeTTL] \in challenges'
        /\ challenges' \subseteq ChallengeRows /\ \A r \in challenges' : r.challenge <= Len(issued')
    BY <1>1, <1>4, <2>1, PutChallengeGrows
  <2>3. now \in 0..MaxTime /\ now \in Nat /\ Len(issued) \in Nat /\ Len(issued) < MaxChallenges
    BY <1>4, BoundsAreNat DEF RelayInv, TypeOK
  <2>4. TicketsStand'
    BY <1>1, <2>2, <2>3 DEF RelayInv, TicketsStand
  <2>5. StatesStand' /\ ForwardedStand'
    BY <1>1 DEF RelayInv, StatesStand, ForwardedStand, ComesFrom, InTime
  <2>6. /\ client' \in [Clients -> ClientRecords] /\ ClientsAdvance
        /\ \A d \in Clients : client'[d] = client[d] \/ ClientStands(d)'
    <3>1. CASE UNCHANGED client
      BY <3>1 DEF RelayInv, TypeOK, ClientsAdvance
    <3>2. CASE /\ Waits(c, "challenge")
               /\ client' = [client EXCEPT ![c] = [@ EXCEPT
                    !.step = "prove", !.since = now, !.challenge = Len(issued) + 1,
                    !.expiresAt = now + ChallengeTTL]]
      <4>1. Becomes(c, "prove", now, Len(issued) + 1, now + ChallengeTTL,
                    client[c].ticket, client[c].reason)
        <5>1. Len(issued) + 1 \in 0..MaxChallenges /\ now + ChallengeTTL \in Nat
          BY <2>3, BoundsAreNat
        <5> HIDE DEF c
        <5> QED BY <1>2, <3>2, <5>1, ChallengeMoves DEF RelayInv
      <4>2. \A s : (s = "challenge" => Rank(s) = 1) /\ (s = "prove" => Rank(s) = 2)
        BY DEF Rank
      <4>3. client[c].step = "challenge" /\ client[c].reason = "none"
        BY <1>2, <3>2, ClientFacts DEF Waits
      <4>4. Rank("prove") > Rank(client[c].step)
        BY <4>2, <4>3
      <4>5. ClientsAdvance
        BY <1>2, <4>1, <4>4, OneAdvances
      <4>6. RowOf(c)' \in challenges'
        BY <1>2, <2>2, <4>1 DEF RowOf, Becomes
      <4>7. Accounted(RowOf(c))'
        BY <4>6 DEF Accounted
      <4>8. /\ client'[c].challenge \in 1..Len(issued')
            /\ issued'[client'[c].challenge] = <<CertificateOf[c], OperationOf[c]>>
        BY <1>2, <2>2, <2>3, <4>1 DEF Becomes
      <4>9. /\ client'[c].step = "prove" /\ client'[c].since = now
            /\ client'[c].expiresAt = now + ChallengeTTL /\ client'[c].reason = "none"
        BY <4>1, <4>3 DEF Becomes
      <4>10. ClientStands(c)'
        <5> HIDE DEF c
        <5> QED BY <1>1, <2>1, <2>3, <4>7, <4>8, <4>9 DEF ClientStands
      <4> QED BY <4>1, <4>5, <4>10 DEF Becomes
    <3> QED BY <1>4, <3>1, <3>2 DEF IssueChallenge
  <2>7. TypeOK'
    <3>1. Len(issued') \in 0..MaxChallenges /\ now' \in 0..MaxTime
      BY <1>1, <2>2, <2>3, BoundsAreNat
    <3>2. tickets' \subseteq RelayTickets /\ states' \subseteq RelayStates
      BY <1>1 DEF RelayInv, TypeOK
    <3> QED BY <2>2, <2>6, <3>1, <3>2 DEF TypeOK
  <2> QED BY <1>1, <2>2, <2>4, <2>5, <2>6, <2>7, Assembled
<1> QED BY <1>3, <1>4 DEF IssueChallenge

LEMMA ExactRowIsRowOf ==
  ASSUME RelayInv, NEW m \in network, m.kind = "proof", client[m.client].step = "proof"
  PROVE  ExactRow(m) = RowOf(m.client)
BY ProofFacts DEF ExactRow, RowOf

(* A consumed row buys the one ticket of its challenge.                     *)
LEMMA TicketBought ==
  ASSUME RelayInv, NEW m \in network, m.kind = "proof", ValidReceiptKinds(m.op, m.kinds),
         ExactRow(m) \in challenges, Consume(m),
         tickets' = tickets \cup {RelayTicket(m)}, UNCHANGED <<now, issued, states, forwarded>>
  PROVE  /\ Grows /\ RowsStand' /\ TicketsStand' /\ StatesStand' /\ ForwardedStand'
         /\ tickets' \subseteq RelayTickets /\ challenges' \subseteq challenges
         /\ RelayTicket(m).serial \in Nat /\ RelayTicket(m).expiresAt = now + TicketTTL
<1> DEFINE x == RelayTicket(m)
           row == ExactRow(m)
<1>1. /\ m.client \in Clients /\ m.op \in CustomerOperations /\ m.certificate \in Gateways
      /\ m.kinds \in SUBSET ReceiptKinds /\ m.challenge \in 1..Len(issued)
  BY ProofFacts, ClientsAssumption DEF ClientsAssumption
<1>2. /\ now \in Nat /\ Len(issued) \in 0..MaxChallenges /\ Len(issued) \in Nat
      /\ tickets \subseteq RelayTickets /\ IsFiniteSet(tickets)
  BY BoundsAreNat DEF RelayInv, TypeOK, TicketsStand
<1>3. Cardinality(tickets) \in Nat
  BY <1>2, FS_CardinalityType
<1>4. /\ x.serial = Cardinality(tickets) + 1 /\ x.challenge = m.challenge
      /\ x.gateway = m.certificate /\ x.op = m.op /\ x.kinds = m.kinds
      /\ x.callback = RelayCallbackFor(m.certificate, m.op)
      /\ x.issuedAt = now /\ x.expiresAt = now + TicketTTL
  BY DEF RelayTicket
<1>5. x \in RelayTickets
  <2>1. RelayCallbackFor(m.certificate, m.op) \in Callbacks
    BY <1>1 DEF RelayCallbackFor, Callbacks
  <2>2. m.challenge \in 1..MaxChallenges
    BY <1>1, <1>2, BoundsAreNat
  <2>3. Cardinality(tickets) + 1 \in Nat /\ now \in Nat /\ now + TicketTTL \in Nat
    BY <1>2, <1>3, BoundsAreNat
  <2> QED BY <1>1, <2>1, <2>2, <2>3 DEF RelayTicket, RelayTickets
<1>6. row.challenge = m.challenge /\ challenges' = challenges \ {row} /\ row \in challenges
  BY DEF ExactRow, Consume
<1>7. \A t \in tickets : t.challenge # x.challenge /\ t.serial # x.serial
  BY <1>2, <1>3, <1>4, <1>6 DEF RelayInv, RowsStand, TicketsStand
<1>8. \A t \in tickets : t.serial \in 1..Cardinality(tickets) /\ t.challenge \in 1..Len(issued)
  BY DEF RelayInv, TicketsStand
<1> HIDE DEF x, row
<1>9. /\ IsFiniteSet(tickets') /\ Cardinality(tickets') = Cardinality(tickets) + 1
      /\ tickets' = tickets \cup {x}
  <2>1. x \notin tickets /\ tickets' = tickets \cup {x}
    BY <1>7 DEF x
  <2> QED BY <1>2, <2>1, FS_AddElement
<1>10. Grows
  <2>1. \A r \in challenges : r \in challenges' \/ BoughtOrReplaced(r.challenge)'
    BY <1>4, <1>6, <1>9 DEF BoughtOrReplaced
  <2> QED BY <1>2, <1>9, <2>1 DEF Grows
<1>11. RowsStand'
  BY <1>4, <1>6, <1>9 DEF RelayInv, RowsStand
<1>12. TicketsStand'
  <2>1. \A t \in tickets' : t.serial \in 1..Cardinality(tickets') /\ t.challenge \in 1..Len(issued)
    BY <1>1, <1>3, <1>4, <1>8, <1>9
  <2>2. \A t \in tickets' : /\ t.expiresAt = t.issuedAt + TicketTTL
                            /\ t.callback = RelayCallbackFor(t.gateway, t.op)
    BY <1>4, <1>9 DEF RelayInv, TicketsStand
  <2>3. \A t, u \in tickets' : u.serial = t.serial \/ u.challenge = t.challenge => u = t
    BY <1>7, <1>9 DEF RelayInv, TicketsStand
  <2> QED BY <1>9, <2>1, <2>2, <2>3 DEF TicketsStand
<1>13. ASSUME NEW c, NEW serial, NEW time, ComesFrom(c, serial), InTime(serial, time)
       PROVE  ComesFrom(c, serial)' /\ InTime(serial, time)'
  BY <1>7, <1>9, <1>13 DEF ComesFrom, InTime
<1>14. StatesStand' /\ ForwardedStand'
  BY <1>13 DEF RelayInv, StatesStand, ForwardedStand
<1> QED BY <1>2, <1>3, <1>4, <1>5, <1>6, <1>9, <1>10, <1>11, <1>12, <1>14 DEF x

LEMMA IssueTicketStands ==
  ASSUME RelayInv, NEW m \in network, IssueTicket(m)
  PROVE  RelayInv'
<1> DEFINE c == m.client
<1>1. /\ m.kind = "proof" /\ network' \subseteq network
      /\ UNCHANGED <<now, issued, states, forwarded>>
  BY DEF IssueTicket, Delivered
<1>2. /\ c \in Clients /\ m.certificate = CertificateOf[c] /\ m.signer = KeyOf[c]
      /\ m.issuedAt \in Int /\ m.issuedAt <= now + SkewOf[c] /\ m.expiresAt \in Nat
  BY <1>1, ProofFacts
<1>3. client[c].step = "proof" =>
        /\ m.challenge = client[c].challenge /\ m.expiresAt = client[c].expiresAt
        /\ m.issuedAt >= client[c].since + SkewOf[c]
  BY <1>1, ProofFacts
<1>4. client[c].step = "proof" =>
        /\ client[c].expiresAt = client[c].since + ChallengeTTL
        /\ client[c].challenge \in 1..Len(issued) /\ Accounted(RowOf(c))
  BY <1>2 DEF RelayInv, ClientStands
<1>5. CASE /\ ProofRefusal(m) # "none" /\ Refuse(m, "proof", ProofRefusal(m))
           /\ UNCHANGED <<challenges, tickets>>
  <2>1. ProofRefusal(m) \in {"invalid", "clock", "signature"}
    BY <1>5 DEF ProofRefusal
  <2>2. ASSUME Waits(c, "proof"), ProofRefusal(m) = "clock", Tolerated(c)
        PROVE  now - client[c].since >= ChallengeTTL - ClockSkew
    <3>1. /\ SkewOf[c] \in Int /\ -ClockSkew <= SkewOf[c] /\ SkewOf[c] <= ClockSkew
          /\ now \in Int /\ client[c].since \in Nat /\ client[c].since <= now
      BY <1>2, <2>2, ClientFacts, BoundsAreNat DEF Tolerated
    <3>2. /\ m.issuedAt >= client[c].since + SkewOf[c]
          /\ m.expiresAt = client[c].since + ChallengeTTL
      BY <1>3, <1>4, <2>2 DEF Waits
    <3>3. \/ m.issuedAt > now + ClockSkew \/ m.expiresAt <= m.issuedAt
          \/ m.expiresAt - m.issuedAt > ChallengeTTL + ClockSkew \/ m.expiresAt <= now
      BY <2>2 DEF ProofRefusal
    <3> HIDE DEF c
    <3> QED BY <1>2, <3>1, <3>2, <3>3, BoundsAreNat
  <2> QED BY <1>1, <1>5, <2>1, <2>2, RefuseStands DEF Reasons
<1>6. CASE /\ ProofRefusal(m) = "none" /\ ExactRow(m) \notin challenges
           /\ Refuse(m, "proof", "replayed") /\ UNCHANGED <<challenges, tickets>>
  <2>1. ASSUME Waits(c, "proof")
        PROVE  client[c].challenge \in 1..Len(issued) /\ BoughtOrReplaced(client[c].challenge)
    <3>1. client[c].step = "proof"
      BY <2>1 DEF Waits
    <3>2. ~ (m.expiresAt <= now)
      BY <1>6 DEF ProofRefusal
    <3>3. RowOf(c) \notin challenges /\ RowOf(c).expiresAt = m.expiresAt
      BY <1>1, <1>3, <1>6, <3>1, ExactRowIsRowOf DEF RowOf
    <3> QED BY <1>4, <3>1, <3>2, <3>3 DEF Accounted, RowOf
  <2> QED BY <1>1, <1>6, <2>1, RefuseStands DEF Reasons
<1>7. CASE /\ ProofRefusal(m) = "none" /\ ExactRow(m) \in challenges /\ Consume(m)
           /\ tickets' = tickets \cup {RelayTicket(m)}
  <2>1. ValidReceiptKinds(m.op, m.kinds)
    BY <1>7 DEF ProofRefusal
  <2>2. /\ Grows /\ RowsStand' /\ TicketsStand' /\ StatesStand' /\ ForwardedStand'
        /\ tickets' \subseteq RelayTickets /\ challenges' \subseteq challenges
        /\ RelayTicket(m).serial \in Nat /\ RelayTicket(m).expiresAt = now + TicketTTL
    BY <1>1, <1>7, <2>1, TicketBought
  <2>3. now \in Nat /\ now + TicketTTL \in Nat
    BY BoundsAreNat DEF RelayInv, TypeOK
  <2>4. /\ client' \in [Clients -> ClientRecords] /\ ClientsAdvance
        /\ \A d \in Clients : client'[d] = client[d] \/ ClientStands(d)'
    <3>1. CASE UNCHANGED client
      BY <3>1 DEF RelayInv, TypeOK, ClientsAdvance
    <3>2. CASE /\ Waits(c, "proof")
               /\ client' = [client EXCEPT ![c] = [@ EXCEPT
                    !.step = "ticket", !.since = now, !.ticket = RelayTicket(m).serial,
                    !.expiresAt = RelayTicket(m).expiresAt]]
      <4>1. Becomes(c, "ticket", now, client[c].challenge, now + TicketTTL,
                    RelayTicket(m).serial, client[c].reason)
        <5> HIDE DEF c
        <5> QED BY <1>2, <2>2, <2>3, <3>2, TicketMoves DEF RelayInv
      <4>2. \A s : (s = "proof" => Rank(s) = 3) /\ (s = "ticket" => Rank(s) = 4)
        BY DEF Rank
      <4>3. client[c].step = "proof" /\ client[c].reason = "none"
        BY <1>2, <3>2, ClientFacts DEF Waits
      <4>4. Rank("ticket") > Rank(client[c].step)
        BY <4>2, <4>3
      <4>5. ClientsAdvance
        BY <1>2, <4>1, <4>4, OneAdvances
      <4>6. KeyOf[c] = CertificateOf[c]
        BY <1>2, <4>2, <4>3 DEF RelayInv, ClientStands
      <4>7. /\ client'[c].step = "ticket" /\ client'[c].since = now
            /\ client'[c].expiresAt = now + TicketTTL /\ client'[c].reason = "none"
        BY <4>1, <4>3 DEF Becomes
      <4>8. ClientStands(c)'
        <5> HIDE DEF c
        <5> QED BY <1>1, <2>3, <4>6, <4>7 DEF ClientStands
      <4> QED BY <4>1, <4>5, <4>8 DEF Becomes
    <3> QED BY <1>7, <3>1, <3>2 DEF IssueTicket
  <2>5. TypeOK'
    BY <1>1, <2>2, <2>4 DEF RelayInv, TypeOK
  <2> QED BY <1>1, <2>2, <2>4, <2>5, Assembled
<1> QED BY <1>5, <1>6, <1>7 DEF IssueTicket

LEMMA PruneExpiredStands ==
  ASSUME RelayInv, PruneExpired
  PROVE  RelayInv'
<1>1. /\ challenges' = {r \in challenges : r.expiresAt > now}
      /\ UNCHANGED <<now, issued, network, client, tickets, states, forwarded>>
  BY DEF PruneExpired, Unexpired
<1>2. now \in Int /\ Len(issued) \in Nat /\ \A r \in challenges : r.expiresAt \in Nat
  BY BoundsAreNat DEF RelayInv, TypeOK, ChallengeRows
<1>3. Grows
  BY <1>1, <1>2 DEF Grows
<1>4. TypeOK' /\ ClientsAdvance
  BY <1>1 DEF RelayInv, TypeOK, ClientsAdvance
<1>5. RowsStand'
  BY <1>1 DEF RelayInv, RowsStand
<1>6. TicketsStand' /\ StatesStand' /\ ForwardedStand'
  BY <1>1 DEF RelayInv, TicketsStand, StatesStand, ForwardedStand, ComesFrom, InTime
<1> QED BY <1>1, <1>3, <1>4, <1>5, <1>6, Assembled

LEMMA TickStands ==
  ASSUME RelayInv, Tick
  PROVE  RelayInv'
<1>1. /\ now' = now + 1
      /\ UNCHANGED <<challenges, issued, network, client, tickets, states, forwarded>>
  BY DEF Tick
<1>2. now \in Nat /\ now' \in 0..MaxTime /\ Len(issued) \in Nat
  BY BoundsAreNat DEF RelayInv, TypeOK, Tick
<1>3. Grows
  BY <1>1, <1>2 DEF Grows
<1>4. TypeOK' /\ ClientsAdvance
  BY <1>1, <1>2 DEF RelayInv, TypeOK, ClientsAdvance
<1> QED BY <1>1, <1>3, <1>4, TablesKept, Assembled

(* The authorization that a ticket opens is what its client asked for.      *)
LEMMA AuthorizationStands ==
  ASSUME RelayInv, NEW m \in network, m.kind = "start", NEW t \in tickets,
         TicketRefusal(t, m) = "none", ValidAuthorization(m.client, FixedRelayAuthorization(t, m)),
         states' = states \cup {FixedRelayAuthorization(t, m)}, UNCHANGED tickets
  PROVE  states' \subseteq RelayStates /\ StatesStand'
<1> DEFINE c == m.client
           a == FixedRelayAuthorization(t, m)
<1>1. /\ c \in Clients /\ m.op = OperationOf[c] /\ m.callback = OwnCallback(c)
      /\ OperationOf[c] \in CustomerOperations /\ KindsOf[c] \in SUBSET ReceiptKinds
  BY ClientsAssumption DEF RelayInv, MessageStands, ClientsAssumption
<1>2. /\ t.serial \in Nat /\ t.gateway \in Gateways /\ t.callback \in Callbacks
      /\ t.issuedAt \in Nat /\ t.expiresAt \in Nat /\ now \in Nat /\ now + RelayTTL \in Nat
  BY BoundsAreNat DEF RelayInv, TypeOK, RelayTickets
<1>3. /\ t.callback = RelayCallbackFor(t.gateway, t.op) /\ t.expiresAt = t.issuedAt + TicketTTL
      /\ \A u \in tickets : u.serial = t.serial => u = t
  BY DEF RelayInv, TicketsStand
<1>4. t.op = m.op /\ t.callback = m.callback /\ ~ (t.expiresAt <= now)
  BY DEF TicketRefusal
<1>5. /\ a.client = c /\ a.ticket = t.serial /\ a.gateway = t.gateway /\ a.op = m.op
      /\ a.callback = t.callback /\ a.expiresAt = now + RelayTTL
      /\ a.scopes = ExactOperationScopes(OperationOf[c], KindsOf[c])
  BY DEF FixedRelayAuthorization, ValidAuthorization
<1>6. t.gateway = KeyOf[c]
  BY <1>1, <1>3, <1>4 DEF RelayCallbackFor, OwnCallback
<1>7. a \in RelayStates
  <2>1. a.scopes \in SUBSET InstallScopes
    BY <1>1, <1>5, ScopesAreInstallScopes
  <2> QED BY <1>1, <1>2, <1>5, <2>1 DEF FixedRelayAuthorization, RelayStates
<1>8. ComesFrom(c, t.serial)
  BY <1>1, <1>4, <1>6 DEF ComesFrom
<1>9. InTime(t.serial, now + RelayTTL)
  BY <1>2, <1>3, <1>4, BoundsAreNat DEF InTime
<1> HIDE DEF a, c
<1>10. states' = states \cup {a}
  BY DEF a
<1>11. ASSUME NEW b \in states' PROVE
         /\ b.client \in Clients /\ b.callback = OwnCallback(b.client)
         /\ b.op = OperationOf[b.client]
         /\ b.scopes = ExactOperationScopes(OperationOf[b.client], KindsOf[b.client])
         /\ ComesFrom(b.client, b.ticket) /\ InTime(b.ticket, b.expiresAt)
  <2>1. CASE b = a
    BY <1>1, <1>4, <1>5, <1>8, <1>9, <2>1
  <2>2. CASE b \in states
    BY <2>2 DEF RelayInv, StatesStand
  <2> QED BY <1>10, <2>1, <2>2
<1>12. StatesStand'
  BY <1>11 DEF StatesStand, ComesFrom, InTime
<1> QED BY <1>7, <1>10, <1>12 DEF RelayInv, TypeOK

LEMMA StartStands ==
  ASSUME RelayInv, NEW m \in network, Start(m)
  PROVE  RelayInv'
<1> DEFINE c == m.client
<1>1. /\ m.kind = "start" /\ network' \subseteq network /\ c \in Clients
      /\ UNCHANGED <<now, challenges, issued, tickets, forwarded>>
  BY DEF Start, RelayInv, MessageStands
<1>2. PICK t \in tickets :
        \/ /\ TicketRefusal(t, m) # "none" /\ Refuse(m, "begin", TicketRefusal(t, m))
           /\ UNCHANGED states
        \/ UNCHANGED <<client, states>>
        \/ /\ TicketRefusal(t, m) = "none" /\ Waits(c, "begin")
           /\ ValidAuthorization(c, FixedRelayAuthorization(t, m))
           /\ states' = states \cup {FixedRelayAuthorization(t, m)} /\ Go(c, "authorize")
        \/ Waits(c, "begin") /\ Fail(c, "relay_rejected") /\ UNCHANGED states
  BY DEF Start
<1>3. Grows
  BY <1>1, NothingLost
<1>4. CASE /\ TicketRefusal(t, m) # "none" /\ Refuse(m, "begin", TicketRefusal(t, m))
           /\ UNCHANGED states
  <2>1. TicketRefusal(t, m) \in {"expired", "operation_mismatch"}
    BY <1>4 DEF TicketRefusal
  <2> QED BY <1>1, <1>4, <2>1, RefuseStands DEF Reasons
<1>5. CASE UNCHANGED <<client, states>>
  <2>1. client' \in [Clients -> ClientRecords] /\ ClientsAdvance
    BY <1>5 DEF RelayInv, TypeOK, ClientsAdvance
  <2> QED BY <1>1, <1>5, <2>1, QuietStands
<1>6. CASE /\ TicketRefusal(t, m) = "none" /\ Waits(c, "begin")
           /\ ValidAuthorization(c, FixedRelayAuthorization(t, m))
           /\ states' = states \cup {FixedRelayAuthorization(t, m)} /\ Go(c, "authorize")
  <2>1. states' \subseteq RelayStates /\ StatesStand'
    BY <1>1, <1>6, AuthorizationStands
  <2>2. /\ client' \in [Clients -> ClientRecords] /\ ClientsAdvance
        /\ \A d \in Clients : client'[d] = client[d] \/ ClientStands(d)'
    <3> HIDE DEF c
    <3> QED BY <1>1, <1>6, GoStands DEF Waits
  <2>3. RowsStand' /\ TicketsStand' /\ ForwardedStand'
    BY <1>1 DEF RelayInv, RowsStand, TicketsStand, ForwardedStand, ComesFrom, InTime
  <2>4. TypeOK'
    BY <1>1, <2>1, <2>2 DEF RelayInv, TypeOK
  <2> QED BY <1>1, <1>3, <2>1, <2>2, <2>3, <2>4, Assembled
<1>7. CASE Waits(c, "begin") /\ Fail(c, "relay_rejected") /\ UNCHANGED states
  <2> HIDE DEF c
  <2> QED BY <1>1, <1>3, <1>7, FailStands, QuietStands DEF Waits, Reasons
<1> QED BY <1>2, <1>4, <1>5, <1>6, <1>7

LEMMA BrowserStands ==
  ASSUME RelayInv, NEW a \in states, RelayCode(a) \/ RelayError(a)
  PROVE  RelayInv'
<1>1. /\ UNCHANGED <<now, challenges, issued, network, client, tickets, states>>
      /\ now < a.expiresAt /\ a.expiresAt \in Nat /\ now \in Nat
  BY BoundsAreNat DEF RelayInv, TypeOK, RelayStates, RelayCode, RelayError, OpenState
<1>2. PICK what \in {"code", "authorization_rejected"}, scopes \in {a.scopes, {}} :
        /\ forwarded' = Redirect(a, what, scopes)
        /\ what = "code" => scopes = a.scopes
  BY DEF RelayCode, RelayError
<1> DEFINE new == [what |-> what, to |-> a.callback, client |-> a.client,
                   ticket |-> a.ticket, scopes |-> scopes, at |-> now]
<1>3. forwarded' \subseteq forwarded \cup {new}
  BY <1>2 DEF Redirect
<1>4. /\ a.callback = OwnCallback(a.client)
      /\ a.scopes = ExactOperationScopes(OperationOf[a.client], KindsOf[a.client])
      /\ ComesFrom(a.client, a.ticket) /\ InTime(a.ticket, a.expiresAt)
  BY DEF RelayInv, StatesStand
<1>5. InTime(a.ticket, now)
  <2>1. \A t \in tickets : t.issuedAt \in Nat
    BY DEF RelayInv, TypeOK, RelayTickets
  <2> QED BY <1>1, <1>4, <2>1, BoundsAreNat DEF InTime
<1>6. /\ new.to = a.callback /\ new.client = a.client /\ new.ticket = a.ticket
      /\ new.at = now /\ new.what = what /\ new.scopes = scopes
  OBVIOUS
<1> HIDE DEF new
<1>7. ASSUME NEW f \in forwarded'
      PROVE  /\ f.to = OwnCallback(f.client)
             /\ f.what = "code" =>
                  f.scopes = ExactOperationScopes(OperationOf[f.client], KindsOf[f.client])
             /\ ComesFrom(f.client, f.ticket) /\ InTime(f.ticket, f.at) /\ f.at \in Int
  <2>1. CASE f = new
    BY <1>1, <1>2, <1>4, <1>5, <1>6, <2>1
  <2>2. CASE f \in forwarded
    BY <2>2 DEF RelayInv, ForwardedStand
  <2> QED BY <1>3, <2>1, <2>2
<1>8. ForwardedStand'
  BY <1>1, <1>7 DEF ForwardedStand, ComesFrom, InTime
<1>9. RowsStand' /\ TicketsStand' /\ StatesStand'
  BY <1>1 DEF RelayInv, RowsStand, TicketsStand, StatesStand, ComesFrom, InTime
<1>10. TypeOK' /\ ClientsAdvance
  BY <1>1 DEF RelayInv, TypeOK, ClientsAdvance
<1>11. Grows
  BY <1>1, NothingLost
<1> QED BY <1>1, <1>8, <1>9, <1>10, <1>11, Assembled

(* ------------------------------- the theorem ----------------------------- *)

LEMMA InitStands == Init => RelayInv
<1> SUFFICES ASSUME Init PROVE RelayInv
  OBVIOUS
<1>1. Len(issued) = 0 /\ issued \in Seq(Gateways \X CustomerOperations)
  BY DEF Init
<1>2. NoClient \in ClientRecords
  BY BoundsAreNat DEF NoClient, ClientRecords
<1>3. TypeOK
  BY <1>1, <1>2, BoundsAreNat DEF Init, TypeOK
<1>4. RowsStand /\ StatesStand /\ ForwardedStand
  BY <1>1 DEF Init, RowsStand, StatesStand, ForwardedStand
<1>5. TicketsStand
  BY FS_EmptySet DEF Init, TicketsStand
<1>6. ASSUME NEW c \in Clients PROVE ClientStands(c)
  <2>1. /\ client[c].step = "idle" /\ client[c].reason = "none" /\ client[c].since = 0 /\ now = 0
    BY DEF Init, NoClient
  <2>2. \A s : s = "idle" => Rank(s) = 0
    BY DEF Rank
  <2> QED BY <2>1, <2>2 DEF ClientStands
<1> QED BY <1>3, <1>4, <1>5, <1>6 DEF Init, RelayInv

LEMMA NextStands == RelayInv /\ [Next]_vars => RelayInv'
<1> SUFFICES ASSUME RelayInv, [Next]_vars PROVE RelayInv'
  OBVIOUS
<1>1. ASSUME NEW c \in Clients, ClientStep(c) PROVE RelayInv'
  BY <1>1, RequestTicketStands, SignProofStands, BeginRelayStands, RequestTimeoutStands,
    ReceiveRedirectStands DEF ClientStep
<1>2. CASE Handle
  BY <1>2, IssueChallengeStands, IssueTicketStands, StartStands DEF Handle
<1>3. CASE Browser
  BY <1>3, BrowserStands DEF Browser
<1>4. CASE PruneExpired
  BY <1>4, PruneExpiredStands
<1>5. CASE Tick
  BY <1>5, TickStands
<1>6. CASE UNCHANGED vars
  <2>1. UNCHANGED <<now, challenges, issued, network, client, tickets, states, forwarded>>
    BY <1>6 DEF vars
  <2>2. client' \in [Clients -> ClientRecords] /\ ClientsAdvance
    BY <2>1 DEF RelayInv, TypeOK, ClientsAdvance
  <2> QED BY <2>1, <2>2, QuietStands
<1> QED BY <1>1, <1>2, <1>3, <1>4, <1>5, <1>6 DEF Next

LEMMA InvIsSafe == RelayInv => RelayIsSafe
<1> SUFFICES ASSUME RelayInv PROVE RelayIsSafe
  OBVIOUS
<1>1. TypeOK /\ OneTicketPerChallenge
  BY DEF RelayInv, TicketsStand, OneTicketPerChallenge
<1>2. CodesGoHome
  BY DEF RelayInv, ForwardedStand, ComesFrom, CodesGoHome
<1>3. ForwardedInTime
  BY DEF RelayInv, ForwardedStand, InTime, ForwardedInTime
<1>4. PossessionNeeded
  <2>1. \A s \in {"prove", "proof", "ticket", "begin", "authorize"} : Rank(s) \in 2..6
    BY DEF Rank
  <2> QED BY <2>1 DEF RelayInv, ClientStands, PossessionNeeded
<1>5. ClocksAreTolerated
  BY DEF RelayInv, ClientStands, Tolerated, ClocksAreTolerated
<1>6. ReplayHasCause
  BY DEF RelayInv, ClientStands, BoughtOrReplaced, ReplayHasCause
<1> QED BY <1>1, <1>2, <1>3, <1>4, <1>5, <1>6 DEF RelayIsSafe

(* The relay is safe: a challenge buys one ticket however often its proof   *)
(* arrives, only the holder of the certified key comes by one, a code goes  *)
(* only to the callback of the installation that signed for it and within   *)
(* the lifetimes of its ticket and state, and neither a tolerated clock nor *)
(* a fresh proof is refused without a cause.                                *)
THEOREM RelaySafety == Spec => []RelayIsSafe
<1>1. Init => RelayInv
  BY InitStands
<1>2. RelayInv /\ [Next]_vars => RelayInv'
  BY NextStands
<1>3. RelayInv => RelayIsSafe
  BY InvIsSafe
<1> QED BY <1>1, <1>2, <1>3, PTL DEF Spec

-------------------------------------------------------------------------------
-----------------------------------------------------------------------------
(* Stage1Session *)

Removes(i) == kind[i] = "cleanup"
OnRecord(i) == ok[i] = "recorded"

SessionTypes ==
  /\ sess \in [Session!Sessions -> Session!SessionRecord] /\ cur \in Session!Sessions
  /\ dead \subseteq Session!Sessions /\ cookie \in 0..MaxAttempts /\ expired \subseteq Session!Attempts
  /\ kind \in [Session!Attempts -> {"bootstrap", "cleanup"}]
  /\ home \in [Session!Attempts -> 0..MaxSessions] /\ seed \in Session!Provisions
  /\ req \in [Session!Attempts -> Session!Points] /\ ok \in [Session!Attempts -> Session!Outcomes]
  /\ grant \in [Session!Attempts -> Session!Grants] /\ redeemed \in [Session!Attempts -> Nat]
  /\ worker \in [Session!Seeded -> Session!Workers] /\ foreign \in BOOLEAN
  /\ overtaken \subseteq Session!Attempts \X (0..MaxAttempts)
  /\ hands \subseteq Session!Polls /\ released \subseteq Session!Attempts /\ seeds \in 0..MaxPlans

(* A session the browser has not reached is empty.  An approval belongs to  *)
(* one session and one phase and has not recorded a provision yet; a        *)
(* cleanup acts on the provision its session records.                       *)
ApprovalStands(s) ==
  LET i == sess[s].att IN i # 0 =>
    /\ home[i] = s /\ req[i] # "new" /\ ~OnRecord(i)
    /\ sess[s].phase \in {"authorizing", "cleanup_required"}
    /\ sess[s].phase = "cleanup_required" => Removes(i) /\ seed[i] = sess[s].prov
    /\ sess[s].status = "authorizing" => req[i] = "consent"
    /\ sess[s].status # "none"
SessionStands(s) ==
  /\ Session!PhaseInvariantsHold(sess[s])
  /\ s > cur => sess[s] = Session!Erased
  /\ ApprovalStands(s)
  /\ sess[s].prov # 0 => home[sess[s].prov] = s /\ OnRecord(sess[s].prov)

(* What an attempt acts on, and what its callback has reached.              *)
ActsOn(i) ==
  /\ req[i] # "new" => home[i] \in 1..cur
  /\ req[i] # "new" /\ ~Removes(i) => seed[i] \in Session!Seeded
  /\ Removes(i) => req[i] # "new" /\ seed[i] \in Session!Attempts /\ OnRecord(seed[i])
HasReached(i) ==
  /\ OnRecord(i) => ~Removes(i) /\ req[i] \in {"fail", "closed"} /\ grant[i] = "revoked"
  /\ req[i] \in {"account", "create", "upload", "expose", "record"} => ~Removes(i)
  /\ req[i] \in {"verify", "retire", "delete", "prove", "complete"} => Removes(i)
  /\ req[i] \notin {"revoke", "fail", "closed"} => ok[i] = "yes"
  /\ req[i] \in {"new", "consent", "exchange"} => redeemed[i] = 0
  /\ redeemed[i] <= 1
  /\ req[i] \in {"record", "complete"} => grant[i] = "revoked"
  /\ i \in released => OnRecord(i)
(* A removal whose absence is proved is of a Worker that is gone, and one   *)
(* that is under way is of a Worker that is nobody else's, unless something *)
(* came between.                                                            *)
IsGone(i) ==
  Removes(i) /\ (req[i] = "complete" \/ (req[i] = "revoke" /\ ok[i] = "yes")) =>
    worker[Session!Target(i)].by # seed[i]
IsOurs(i) ==
  Session!Removing(i) =>
    \/ ~foreign /\ worker[Session!Target(i)].code # "other"
    \/ \E k \in 0..MaxAttempts : <<i, k>> \in overtaken
AttemptStands(i) == ActsOn(i) /\ HasReached(i) /\ IsGone(i) /\ IsOurs(i)
CookieStands ==
  /\ cookie # 0 => req[cookie] # "new"
  /\ \A h \in hands : req[h[1]] # "new"

SessionInv ==
  /\ SessionTypes /\ CookieStands
  /\ \A s \in Session!Sessions : SessionStands(s)
  /\ \A i \in Session!Attempts : AttemptStands(i)

(* A Worker stands from its exposure on, until its session owes a cleanup.  *)
Building(i) == ~Removes(i) /\ (req[i] \in {"expose", "record"} \/ (req[i] = "revoke" /\ ok[i] = "yes"))
Standing(i) ==
  \/ i \in released
  \/ \E s \in Session!Sessions : sess[s].prov = i /\ sess[s].phase \in {"provisioned", "handed_off"}
  \/ Building(i)
Stays(i, w, o) ==
  /\ w.by = i /\ ~w.going
  /\ w.code \in {"shell", "other"} \/ \E j \in Session!Attempts : <<j, i>> \in o
StandingIsKept == \A i \in Session!Attempts : Standing(i) => Stays(i, worker[seed[i]], overtaken)
ReleasedIsHandedOff ==
  \A s \in Session!Sessions : sess[s].prov \in released => sess[s].phase = "handed_off"
CleanupIsOwed ==
  \A i \in Session!Attempts : Removes(i) =>
    /\ seed[i] \notin released
    /\ \A s \in Session!Sessions : sess[s].prov = seed[i] => sess[s].phase = "cleanup_required"
(* What a cleanup is about to retire is the Worker on record, or none, or   *)
(* was made since.                                                          *)
RetiresRecorded ==
  \A i \in Session!Attempts : req[i] = "retire" =>
    LET k == worker[Session!Target(i)].by IN k \in {0, seed[i]} \/ <<i, k>> \in overtaken
GoingIsRecorded ==
  \A n \in Session!Seeded : worker[n].going => worker[n].by \in Session!Attempts /\ OnRecord(worker[n].by)
KeptInv == StandingIsKept /\ ReleasedIsHandedOff /\ CleanupIsOwed /\ RetiresRecorded /\ GoingIsRecorded

LEMMA SessionIsOne == 1 \in Session!Sessions /\ MaxSessions \in Nat /\ MaxAttempts \in Nat /\ MaxPlans \in Nat
  BY SessionBounds DEF Session!Sessions

LEMMA SessionRecords ==
  /\ Session!Erased \in Session!SessionRecord
  /\ Session!Draft \in Session!SessionRecord
  /\ Session!NoWorker \in Session!Workers
  /\ Session!Draft.phase = "draft" /\ Session!Draft.prov = 0 /\ Session!Draft.att = 0
  /\ Session!Erased.phase = "none" /\ Session!Erased.prov = 0 /\ Session!Erased.att = 0
<1>1. 0 \in 0..MaxAttempts /\ 0 \in 0..Session!Typed
  BY SessionIsOne DEF Session!Typed
<1>2. Session!NoWorker \in Session!Workers
  BY <1>1 DEF Session!NoWorker, Session!Workers
<1>3. Session!Erased \in Session!SessionRecord
  BY <1>1 DEF Session!Erased, Session!SessionRecord
<1>4. Session!Draft \in Session!SessionRecord
  BY <1>3 DEF Session!Draft, Session!SessionRecord
<1>5. /\ Session!Draft.phase = "draft" /\ Session!Draft.prov = 0 /\ Session!Draft.att = 0
      /\ Session!Erased.phase = "none" /\ Session!Erased.prov = 0 /\ Session!Erased.att = 0
  BY DEF Session!Draft, Session!Erased
<1> QED BY <1>2, <1>3, <1>4, <1>5

LEMMA SessionInitHolds == Session!Init => SessionInv
<1> SUFFICES ASSUME Session!Init PROVE SessionInv
  OBVIOUS
<1>1. SessionTypes
  BY SessionIsOne, SessionRecords
  DEF Session!Init, SessionTypes, Session!Sessions, Session!Attempts, Session!Provisions, Session!Points,
      Session!Outcomes, Session!Grants, Session!Polls, Session!Seeded, Session!Typed
<1>2. CookieStands
  BY DEF Session!Init, CookieStands
<1>3. ASSUME NEW s \in Session!Sessions PROVE SessionStands(s)
  BY <1>3, SessionRecords, SessionIsOne
  DEF Session!Init, SessionStands, ApprovalStands, Session!PhaseInvariantsHold, Session!Sessions
<1>4. ASSUME NEW i \in Session!Attempts PROVE AttemptStands(i)
  BY <1>4 DEF Session!Init, AttemptStands, ActsOn, HasReached, IsGone, IsOurs, Session!Removing, Removes, OnRecord
<1> QED BY <1>1, <1>2, <1>3, <1>4 DEF SessionInv

LEMMA AttemptsRest ==
  ASSUME SessionInv, UNCHANGED <<Session!call, worker, foreign, overtaken>>, cur' \in Session!Sessions, cur <= cur',
         released' \subseteq Session!Attempts, \A i \in released' : OnRecord(i)
  PROVE  \A i \in Session!Attempts : AttemptStands(i)'
<1> SUFFICES ASSUME NEW i \in Session!Attempts PROVE AttemptStands(i)'
  OBVIOUS
<1>1. AttemptStands(i) /\ cur \in Session!Sessions
  BY DEF SessionInv, SessionTypes
<1>2. ActsOn(i)'
  BY <1>1, SessionIsOne DEF AttemptStands, ActsOn, Session!call, Removes, OnRecord, Session!Sessions
<1>3. HasReached(i)'
  BY <1>1 DEF AttemptStands, HasReached, Session!call, Removes, OnRecord
<1>4. IsGone(i)' /\ IsOurs(i)'
  BY <1>1 DEF AttemptStands, IsGone, IsOurs, Session!Removing, Session!call, Removes, Session!Target
<1> QED BY <1>2, <1>3, <1>4 DEF AttemptStands

LEMMA OneSession ==
  ASSUME SessionInv, NEW s \in Session!Sessions, NEW r \in Session!SessionRecord,
         sess' = [sess EXCEPT ![s] = r], UNCHANGED Session!call, cur' \in Session!Sessions,
         cur <= cur', s <= cur', Session!PhaseInvariantsHold(r), r.prov \in {0, sess[s].prov},
         r.att = 0 \/ r = sess[s]
  PROVE  \A u \in Session!Sessions : SessionStands(u)'
<1> SUFFICES ASSUME NEW u \in Session!Sessions PROVE SessionStands(u)'
  OBVIOUS
<1>1. /\ sess \in [Session!Sessions -> Session!SessionRecord] /\ SessionStands(u) /\ SessionStands(s)
      /\ cur \in Session!Sessions
  BY DEF SessionInv, SessionTypes
<1>2. CASE u = s
  BY <1>1, <1>2, SessionIsOne DEF Session!PhaseInvariantsHold, Session!call, SessionStands,
    ApprovalStands, OnRecord, Removes, Session!Sessions
<1>3. CASE u # s
  BY <1>1, <1>3, SessionIsOne DEF SessionStands, Session!PhaseInvariantsHold, Session!call,
    ApprovalStands, OnRecord, Removes, Session!Sessions
<1> QED BY <1>2, <1>3

LEMMA SessionsRest ==
  ASSUME SessionInv, UNCHANGED <<sess, cur, kind, home, seed, req, ok>>
  PROVE  \A u \in Session!Sessions : SessionStands(u)'
BY DEF SessionInv, SessionStands, ApprovalStands, Session!PhaseInvariantsHold, Session!call, OnRecord, Removes

(* One session changes and no attempt or Worker does.                       *)
LEMMA SessionMoves ==
  ASSUME SessionInv, NEW s \in Session!Sessions, NEW r \in Session!SessionRecord,
         sess' = [sess EXCEPT ![s] = r], UNCHANGED <<Session!call, worker, foreign, overtaken>>,
         cur' \in Session!Sessions, cur <= cur', s <= cur', Session!PhaseInvariantsHold(r),
         r.prov \in {0, sess[s].prov}, r.att = 0 \/ r = sess[s],
         cookie' \in {0, cookie}, dead' \subseteq Session!Sessions, hands' \subseteq hands,
         released' \subseteq Session!Attempts, \A i \in released' : OnRecord(i), seeds' \in 0..MaxPlans
  PROVE  SessionInv'
<1>1. \A u \in Session!Sessions : SessionStands(u)'
  BY OneSession
<1>2. \A i \in Session!Attempts : AttemptStands(i)'
  BY AttemptsRest
<1>3. SessionTypes'
  BY SessionIsOne DEF SessionInv, SessionTypes, Session!call
<1>4. CookieStands'
  BY DEF SessionInv, CookieStands, Session!call
<1> QED BY <1>1, <1>2, <1>3, <1>4 DEF SessionInv

LEMMA SessionFacts ==
  ASSUME SessionInv
  PROVE  /\ sess \in [Session!Sessions -> Session!SessionRecord] /\ cur \in Session!Sessions
         /\ cur \in Int /\ cur <= MaxSessions /\ dead \subseteq Session!Sessions /\ seeds \in 0..MaxPlans
         /\ hands \subseteq Session!Polls /\ released \subseteq Session!Attempts
         /\ \A i \in released : OnRecord(i)
BY SessionIsOne DEF SessionInv, SessionTypes, Session!Sessions, AttemptStands, HasReached

LEMMA SaveHolds == ASSUME SessionInv, Session!SaveSelection PROVE SessionInv'
<1> DEFINE r == [sess[cur] EXCEPT !.phase = "draft", !.sel = TRUE, !.plan = 0]
<1>1. SessionStands(cur) /\ sess[cur] \in Session!SessionRecord
  BY SessionFacts DEF SessionInv
<1>2. r \in Session!SessionRecord
  <2>1. TRUE \in BOOLEAN /\ 0 \in 0..Session!Typed
    BY SessionIsOne DEF Session!Typed
  <2> QED BY <1>1, <2>1 DEF Session!SessionRecord
<1>3. r.att = 0 /\ r.prov = 0 /\ r.phase = "draft"
  BY <1>1
  DEF Session!SaveSelection, Session!Open, SessionStands, Session!PhaseInvariantsHold, Session!SessionRecord
<1>4. sess' = [sess EXCEPT ![cur] = r]
  BY DEF Session!SaveSelection, Session!Set
<1>5. /\ UNCHANGED <<Session!call, worker, foreign, overtaken>> /\ dead' = dead /\ cookie' = cookie /\ cur' = cur
      /\ hands' = hands /\ released' = released /\ seeds' = seeds
  BY DEF Session!SaveSelection, Session!client, Session!cloud
<1> HIDE DEF r
<1>6. Session!PhaseInvariantsHold(r)
  BY <1>3 DEF Session!PhaseInvariantsHold
<1>7. cur <= cur' /\ cur' \in Session!Sessions
  BY <1>5, SessionFacts
<1> QED BY <1>2, <1>3, <1>4, <1>5, <1>6, <1>7, SessionFacts, SessionMoves

LEMMA FreezeHolds == ASSUME SessionInv, Session!FreezePlan PROVE SessionInv'
<1> DEFINE plan == IF sess[cur].sel THEN Session!Typed
                   ELSE IF ~sess[cur].sel /\ sess[cur].plan = 0 THEN seeds + 1 ELSE sess[cur].plan
           r == [sess[cur] EXCEPT !.phase = "draft", !.plan = plan]
<1>1. SessionStands(cur) /\ sess[cur] \in Session!SessionRecord
  BY SessionFacts DEF SessionInv
<1>a. seeds' \in 0..MaxPlans
  BY SessionIsOne, SessionFacts DEF Session!FreezePlan
<1>b. plan \in 0..Session!Typed
  BY <1>1, SessionIsOne, SessionFacts DEF Session!FreezePlan, Session!Typed, Session!SessionRecord
<1>2. r \in Session!SessionRecord
  BY <1>1, <1>b DEF Session!SessionRecord
<1>3. r.att = 0 /\ r.prov = 0 /\ r.phase = "draft"
  BY <1>1
  DEF Session!FreezePlan, Session!Open, SessionStands, Session!PhaseInvariantsHold, Session!SessionRecord
<1>4. sess' = [sess EXCEPT ![cur] = r]
  BY DEF Session!FreezePlan, Session!Set
<1>5. /\ UNCHANGED <<Session!call, worker, foreign, overtaken>> /\ dead' = dead /\ cookie' = cookie /\ cur' = cur
      /\ hands' = hands /\ released' = released
  BY DEF Session!FreezePlan, Session!client, Session!cloud
<1> HIDE DEF r
<1>6. Session!PhaseInvariantsHold(r)
  BY <1>3 DEF Session!PhaseInvariantsHold
<1>7. cur <= cur' /\ cur' \in Session!Sessions
  BY <1>5, SessionFacts
<1> QED BY <1>2, <1>3, <1>4, <1>5, <1>6, <1>7, <1>a, SessionFacts, SessionMoves

LEMMA NewSessionHolds == ASSUME SessionInv, Session!NewSession PROVE SessionInv'
<1>1. SessionStands(cur + 1) /\ cur + 1 \in Session!Sessions
  BY SessionFacts, SessionIsOne DEF SessionInv, Session!NewSession, Session!Sessions
<1>2. sess[cur + 1] = Session!Erased
  BY <1>1, SessionFacts DEF SessionStands
<1>3. sess' = [sess EXCEPT ![cur + 1] = Session!Draft] /\ cur' = cur + 1
  BY DEF Session!NewSession, Session!Set
<1>4. /\ UNCHANGED <<Session!call, worker, foreign, overtaken>> /\ dead' = dead /\ cookie' \in {0, cookie}
      /\ hands' = hands /\ released' = released /\ seeds' = seeds
  BY DEF Session!NewSession, Session!cloud
<1>5. Session!PhaseInvariantsHold(Session!Draft)
  BY SessionRecords DEF Session!PhaseInvariantsHold
<1>6. cur <= cur' /\ cur + 1 <= cur' /\ cur' \in Session!Sessions
  BY <1>1, <1>3, SessionFacts
<1> QED BY <1>1, <1>3, <1>4, <1>5, <1>6, SessionFacts, SessionRecords, SessionMoves

LEMMA AlarmHolds == ASSUME SessionInv, NEW s \in Session!Sessions, Session!Alarm(s) PROVE SessionInv'
<1> DEFINE r == Session!Reaped(s)
<1>1. SessionStands(s) /\ sess[s] \in Session!SessionRecord
  BY SessionFacts DEF SessionInv
<1>2. sess[s].phase \notin {"none", "cleanup_required"}
  BY DEF Session!Alarm, Session!Due
<1>3. /\ r \in Session!SessionRecord /\ r.att = 0 /\ r.prov \in {0, sess[s].prov}
      /\ Session!PhaseInvariantsHold(r)
  BY <1>1, SessionIsOne, SessionRecords DEF Session!Reaped, SessionStands,
    Session!PhaseInvariantsHold, Session!SessionRecord, Session!FailedSession
<1>4. sess' = [sess EXCEPT ![s] = r]
  BY DEF Session!Alarm, Session!Set
<1>5. /\ UNCHANGED <<Session!call, worker, foreign, overtaken>> /\ dead' = dead /\ cookie' = cookie /\ cur' = cur
      /\ hands' = hands /\ released' = released /\ seeds' = seeds
  BY DEF Session!Alarm, Session!client, Session!cloud
<1>6. s <= cur
  BY <1>1, <1>2, SessionFacts, SessionRecords DEF SessionStands, Session!Sessions
<1>7. cur <= cur' /\ cur' \in Session!Sessions
  BY <1>5, SessionFacts
<1> HIDE DEF r
<1> QED BY <1>3, <1>4, <1>5, <1>6, <1>7, SessionFacts, SessionMoves

(* Neither a session nor an attempt nor a Worker changes.                   *)
LEMMA QuietSession ==
  ASSUME SessionInv, UNCHANGED <<sess, cur, kind, home, seed, req, ok, grant, redeemed, worker, foreign, overtaken, released, seeds>>,
         cookie' \in {0, cookie}, dead' \subseteq Session!Sessions, hands' \subseteq Session!Polls,
         \A h \in hands' : req[h[1]] # "new", expired' \subseteq Session!Attempts
  PROVE  SessionInv'
BY SessionIsOne DEF SessionInv, SessionTypes, CookieStands, SessionStands, ApprovalStands,
  Session!PhaseInvariantsHold, OnRecord, Removes, AttemptStands, ActsOn, HasReached, IsGone, IsOurs, Session!Removing,
  Session!Target

LEMMA ClockHolds ==
  ASSUME SessionInv,
         \/ \E i \in Session!Attempts : Session!AttemptExpires(i)
         \/ \E s \in Session!Sessions : Session!SessionExpires(s)
         \/ Session!LoseCookie
         \/ Session!PollHandoff
  PROVE  SessionInv'
<1>0. /\ \A h \in hands : req[h[1]] # "new"
      /\ expired \subseteq Session!Attempts /\ cookie \in 0..MaxAttempts /\ dead \subseteq Session!Sessions
      /\ hands \subseteq Session!Polls
  BY DEF SessionInv, SessionTypes, CookieStands
<1>1. ASSUME NEW i \in Session!Attempts, Session!AttemptExpires(i) PROVE SessionInv'
  BY <1>0, <1>1, QuietSession DEF Session!AttemptExpires, Session!object, Session!client, Session!cloud
<1>2. ASSUME NEW s \in Session!Sessions, Session!SessionExpires(s) PROVE SessionInv'
  BY <1>0, <1>2, QuietSession DEF Session!SessionExpires, Session!call, Session!client, Session!cloud
<1>3. CASE Session!LoseCookie
  BY <1>0, <1>3, QuietSession DEF Session!LoseCookie, Session!object, Session!call, Session!cloud
<1>4. CASE Session!PollHandoff
  <2>1. cookie \in Session!Attempts
    BY <1>0, <1>4, SessionIsOne DEF Session!PollHandoff, Session!Attempts
  <2>2. PICK a \in {"ready", "rejected"} : hands' = hands \cup {<<cookie, a>>}
    BY <1>4 DEF Session!PollHandoff
  <2>3. <<cookie, a>> \in Session!Polls /\ req[cookie] # "new" /\ <<cookie, a>>[1] = cookie
    BY <2>1, SessionIsOne DEF Session!Polls, SessionInv, CookieStands, Session!Attempts
  <2>4. hands' \subseteq Session!Polls /\ \A h \in hands' : req[h[1]] # "new"
    BY <1>0, <2>2, <2>3
  <2> QED
    BY <1>0, <1>4, <2>4, QuietSession DEF Session!PollHandoff, Session!object, Session!call, Session!cloud
<1> QED BY <1>1, <1>2, <1>3, <1>4

LEMMA AttemptFacts ==
  ASSUME SessionInv, NEW i \in Session!Attempts, req[i] # "new"
  PROVE  /\ home[i] \in Session!Sessions /\ home[i] <= cur /\ Session!Target(i) \in Session!Seeded
         /\ sess[home[i]] \in Session!SessionRecord /\ SessionStands(home[i])
<1>1. AttemptStands(i) /\ SessionTypes /\ cur \in Session!Sessions
  BY DEF SessionInv, SessionTypes
<1>2. home[i] \in Session!Sessions /\ home[i] <= cur
  BY <1>1, SessionIsOne DEF AttemptStands, ActsOn, Session!Sessions
<1>3. Session!Target(i) \in Session!Seeded
  BY <1>1 DEF AttemptStands, ActsOn, SessionInv, HasReached, Session!Target, Removes
<1> QED BY <1>1, <1>2, <1>3 DEF SessionInv, SessionTypes

LEMMA AnswerHolds ==
  ASSUME SessionInv, NEW h \in hands, Session!AnswerHandoff(h) PROVE SessionInv'
<1>1. PICK i \in Session!Attempts : i = h[1]
  BY SessionFacts DEF Session!Polls
<1>2. /\ UNCHANGED <<Session!call, worker, foreign, overtaken>> /\ dead' = dead /\ cur' = cur /\ seeds' = seeds
      /\ hands' \subseteq hands
  BY DEF Session!AnswerHandoff, Session!cloud
<1> DEFINE s == home[i]
<1>3. cur <= cur' /\ cur' \in Session!Sessions
  BY <1>2, SessionFacts
<1>4. /\ s \in Session!Sessions /\ s <= cur' /\ sess[s] \in Session!SessionRecord /\ SessionStands(s)
  BY <1>1, <1>2, AttemptFacts DEF SessionInv, CookieStands
<1> HIDE DEF s
<1>5. CASE h[2] = "ready" /\ Session!Markable(i)
  <2> DEFINE r == [sess[s] EXCEPT !.phase = "handed_off"]
  <2>1. /\ sess' = [sess EXCEPT ![s] = r] /\ released' = released \cup {i} /\ cookie' \in {0, cookie}
    BY <1>1, <1>5 DEF Session!AnswerHandoff, Session!Set, s
  <2>2. sess[s].phase = "provisioned" /\ sess[s].prov = i
    BY <1>5 DEF Session!Markable, s
  <2>3. /\ r \in Session!SessionRecord /\ r.att = 0 /\ r.prov = sess[s].prov
        /\ Session!PhaseInvariantsHold(r)
    BY <1>4, <2>2 DEF SessionStands, Session!PhaseInvariantsHold, Session!SessionRecord
  <2>4. OnRecord(i)
    BY <1>1, <1>4, <2>2, SessionIsOne DEF SessionStands, Session!Attempts
  <2>5. released' \subseteq Session!Attempts /\ \A j \in released' : OnRecord(j)
    BY <2>1, <2>4, SessionFacts
  <2> HIDE DEF r
  <2> QED BY <1>2, <1>3, <1>4, <2>1, <2>3, <2>5, SessionFacts, SessionMoves
<1>6. CASE h[2] = "ready" /\ ~Session!Markable(i)
  BY <1>1, <1>2, <1>6, QuietSession, SessionFacts
  DEF Session!AnswerHandoff, Session!call, SessionInv, CookieStands, SessionTypes
<1>7. CASE h[2] = "rejected"
  <2> DEFINE r == Session!CleanupRequired(sess[s])
  <2>1. /\ sess' = [sess EXCEPT ![s] = r] /\ released' = released /\ cookie' \in {0, cookie}
    BY <1>1, <1>7 DEF Session!AnswerHandoff, s
  <2>2. /\ r \in Session!SessionRecord /\ r.prov = sess[s].prov
        /\ Session!PhaseInvariantsHold(r)
    BY <1>4 DEF SessionStands, Session!PhaseInvariantsHold, Session!SessionRecord, Session!CleanupRequired
  <2>3. r.att = 0 \/ r = sess[s]
    BY <1>4 DEF SessionStands, Session!PhaseInvariantsHold, Session!SessionRecord, Session!CleanupRequired
  <2> HIDE DEF r
  <2> QED BY <1>2, <1>3, <1>4, <2>1, <2>2, <2>3, SessionFacts, SessionMoves
<1>8. h[2] \in {"ready", "rejected"}
  BY SessionFacts DEF Session!Polls
<1> QED BY <1>5, <1>6, <1>7, <1>8

OvertakenGrows ==
  overtaken \subseteq overtaken' /\ overtaken' \subseteq Session!Attempts \X (0..MaxAttempts)
(* A Worker is not given to an attempt whose provision is on record, and is *)
(* not altered.                                                             *)
WorkersMove ==
  /\ worker' \in [Session!Seeded -> Session!Workers] /\ OvertakenGrows
  /\ \A n \in Session!Seeded :
       /\ worker'[n].by = worker[n].by \/ worker'[n].by = 0 \/ ~OnRecord(worker'[n].by)
       /\ worker'[n].code = "other" => worker[n].code = "other"
OwnersMove ==
  /\ worker' \in [Session!Seeded -> Session!Workers] /\ OvertakenGrows
  /\ \A n \in Session!Seeded :
       worker'[n].by = worker[n].by \/ worker'[n].by = 0 \/ ~OnRecord(worker'[n].by)

(* Of the attempts only i moves.                                            *)
OnlyMoves(i) ==
  /\ UNCHANGED <<kind, home, seed>>
  /\ req' \in [Session!Attempts -> Session!Points] /\ ok' \in [Session!Attempts -> Session!Outcomes]
  /\ grant' \in [Session!Attempts -> Session!Grants] /\ redeemed' \in [Session!Attempts -> Nat]
  /\ \A j \in Session!Attempts \ {i} :
       req'[j] = req[j] /\ ok'[j] = ok[j] /\ grant'[j] = grant[j] /\ redeemed'[j] = redeemed[j]
  /\ OnRecord(i) => OnRecord(i)'
  /\ req[i] # "new" /\ req'[i] # "new"

LEMMA OthersStand ==
  ASSUME SessionInv, NEW i \in Session!Attempts, OnlyMoves(i), WorkersMove,
         UNCHANGED <<cur, foreign, released>>, NEW j \in Session!Attempts, j # i
  PROVE  AttemptStands(j)'
<1>1. AttemptStands(j) /\ req'[j] = req[j] /\ ok'[j] = ok[j] /\ UNCHANGED <<kind, seed, home>>
  BY DEF SessionInv, OnlyMoves
<1>2. ActsOn(j)' /\ HasReached(j)'
  BY <1>1 DEF SessionInv, OnlyMoves, AttemptStands, ActsOn, OnRecord, Removes, HasReached
<1>3. req[j] # "new" => Session!Target(j) \in Session!Seeded
  BY AttemptFacts
<1>4. IsGone(j)' /\ IsOurs(j)'
  BY <1>1, <1>3 DEF AttemptStands, ActsOn, OnRecord, Removes, Session!Target, IsGone, IsOurs,
    WorkersMove, OvertakenGrows, Session!Attempts, Session!Removing
<1> QED BY <1>2, <1>4 DEF AttemptStands

LEMMA WorkMoves ==
  ASSUME SessionInv, NEW i \in Session!Attempts, OnlyMoves(i), WorkersMove,
         UNCHANGED <<sess, cur, dead, cookie, expired, foreign, hands, released, seeds>>,
         req[i] \notin {"consent"}, ok'[i] = "recorded" => ok[i] = "recorded", AttemptStands(i)'
  PROVE  SessionInv'
<1>1. SessionTypes'
  BY DEF SessionInv, SessionTypes, OnlyMoves, WorkersMove, OvertakenGrows
<1>2. CookieStands'
  <2>1. cookie # 0 => cookie \in Session!Attempts
    BY SessionIsOne DEF SessionInv, SessionTypes, Session!Attempts
  <2>2. \A h \in hands : h[1] \in Session!Attempts
    BY SessionFacts DEF Session!Polls
  <2> QED BY <2>1, <2>2 DEF SessionInv, CookieStands, OnlyMoves
<1>3. ASSUME NEW s \in Session!Sessions PROVE SessionStands(s)'
  <2>1. SessionStands(s) /\ sess[s] \in Session!SessionRecord
    BY <1>3, SessionFacts DEF SessionInv
  <2>2. /\ sess[s].att # 0 => sess[s].att \in Session!Attempts
        /\ sess[s].prov # 0 => sess[s].prov \in Session!Attempts
    BY <2>1, SessionIsOne DEF Session!SessionRecord, Session!Attempts
  <2>3. \A j \in Session!Attempts : (OnRecord(j))' <=> OnRecord(j)
    BY DEF OnlyMoves, OnRecord
  <2>4. ApprovalStands(s)'
    BY <2>1, <2>2, <2>3 DEF SessionStands, ApprovalStands, OnlyMoves, OnRecord, Removes
  <2>5. Session!PhaseInvariantsHold(sess[s])'
    BY <2>1 DEF SessionStands, Session!PhaseInvariantsHold, OnlyMoves
  <2> QED BY <2>1, <2>2, <2>3, <2>4, <2>5 DEF SessionStands, OnlyMoves, OnRecord
<1>4. \A j \in Session!Attempts : AttemptStands(j)'
  BY OthersStand
<1> QED BY <1>1, <1>2, <1>3, <1>4 DEF SessionInv

Builds == {"account", "create", "upload", "expose"}
Tears  == {"verify", "retire", "delete", "prove"}

LEMMA SealedSeed ==
  ASSUME SessionInv, NEW i \in Session!Attempts, Removes(i) PROVE seed[i] # i /\ seed[i] \in Session!Attempts
BY DEF SessionInv, AttemptStands, ActsOn, HasReached

(* What follows an answer: the next point of the work, or its end.          *)
LEMMA GoodMoves ==
  ASSUME SessionInv, NEW i \in Session!Attempts, req[i] \in Builds \cup Tears,
         NEW to \in Builds \cup Tears \cup {"revoke"}, Session!Good(i, to)
  PROVE  /\ OnlyMoves(i) /\ UNCHANGED <<sess, cur, dead, cookie, expired, hands, released, seeds>>
         /\ UNCHANGED <<ok, grant, redeemed>> /\ req'[i] = to
BY DEF SessionInv, SessionTypes, Session!Good, Session!Step, OnlyMoves, Session!object, Session!client,
       Builds, Tears, Session!Points, OnRecord

LEMMA EndMoves ==
  ASSUME SessionInv, NEW i \in Session!Attempts, req[i] \in Builds \cup Tears,
         Session!Bad(i) \/ Session!Refuse(i)
  PROVE  /\ OnlyMoves(i) /\ UNCHANGED <<sess, cur, dead, cookie, expired, hands, released, seeds>>
         /\ UNCHANGED <<grant, redeemed>> /\ req'[i] = "revoke" /\ ok'[i] \in {"fault", "refused"}
<1>1. ok[i] = "yes" /\ SessionTypes
  BY DEF SessionInv, AttemptStands, HasReached, Builds, Tears
<1>2. PICK o \in {"fault", "refused"} : Session!Step(i, "revoke") /\ ok' = [ok EXCEPT ![i] = o]
  BY DEF Session!Bad, Session!Refuse
<1> QED
  BY <1>1, <1>2
  DEF SessionTypes, Session!Step, OnlyMoves, Session!object, Session!client,
      Builds, Tears, Session!Points, Session!Outcomes, OnRecord

LEMMA GoodHolds ==
  ASSUME SessionInv, NEW i \in Session!Attempts, req[i] \in Builds \cup Tears,
         NEW to \in Builds \cup Tears \cup {"revoke"}, Session!Good(i, to), WorkersMove, foreign' = foreign,
         to \in Builds => ~Removes(i), to \in Tears => Removes(i),
         to = "revoke" /\ Removes(i) => worker'[Session!Target(i)].by # seed[i],
         to \in {"retire", "delete"} =>
           \/ ~foreign /\ worker'[Session!Target(i)].code # "other"
           \/ \E k \in 0..MaxAttempts : <<i, k>> \in overtaken'
  PROVE  SessionInv'
BY GoodMoves, WorkMoves DEF SessionInv, AttemptStands, ActsOn, OnlyMoves, Removes, OnRecord, Builds,
  Tears, HasReached, Session!Target, IsGone, IsOurs, Session!Removing

LEMMA EndHolds ==
  ASSUME SessionInv, NEW i \in Session!Attempts, req[i] \in Builds \cup Tears,
         Session!Bad(i) \/ Session!Refuse(i), WorkersMove, foreign' = foreign
  PROVE  SessionInv'
<1>1. AttemptStands(i) /\ SessionTypes /\ req[i] \notin {"new", "consent", "exchange"}
  BY DEF SessionInv, Builds, Tears
<1>2. /\ OnlyMoves(i) /\ UNCHANGED <<sess, cur, dead, cookie, expired, hands, released, seeds>>
      /\ UNCHANGED <<grant, redeemed>> /\ req'[i] = "revoke" /\ ok'[i] \in {"fault", "refused"}
  BY EndMoves
<1>3. ActsOn(i)'
  BY <1>1, <1>2, SealedSeed DEF AttemptStands, ActsOn, OnlyMoves, OnRecord, Removes
<1>4. HasReached(i)'
  BY <1>1, <1>2 DEF AttemptStands, HasReached, OnlyMoves, OnRecord, Removes, Builds, Tears
<1>5. IsGone(i)' /\ IsOurs(i)'
  BY <1>2 DEF IsGone, IsOurs, Session!Removing
<1>6. AttemptStands(i)' /\ ~(ok'[i] = "recorded")
  BY <1>2, <1>3, <1>4, <1>5 DEF AttemptStands
<1> QED BY <1>1, <1>2, <1>6, WorkMoves

LEMMA WorkersRest == ASSUME SessionInv, UNCHANGED <<worker, overtaken>> PROVE WorkersMove /\ OwnersMove
BY DEF SessionInv, SessionTypes, WorkersMove, OwnersMove, OvertakenGrows

LEMMA PutMoves ==
  ASSUME SessionInv, NEW n \in Session!Seeded, NEW w \in Session!Workers,
         worker' = [worker EXCEPT ![n] = w], OvertakenGrows,
         w.by = worker[n].by \/ w.by = 0 \/ ~OnRecord(w.by), w.code = "other" => worker[n].code = "other"
  PROVE  WorkersMove /\ worker'[n] = w
BY DEF SessionInv, SessionTypes, WorkersMove

LEMMA PutsMove ==
  ASSUME SessionInv, NEW n \in Session!Seeded, NEW w \in Session!Workers, Session!Put(n, w),
         w.by = worker[n].by \/ w.by = 0 \/ ~OnRecord(w.by), w.code = "other" => worker[n].code = "other"
  PROVE  WorkersMove /\ foreign' = foreign /\ worker'[n] = w
BY PutMoves DEF Session!Put, OvertakenGrows, SessionInv, SessionTypes

LEMMA AtWork ==
  ASSUME SessionInv, NEW i \in Session!Attempts, req[i] \in Builds \cup Tears
  PROVE  /\ Session!Target(i) \in Session!Seeded
         /\ worker[Session!Target(i)] \in Session!Workers /\ ok[i] = "yes" /\ ~OnRecord(i)
         /\ req[i] \in Builds => ~Removes(i) /\ Session!Target(i) = seed[i]
         /\ req[i] \in Tears => Removes(i)
BY AttemptFacts DEF SessionInv, Builds, Tears, AttemptStands, HasReached, SessionTypes, OnRecord,
  Session!Target, Removes

LEMMA AccountHolds ==
  ASSUME SessionInv, NEW i \in Session!Attempts, Session!Account(i)
  PROVE  SessionInv' /\ WorkersMove
BY AtWork, WorkersRest, GoodHolds, EndHolds DEF Session!Account, Builds, Tears

LEMMA EnsureHolds ==
  ASSUME SessionInv, NEW i \in Session!Attempts, Session!EnsureWorker(i)
  PROVE  SessionInv' /\ WorkersMove
<1>1. req[i] \in Builds \cup Tears /\ ~Removes(i) /\ ~OnRecord(i) /\ seed[i] \in Session!Seeded
  BY AtWork DEF Session!EnsureWorker, Builds
<1> DEFINE fresh == [Session!NoWorker EXCEPT !.by = i]
<1>2. fresh \in Session!Workers /\ fresh.by = i /\ fresh.code = "none"
  <2>1. i \in 0..MaxAttempts
    BY SessionIsOne DEF Session!Attempts
  <2> QED BY <2>1, SessionRecords DEF Session!NoWorker, Session!Workers
<1>3. WorkersMove /\ foreign' = foreign
  <2>1. CASE /\ worker' = [worker EXCEPT ![seed[i]] = fresh] /\ UNCHANGED foreign
             /\ Session!Overtakes(i, {j \in Session!Attempts : Session!Removing(j) /\ Session!Target(j) = seed[i]})
    <3> HIDE DEF fresh
    <3>1. OvertakenGrows
      BY <1>2, <2>1 DEF Session!Overtakes, OvertakenGrows, SessionInv, SessionTypes, Session!Workers
    <3> QED BY <1>1, <1>2, <2>1, <3>1, PutMoves
  <2>2. CASE UNCHANGED Session!cloud
    BY <2>2, WorkersRest DEF Session!cloud
  <2> QED BY <2>1, <2>2 DEF Session!EnsureWorker
<1>4. CASE Session!Good(i, "upload")
  BY <1>1, <1>3, <1>4, GoodHolds DEF Builds, Tears
<1>5. CASE Session!Bad(i) \/ Session!Refuse(i)
  BY <1>1, <1>3, <1>5, EndHolds
<1> QED BY <1>3, <1>4, <1>5 DEF Session!EnsureWorker

LEMMA FirstUploadHolds ==
  ASSUME SessionInv, NEW i \in Session!Attempts, Session!Upload(i)
  PROVE  SessionInv' /\ WorkersMove
<1>1. /\ req[i] \in Builds \cup Tears /\ ~Removes(i) /\ ~OnRecord(i) /\ seed[i] \in Session!Seeded
      /\ worker[seed[i]] \in Session!Workers
  BY AtWork DEF Session!Upload, Builds
<1> DEFINE w == Session!Shell(worker[seed[i]])
<1>2. w \in Session!Workers /\ w.by = worker[seed[i]].by /\ w.code = "shell"
  BY <1>1 DEF Session!Shell, Session!Workers
<1>3. WorkersMove /\ foreign' = foreign
  <2>1. CASE Session!Put(seed[i], w)
    <3> HIDE DEF w
    <3> QED BY <1>1, <1>2, <2>1, PutsMove
  <2>2. CASE UNCHANGED Session!cloud
    BY <2>2, WorkersRest DEF Session!cloud
  <2> QED BY <2>1, <2>2 DEF Session!Upload
<1>4. CASE Session!Good(i, "expose")
  BY <1>1, <1>3, <1>4, GoodHolds DEF Builds, Tears
<1>5. CASE Session!Bad(i) \/ Session!Refuse(i)
  BY <1>1, <1>3, <1>5, EndHolds
<1> QED BY <1>3, <1>4, <1>5 DEF Session!Upload

LEMMA ExposeHolds ==
  ASSUME SessionInv, NEW i \in Session!Attempts, Session!Expose(i)
  PROVE  SessionInv' /\ WorkersMove
<1>1. /\ req[i] \in Builds \cup Tears /\ ~Removes(i) /\ ~OnRecord(i) /\ seed[i] \in Session!Seeded
      /\ worker[seed[i]] \in Session!Workers
  BY AtWork DEF Session!Expose, Builds
<1> DEFINE w == [worker[seed[i]] EXCEPT !.dev = TRUE]
<1>2. w \in Session!Workers /\ w.by = worker[seed[i]].by /\ w.code = worker[seed[i]].code
  BY <1>1 DEF Session!Workers
<1>3. WorkersMove /\ foreign' = foreign
  <2>1. CASE Session!Put(seed[i], w)
    <3> HIDE DEF w
    <3> QED BY <1>1, <1>2, <2>1, PutsMove
  <2>2. CASE UNCHANGED Session!cloud
    BY <2>2, WorkersRest DEF Session!cloud
  <2> QED BY <2>1, <2>2 DEF Session!Expose
<1>4. CASE Session!Good(i, "revoke")
  BY <1>1, <1>3, <1>4, GoodHolds DEF Builds, Tears
<1>5. CASE Session!Bad(i) \/ Session!Refuse(i)
  BY <1>1, <1>3, <1>5, EndHolds
<1> QED BY <1>3, <1>4, <1>5 DEF Session!Expose

LEMMA VerifyRemovalHolds ==
  ASSUME SessionInv, NEW i \in Session!Attempts, Session!Verify(i)
  PROVE  SessionInv' /\ WorkersMove
BY AtWork, WorkersRest, GoodHolds, EndHolds DEF Session!Verify, Tears, Session!cloud, Builds,
  Session!Unshared

LEMMA RetireHolds ==
  ASSUME SessionInv, NEW i \in Session!Attempts, Session!Retire(i)
  PROVE  SessionInv' /\ WorkersMove
<1> DEFINE n == Session!Target(i)
           off == [worker[n] EXCEPT !.dev = FALSE]
           retired == [worker[n] EXCEPT !.dev = FALSE, !.code = "retired", !.ns = FALSE]
<1>1. /\ req[i] \in Builds \cup Tears /\ Removes(i) /\ n \in Session!Seeded /\ worker[n] \in Session!Workers
      /\ IsOurs(i) /\ req[i] = "retire"
  BY AtWork DEF Session!Retire, Tears, SessionInv, AttemptStands
<1>2. FALSE \in BOOLEAN
  OBVIOUS
<1>3. /\ off \in Session!Workers /\ off.by = worker[n].by /\ off.code = worker[n].code
      /\ retired \in Session!Workers /\ retired.by = worker[n].by /\ retired.code = "retired"
  BY <1>1, <1>2 DEF Session!Workers
<1>4. PICK w \in Session!Workers : w = off
  BY <1>3
<1>5. PICK x \in Session!Workers : x = retired
  BY <1>3
<1>6. CASE Session!Put(n, w) /\ Session!Bad(i)
  BY <1>1, <1>3, <1>4, <1>6, PutsMove, EndHolds
<1>7. CASE Session!Put(n, x)
  BY <1>1, <1>3, <1>5, <1>7, PutsMove, GoodHolds, EndHolds DEF Session!Put, IsOurs,
    Session!Removing, Builds, Tears, Session!Retire
<1>8. CASE UNCHANGED Session!cloud /\ (Session!Bad(i) \/ Session!Refuse(i))
  BY <1>1, <1>8, WorkersRest, EndHolds DEF Session!cloud
<1> QED BY <1>4, <1>5, <1>6, <1>7, <1>8 DEF Session!Retire

LEMMA DeleteHolds ==
  ASSUME SessionInv, NEW i \in Session!Attempts, Session!Delete(i)
  PROVE  SessionInv' /\ WorkersMove
<1> DEFINE n == Session!Target(i)
           leaving == [worker[n] EXCEPT !.going = TRUE]
<1>1. /\ req[i] \in Builds \cup Tears /\ Removes(i) /\ n \in Session!Seeded /\ worker[n] \in Session!Workers
  BY AtWork DEF Session!Delete, Tears
<1>2. TRUE \in BOOLEAN
  OBVIOUS
<1>3. /\ leaving \in Session!Workers /\ leaving.by = worker[n].by /\ leaving.code = worker[n].code
  BY <1>1, <1>2 DEF Session!Workers
<1>4. PICK w \in Session!Workers : w = leaving
  BY <1>3
<1>5. WorkersMove /\ foreign' = foreign
  BY <1>1, <1>3, <1>4, PutsMove, SessionRecords, WorkersRest DEF Session!NoWorker, Session!cloud,
    Session!Delete
<1>6. CASE Session!Good(i, "prove")
  BY <1>1, <1>5, <1>6, GoodHolds DEF Builds, Tears
<1>7. CASE Session!Bad(i) \/ Session!Refuse(i)
  BY <1>1, <1>5, <1>7, EndHolds
<1> QED BY <1>5, <1>6, <1>7 DEF Session!Delete

LEMMA ProveHolds ==
  ASSUME SessionInv, NEW i \in Session!Attempts, Session!Prove(i)
  PROVE  SessionInv' /\ WorkersMove
BY AtWork, WorkersRest, SealedSeed, GoodHolds, EndHolds DEF Session!Prove, Tears, Session!cloud,
  Session!Attempts, Builds, Session!Proven

LEMMA SessionExchangeHolds ==
  ASSUME SessionInv, NEW i \in Session!Attempts, Session!Exchange(i) PROVE SessionInv'
<1>1. AttemptStands(i) /\ SessionTypes /\ req[i] = "exchange" /\ ok[i] = "yes"
  BY DEF SessionInv, AttemptStands, HasReached, Session!Exchange
<1>2. /\ UNCHANGED <<sess, cur, dead, cookie, expired, hands, released, seeds, foreign, overtaken, worker>>
      /\ UNCHANGED <<kind, home, seed>>
  BY DEF Session!Exchange, Session!object, Session!client, Session!cloud
<1>3. redeemed' = [redeemed EXCEPT ![i] = @ + 1] /\ redeemed'[i] = 1
  BY <1>1 DEF Session!Exchange, AttemptStands, HasReached, SessionTypes
<1>4. PICK to \in {"verify", "account", "fail"}, o \in {"yes", "fault"}, g \in Session!Grants :
        /\ req' = [req EXCEPT ![i] = to] /\ ok' = [ok EXCEPT ![i] = o]
        /\ grant' = [grant EXCEPT ![i] = g]
        /\ to = "verify" => Removes(i)
        /\ to = "account" => ~Removes(i)
        /\ o = "fault" => to = "fail"
  BY <1>1 DEF SessionTypes, Session!Grants, Removes, Session!Exchange
<1>5. OnlyMoves(i) /\ req'[i] = to /\ ok'[i] = o
  BY <1>1, <1>2, <1>3, <1>4
  DEF SessionTypes, OnlyMoves, Session!Points, Session!Outcomes, OnRecord
<1>6. ActsOn(i)'
  BY <1>1, <1>5, SealedSeed, <1>2 DEF AttemptStands, ActsOn, OnlyMoves, OnRecord, Removes
<1>7. HasReached(i)'
  BY <1>1, <1>2, <1>3, <1>4, <1>5 DEF AttemptStands, HasReached, OnlyMoves, Removes, OnRecord
<1>8. IsGone(i)' /\ IsOurs(i)'
  BY <1>4, <1>5 DEF IsGone, IsOurs, Session!Removing
<1>9. AttemptStands(i)' /\ WorkersMove
  BY <1>2, <1>6, <1>7, <1>8, WorkersRest DEF AttemptStands
<1>10. req[i] # "consent" /\ ~(ok'[i] = "recorded")
  BY <1>1, <1>5, <1>4
<1> QED BY <1>2, <1>5, <1>9, <1>10, WorkMoves

LEMMA SessionRevokeHolds ==
  ASSUME SessionInv, NEW i \in Session!Attempts, Session!Revoke(i) PROVE SessionInv'
<1>1. AttemptStands(i) /\ SessionTypes /\ req[i] = "revoke" /\ ~OnRecord(i)
  BY DEF SessionInv, AttemptStands, HasReached, Session!Revoke
<1>2. /\ UNCHANGED <<sess, cur, dead, cookie, expired, hands, released, seeds, foreign, overtaken, worker>>
      /\ UNCHANGED <<kind, home, seed, redeemed>>
  BY DEF Session!Revoke, Session!object, Session!client, Session!cloud
<1>4. PICK to \in {"fail", "complete", "record"}, o \in Session!Outcomes, g \in Session!Grants :
        /\ req' = [req EXCEPT ![i] = to] /\ ok' = [ok EXCEPT ![i] = o]
        /\ grant' = [grant EXCEPT ![i] = g]
        /\ to = "complete" => Removes(i) /\ ok[i] = "yes"
        /\ to = "record" => ~Removes(i)
        /\ to # "fail" => o = "yes" /\ g = "revoked"
        /\ o # "recorded"
  <2>1. CASE /\ grant' = [grant EXCEPT ![i] = "revoked"] /\ UNCHANGED ok
             /\ req' = [req EXCEPT ![i] = IF ok[i] # "yes" THEN "fail"
                                          ELSE IF kind[i] = "cleanup" THEN "complete" ELSE "record"]
    <3>1. ok' = [ok EXCEPT ![i] = ok[i]] /\ "revoked" \in Session!Grants /\ ok[i] \in Session!Outcomes
      BY <1>1, <2>1 DEF SessionTypes, Session!Grants
    <3>2. CASE ok[i] # "yes"
      BY <1>1, <2>1, <3>1, <3>2 DEF OnRecord
    <3>3. CASE ok[i] = "yes" /\ Removes(i)
      BY <1>1, <2>1, <3>1, <3>3 DEF Removes
    <3>4. CASE ok[i] = "yes" /\ ~Removes(i)
      BY <1>1, <2>1, <3>1, <3>4 DEF Removes
    <3> QED BY <3>2, <3>3, <3>4
  <2>2. CASE /\ grant' = [grant EXCEPT ![i] = "lost"] /\ req' = [req EXCEPT ![i] = "fail"]
             /\ ok' = [ok EXCEPT ![i] = IF @ = "yes" THEN "fault" ELSE @]
    <3>1. PICK o \in Session!Outcomes : o = IF ok[i] = "yes" THEN "fault" ELSE ok[i]
      BY <1>1 DEF SessionTypes, Session!Outcomes
    <3>2. ok' = [ok EXCEPT ![i] = o] /\ o # "recorded" /\ "lost" \in Session!Grants
      BY <1>1, <2>2, <3>1 DEF SessionTypes, OnRecord, Session!Grants
    <3> QED BY <2>2, <3>1, <3>2
  <2> QED BY <2>1, <2>2 DEF Session!Revoke
<1>5. OnlyMoves(i) /\ req'[i] = to /\ ok'[i] = o /\ grant'[i] = g
  BY <1>1, <1>2, <1>4
  DEF SessionTypes, OnlyMoves, Session!Points, OnRecord
<1>6. ActsOn(i)'
  BY <1>1, <1>5, SealedSeed, <1>2 DEF AttemptStands, ActsOn, OnlyMoves, OnRecord, Removes
<1>7. HasReached(i)'
  BY <1>1, <1>2, <1>4, <1>5 DEF AttemptStands, HasReached, OnlyMoves, Removes, OnRecord
<1>8. IsGone(i)' /\ IsOurs(i)'
  BY <1>2, <1>1, <1>4, <1>5 DEF Session!Target, AttemptStands, IsGone, IsOurs, Session!Removing, Removes
<1>9. AttemptStands(i)' /\ WorkersMove
  BY <1>2, <1>6, <1>7, <1>8, WorkersRest DEF AttemptStands
<1>10. req[i] # "consent" /\ ~(ok'[i] = "recorded")
  BY <1>1, <1>5, <1>4
<1> QED BY <1>2, <1>5, <1>9, <1>10, WorkMoves

LEMMA OutsideMoves ==
  ASSUME SessionInv, UNCHANGED <<sess, cur, dead, cookie, expired, hands, released, seeds>>,
         UNCHANGED <<kind, home, seed, req, ok, grant, redeemed>>, foreign' \in BOOLEAN, OvertakenGrows,
         worker' \in [Session!Seeded -> Session!Workers],
         \A n \in Session!Seeded : worker'[n].by \in {0, worker[n].by},
         \A i \in Session!Attempts : Session!Removing(i) => IsOurs(i)'
  PROVE  SessionInv'
<1>1. SessionTypes' /\ CookieStands'
  BY DEF SessionTypes, SessionInv, CookieStands, OvertakenGrows
<1>2. \A s \in Session!Sessions : SessionStands(s)'
  BY SessionsRest
<1>3. ASSUME NEW i \in Session!Attempts PROVE AttemptStands(i)'
  BY AttemptFacts DEF SessionInv, AttemptStands, ActsOn, HasReached, OnRecord, Removes,
    Session!Target, IsGone, Session!Attempts, IsOurs, Session!Removing
<1> QED BY <1>1, <1>2, <1>3 DEF SessionInv

LEMMA VanishHolds ==
  ASSUME SessionInv, NEW n \in Session!Seeded, Session!Vanish(n) \/ Session!Alter(n) PROVE SessionInv'
<1>1. /\ UNCHANGED <<sess, cur, dead, cookie, expired, hands, released, seeds, foreign>>
      /\ UNCHANGED <<kind, home, seed, req, ok, grant, redeemed>>
  BY DEF Session!Vanish, Session!Alter, Session!object, Session!client, Session!call, Session!Put
<1>2. SessionTypes /\ worker[n] \in Session!Workers
  BY DEF SessionInv, SessionTypes
<1>3. CASE Session!Vanish(n)
  <2>1. PICK w \in Session!Workers : worker' = [worker EXCEPT ![n] = w] /\ w.by = 0 /\ w.code = "none"
    BY SessionRecords, <1>3 DEF Session!NoWorker, Session!Vanish, Session!Put
  <2>2. /\ worker' \in [Session!Seeded -> Session!Workers] /\ OvertakenGrows /\ overtaken' = overtaken
        /\ \A m \in Session!Seeded : worker'[m].by \in {0, worker[m].by}
        /\ \A m \in Session!Seeded : worker'[m].code = "other" => worker[m].code = "other"
    BY <1>2, <1>3, <2>1 DEF SessionTypes, Session!Vanish, Session!Put, OvertakenGrows
  <2>3. ASSUME NEW i \in Session!Attempts, Session!Removing(i) PROVE IsOurs(i)'
    BY <1>1, <2>3, AttemptFacts, <2>2 DEF Session!Target, Session!Removing, SessionInv,
      AttemptStands, IsOurs
  <2> QED BY <1>1, <1>2, <2>2, <2>3, OutsideMoves DEF SessionTypes
<1>4. CASE Session!Alter(n)
  <2>1. PICK w \in Session!Workers : worker' = [worker EXCEPT ![n] = w] /\ w.by = worker[n].by
    <3>1. [worker[n] EXCEPT !.code = "other"] \in Session!Workers
      BY <1>2 DEF Session!Workers
    <3>2. [worker[n] EXCEPT !.code = "other"].by = worker[n].by
      BY <1>2 DEF Session!Workers
    <3> QED BY <1>4, <3>1, <3>2 DEF Session!Alter
  <2>2. 0 \in 0..MaxAttempts
    BY SessionIsOne
  <2>3. /\ worker' \in [Session!Seeded -> Session!Workers] /\ OvertakenGrows
        /\ \A m \in Session!Seeded : worker'[m].by \in {0, worker[m].by}
        /\ \A m \in Session!Seeded : m # n => worker'[m] = worker[m]
    BY <1>2, <1>4, <2>1, <2>2 DEF SessionTypes, Session!Alter, Session!Overtakes, OvertakenGrows
  <2>4. ASSUME NEW i \in Session!Attempts, Session!Removing(i) PROVE IsOurs(i)'
    <3>1. Session!Target(i)' = Session!Target(i) /\ Session!Target(i) \in Session!Seeded /\ IsOurs(i)
      BY <1>1, <2>4, AttemptFacts DEF Session!Target, Session!Removing, SessionInv, AttemptStands
    <3>2. CASE Session!Target(i) = n
      BY <1>4, <2>4, <3>2, <2>2 DEF Session!Alter, Session!Overtakes, IsOurs, Session!Removing
    <3>3. CASE Session!Target(i) # n
      BY <1>1, <2>3, <2>4, <3>1, <3>3 DEF IsOurs, Session!Removing, OvertakenGrows
    <3> QED BY <3>2, <3>3
  <2> QED BY <1>1, <1>2, <2>3, <2>4, OutsideMoves DEF SessionTypes
<1> QED BY <1>3, <1>4

LEMMA BindHolds == ASSUME SessionInv, Session!Bind PROVE SessionInv' /\ OwnersMove
BY SessionIsOne, OutsideMoves DEF Session!Bind, Session!object, Session!client, Session!call,
  SessionInv, SessionTypes, Session!Overtakes, OvertakenGrows, IsOurs, Session!Removing, OwnersMove

LEMMA BothMove ==
  ASSUME SessionInv, NEW i \in Session!Attempts, NEW s \in Session!Sessions, NEW r \in Session!SessionRecord,
         sess' = [sess EXCEPT ![s] = r], s <= cur, cur' = cur, UNCHANGED <<worker, foreign, overtaken, seeds, released>>,
         OnlyMoves(i), SessionStands(s)', AttemptStands(i)',
         cookie' \in {0, cookie}, hands' = hands, dead' \subseteq Session!Sessions, expired' = expired,
         \A u \in Session!Sessions \ {s} : sess[u].att # i
  PROVE  SessionInv'
<1>1. SessionTypes
  BY DEF SessionInv
<1>2. SessionTypes'
  BY <1>1, SessionIsOne DEF SessionTypes, OnlyMoves
<1>3. CookieStands'
  <2>1. cookie # 0 => cookie \in Session!Attempts
    BY <1>1, SessionIsOne DEF SessionTypes, Session!Attempts
  <2>2. \A h \in hands : h[1] \in Session!Attempts
    BY SessionFacts DEF Session!Polls
  <2> QED BY <2>1, <2>2 DEF SessionInv, CookieStands, OnlyMoves
<1>4. WorkersMove
  BY WorkersRest
<1>5. \A j \in Session!Attempts : AttemptStands(j)'
  BY <1>4, OthersStand
<1>6. ASSUME NEW u \in Session!Sessions, u # s PROVE SessionStands(u)'
  <2>1. SessionStands(u) /\ sess[u] \in Session!SessionRecord /\ sess'[u] = sess[u]
    BY <1>1, <1>6 DEF SessionInv, SessionTypes
  <2>2. /\ sess[u].att # 0 => sess[u].att \in Session!Attempts \ {i}
        /\ sess[u].prov # 0 => sess[u].prov \in Session!Attempts
    BY <1>6, <2>1, SessionIsOne DEF Session!SessionRecord, Session!Attempts
  <2>3. /\ \A j \in Session!Attempts : OnRecord(j) => (OnRecord(j))'
        /\ \A j \in Session!Attempts \ {i} : (OnRecord(j))' <=> OnRecord(j)
    BY DEF OnlyMoves, OnRecord
  <2>4. ApprovalStands(u)'
    BY <2>1, <2>2, <2>3 DEF SessionStands, ApprovalStands, OnlyMoves, OnRecord, Removes
  <2>5. Session!PhaseInvariantsHold(sess[u])'
    BY <2>1 DEF SessionStands, Session!PhaseInvariantsHold, OnlyMoves
  <2> QED BY <2>1, <2>2, <2>3, <2>4, <2>5 DEF SessionStands, OnlyMoves, OnRecord
<1> QED BY <1>2, <1>3, <1>5, <1>6 DEF SessionInv

(* An approval belongs to one session.                                      *)
LEMMA OneApproval ==
  ASSUME SessionInv, NEW i \in Session!Attempts, NEW u \in Session!Sessions, sess[u].att = i
  PROVE  home[i] = u /\ req[i] # "new" /\ ~OnRecord(i)
BY DEF SessionInv, SessionStands, ApprovalStands, Session!Attempts

LEMMA CallbackHolds ==
  ASSUME SessionInv, NEW i \in Session!Attempts, Session!Callback(i) PROVE SessionInv'
<1> DEFINE r == [sess[cur] EXCEPT !.status = "exchanging"]
<1>1. /\ home[i] = cur /\ sess[cur].att = i /\ sess[cur].status = "authorizing"
  BY DEF Session!Callback, Session!Matches, Session!Claimable
<1>2. /\ SessionTypes /\ AttemptStands(i) /\ SessionStands(cur) /\ cur \in Session!Sessions
      /\ sess[cur] \in Session!SessionRecord /\ cur <= cur
  BY SessionFacts DEF SessionInv, SessionTypes
<1>3. req[i] = "consent" /\ i # 0 /\ ok[i] = "yes"
  BY <1>1, <1>2 DEF SessionStands, ApprovalStands, Session!Attempts, AttemptStands, HasReached
<1>4. sess' = [sess EXCEPT ![cur] = r] /\ r \in Session!SessionRecord
  BY <1>2 DEF Session!Callback, Session!Set, Session!SessionRecord
<1>5. /\ UNCHANGED <<worker, foreign, overtaken, seeds, released, cur, cookie, hands, dead, expired>>
      /\ UNCHANGED <<kind, home, seed, grant, redeemed>>
  BY DEF Session!Callback, Session!client, Session!cloud
<1>6. PICK at \in {"exchange", "fail"}, o \in {"yes", "fault"} :
        /\ req' = [req EXCEPT ![i] = at] /\ ok' = [ok EXCEPT ![i] = o]
        /\ at = "exchange" => o = "yes"
  BY <1>3 DEF Session!Callback
<1>7. OnlyMoves(i) /\ req'[i] = at /\ ok'[i] = o
  BY <1>2, <1>3, <1>5, <1>6 DEF SessionTypes, OnlyMoves, Session!Points, Session!Outcomes, OnRecord
<1>8. AttemptStands(i)'
  BY <1>2, <1>7, SealedSeed, <1>3, <1>5, <1>6 DEF AttemptStands, ActsOn, OnlyMoves, OnRecord,
    Removes, HasReached, IsGone, IsOurs, Session!Removing
<1>9. SessionStands(cur)'
  <2>1. sess'[cur] = r
    BY <1>2, <1>4 DEF SessionTypes
  <2>2. /\ r.att = i /\ r.phase = sess[cur].phase /\ r.prov = sess[cur].prov /\ r.plan = sess[cur].plan
        /\ r.status = "exchanging"
    BY <1>1, <1>2 DEF Session!SessionRecord
  <2> HIDE DEF r
  <2>3. Session!PhaseInvariantsHold(sess[cur])'
    BY <1>1, <1>2, <1>5, <2>1, <2>2 DEF SessionStands, Session!PhaseInvariantsHold
  <2>4. ApprovalStands(cur)'
    BY <1>1, <1>2, <1>3, <1>5, <1>6, <1>7, <2>1, <2>2 DEF SessionStands, ApprovalStands, OnRecord, Removes
  <2>5. (sess[cur].prov # 0 => home[sess[cur].prov] = cur /\ OnRecord(sess[cur].prov))'
    BY <1>2, SessionIsOne, <1>5, <1>7, <2>1, <2>2 DEF Session!SessionRecord, Session!Attempts,
      SessionStands, OnRecord, OnlyMoves
  <2> QED BY <1>2, <1>5, <2>1, <2>3, <2>4, <2>5, SessionFacts DEF SessionStands
<1>10. \A u \in Session!Sessions \ {cur} : sess[u].att # i
  BY <1>1, OneApproval
<1> HIDE DEF r
<1> QED BY <1>1, <1>2, <1>4, <1>5, <1>7, <1>8, <1>9, <1>10, BothMove, SessionFacts

(* The session of an attempt that ends keeps its record.                    *)
LEMMA RecordStays ==
  ASSUME SessionInv, NEW i \in Session!Attempts, req[i] \notin {"new", "consent"}, OnlyMoves(i),
         UNCHANGED <<sess, cur>>, OnRecord(i) <=> (OnRecord(i))'
  PROVE  SessionStands(home[i])'
<1>1. PICK s \in Session!Sessions :
        s = home[i] /\ SessionStands(s) /\ sess[s] \in Session!SessionRecord /\ home' = home
  BY AttemptFacts DEF OnlyMoves
<1>2. /\ sess[s].att # 0 => sess[s].att \in Session!Attempts
      /\ sess[s].prov # 0 => sess[s].prov \in Session!Attempts
  BY <1>1, SessionIsOne DEF Session!SessionRecord, Session!Attempts
<1>3. \A j \in Session!Attempts : (OnRecord(j))' <=> OnRecord(j)
  BY DEF OnlyMoves, OnRecord
<1>4. SessionStands(s)'
  BY <1>1, <1>2, <1>3 DEF SessionStands, ApprovalStands, OnlyMoves, OnRecord, Removes,
    Session!PhaseInvariantsHold
<1> QED BY <1>1, <1>4

LEMMA FailAttemptHolds ==
  ASSUME SessionInv, NEW i \in Session!Attempts, Session!FailAttempt(i) PROVE SessionInv'
<1>1. req[i] = "fail" /\ SessionTypes /\ AttemptStands(i)
  BY DEF Session!FailAttempt, SessionInv
<1>2. /\ UNCHANGED <<cur, dead, hands, released, kind, home, seed, ok, grant, redeemed, expired, worker, foreign, overtaken, seeds>>
      /\ cookie' \in {0, cookie} /\ req' = [req EXCEPT ![i] = "closed"]
  BY DEF Session!FailAttempt, Session!cloud
<1>3. OnlyMoves(i) /\ req'[i] = "closed"
  BY <1>1, <1>2 DEF SessionTypes, OnlyMoves, Session!Points, OnRecord
<1>4. AttemptStands(i)'
  BY <1>1, <1>2, <1>3 DEF AttemptStands, ActsOn, HasReached, OnRecord, Removes, IsGone, IsOurs, Session!Removing
<1>5. PICK s \in Session!Sessions : s = home[i] /\ s <= cur /\ sess[s] \in Session!SessionRecord /\ SessionStands(s)
  BY <1>1, AttemptFacts
<1>6. \A u \in Session!Sessions \ {s} : sess[u].att # i
  BY <1>5, OneApproval
<1>7. CASE sess' = sess
  BY <1>1, <1>5, <1>7, <1>2, <1>3, RecordStays, <1>4, <1>6, SessionFacts, BothMove DEF SessionTypes,
    OnRecord
<1>8. CASE sess' = [sess EXCEPT ![s] = Session!FailedSession(sess[s])] /\ sess[s].att = i
  <2> DEFINE r == Session!FailedSession(sess[s])
  <2>1. /\ r \in Session!SessionRecord /\ r.att = 0 /\ r.prov = sess[s].prov
        /\ Session!PhaseInvariantsHold(r)
    <3>1. CASE sess[s].phase = "cleanup_required"
      <4>1. r = [sess[s] EXCEPT !.att = 0, !.status = "none"]
        BY <3>1 DEF Session!FailedSession
      <4>2. 0 \in 0..MaxAttempts
        BY SessionIsOne
      <4>3. r \in Session!SessionRecord
        BY <1>5, <4>1, <4>2 DEF Session!SessionRecord
      <4>4. /\ r.phase = "cleanup_required" /\ r.att = 0 /\ r.prov = sess[s].prov
            /\ r.plan = sess[s].plan
        BY <1>5, <3>1, <4>1 DEF Session!SessionRecord
      <4> HIDE DEF r
      <4> QED
        BY <1>5, <3>1, <4>3, <4>4
        DEF SessionStands, Session!PhaseInvariantsHold, Session!SessionRecord
    <3>2. CASE sess[s].phase # "cleanup_required"
      <4>1. r = [sess[s] EXCEPT !.phase = "failed", !.att = 0, !.status = "none"]
        BY <3>2 DEF Session!FailedSession
      <4>2. sess[s].phase = "authorizing"
        BY <1>5, <1>8, <3>2 DEF SessionStands, ApprovalStands, Session!Attempts
      <4> QED
        BY <1>5, <4>1, <4>2, SessionIsOne
        DEF SessionStands, Session!PhaseInvariantsHold, Session!SessionRecord
    <3> QED BY <3>1, <3>2
  <2> HIDE DEF r
  <2>2. sess'[s] = r
    BY <1>1, <1>5, <1>8 DEF SessionTypes, r
  <2>3. SessionStands(s)'
    BY <1>2, <2>1, <2>2, <1>5, SessionFacts DEF Session!PhaseInvariantsHold, ApprovalStands,
      SessionStands, OnRecord, Session!Sessions
  <2> QED BY <1>2, <1>3, <1>4, <1>5, <1>6, <1>8, <2>1, <2>3, SessionFacts, BothMove DEF r
<1>9. sess' = sess \/ (sess' = [sess EXCEPT ![s] = Session!FailedSession(sess[s])] /\ sess[s].att = i)
  BY <1>5, <1>1 DEF Session!FailAttempt, SessionTypes
<1> QED BY <1>7, <1>8, <1>9

LEMMA RecordHolds ==
  ASSUME SessionInv, NEW i \in Session!Attempts, Session!RecordProvision(i) PROVE SessionInv'
<1>1. /\ req[i] = "record" /\ SessionTypes /\ AttemptStands(i) /\ ~Removes(i) /\ ok[i] = "yes"
      /\ grant[i] = "revoked"
  BY DEF Session!RecordProvision, SessionInv, AttemptStands, HasReached
<1>2. /\ UNCHANGED <<cur, dead, hands, released, kind, home, seed, grant, redeemed, expired, worker, foreign, overtaken, seeds>>
      /\ cookie' \in {0, cookie}
  BY DEF Session!RecordProvision, Session!cloud, Session!client
<1>5. PICK s \in Session!Sessions : s = home[i] /\ s <= cur /\ sess[s] \in Session!SessionRecord /\ SessionStands(s)
  BY <1>1, AttemptFacts
<1>6. \A u \in Session!Sessions \ {s} : sess[u].att # i
  BY <1>5, OneApproval
<1>7. CASE sess' = sess /\ ok' = ok /\ req' = [req EXCEPT ![i] = "fail"]
  BY <1>1, <1>5, <1>7, <1>2, RecordStays, <1>6, SessionFacts, BothMove DEF SessionTypes, OnlyMoves,
    Session!Points, OnRecord, AttemptStands, ActsOn, HasReached, IsGone, IsOurs, Session!Removing, Removes
<1>8. ASSUME sess[s].phase = "authorizing", sess[s].att = i, ok' = [ok EXCEPT ![i] = "recorded"],
             sess' = [sess EXCEPT ![s] = [sess[s] EXCEPT !.phase = "provisioned", !.att = 0,
                                                         !.status = "none", !.prov = i]],
             NEW to \in {"closed", "fail"}, req' = [req EXCEPT ![i] = to]
      PROVE  SessionInv'
  <2>1. PICK r \in Session!SessionRecord :
          /\ r = [sess[s] EXCEPT !.phase = "provisioned", !.att = 0, !.status = "none", !.prov = i]
          /\ r.phase = "provisioned" /\ r.att = 0 /\ r.prov = i /\ r.plan = sess[s].plan
    <3>1. i \in 0..MaxAttempts /\ 0 \in 0..MaxAttempts
      BY SessionIsOne DEF Session!Attempts
    <3>2. [sess[s] EXCEPT !.phase = "provisioned", !.att = 0, !.status = "none", !.prov = i]
            \in Session!SessionRecord
      BY <1>5, <3>1 DEF Session!SessionRecord
    <3> QED BY <1>5, <3>2 DEF Session!SessionRecord
  <2>2. OnlyMoves(i) /\ req'[i] = to /\ ok'[i] = "recorded"
    BY <1>1, <1>2, <1>8 DEF SessionTypes, OnlyMoves, Session!Points, Session!Outcomes, OnRecord
  <2>3. AttemptStands(i)'
    BY <1>1, <1>2, <1>8, <2>2
    DEF AttemptStands, ActsOn, HasReached, IsGone, IsOurs, Session!Removing, OnRecord, Removes
  <2>4. sess' = [sess EXCEPT ![s] = r] /\ sess'[s] = r
    BY <1>1, <1>5, <1>8, <2>1 DEF SessionTypes
  <2>5. SessionStands(s)'
    BY <1>5, <1>8, <2>1, <2>4, <1>2, <2>2, SessionFacts DEF SessionStands,
      Session!PhaseInvariantsHold, Session!Attempts, ApprovalStands, OnRecord, Session!Sessions
  <2> QED BY <1>2, <1>5, <1>6, <2>2, <2>3, <2>4, <2>5, SessionFacts, BothMove
<1> QED BY <1>5, <1>7, <1>8 DEF Session!RecordProvision, Session!Set, Session!object

LEMMA CompleteHolds ==
  ASSUME SessionInv, NEW i \in Session!Attempts, Session!CompleteCleanup(i) PROVE SessionInv'
<1>1. /\ req[i] = "complete" /\ SessionTypes /\ AttemptStands(i) /\ Removes(i) /\ ok[i] = "yes"
  BY DEF Session!CompleteCleanup, SessionInv, AttemptStands, HasReached
<1>2. /\ UNCHANGED <<cur, hands, released, kind, home, seed, ok, grant, redeemed, expired, worker, foreign, overtaken, seeds>>
      /\ cookie' \in {0, cookie} /\ req' = [req EXCEPT ![i] = "closed"] /\ dead' \subseteq Session!Sessions
  BY <1>1 DEF Session!CompleteCleanup, Session!cloud, Session!client, Session!object, SessionTypes
<1>3. OnlyMoves(i) /\ req'[i] = "closed"
  BY <1>1, <1>2 DEF SessionTypes, OnlyMoves, Session!Points, OnRecord
<1>4. AttemptStands(i)'
  BY <1>1, <1>2, <1>3 DEF AttemptStands, ActsOn, HasReached, OnRecord, Removes, IsGone, IsOurs, Session!Removing
<1>5. PICK s \in Session!Sessions : s = home[i] /\ s <= cur /\ sess[s] \in Session!SessionRecord /\ SessionStands(s)
  BY <1>1, AttemptFacts
<1>6. \A u \in Session!Sessions \ {s} : sess[u].att # i
  BY <1>5, OneApproval
<1>7. CASE sess' = sess
  BY <1>1, <1>5, <1>7, <1>2, <1>3, RecordStays, <1>4, <1>6, SessionFacts, BothMove DEF SessionTypes,
    OnRecord
<1>8. CASE sess' = [sess EXCEPT ![s] = [Session!Draft EXCEPT !.sel = sess[s].sel]]
  <2>1. PICK r \in Session!SessionRecord :
          /\ r = [Session!Draft EXCEPT !.sel = sess[s].sel]
          /\ r.phase = "draft" /\ r.att = 0 /\ r.prov = 0
    <3>1. sess[s].sel \in BOOLEAN
      BY <1>5 DEF Session!SessionRecord
    <3>2. [Session!Draft EXCEPT !.sel = sess[s].sel] \in Session!SessionRecord
      BY <3>1, SessionRecords DEF Session!SessionRecord
    <3> QED BY <3>2, SessionRecords DEF Session!SessionRecord
  <2>2. sess' = [sess EXCEPT ![s] = r] /\ sess'[s] = r
    BY <1>1, <1>5, <1>8, <2>1 DEF SessionTypes
  <2>3. SessionStands(s)'
    BY <2>1, <2>2, <1>2, <1>5, SessionFacts DEF Session!PhaseInvariantsHold, ApprovalStands,
      SessionStands, OnRecord, Session!Sessions
  <2> QED BY <1>2, <1>3, <1>4, <1>5, <1>6, <2>2, <2>3, BothMove
<1> QED BY <1>5, <1>7, <1>8 DEF Session!CompleteCleanup, Session!Set, Session!object

(* A new approval: nothing refers to its attempt yet.                       *)
LEMMA ApprovalHolds ==
  ASSUME SessionInv, NEW i \in Session!Attempts, NEW k \in {"bootstrap", "cleanup"}, NEW a,
         NEW r \in Session!SessionRecord, Session!StartAttempt(i, k, r), seed' = [seed EXCEPT ![i] = a],
         k = "bootstrap" => a \in Session!Seeded /\ r.phase = "authorizing" /\ r.plan # 0,
         k = "cleanup" =>
           a \in Session!Attempts /\ OnRecord(a) /\ r.phase = "cleanup_required" /\ r.prov = a /\ r.plan # 0,
         r.prov = sess[cur].prov, k = "bootstrap" => r.prov = 0
  PROVE  SessionInv'
<1> DEFINE rec == [r EXCEPT !.att = i, !.status = "authorizing"]
<1>1. /\ SessionTypes /\ AttemptStands(i) /\ req[i] = "new" /\ cur \in Session!Sessions /\ i # 0
      /\ ok[i] = "yes" /\ redeemed[i] = 0 /\ ~OnRecord(i) /\ ~Removes(i) /\ i \notin released
      /\ SessionStands(cur)
  BY SessionFacts
  DEF SessionInv, AttemptStands, ActsOn, HasReached, Session!StartAttempt, OnRecord, Session!Attempts
<1>2. /\ sess' = [sess EXCEPT ![cur] = rec] /\ cookie' = i
      /\ kind' = [kind EXCEPT ![i] = k] /\ home' = [home EXCEPT ![i] = cur]
      /\ req' = [req EXCEPT ![i] = "consent"]
      /\ UNCHANGED <<dead, cur, hands, released, ok, grant, redeemed, expired, worker, foreign, overtaken, seeds>>
  BY DEF Session!StartAttempt, Session!Set, Session!SealCookie, Session!cloud
<1>3. PICK rr \in Session!SessionRecord :
        /\ rr = rec /\ rr.att = i /\ rr.status = "authorizing" /\ rr.phase = r.phase /\ rr.prov = r.prov
        /\ rr.plan = r.plan
  <2>1. i \in 0..MaxAttempts
    BY SessionIsOne DEF Session!Attempts
  <2>2. rec \in Session!SessionRecord
    BY <2>1 DEF Session!SessionRecord
  <2> QED BY <2>2 DEF Session!SessionRecord
<1> HIDE DEF rec
<1>4. cur \in Int /\ cur \in 1..cur /\ cur \in 0..MaxSessions
  BY <1>1, SessionIsOne DEF Session!Sessions
<1>5. a \in (0..Session!Typed) \cup Session!Attempts
  BY SessionIsOne DEF Session!Seeded, Session!Typed
<1>6. SessionTypes'
  <2>1. cookie' \in 0..MaxAttempts
    BY <1>2, SessionIsOne DEF Session!Attempts
  <2>2. seed' \in Session!Provisions
    BY <1>1, <1>5 DEF SessionTypes, Session!Provisions
  <2>3. sess' \in [Session!Sessions -> Session!SessionRecord]
    BY <1>1, <1>2, <1>3 DEF SessionTypes
  <2> QED BY <1>1, <1>2, <1>4, <2>1, <2>2, <2>3 DEF SessionTypes, Session!Points
<1>7. CookieStands'
  BY SessionFacts, <1>1, <1>2 DEF Session!Polls, SessionInv, CookieStands, SessionTypes
<1>8. /\ kind'[i] = k /\ home'[i] = cur /\ req'[i] = "consent" /\ seed'[i] = a
      /\ \A j \in Session!Attempts \ {i} :
           kind'[j] = kind[j] /\ home'[j] = home[j] /\ req'[j] = req[j] /\ seed'[j] = seed[j]
      /\ sess'[cur] = rr /\ \A u \in Session!Sessions \ {cur} : sess'[u] = sess[u]
  BY <1>1, <1>2, <1>3 DEF SessionTypes, Session!Provisions
<1>9. AttemptStands(i)'
  BY <1>1, <1>2, <1>4, <1>8 DEF ActsOn, Removes, OnRecord, AttemptStands, HasReached, IsGone, IsOurs, Session!Removing
<1>10. ASSUME NEW j \in Session!Attempts, j # i PROVE AttemptStands(j)'
  BY <1>1, <1>2, <1>8, <1>10 DEF SessionInv, AttemptStands, ActsOn, Removes, OnRecord, HasReached,
    Session!Target, IsGone, IsOurs, Session!Removing
<1>11. ASSUME NEW u \in Session!Sessions, u = cur PROVE SessionStands(u)'
  BY <1>1, <1>3, <1>8, <1>2, <1>11, SessionIsOne, <1>4 DEF Session!PhaseInvariantsHold,
    Session!Attempts, ApprovalStands, Removes, OnRecord, SessionStands, Session!SessionRecord
<1>12. ASSUME NEW u \in Session!Sessions, u # cur PROVE SessionStands(u)'
  <2>1. SessionStands(u) /\ sess[u] \in Session!SessionRecord
    BY <1>1 DEF SessionInv, SessionTypes
  <2>2. /\ sess[u].att # 0 => sess[u].att \in Session!Attempts \ {i}
        /\ sess[u].prov # 0 => sess[u].prov \in Session!Attempts \ {i}
    BY <1>1, <2>1, SessionIsOne
    DEF Session!SessionRecord, Session!Attempts, SessionStands, ApprovalStands
  <2>3. ApprovalStands(u)'
    BY <1>2, <1>8, <1>12, <2>1, <2>2 DEF SessionStands, ApprovalStands, OnRecord, Removes
  <2>4. sess[u].phase = "authorizing" => sess[u].att # 0
    BY <2>1 DEF SessionStands, Session!PhaseInvariantsHold
  <2>5. Session!PhaseInvariantsHold(sess[u])'
    BY <1>8, <1>12, <2>1, <2>2, <2>4 DEF SessionStands, Session!PhaseInvariantsHold
  <2> QED BY <1>2, <1>8, <1>12, <2>1, <2>2, <2>3, <2>5 DEF SessionStands, OnRecord
<1> QED BY <1>6, <1>7, <1>9, <1>10, <1>11, <1>12 DEF SessionInv

LEMMA AuthorizeHolds ==
  ASSUME SessionInv, NEW i \in Session!Attempts,
         Session!AuthorizeBootstrap(i) \/ Session!AuthorizeCleanup(i)
  PROVE  SessionInv'
<1>1. SessionStands(cur) /\ sess[cur] \in Session!SessionRecord
  BY SessionFacts DEF SessionInv
<1>2. CASE Session!AuthorizeBootstrap(i)
  <2>1. PICK r \in Session!SessionRecord :
          /\ r = [sess[cur] EXCEPT !.phase = "authorizing"] /\ r.phase = "authorizing"
          /\ r.plan = sess[cur].plan /\ r.prov = sess[cur].prov
    <3>1. [sess[cur] EXCEPT !.phase = "authorizing"] \in Session!SessionRecord
      BY <1>1 DEF Session!SessionRecord
    <3> QED BY <1>1, <3>1 DEF Session!SessionRecord
  <2>2. sess[cur].prov = 0 /\ sess[cur].plan # 0 /\ sess[cur].plan \in Session!Seeded
    BY <1>1, <1>2, SessionIsOne
    DEF Session!AuthorizeBootstrap, Session!Open, SessionStands, Session!PhaseInvariantsHold,
        Session!SessionRecord, Session!Seeded, Session!Typed
  <2>3. Session!StartAttempt(i, "bootstrap", r) /\ seed' = [seed EXCEPT ![i] = sess[cur].plan]
    BY <1>2, <2>1 DEF Session!AuthorizeBootstrap
  <2> QED BY <2>1, <2>2, <2>3, ApprovalHolds
<1>3. CASE Session!AuthorizeCleanup(i)
  <2>1. /\ sess[cur].phase = "cleanup_required" /\ Session!StartAttempt(i, "cleanup", sess[cur])
        /\ seed' = [seed EXCEPT ![i] = sess[cur].prov]
    BY <1>3 DEF Session!AuthorizeCleanup, Session!CleanupOpen
  <2>2. sess[cur].prov \in Session!Attempts /\ OnRecord(sess[cur].prov) /\ sess[cur].plan # 0
    BY <1>1, <2>1, SessionIsOne
    DEF SessionStands, Session!PhaseInvariantsHold, Session!SessionRecord, Session!Attempts
  <2> QED BY <1>1, <2>1, <2>2, ApprovalHolds
<1> QED BY <1>2, <1>3

LEMMA SessionStepHolds == SessionInv /\ [Session!Next]_(Session!vars) => SessionInv'
<1> SUFFICES ASSUME SessionInv, [Session!Next]_(Session!vars) PROVE SessionInv'
  OBVIOUS
<1>1. CASE Session!Browser
  BY <1>1, SaveHolds, FreezeHolds, NewSessionHolds, ClockHolds, AnswerHolds DEF Session!Browser
<1>2. ASSUME NEW i \in Session!Attempts, Session!Request(i) \/ Session!Work(i) PROVE SessionInv'
  BY <1>2, AuthorizeHolds, CallbackHolds, ClockHolds, SessionExchangeHolds, SessionRevokeHolds, AccountHolds,
     EnsureHolds, FirstUploadHolds, ExposeHolds, VerifyRemovalHolds, RetireHolds, DeleteHolds, ProveHolds,
     FailAttemptHolds, RecordHolds, CompleteHolds
  DEF Session!Request, Session!Work
<1>3. ASSUME NEW s \in Session!Sessions, Session!Alarm(s) \/ Session!SessionExpires(s) PROVE SessionInv'
  BY <1>3, AlarmHolds, ClockHolds
<1>4. ASSUME NEW n \in Session!Seeded, Session!Vanish(n) \/ Session!Alter(n) PROVE SessionInv'
  BY <1>4, VanishHolds
<1>5. CASE UNCHANGED Session!vars
  <2> QED
    BY <1>5, SessionFacts, QuietSession DEF Session!vars, SessionInv, SessionTypes, CookieStands
<1> QED BY <1>1, <1>2, <1>3, <1>4, <1>5, BindHolds DEF Session!Next

(* What any step does to what sessions record.                              *)
Ebbs(u) ==
  \/ sess'[u].prov = sess[u].prov /\ sess'[u].phase = sess[u].phase
  \/ /\ sess'[u].prov = 0 /\ sess'[u].phase # "handed_off"
     /\ \/ sess[u].prov \in {0} \cup released
        \/ worker[seed[sess[u].prov]].by # sess[u].prov
  \/ /\ sess[u].phase = "provisioned" /\ sess'[u].prov = sess[u].prov
     /\ sess'[u].phase = "cleanup_required" \/ (sess'[u].phase = "handed_off" /\ sess[u].prov \in released')
  \/ /\ sess[u].prov = 0 /\ sess'[u].prov \in Session!Attempts /\ sess'[u].phase = "provisioned"
     /\ ~OnRecord(sess'[u].prov) /\ req[sess'[u].prov] = "record"
(* And to attempts: one in use keeps its target, and one that is new can    *)
(* only become an approval, a cleanup for a session that owes one.          *)
Holds(i) ==
  /\ req[i] # "new" => kind'[i] = kind[i] /\ seed'[i] = seed[i]
  /\ req[i] = "new" => req'[i] \in {"new", "consent"}
  /\ req[i] = "new" /\ kind'[i] = "cleanup" =>
       \E s \in Session!Sessions : sess[s].phase = "cleanup_required" /\ sess[s].prov = seed'[i]
  /\ OnRecord(i) => (OnRecord(i))'
  /\ (OnRecord(i))' => OnRecord(i) \/ \E s \in Session!Sessions : sess'[s].prov = i
SessionFlow ==
  /\ OwnersMove
  /\ \A u \in Session!Sessions : Ebbs(u)
  /\ \A i \in Session!Attempts : Holds(i)
  /\ released \subseteq released'
  /\ \A i \in released' \ released : \E s \in Session!Sessions :
       sess[s].prov = i /\ sess[s].phase = "provisioned" /\ sess'[s].phase = "handed_off"

HandedIsReleased == \A s \in Session!Sessions : sess[s].phase = "handed_off" => sess[s].prov \in released

(* No attempt moves.                                                        *)
LEMMA SessionFlows ==
  ASSUME SessionInv, UNCHANGED <<kind, seed, req, ok>>, OwnersMove,
         \A u \in Session!Sessions : Ebbs(u), released \subseteq released',
         \A i \in released' \ released : \E s \in Session!Sessions :
           sess[s].prov = i /\ sess[s].phase = "provisioned" /\ sess'[s].phase = "handed_off"
  PROVE  SessionFlow
BY DEF Holds, OnRecord, SessionInv, AttemptStands, ActsOn, Removes, SessionFlow

LEMMA WorkFlows ==
  ASSUME SessionInv, NEW i \in Session!Attempts, OnlyMoves(i), OwnersMove, released' = released,
         \A u \in Session!Sessions : Ebbs(u),
         (OnRecord(i))' => OnRecord(i) \/ \E s \in Session!Sessions : sess'[s].prov = i
  PROVE  SessionFlow
BY DEF Holds, OnlyMoves, OnRecord, SessionInv, AttemptStands, ActsOn, Removes, SessionFlow

LEMMA OpenFlows ==
  ASSUME SessionInv, NEW s \in Session!Sessions, NEW r, sess' = [sess EXCEPT ![s] = r],
         UNCHANGED <<Session!call, worker, overtaken, released>>,
         \/ r.prov = sess[s].prov /\ r.phase = sess[s].phase
         \/ r.prov = 0 /\ r.phase # "handed_off" /\ sess[s].prov \in {0} \cup released
         \/ r.prov = sess[s].prov /\ sess[s].phase = "provisioned" /\ r.phase = "cleanup_required"
  PROVE  SessionFlow
BY SessionFacts, WorkersRest, SessionFlows DEF Ebbs, Session!call

LEMMA QuietFlows ==
  ASSUME SessionInv, UNCHANGED <<sess, kind, seed, req, ok, released>>, OwnersMove PROVE SessionFlow
BY SessionFlows DEF Ebbs

LEMMA BrowserFlows ==
  ASSUME SessionInv, HandedIsReleased, Session!Browser PROVE SessionFlow
<1>1. SessionStands(cur) /\ sess[cur] \in Session!SessionRecord /\ cur \in Session!Sessions
  BY SessionFacts DEF SessionInv
<1>2. CASE Session!SaveSelection
  <2> DEFINE r == [sess[cur] EXCEPT !.phase = "draft", !.sel = TRUE, !.plan = 0]
  <2>1. r.prov = 0 /\ r.phase = "draft" /\ sess[cur].prov = 0
    BY <1>1, <1>2
    DEF Session!SaveSelection, Session!Open, SessionStands, Session!PhaseInvariantsHold, Session!SessionRecord
  <2>2. sess' = [sess EXCEPT ![cur] = r] /\ UNCHANGED <<Session!call, worker, overtaken, released>>
    BY <1>2 DEF Session!SaveSelection, Session!Set, Session!client, Session!cloud
  <2> HIDE DEF r
  <2> QED BY <1>1, <2>1, <2>2, OpenFlows
<1>3. CASE Session!FreezePlan
  <2> DEFINE plan == IF sess[cur].sel THEN Session!Typed
                     ELSE IF ~sess[cur].sel /\ sess[cur].plan = 0 THEN seeds + 1 ELSE sess[cur].plan
             r == [sess[cur] EXCEPT !.phase = "draft", !.plan = plan]
  <2>1. r.prov = 0 /\ r.phase = "draft" /\ sess[cur].prov = 0
    BY <1>1, <1>3
    DEF Session!FreezePlan, Session!Open, SessionStands, Session!PhaseInvariantsHold, Session!SessionRecord
  <2>2. sess' = [sess EXCEPT ![cur] = r] /\ UNCHANGED <<Session!call, worker, overtaken, released>>
    BY <1>3 DEF Session!FreezePlan, Session!Set, Session!client, Session!cloud
  <2> HIDE DEF r
  <2> QED BY <1>1, <2>1, <2>2, OpenFlows
<1>4. CASE Session!NewSession
  <2>1. SessionStands(cur + 1) /\ cur + 1 \in Session!Sessions
    BY <1>4, SessionFacts, SessionIsOne DEF SessionInv, Session!NewSession, Session!Sessions
  <2>2. sess[cur + 1].prov = 0
    BY <2>1, SessionFacts, SessionRecords DEF SessionStands
  <2>3. sess' = [sess EXCEPT ![cur + 1] = Session!Draft] /\ UNCHANGED <<Session!call, worker, overtaken, released>>
    BY <1>4 DEF Session!NewSession, Session!Set, Session!cloud
  <2> QED BY <2>1, <2>2, <2>3, SessionRecords, OpenFlows
<1>5. CASE Session!LoseCookie \/ Session!PollHandoff
  BY <1>5, QuietFlows, WorkersRest
  DEF Session!LoseCookie, Session!PollHandoff, Session!object, Session!call, Session!cloud
<1>6. ASSUME NEW h \in hands, Session!AnswerHandoff(h) PROVE SessionFlow
  <2>1. PICK i \in Session!Attempts : i = h[1]
    BY SessionFacts DEF Session!Polls
  <2>2. UNCHANGED <<Session!call, worker, overtaken>>
    BY <1>6 DEF Session!AnswerHandoff, Session!cloud
  <2>3. PICK s \in Session!Sessions : s = home[i] /\ sess[s] \in Session!SessionRecord /\ SessionStands(s)
    BY <2>1, AttemptFacts DEF SessionInv, CookieStands
  <2>4. CASE h[2] = "ready" /\ Session!Markable(i)
    <3> DEFINE r == [sess[s] EXCEPT !.phase = "handed_off"]
    <3>1. /\ sess' = [sess EXCEPT ![s] = r] /\ released' = released \cup {i}
      BY <1>6, <2>1, <2>3, <2>4 DEF Session!AnswerHandoff, Session!Set
    <3>2. sess[s].phase = "provisioned" /\ sess[s].prov = i
      BY <2>3, <2>4 DEF Session!Markable
    <3>3. r.prov = i /\ r.phase = "handed_off"
      BY <2>3, <3>2 DEF Session!SessionRecord
    <3> HIDE DEF r
    <3>4. /\ sess'[s] = r /\ \A u \in Session!Sessions \ {s} : sess'[u] = sess[u]
      BY <3>1, SessionFacts
    <3>5. \A u \in Session!Sessions : Ebbs(u)
      BY <3>1, <3>2, <3>3, <3>4 DEF Ebbs
    <3> QED BY <2>2, <3>1, <3>2, <3>3, <3>4, <3>5, WorkersRest, SessionFlows DEF Session!call
  <2>5. CASE h[2] = "ready" /\ ~Session!Markable(i)
    BY <1>6, <2>1, <2>2, <2>5, QuietFlows, WorkersRest DEF Session!AnswerHandoff, Session!call
  <2>6. CASE h[2] = "rejected"
    <3> DEFINE r == Session!CleanupRequired(sess[s])
    <3>1. /\ sess' = [sess EXCEPT ![s] = r] /\ released' = released
      BY <1>6, <2>1, <2>3, <2>6 DEF Session!AnswerHandoff
    <3>2. \/ r.prov = sess[s].prov /\ r.phase = sess[s].phase
          \/ r.prov = sess[s].prov /\ sess[s].phase = "provisioned" /\ r.phase = "cleanup_required"
      BY <2>3 DEF Session!CleanupRequired, Session!SessionRecord
    <3> HIDE DEF r
    <3> QED BY <2>2, <2>3, <3>1, <3>2, OpenFlows
  <2>7. h[2] \in {"ready", "rejected"}
    BY SessionFacts DEF Session!Polls
  <2> QED BY <2>4, <2>5, <2>6, <2>7
<1> QED BY <1>2, <1>3, <1>4, <1>5, <1>6 DEF Session!Browser

LEMMA ApprovalFlows ==
  ASSUME SessionInv, NEW i \in Session!Attempts, NEW k, NEW r, Session!StartAttempt(i, k, r),
         r \in Session!SessionRecord, r.prov = sess[cur].prov,
         NEW a, seed' = [seed EXCEPT ![i] = a],
         r.phase = sess[cur].phase \/ (r.phase = "authorizing" /\ r.prov = 0),
         k = "cleanup" => sess[cur].phase = "cleanup_required" /\ sess[cur].prov = a
  PROVE  SessionFlow
BY SessionFacts, WorkersRest DEF SessionInv, AttemptStands, HasReached, Session!StartAttempt,
  OnRecord, Session!Set, Session!cloud, SessionTypes, Session!Provisions, Holds, ActsOn, Removes,
  Session!SessionRecord, Ebbs, SessionFlow

LEMMA RequestFlows ==
  ASSUME SessionInv, NEW i \in Session!Attempts, Session!Request(i) PROVE SessionFlow
<1>1. SessionStands(cur) /\ sess[cur] \in Session!SessionRecord /\ cur \in Session!Sessions
  BY SessionFacts DEF SessionInv
<1>2. CASE Session!AuthorizeBootstrap(i)
  <2>1. PICK r \in Session!SessionRecord :
          /\ r = [sess[cur] EXCEPT !.phase = "authorizing"] /\ r.phase = "authorizing"
          /\ r.prov = sess[cur].prov
    <3>1. [sess[cur] EXCEPT !.phase = "authorizing"] \in Session!SessionRecord
      BY <1>1 DEF Session!SessionRecord
    <3> QED BY <1>1, <3>1 DEF Session!SessionRecord
  <2>2. sess[cur].prov = 0
    BY <1>1, <1>2
    DEF Session!AuthorizeBootstrap, Session!Open, SessionStands, Session!PhaseInvariantsHold
  <2>3. Session!StartAttempt(i, "bootstrap", r) /\ seed' = [seed EXCEPT ![i] = sess[cur].plan]
    BY <1>2, <2>1 DEF Session!AuthorizeBootstrap
  <2>4. PICK a : a = sess[cur].plan
    OBVIOUS
  <2>5. seed' = [seed EXCEPT ![i] = a] /\ r.prov = 0
    BY <2>1, <2>2, <2>3, <2>4
  <2>6. "bootstrap" # "cleanup"
    OBVIOUS
  <2> QED BY <2>1, <2>3, <2>5, <2>6, ApprovalFlows
<1>3. CASE Session!AuthorizeCleanup(i)
  BY <1>1, <1>3, ApprovalFlows DEF Session!AuthorizeCleanup, Session!CleanupOpen
<1>4. CASE Session!Callback(i)
  <2>1. /\ req[i] = "consent" /\ ok[i] = "yes"
    BY <1>1, <1>4
    DEF Session!Callback, Session!Matches, Session!Claimable, SessionStands, ApprovalStands,
        Session!Attempts, SessionInv, AttemptStands, HasReached
  <2>2. PICK at \in {"exchange", "fail"}, o \in {"yes", "fault"} :
          req' = [req EXCEPT ![i] = at] /\ ok' = [ok EXCEPT ![i] = o]
    BY <1>4, <2>1 DEF Session!Callback
  <2>3. UNCHANGED <<kind, home, seed, grant, redeemed, worker, overtaken, released>>
    BY <1>4 DEF Session!Callback, Session!client, Session!cloud
  <2>4. OnlyMoves(i) /\ ~(OnRecord(i))'
    BY <2>1, <2>2, <2>3
    DEF SessionInv, SessionTypes, OnlyMoves, Session!Points, Session!Outcomes, OnRecord
  <2>5. \A u \in Session!Sessions : Ebbs(u)
    BY <1>4, <1>1, SessionFacts DEF Session!Callback, Session!Set, Ebbs, Session!SessionRecord
  <2> QED BY <2>3, <2>4, <2>5, WorkersRest, WorkFlows
<1>5. CASE Session!AttemptExpires(i)
  BY <1>5, QuietFlows, WorkersRest
  DEF Session!AttemptExpires, Session!object, Session!client, Session!cloud
<1> QED BY <1>2, <1>3, <1>4, <1>5 DEF Session!Request

LEMMA AlarmFlows ==
  ASSUME SessionInv, HandedIsReleased, NEW s \in Session!Sessions, Session!Alarm(s) PROVE SessionFlow
<1>1. SessionStands(s) /\ sess[s] \in Session!SessionRecord
  BY SessionFacts DEF SessionInv
<1>2. sess[s].phase \notin {"none", "cleanup_required"}
  BY DEF Session!Alarm, Session!Due
<1>3. sess' = [sess EXCEPT ![s] = Session!Reaped(s)] /\ UNCHANGED <<Session!call, worker, overtaken, released>>
  BY DEF Session!Alarm, Session!Set, Session!client, Session!cloud
<1>4. CASE sess[s].phase = "provisioned"
  BY <1>4, <1>1, <1>3, OpenFlows DEF Session!Reaped, Session!SessionRecord
<1>5. CASE sess[s].phase = "authorizing"
  BY <1>5, <1>1, <1>3, OpenFlows DEF Session!Reaped, Session!FailedSession, Session!SessionRecord,
    SessionStands, Session!PhaseInvariantsHold
<1>6. CASE sess[s].phase \notin {"provisioned", "authorizing"}
  BY <1>6, <1>1, <1>2, <1>3, SessionRecords, OpenFlows DEF Session!Reaped, HandedIsReleased,
    SessionStands, Session!PhaseInvariantsHold, Session!SessionRecord
<1> QED BY <1>4, <1>5, <1>6

LEMMA StepMovesOne ==
  ASSUME SessionInv, NEW i \in Session!Attempts, NEW to, Session!Step(i, to),
         req[i] \in Builds \cup Tears, to \in Builds \cup Tears \cup {"revoke"},
         ok' = ok \/ \E o \in {"fault", "refused"} : ok' = [ok EXCEPT ![i] = o]
  PROVE  OnlyMoves(i) /\ ~(OnRecord(i))' /\ released' = released /\ sess' = sess
BY DEF SessionInv, AttemptStands, HasReached, Builds, Tears, Session!Step, Session!object,
  Session!client, SessionTypes, Session!Outcomes, Session!Points, OnlyMoves, OnRecord

LEMMA AnswerFlows ==
  ASSUME SessionInv, NEW i \in Session!Attempts, OwnersMove, req[i] \in Builds \cup Tears,
         \/ \E to \in Builds \cup Tears \cup {"revoke"} : Session!Good(i, to)
         \/ Session!Bad(i)
         \/ Session!Refuse(i)
  PROVE  SessionFlow
BY StepMovesOne, WorkFlows DEF Session!Good, Session!Bad, Session!Refuse, Ebbs

LEMMA WorkStepFlows ==
  ASSUME SessionInv, NEW i \in Session!Attempts, Session!Work(i) PROVE SessionFlow
<1>0. AttemptStands(i) /\ SessionTypes
  BY DEF SessionInv
<1>1. CASE \/ Session!Account(i) \/ Session!EnsureWorker(i) \/ Session!Upload(i) \/ Session!Expose(i)
           \/ Session!Verify(i) \/ Session!Retire(i) \/ Session!Delete(i) \/ Session!Prove(i)
  BY <1>1, AccountHolds, EnsureHolds, FirstUploadHolds, ExposeHolds, VerifyRemovalHolds,
    RetireHolds, DeleteHolds, ProveHolds, AnswerFlows DEF WorkersMove, OwnersMove, Session!Account,
    Session!EnsureWorker, Session!Upload, Session!Expose, Session!Verify, Session!Retire,
    Session!Delete, Session!Prove, Builds, Tears
<1>2. CASE Session!Exchange(i) \/ Session!Revoke(i)
  BY <1>2, <1>0, WorkersRest DEF Session!Exchange, Session!Revoke, Session!object, Session!client,
    Session!cloud, AttemptStands, HasReached, SessionTypes, OnRecord, Holds, SessionInv, ActsOn,
    Removes, Ebbs, SessionFlow
<1>3. CASE Session!FailAttempt(i) \/ Session!RecordProvision(i) \/ Session!CompleteCleanup(i)
  <2>1. req[i] \in {"fail", "record", "complete"}
    BY <1>3 DEF Session!FailAttempt, Session!RecordProvision, Session!CompleteCleanup
  <2>2. PICK s \in Session!Sessions : s = home[i] /\ s <= cur /\ sess[s] \in Session!SessionRecord /\ SessionStands(s)
    BY <2>1, AttemptFacts
  <2>3. UNCHANGED <<released, worker, overtaken, kind, home, seed, grant, redeemed>>
    BY <1>3
    DEF Session!FailAttempt, Session!RecordProvision, Session!CompleteCleanup, Session!cloud, Session!client
  <2>4. PICK to \in {"fail", "closed"} : req' = [req EXCEPT ![i] = to]
    BY <1>3 DEF Session!FailAttempt, Session!RecordProvision, Session!CompleteCleanup
  <2>5. CASE sess' = sess /\ ok' = ok
    BY <1>0, <2>1, <2>3, <2>4, <2>5, WorkersRest, WorkFlows DEF SessionTypes, OnlyMoves,
      Session!Points, OnRecord, Ebbs
  <2>6. CASE ok' = ok /\ sess' = [sess EXCEPT ![s] = Session!FailedSession(sess[s])] /\ sess[s].att = i
    <3>1. OnlyMoves(i)
      BY <1>0, <2>1, <2>3, <2>4, <2>6 DEF SessionTypes, OnlyMoves, Session!Points, OnRecord
    <3>2. sess[s].phase \in {"authorizing", "cleanup_required"}
      BY <2>2, <2>6 DEF SessionStands, ApprovalStands, Session!Attempts
    <3>3. sess[s].phase = "authorizing" => sess[s].prov = 0
      BY <2>2 DEF SessionStands, Session!PhaseInvariantsHold
    <3>4. /\ sess'[s] = Session!FailedSession(sess[s]) /\ \A u \in Session!Sessions \ {s} : sess'[u] = sess[u]
      BY <2>6, SessionFacts
    <3>5. \/ sess'[s].prov = sess[s].prov /\ sess'[s].phase = sess[s].phase
          \/ sess'[s].prov = 0 /\ sess'[s].phase = "failed" /\ sess[s].prov = 0
      BY <2>2, <3>2, <3>3, <3>4 DEF Session!FailedSession, Session!SessionRecord
    <3>6. \A u \in Session!Sessions : Ebbs(u)
      BY <3>4, <3>5 DEF Ebbs
    <3> QED BY <2>3, <2>6, <3>1, <3>6, WorkersRest, WorkFlows DEF OnRecord
  <2>7. CASE /\ req[i] = "record" /\ sess[s].phase = "authorizing" /\ ok' = [ok EXCEPT ![i] = "recorded"]
             /\ sess' = [sess EXCEPT ![s] = [sess[s] EXCEPT !.phase = "provisioned", !.att = 0,
                                                            !.status = "none", !.prov = i]]
    <3>1. OnlyMoves(i) /\ ~OnRecord(i)
      BY <1>0, <2>1, <2>3, <2>4, <2>7
      DEF SessionTypes, OnlyMoves, Session!Points, Session!Outcomes, OnRecord, AttemptStands, HasReached
    <3>2. /\ sess'[s] = [sess[s] EXCEPT !.phase = "provisioned", !.att = 0, !.status = "none", !.prov = i]
          /\ \A u \in Session!Sessions \ {s} : sess'[u] = sess[u]
      BY <2>7, SessionFacts
    <3>3. sess'[s].prov = i /\ sess'[s].phase = "provisioned" /\ sess[s].prov = 0
      <4>1. sess[s].prov = 0
        BY <2>2, <2>7 DEF SessionStands, Session!PhaseInvariantsHold
      <4> QED BY <2>2, <3>2, <4>1 DEF Session!SessionRecord
    <3>4. \A u \in Session!Sessions : Ebbs(u)
      BY <2>7, <3>1, <3>2, <3>3 DEF Ebbs
    <3> QED BY <2>3, <3>1, <3>3, <3>4, WorkersRest, WorkFlows
  <2>8. CASE /\ req[i] = "complete" /\ sess[s].phase = "cleanup_required" /\ sess[s].att = i /\ ok' = ok
             /\ sess' = [sess EXCEPT ![s] = [Session!Draft EXCEPT !.sel = sess[s].sel]]
    <3>1. OnlyMoves(i)
      BY <1>0, <2>1, <2>3, <2>4, <2>8 DEF SessionTypes, OnlyMoves, Session!Points, OnRecord
    <3>2. /\ sess'[s] = [Session!Draft EXCEPT !.sel = sess[s].sel]
          /\ \A u \in Session!Sessions \ {s} : sess'[u] = sess[u]
      BY <2>8, SessionFacts
    <3>3. sess'[s].prov = 0 /\ sess'[s].phase = "draft"
      BY <3>2, SessionRecords DEF Session!SessionRecord
    <3>4. Removes(i) /\ seed[i] = sess[s].prov
      BY <2>2, <2>8 DEF SessionStands, ApprovalStands, Session!Attempts
    <3>5. worker[seed[sess[s].prov]].by # sess[s].prov
      BY <1>0, <2>8, <3>4 DEF AttemptStands, IsGone, Session!Target, Removes
    <3>6. \A u \in Session!Sessions : Ebbs(u)
      BY <3>2, <3>3, <3>5 DEF Ebbs
    <3> QED BY <2>3, <2>8, <3>1, <3>6, WorkersRest, WorkFlows DEF OnRecord
  <2>9. CASE Session!FailAttempt(i)
    BY <2>9, <2>2, <2>5, <2>6, <1>0 DEF Session!FailAttempt, SessionTypes
  <2> QED
    BY <1>3, <2>2, <2>5, <2>7, <2>8, <2>9
    DEF Session!RecordProvision, Session!CompleteCleanup, Session!Set, Session!object
<1> QED BY <1>1, <1>2, <1>3 DEF Session!Work

LEMMA SessionStepFlows ==
  ASSUME SessionInv, HandedIsReleased, [Session!Next]_(Session!vars) PROVE SessionFlow
<1>1. CASE Session!Browser
  BY <1>1, BrowserFlows
<1>2. ASSUME NEW i \in Session!Attempts, Session!Request(i) \/ Session!Work(i) PROVE SessionFlow
  BY <1>2, RequestFlows, WorkStepFlows
<1>3. ASSUME NEW s \in Session!Sessions, Session!Alarm(s) \/ Session!SessionExpires(s) PROVE SessionFlow
  BY QuietFlows, WorkersRest, <1>3, AlarmFlows DEF Session!SessionExpires, Session!call,
    Session!client, Session!cloud
<1>4. ASSUME NEW n \in Session!Seeded, Session!Vanish(n) \/ Session!Alter(n) PROVE SessionFlow
  <2>1. UNCHANGED <<sess, kind, seed, req, ok, released>>
    BY <1>4 DEF Session!Vanish, Session!Alter, Session!object, Session!client, Session!call
  <2>2. OwnersMove
    <3>1. CASE Session!Vanish(n)
      BY <3>1, SessionRecords
      DEF SessionInv, SessionTypes, Session!Vanish, Session!Put, OwnersMove, OvertakenGrows, Session!NoWorker
    <3>2. CASE Session!Alter(n)
      <4>0. worker[n] \in Session!Workers
        BY DEF SessionInv, SessionTypes
      <4>a. [worker[n] EXCEPT !.code = "other"] \in Session!Workers
        BY <4>0 DEF Session!Workers
      <4>1. PICK w \in Session!Workers : w = [worker[n] EXCEPT !.code = "other"] /\ w.by = worker[n].by
        BY <4>0, <4>a DEF Session!Workers
      <4> QED
        BY <3>2, <4>1, SessionIsOne
        DEF SessionInv, SessionTypes, Session!Alter, Session!Overtakes, OwnersMove, OvertakenGrows
    <3> QED BY <1>4, <3>1, <3>2
  <2> QED BY <2>1, <2>2, QuietFlows
<1>5. CASE UNCHANGED Session!vars
  BY <1>5, QuietFlows, WorkersRest DEF Session!vars
<1>6. CASE Session!Bind
  BY <1>6, BindHolds, QuietFlows DEF Session!Bind, Session!object, Session!client, Session!call
<1> QED BY <1>1, <1>2, <1>3, <1>4, <1>5, <1>6 DEF Session!Next

-----------------------------------------------------------------------------
(* What is on record.                                                       *)

RememberInv == SessionInv /\ HandedIsReleased /\ Session!ProvisionIsRemembered

LEMMA RememberHolds ==
  ASSUME RememberInv, [Session!Next]_(Session!vars) PROVE RememberInv'
<1>1. SessionInv /\ SessionFlow /\ SessionInv'
  BY SessionStepFlows, SessionStepHolds DEF RememberInv
<1>2. HandedIsReleased'
  <2> SUFFICES ASSUME NEW u \in Session!Sessions, sess'[u].phase = "handed_off"
               PROVE  sess'[u].prov \in released'
    BY DEF HandedIsReleased
  <2>1. Ebbs(u) /\ released \subseteq released'
    BY <1>1 DEF SessionFlow
  <2> QED BY <2>1 DEF Ebbs, RememberInv, HandedIsReleased
<1>3. Session!ProvisionIsRemembered'
  <2> SUFFICES ASSUME NEW i \in Session!Attempts, ok'[i] = "recorded", i \notin released',
                      ~ \E s \in Session!Sessions : sess'[s].prov = i
               PROVE  worker'[seed'[i]].by # i
    BY DEF Session!ProvisionIsRemembered
  <2>1. Holds(i) /\ released \subseteq released' /\ OwnersMove
    BY <1>1 DEF SessionFlow
  <2>2. OnRecord(i) /\ i # 0
    BY <2>1 DEF Holds, OnRecord, Session!Attempts
  <2>3. req[i] # "new" /\ seed[i] \in Session!Seeded /\ seed'[i] = seed[i]
    BY <1>1, <2>1, <2>2 DEF SessionInv, AttemptStands, ActsOn, HasReached, Holds
  <2>4. worker[seed[i]].by # i
    <3>1. i \notin released
      BY <2>1
    <3>2. CASE \E s \in Session!Sessions : sess[s].prov = i
      <4>1. PICK s \in Session!Sessions : sess[s].prov = i
        BY <3>2
      <4>2. Ebbs(s) /\ sess'[s].prov # i
        BY <1>1 DEF SessionFlow
      <4> QED BY <2>2, <3>1, <4>1, <4>2 DEF Ebbs
    <3> QED BY <2>2, <3>1, <3>2 DEF RememberInv, Session!ProvisionIsRemembered, OnRecord
  <2> QED BY <2>1, <2>2, <2>3, <2>4 DEF OwnersMove
<1> QED BY <1>1, <1>2, <1>3 DEF RememberInv

LEMMA RememberInitHolds == Session!Init => RememberInv
<1> SUFFICES ASSUME Session!Init PROVE RememberInv
  OBVIOUS
<1>1. SessionInv
  BY SessionInitHolds
<1>2. HandedIsReleased
  BY SessionRecords DEF Session!Init, HandedIsReleased
<1>3. Session!ProvisionIsRemembered
  BY DEF Session!Init, Session!ProvisionIsRemembered
<1> QED BY <1>1, <1>2, <1>3 DEF RememberInv

(* The invariants that hold of any number of cleanups.                      *)
SessionRecordsAreSafe ==
  /\ Session!TypeOK /\ Session!ProvisionIsRemembered /\ Session!RecordedIsRevoked /\ Session!RedeemedOnce

LEMMA RememberIsSafe == RememberInv => SessionRecordsAreSafe
<1> SUFFICES ASSUME RememberInv PROVE SessionRecordsAreSafe
  OBVIOUS
<1>1. SessionInv /\ Session!ProvisionIsRemembered
  BY DEF RememberInv
<1>2. Session!TypeOK
  BY <1>1 DEF SessionInv, SessionTypes, SessionStands, Session!TypeOK
<1>3. Session!RedeemedOnce
  BY <1>1 DEF SessionInv, AttemptStands, HasReached, Session!RedeemedOnce
<1>4. ASSUME NEW s \in Session!Sessions, sess[s].prov # 0 PROVE grant[sess[s].prov] = "revoked"
  BY <1>1, <1>4, SessionFacts, SessionIsOne DEF SessionInv, SessionStands, Session!SessionRecord,
    Session!Attempts, AttemptStands, HasReached
<1>5. ASSUME NEW i \in Session!Attempts, req[i] = "complete"
      PROVE  grant[i] = "revoked" /\ worker[Session!Target(i)].by # Session!Recorded(i)
  BY <1>1, <1>5 DEF SessionInv, AttemptStands, HasReached, IsGone, Session!Recorded
<1>6. Session!RecordedIsRevoked
  BY <1>4, <1>5 DEF Session!RecordedIsRevoked
<1> QED BY <1>1, <1>2, <1>3, <1>6 DEF SessionRecordsAreSafe

-----------------------------------------------------------------------------
(* What the installer leaves alone.                                         *)

LEMMA CloudRests == ASSUME worker' = worker PROVE Session!KeepsNotOurs
BY DEF Session!KeepsNotOurs, Session!Retired

(* A Worker that is written is nobody's, or goes, or keeps its owner and is *)
(* not retired; or a cleanup that verified it writes it.                    *)
LEMMA PutIsSpared ==
  ASSUME SessionInv, NEW n \in Session!Seeded, NEW w, worker' = [worker EXCEPT ![n] = w],
         \/ worker[n].by = 0 \/ worker[n].going
         \/ /\ w.by = worker[n].by /\ w.going = worker[n].going
            /\ w.code # "retired" \/ w.code = worker[n].code
         \/ \E i \in Session!Attempts : Session!Removing(i) /\ Session!Target(i) = n
  PROVE  Session!KeepsNotOurs
<1> SUFFICES ASSUME NEW p \in Session!Seeded,
                    worker[p].by # 0, ~worker[p].going, foreign \/ worker[p].code = "other",
                    worker'[p].by # worker[p].by \/ worker'[p].going \/ Session!Retired(p)
             PROVE  \E i \in Session!Attempts, k \in 0..MaxAttempts :
                      Session!Removing(i) /\ Session!Target(i) = p /\ <<i, k>> \in overtaken
  BY DEF Session!KeepsNotOurs
<1>1. p = n /\ worker'[n] = w
  BY DEF SessionInv, SessionTypes, Session!Retired
<1>2. PICK i \in Session!Attempts : Session!Removing(i) /\ Session!Target(i) = n
  BY <1>1 DEF Session!Retired
<1>3. IsOurs(i)
  BY DEF SessionInv, AttemptStands
<1> QED BY <1>1, <1>2, <1>3 DEF IsOurs, Session!Removing

LEMMA WorkIsSpared ==
  ASSUME SessionInv, NEW i \in Session!Attempts, Session!Work(i) PROVE Session!KeepsNotOurs
<1>1. CASE Session!EnsureWorker(i)
  <2>1. seed[i] \in Session!Seeded
    BY <1>1, AtWork DEF Session!EnsureWorker, Builds
  <2> DEFINE w == [Session!NoWorker EXCEPT !.by = i]
  <2>2. CASE worker' = [worker EXCEPT ![seed[i]] = w] /\ worker[seed[i]].by = 0
    <3> HIDE DEF w
    <3> QED BY <2>1, <2>2, PutIsSpared
  <2> QED BY <1>1, <2>2, CloudRests DEF Session!EnsureWorker, Session!cloud
<1>2. CASE Session!Upload(i)
  <2>1. seed[i] \in Session!Seeded /\ worker[seed[i]] \in Session!Workers
    BY <1>2, AtWork DEF Session!Upload, Builds
  <2> DEFINE w == Session!Shell(worker[seed[i]])
  <2>2. CASE Session!Put(seed[i], w)
    <3>1. /\ w.code # "retired" /\ w.by = worker[seed[i]].by /\ w.going = worker[seed[i]].going
          /\ worker' = [worker EXCEPT ![seed[i]] = w]
      BY <2>1, <2>2 DEF Session!Shell, Session!Workers, Session!Put
    <3> HIDE DEF w
    <3> QED BY <2>1, <3>1, PutIsSpared
  <2> QED BY <1>2, <2>2, CloudRests DEF Session!Upload, Session!cloud
<1>3. CASE Session!Expose(i)
  <2>1. seed[i] \in Session!Seeded /\ worker[seed[i]] \in Session!Workers
    BY <1>3, AtWork DEF Session!Expose, Builds
  <2> DEFINE w == [worker[seed[i]] EXCEPT !.dev = TRUE]
  <2>2. CASE Session!Put(seed[i], w)
    <3>1. /\ w.code = worker[seed[i]].code /\ w.by = worker[seed[i]].by /\ w.going = worker[seed[i]].going
          /\ worker' = [worker EXCEPT ![seed[i]] = w]
      BY <2>1, <2>2 DEF Session!Workers, Session!Put
    <3> HIDE DEF w
    <3> QED BY <2>1, <3>1, PutIsSpared
  <2> QED BY <1>3, <2>2, CloudRests DEF Session!Expose, Session!cloud
<1>4. CASE Session!Retire(i) \/ Session!Delete(i)
  BY <1>4, AtWork, PutIsSpared, CloudRests DEF Session!Retire, Session!Delete, Tears,
    Session!Removing, Session!Put, Session!cloud
<1>5. CASE \/ Session!Exchange(i) \/ Session!Revoke(i) \/ Session!Account(i) \/ Session!Verify(i) \/ Session!Prove(i)
           \/ Session!FailAttempt(i) \/ Session!RecordProvision(i) \/ Session!CompleteCleanup(i)
  BY <1>5, CloudRests
  DEF Session!Exchange, Session!Revoke, Session!Account, Session!Verify, Session!Prove,
      Session!FailAttempt, Session!RecordProvision, Session!CompleteCleanup, Session!cloud
<1> QED BY <1>1, <1>2, <1>3, <1>4, <1>5 DEF Session!Work

LEMMA StepIsSpared ==
  ASSUME SessionInv, [Session!Next]_(Session!vars) PROVE Session!KeepsNotOurs
<1>1. CASE Session!Browser
  BY <1>1, CloudRests
  DEF Session!Browser, Session!SaveSelection, Session!FreezePlan, Session!NewSession, Session!LoseCookie,
      Session!PollHandoff, Session!AnswerHandoff, Session!cloud
<1>2. ASSUME NEW i \in Session!Attempts, Session!Request(i) PROVE Session!KeepsNotOurs
  BY <1>2, CloudRests
  DEF Session!Request, Session!AuthorizeBootstrap, Session!AuthorizeCleanup, Session!StartAttempt,
      Session!Callback, Session!AttemptExpires, Session!cloud
<1>3. ASSUME NEW i \in Session!Attempts, Session!Work(i) PROVE Session!KeepsNotOurs
  BY <1>3, WorkIsSpared
<1>4. ASSUME NEW s \in Session!Sessions, Session!Alarm(s) \/ Session!SessionExpires(s) PROVE Session!KeepsNotOurs
  BY <1>4, CloudRests DEF Session!Alarm, Session!SessionExpires, Session!cloud
<1>5. ASSUME NEW n \in Session!Seeded, Session!Vanish(n) PROVE Session!KeepsNotOurs
  BY <1>5, PutIsSpared DEF Session!Vanish, Session!Put
<1>6. ASSUME NEW n \in Session!Seeded, Session!Alter(n) PROVE Session!KeepsNotOurs
  <2>1. worker[n] \in Session!Workers
    BY DEF SessionInv, SessionTypes
  <2> DEFINE w == [worker[n] EXCEPT !.code = "other"]
  <2>2. /\ w.code # "retired" /\ w.by = worker[n].by /\ w.going = worker[n].going
        /\ worker' = [worker EXCEPT ![n] = w]
    BY <1>6, <2>1 DEF Session!Alter, Session!Workers
  <2> HIDE DEF w
  <2> QED BY <2>2, PutIsSpared
<1>7. CASE UNCHANGED Session!vars \/ Session!Bind
  BY <1>7, CloudRests DEF Session!vars, Session!Bind
<1> QED BY <1>1, <1>2, <1>3, <1>4, <1>5, <1>6, <1>7 DEF Session!Next

-----------------------------------------------------------------------------
(* What was handed over.                                                    *)

LEMMA ProvisionsAreApart ==
  ASSUME SessionInv, NEW s \in Session!Sessions, sess[s].prov # 0
  PROVE  /\ sess[s].prov \in Session!Attempts /\ OnRecord(sess[s].prov) /\ home[sess[s].prov] = s
BY SessionFacts, SessionIsOne DEF SessionInv, SessionStands, Session!SessionRecord, Session!Attempts

LEMMA StandingWasBegun ==
  ASSUME SessionInv, NEW i \in Session!Attempts, Standing(i) PROVE req[i] # "new" /\ seed[i] \in Session!Seeded
BY ProvisionsAreApart DEF SessionInv, Session!Attempts, AttemptStands, ActsOn, HasReached, Building,
  Standing

LEMMA StandingStood ==
  ASSUME SessionInv, KeptInv, SessionFlow, NEW i \in Session!Attempts, Standing(i)', ~Building(i)'
  PROVE  Standing(i) /\ seed'[i] = seed[i]
<1>1. Standing(i)
  <2>1. CASE i \in released'
    BY <2>1 DEF SessionFlow, Standing
  <2>2. CASE \E s \in Session!Sessions : sess'[s].prov = i /\ sess'[s].phase \in {"provisioned", "handed_off"}
    <3>1. PICK s \in Session!Sessions : sess'[s].prov = i /\ sess'[s].phase \in {"provisioned", "handed_off"}
      BY <2>2
    <3>2. Ebbs(s) /\ i # 0 /\ AttemptStands(i)
      BY DEF SessionFlow, Session!Attempts, SessionInv
    <3>3. CASE req[i] = "record"
      BY <3>2, <3>3 DEF AttemptStands, HasReached, Standing, Building
    <3> QED BY <3>1, <3>2, <3>3 DEF Ebbs, Standing
  <2> QED BY <2>1, <2>2 DEF Standing
<1> QED BY <1>1, StandingWasBegun DEF SessionFlow, Holds

LEMMA HandoverHolds ==
  ASSUME SessionInv, SessionInv', KeptInv, SessionFlow PROVE ReleasedIsHandedOff'
<1> SUFFICES ASSUME NEW s \in Session!Sessions, sess'[s].prov \in released' PROVE sess'[s].phase = "handed_off"
  BY DEF ReleasedIsHandedOff
<1>1. PICK i \in Session!Attempts : i = sess'[s].prov /\ i # 0
  <2>1. released' \subseteq Session!Attempts
    BY DEF SessionInv, SessionTypes
  <2>2. \A j \in Session!Attempts : j # 0
    BY DEF Session!Attempts
  <2> QED BY <2>1, <2>2
<1>2. Ebbs(s)
  BY DEF SessionFlow
<1>3. CASE i \in released
  BY <1>3, SessionFacts, <1>1, <1>2 DEF Ebbs, KeptInv, ReleasedIsHandedOff
<1>4. CASE i \notin released
  <2>1. PICK t \in Session!Sessions :
          sess[t].prov = i /\ sess[t].phase = "provisioned" /\ sess'[t].phase = "handed_off"
    BY <1>1, <1>4 DEF SessionFlow
  <2>2. OnRecord(i) /\ home[i] = t
    BY <1>1, <2>1, ProvisionsAreApart
  <2>3. sess[s].prov = i
    BY <1>1, <1>2, <2>2 DEF Ebbs
  <2>4. s = t
    BY <1>1, <2>2, <2>3, ProvisionsAreApart
  <2> QED BY <2>1, <2>4
<1> QED BY <1>3, <1>4

(* A session that owes the cleanup of a provision goes on owing it.         *)
LEMMA OwedStays ==
  ASSUME SessionInv, SessionFlow, NEW a \in Session!Attempts, OnRecord(a), a \notin released,
         \A u \in Session!Sessions : sess[u].prov = a => sess[u].phase = "cleanup_required"
  PROVE  /\ a \notin released'
         /\ \A u \in Session!Sessions : sess'[u].prov = a => sess'[u].phase = "cleanup_required"
BY DEF SessionFlow, Session!Attempts, Ebbs

LEMMA OwedHolds ==
  ASSUME SessionInv, SessionInv', KeptInv, SessionFlow PROVE CleanupIsOwed'
<1> SUFFICES ASSUME NEW i \in Session!Attempts, kind'[i] = "cleanup"
             PROVE  /\ seed'[i] \notin released'
                    /\ \A u \in Session!Sessions : sess'[u].prov = seed'[i] => sess'[u].phase = "cleanup_required"
  BY DEF CleanupIsOwed, Removes
<1>1. Holds(i)
  BY DEF SessionFlow
<1>2. CASE req[i] # "new"
  BY <1>1, <1>2, OwedStays DEF Holds, Removes, SessionInv, AttemptStands, ActsOn, KeptInv,
    CleanupIsOwed
<1>3. CASE req[i] = "new"
  <2>1. PICK s \in Session!Sessions : sess[s].phase = "cleanup_required" /\ sess[s].prov = seed'[i]
    BY <1>1, <1>3 DEF Holds
  <2>2. sess[s].prov # 0
    BY <2>1 DEF SessionInv, SessionStands, Session!PhaseInvariantsHold
  <2>3. seed'[i] \in Session!Attempts /\ OnRecord(seed'[i]) /\ home[seed'[i]] = s
    BY <2>1, <2>2, ProvisionsAreApart
  <2>4. seed'[i] \notin released
    BY <2>1 DEF KeptInv, ReleasedIsHandedOff
  <2>5. \A u \in Session!Sessions : sess[u].prov = seed'[i] => u = s
    BY <2>1, <2>2, <2>3, ProvisionsAreApart
  <2> QED BY <2>1, <2>3, <2>4, <2>5, OwedStays
<1> QED BY <1>2, <1>3

(* A Worker's new state fits what stands on it and what is being removed.   *)
Fits(n, w) ==
  /\ \A i \in Session!Attempts : Standing(i) /\ seed[i] = n => Stays(i, w, overtaken')
  /\ w.going => w.by \in Session!Attempts /\ OnRecord(w.by)
  /\ \A i \in Session!Attempts : req[i] # "new" /\ Session!Target(i) = n /\ req'[i] = "retire" =>
       w.by \in {0, seed[i]} \/ <<i, w.by>> \in overtaken'

LEMMA RemovesWasBegun ==
  ASSUME SessionInv, SessionFlow, NEW i \in Session!Attempts, req'[i] \in {"retire", "delete"}
  PROVE  req[i] # "new"
BY DEF SessionFlow, Holds

LEMMA StaysOn ==
  ASSUME NEW i \in Session!Attempts, NEW w, Stays(i, w, overtaken), overtaken \subseteq overtaken'
  PROVE  Stays(i, w, overtaken')
BY DEF Stays

LEMMA TargetRests ==
  ASSUME SessionInv, SessionFlow, NEW i \in Session!Attempts, req[i] # "new"
  PROVE  /\ Session!Target(i)' = Session!Target(i) /\ seed'[i] = seed[i] /\ Session!Target(i) \in Session!Seeded
BY AttemptFacts DEF SessionFlow, SessionInv, AttemptStands, ActsOn, HasReached, Holds,
  Session!Target, Removes

LEMMA PutKept ==
  ASSUME SessionInv, SessionInv', KeptInv, SessionFlow, NEW n \in Session!Seeded, NEW w,
         worker' = [worker EXCEPT ![n] = w], Fits(n, w),
         \A i \in Session!Attempts : Building(i)' =>
           Building(i) \/ (seed'[i] = n /\ Stays(i, w, overtaken')),
         \A i \in Session!Attempts : req[i] # "new" /\ req'[i] = "retire" =>
           req'[i] = req[i] \/ Session!Target(i) = n
  PROVE  KeptInv'
<1>1. worker'[n] = w /\ \A m \in Session!Seeded \ {n} : worker'[m] = worker[m]
  BY DEF SessionInv, SessionTypes
<1>0. overtaken \subseteq overtaken'
  BY DEF SessionFlow, OwnersMove, OvertakenGrows
<1>2. StandingIsKept'
  <2> SUFFICES ASSUME NEW i \in Session!Attempts, Standing(i)'
               PROVE  Stays(i, worker'[seed'[i]], overtaken')
    BY DEF StandingIsKept
  <2>1. CASE seed'[i] = n /\ Stays(i, w, overtaken')
    BY <1>1, <2>1
  <2>2. CASE ~(seed'[i] = n /\ Stays(i, w, overtaken'))
    BY <2>2, StandingStood, StandingWasBegun, <1>1, <1>0, StaysOn DEF Standing, SessionFlow, Holds,
      Fits, KeptInv, StandingIsKept
  <2> QED BY <2>1, <2>2
<1>3. ReleasedIsHandedOff' /\ CleanupIsOwed'
  BY HandoverHolds, OwedHolds
<1>4. RetiresRecorded'
  <2> SUFFICES ASSUME NEW i \in Session!Attempts, req'[i] = "retire"
               PROVE  LET k == worker'[Session!Target(i)'].by IN k \in {0, seed'[i]} \/ <<i, k>> \in overtaken'
    BY DEF RetiresRecorded
  <2>1. /\ req[i] # "new" /\ Session!Target(i)' = Session!Target(i) /\ seed'[i] = seed[i]
        /\ Session!Target(i) \in Session!Seeded
    BY RemovesWasBegun, TargetRests
  <2>2. CASE Session!Target(i) = n
    BY <1>1, <2>1, <2>2 DEF Fits
  <2>3. CASE Session!Target(i) # n
    BY <1>0, <1>1, <2>1, <2>3 DEF KeptInv, RetiresRecorded
  <2> QED BY <2>2, <2>3
<1>5. GoingIsRecorded'
  <2> SUFFICES ASSUME NEW m \in Session!Seeded, worker'[m].going
               PROVE  worker'[m].by \in Session!Attempts /\ ok'[worker'[m].by] = "recorded"
    BY DEF GoingIsRecorded, OnRecord
  <2>1. worker'[m].by \in Session!Attempts /\ OnRecord(worker'[m].by)
    BY <1>1 DEF Fits, KeptInv, GoingIsRecorded
  <2> QED BY <2>1 DEF SessionFlow, Holds, OnRecord
<1> QED BY <1>2, <1>3, <1>4, <1>5 DEF KeptInv

LEMMA RestKept ==
  ASSUME SessionInv, SessionInv', KeptInv, SessionFlow, worker' = worker,
         \A i \in Session!Attempts : Building(i)' => Building(i),
         \A i \in Session!Attempts : req[i] # "new" /\ req'[i] = "retire" => req'[i] = req[i]
  PROVE  KeptInv'
<1>1. 1 \in Session!Seeded
  BY SessionIsOne DEF Session!Seeded, Session!Typed
<1>2. worker' = [worker EXCEPT ![1] = worker[1]]
  BY DEF SessionInv, SessionTypes
<1>3. Fits(1, worker[1])
  BY StaysOn, <1>1 DEF SessionFlow, OwnersMove, OvertakenGrows, KeptInv, StandingIsKept, Fits,
    RetiresRecorded, GoingIsRecorded
<1> QED BY <1>1, <1>2, <1>3, PutKept

LEMMA CallsRest ==
  ASSUME SessionInv, SessionInv', KeptInv, SessionFlow, UNCHANGED <<worker, kind, req, ok>> PROVE KeptInv'
BY RestKept DEF Building, Removes

(* One attempt moves, to a point where it neither builds nor removes.       *)
LEMMA OneRests ==
  ASSUME SessionInv, SessionInv', KeptInv, SessionFlow, worker' = worker, NEW i \in Session!Attempts,
         \A j \in Session!Attempts \ {i} : kind'[j] = kind[j] /\ req'[j] = req[j] /\ ok'[j] = ok[j],
         req'[i] # "retire", Building(i)' => Building(i)
  PROVE  KeptInv'
BY RestKept DEF Building, Removes

LEMMA RequestKept ==
  ASSUME SessionInv, SessionInv', KeptInv, SessionFlow, NEW i \in Session!Attempts, Session!Request(i)
  PROVE  KeptInv'
BY CallsRest, OneRests DEF SessionInv, Session!AttemptExpires, Session!cloud,
  Session!AuthorizeBootstrap, Session!AuthorizeCleanup, Session!StartAttempt, SessionTypes,
  Building, Session!Callback, Session!Request

LEMMA AnswersKept ==
  ASSUME SessionInv, SessionInv', KeptInv, SessionFlow, NEW i \in Session!Attempts,
         \/ Session!Exchange(i) \/ Session!Revoke(i) \/ Session!FailAttempt(i) \/ Session!RecordProvision(i)
         \/ Session!CompleteCleanup(i)
  PROVE  KeptInv'
BY OneRests DEF SessionInv, Session!Exchange, Session!Revoke, Session!FailAttempt,
  Session!RecordProvision, Session!CompleteCleanup, Session!cloud, SessionTypes, Building, Removes

(* The next point of a callback's work, or its end.                         *)
LEMMA GoodPoint ==
  ASSUME SessionInv, NEW i \in Session!Attempts, NEW to, Session!Good(i, to)
  PROVE  /\ UNCHANGED <<kind, seed, ok>> /\ req'[i] = to
         /\ \A j \in Session!Attempts \ {i} : kind'[j] = kind[j] /\ req'[j] = req[j] /\ ok'[j] = ok[j]
BY DEF SessionInv, SessionTypes, Session!Good, Session!Step

LEMMA EndPoint ==
  ASSUME SessionInv, NEW i \in Session!Attempts, Session!Bad(i) \/ Session!Refuse(i)
  PROVE  /\ UNCHANGED <<kind, seed>> /\ req'[i] = "revoke" /\ ~Building(i)'
         /\ \A j \in Session!Attempts \ {i} : kind'[j] = kind[j] /\ req'[j] = req[j] /\ ok'[j] = ok[j]
BY DEF SessionInv, SessionTypes, Session!Bad, Session!Refuse, Session!Step, Building

LEMMA EndsKept ==
  ASSUME SessionInv, SessionInv', KeptInv, SessionFlow, NEW i \in Session!Attempts, worker' = worker,
         Session!Bad(i) \/ Session!Refuse(i)
  PROVE  KeptInv'
BY EndPoint, OneRests

(* The Worker's owner is the only attempt that stands on it.                *)
LEMMA BuildFits ==
  ASSUME SessionInv, KeptInv, NEW i \in Session!Attempts, NEW n \in Session!Seeded, NEW w,
         ~OnRecord(i), worker[n].by \in {0, i}, w.by = i, ~w.going, overtaken \subseteq overtaken',
         worker[n].by = i => w.code = worker[n].code \/ w.code = "shell",
         req'[i] # "retire", \A j \in Session!Attempts \ {i} : req'[j] = req[j],
         worker[n].by = i \/
           \A j \in Session!Attempts : req[j] = "retire" /\ Session!Target(j) = n => <<j, i>> \in overtaken'
  PROVE  Fits(n, w)
BY StaysOn DEF KeptInv, StandingIsKept, Stays, Session!Attempts, RetiresRecorded, Fits

LEMMA BuildPutKept ==
  ASSUME SessionInv, SessionInv', KeptInv, SessionFlow, NEW i \in Session!Attempts, NEW w,
         req[i] \in Builds, Session!Put(seed[i], w),
         worker[seed[i]].by = i, w.by = i, ~w.going, w.code = worker[seed[i]].code \/ w.code = "shell",
         NEW to \in {"upload", "expose", "revoke"},
         Session!Good(i, to) \/ Session!Bad(i) \/ Session!Refuse(i),
         Session!Good(i, to) => Stays(i, w, overtaken')
  PROVE  KeptInv'
<1>1. seed[i] \in Session!Seeded /\ ~OnRecord(i) /\ worker' = [worker EXCEPT ![seed[i]] = w] /\ seed' = seed
  BY AtWork, GoodPoint, EndPoint DEF Session!Put
<1>2. /\ req'[i] # "retire" /\ (Building(i)' => Stays(i, w, overtaken'))
      /\ \A j \in Session!Attempts \ {i} : kind'[j] = kind[j] /\ req'[j] = req[j] /\ ok'[j] = ok[j]
  BY GoodPoint, EndPoint
<1>0. overtaken \subseteq overtaken'
  BY DEF SessionFlow, OwnersMove, OvertakenGrows
<1>3. Fits(seed[i], w)
  BY <1>0, <1>1, <1>2, BuildFits
<1>4. \A j \in Session!Attempts : Building(j)' => Building(j) \/ (seed'[j] = seed[i] /\ Stays(j, w, overtaken'))
  BY <1>1, <1>2 DEF Building, Removes
<1> QED BY <1>1, <1>2, <1>3, <1>4, PutKept

LEMMA EnsureKept ==
  ASSUME SessionInv, SessionInv', KeptInv, SessionFlow, NEW i \in Session!Attempts, Session!EnsureWorker(i)
  PROVE  KeptInv'
<1>1. req[i] \in Builds
  BY DEF Session!EnsureWorker, Builds
<1>2. CASE /\ worker[seed[i]].by = 0 /\ worker' = [worker EXCEPT ![seed[i]] = [Session!NoWorker EXCEPT !.by = i]]
           /\ Session!Overtakes(i, {j \in Session!Attempts : Session!Removing(j) /\ Session!Target(j) = seed[i]})
           /\ Session!Good(i, "upload") \/ Session!Bad(i)
  <2> DEFINE w == [Session!NoWorker EXCEPT !.by = i]
  <2>1. w.by = i /\ ~w.going /\ worker' = [worker EXCEPT ![seed[i]] = w]
    BY <1>2 DEF Session!NoWorker
  <2>2. i # 0
    BY DEF Session!Attempts
  <2> HIDE DEF w
  <2>3. seed[i] \in Session!Seeded /\ ~OnRecord(i) /\ seed' = seed
    BY <1>1, <1>2, AtWork, GoodPoint, EndPoint
  <2>4. /\ req'[i] # "retire" /\ ~Building(i)'
        /\ \A j \in Session!Attempts \ {i} : kind'[j] = kind[j] /\ req'[j] = req[j] /\ ok'[j] = ok[j]
    BY <1>2, GoodPoint, EndPoint DEF Building
  <2>5. \A j \in Session!Attempts : req[j] = "retire" /\ Session!Target(j) = seed[i] => <<j, i>> \in overtaken'
    BY <1>2 DEF Session!Overtakes, Session!Removing
  <2>6. overtaken \subseteq overtaken'
    BY DEF SessionFlow, OwnersMove, OvertakenGrows
  <2>7. Fits(seed[i], w)
    BY <1>2, <2>1, <2>2, <2>3, <2>4, <2>5, <2>6, BuildFits
  <2>8. \A j \in Session!Attempts : Building(j)' => Building(j)
    BY <2>4 DEF Building, Removes
  <2> QED BY <2>1, <2>3, <2>4, <2>7, <2>8, PutKept
<1>3. CASE UNCHANGED Session!cloud /\ Session!Good(i, "upload")
  BY <1>3, GoodPoint, OneRests DEF Building, Session!cloud
<1>4. CASE UNCHANGED Session!cloud /\ (Session!Bad(i) \/ Session!Refuse(i))
  BY <1>4, EndsKept DEF Session!cloud
<1> QED BY <1>2, <1>3, <1>4 DEF Session!EnsureWorker

LEMMA UploadKept ==
  ASSUME SessionInv, SessionInv', KeptInv, SessionFlow, NEW i \in Session!Attempts, Session!Upload(i)
  PROVE  KeptInv'
<1>1. req[i] \in Builds /\ seed[i] \in Session!Seeded /\ worker[seed[i]] \in Session!Workers
  BY AtWork DEF Session!Upload, Builds
<1>2. CASE /\ Session!Blank(worker[seed[i]], i) /\ Session!Put(seed[i], Session!Shell(worker[seed[i]]))
           /\ Session!Good(i, "expose") \/ Session!Bad(i)
  <2> DEFINE w == Session!Shell(worker[seed[i]])
  <2>1. w.by = i /\ w.going = worker[seed[i]].going /\ w.code = "shell" /\ Session!Put(seed[i], w)
    BY <1>1, <1>2 DEF Session!Shell, Session!Blank, Session!Workers
  <2>2. worker[seed[i]].by = i /\ ~worker[seed[i]].going /\ Stays(i, w, overtaken')
    BY <1>1, <1>2, <2>1, AtWork DEF Session!Blank, KeptInv, GoingIsRecorded, Stays
  <2> HIDE DEF w
  <2> QED BY <1>1, <1>2, <2>1, <2>2, BuildPutKept
<1>3. CASE UNCHANGED Session!cloud /\ (Session!Bad(i) \/ Session!Refuse(i))
  BY <1>3, EndsKept DEF Session!cloud
<1> QED BY <1>2, <1>3 DEF Session!Upload

LEMMA ExposeKept ==
  ASSUME SessionInv, SessionInv', KeptInv, SessionFlow, NEW i \in Session!Attempts, Session!Expose(i)
  PROVE  KeptInv'
<1>1. req[i] \in Builds /\ seed[i] \in Session!Seeded /\ worker[seed[i]] \in Session!Workers /\ req[i] = "expose"
  BY AtWork DEF Session!Expose, Builds
<1>2. CASE /\ worker[seed[i]].by = i /\ Session!Put(seed[i], [worker[seed[i]] EXCEPT !.dev = TRUE])
           /\ Session!Good(i, "revoke") \/ Session!Refuse(i) \/ Session!Bad(i)
  <2> DEFINE w == [worker[seed[i]] EXCEPT !.dev = TRUE]
  <2>1. w.by = i /\ w.going = worker[seed[i]].going /\ w.code = worker[seed[i]].code /\ Session!Put(seed[i], w)
    BY <1>1, <1>2 DEF Session!Workers
  <2>2. Stays(i, worker[seed[i]], overtaken)
    BY <1>1, AtWork DEF Building, KeptInv, StandingIsKept, Standing
  <2>3. ~w.going /\ Stays(i, w, overtaken')
    BY <2>1, <2>2 DEF Stays, SessionFlow, OwnersMove, OvertakenGrows
  <2> HIDE DEF w
  <2> QED BY <1>1, <1>2, <2>1, <2>2, <2>3, BuildPutKept
<1>3. CASE UNCHANGED Session!cloud /\ (Session!Bad(i) \/ Session!Refuse(i))
  BY <1>3, EndsKept DEF Session!cloud
<1> QED BY <1>2, <1>3 DEF Session!Expose

LEMMA AccountKept ==
  ASSUME SessionInv, SessionInv', KeptInv, SessionFlow, NEW i \in Session!Attempts,
         Session!Account(i) \/ Session!Prove(i)
  PROVE  KeptInv'
<1>1. worker' = worker
  BY DEF Session!Account, Session!Prove, Session!cloud
<1>2. CASE Session!Bad(i)
  BY <1>1, <1>2, EndsKept
<1>3. CASE Session!Account(i) /\ Session!Good(i, "create")
  BY <1>1, <1>3, GoodPoint, OneRests DEF Building
<1>4. CASE Session!Prove(i) /\ Session!Good(i, "revoke")
  BY <1>4, AtWork, <1>1, GoodPoint, OneRests DEF Session!Prove, Tears, Building, Removes
<1> QED BY <1>2, <1>3, <1>4 DEF Session!Account, Session!Prove

LEMMA VerifyKept ==
  ASSUME SessionInv, SessionInv', KeptInv, SessionFlow, NEW i \in Session!Attempts, Session!Verify(i)
  PROVE  KeptInv'
<1> DEFINE n == Session!Target(i)
<1>1. /\ n \in Session!Seeded /\ Removes(i) /\ worker' = worker /\ worker' = [worker EXCEPT ![n] = worker[n]]
  BY AtWork DEF Session!Verify, Tears, Session!cloud, SessionInv, SessionTypes
<1>2. ASSUME NEW to \in {"retire", "delete"}, Session!Good(i, to),
             worker[n].by = seed[i]
      PROVE  KeptInv'
  <2>1. /\ UNCHANGED <<kind, ok>> /\ req'[i] = to /\ \A j \in Session!Attempts \ {i} : req'[j] = req[j]
    BY <1>2, GoodPoint
  <2>0. overtaken \subseteq overtaken'
    BY DEF SessionFlow, OwnersMove, OvertakenGrows
  <2>5. ASSUME NEW j \in Session!Attempts, Standing(j), seed[j] = n PROVE Stays(j, worker[n], overtaken')
    BY <2>0, <2>5, StaysOn DEF KeptInv, StandingIsKept
  <2>2. Fits(n, worker[n])
    BY <1>1, <1>2, <2>0, <2>1, <2>5 DEF KeptInv, GoingIsRecorded, RetiresRecorded, Fits
  <2>3. \A j \in Session!Attempts : Building(j)' => Building(j)
    BY <2>1 DEF Building, Removes
  <2>4. \A j \in Session!Attempts : req[j] # "new" /\ req'[j] = "retire" =>
          req'[j] = req[j] \/ Session!Target(j) = n
    BY <2>1
  <2> HIDE DEF n
  <2> QED BY <1>1, <2>2, <2>3, <2>4, PutKept
<1>3. CASE Session!Bad(i) \/ Session!Refuse(i)
  BY <1>1, <1>3, EndsKept
<1> QED BY <1>2, <1>3 DEF Session!Verify, Session!Recorded

(* What is being removed stands no more.                                    *)
LEMMA NoneStands ==
  ASSUME SessionInv, KeptInv, NEW i \in Session!Attempts, Removes(i), NEW j \in Session!Attempts, Standing(j)
  PROVE  seed[i] # j
<1> SUFFICES ASSUME seed[i] = j PROVE FALSE
  OBVIOUS
<1>1. j \notin released /\ \A s \in Session!Sessions : sess[s].prov = j => sess[s].phase = "cleanup_required"
  BY DEF KeptInv, CleanupIsOwed
<1>2. OnRecord(j)
  BY DEF SessionInv, AttemptStands, ActsOn
<1>3. ~Building(j)
  BY <1>2 DEF SessionInv, AttemptStands, HasReached, Building, OnRecord
<1> QED BY <1>1, <1>3 DEF Standing

LEMMA RemovalFits ==
  ASSUME SessionInv, KeptInv, NEW n \in Session!Seeded, NEW w, overtaken \subseteq overtaken',
         w.by \in {0, worker[n].by}, w.by = 0 => ~w.going,
         \A j \in Session!Attempts : req'[j] = "retire" => req[j] = "retire",
         \A j \in Session!Attempts : Standing(j) /\ seed[j] = n => Stays(j, w, overtaken'),
         w.going => worker[n].going \/ (w.by \in Session!Attempts /\ OnRecord(w.by))
  PROVE  Fits(n, w)
BY DEF KeptInv, GoingIsRecorded, RetiresRecorded, Fits

LEMMA RetireKept ==
  ASSUME SessionInv, SessionInv', KeptInv, SessionFlow, NEW i \in Session!Attempts, Session!Retire(i)
  PROVE  KeptInv'
<1> DEFINE n == Session!Target(i)
<1>1. /\ n \in Session!Seeded /\ Removes(i) /\ worker[n] \in Session!Workers /\ req[i] = "retire"
  BY AtWork DEF Session!Retire, Tears
<1>2. overtaken \subseteq overtaken'
  BY DEF SessionFlow, OwnersMove, OvertakenGrows
<1>7. worker[n].going => worker[n].by # 0
  BY <1>1 DEF KeptInv, GoingIsRecorded, Session!Attempts
<1>3. ASSUME NEW w, Session!Put(n, w), w.by = worker[n].by, w.going = worker[n].going,
             w.code \in {worker[n].code, "retired"},
             Session!Good(i, "delete") \/ Session!Bad(i) \/ Session!Refuse(i)
      PROVE  KeptInv'
  <2>1. /\ req'[i] \in {"delete", "revoke"} /\ ~Building(i)'
        /\ \A j \in Session!Attempts \ {i} : kind'[j] = kind[j] /\ req'[j] = req[j] /\ ok'[j] = ok[j]
    BY <1>3, GoodPoint, EndPoint DEF Building
  <2>2. worker' = [worker EXCEPT ![n] = w]
    BY <1>3 DEF Session!Put
  <2>3. ASSUME NEW j \in Session!Attempts, Standing(j), seed[j] = n PROVE Stays(j, w, overtaken')
    BY <2>3, <1>1, NoneStands, <1>2, <1>3 DEF KeptInv, StandingIsKept, Stays, Session!Attempts,
      RetiresRecorded
  <2>7. \A j \in Session!Attempts : req'[j] = "retire" => req[j] = "retire"
    BY <2>1
  <2>8. w.by = 0 => ~w.going
    BY <1>3, <1>7
  <2> HIDE DEF n
  <2>4. Fits(n, w)
    BY <1>1, <1>2, <1>3, <2>3, <2>7, <2>8, RemovalFits
  <2> USE DEF n
  <2>5. \A j \in Session!Attempts : Building(j)' => Building(j)
    BY <2>1 DEF Building, Removes
  <2>6. \A j \in Session!Attempts : req[j] # "new" /\ req'[j] = "retire" =>
          req'[j] = req[j] \/ Session!Target(j) = n
    BY <2>1
  <2> HIDE DEF n
  <2> QED BY <1>1, <2>2, <2>4, <2>5, <2>6, PutKept
<1>4. CASE Session!Put(n, [worker[n] EXCEPT !.dev = FALSE]) /\ Session!Bad(i)
  <2> DEFINE w == [worker[n] EXCEPT !.dev = FALSE]
  <2>1. w.by = worker[n].by /\ w.going = worker[n].going /\ w.code = worker[n].code
    BY <1>1 DEF Session!Workers
  <2> HIDE DEF w
  <2>2. Session!Put(n, w)
    BY <1>4 DEF w
  <2> QED BY <1>3, <1>4, <2>1, <2>2
<1>5. CASE /\ Session!Put(n, [worker[n] EXCEPT !.dev = FALSE, !.code = "retired", !.ns = FALSE])
           /\ Session!Good(i, "delete") \/ Session!Refuse(i) \/ Session!Bad(i)
  <2> DEFINE w == [worker[n] EXCEPT !.dev = FALSE, !.code = "retired", !.ns = FALSE]
  <2>1. w.by = worker[n].by /\ w.going = worker[n].going /\ w.code = "retired"
    BY <1>1 DEF Session!Workers
  <2> HIDE DEF w
  <2>2. Session!Put(n, w)
    BY <1>5 DEF w
  <2> QED BY <1>3, <1>5, <2>1, <2>2
<1>6. CASE UNCHANGED Session!cloud /\ (Session!Bad(i) \/ Session!Refuse(i))
  BY <1>6, EndsKept DEF Session!cloud
<1> QED BY <1>4, <1>5, <1>6 DEF Session!Retire

LEMMA DeleteKept ==
  ASSUME SessionInv, SessionInv', KeptInv, SessionFlow, NEW i \in Session!Attempts, Session!Delete(i)
  PROVE  KeptInv'
<1> DEFINE n == Session!Target(i)
<1>1. /\ n \in Session!Seeded /\ Removes(i) /\ worker[n] \in Session!Workers /\ req[i] = "delete"
  BY AtWork DEF Session!Delete, Tears
<1>2. ASSUME NEW w, Session!Put(n, w), worker[n].by = seed[i],
             (w.by = 0 /\ ~w.going) \/ w.by = seed[i],
             Session!Good(i, "prove") \/ Session!Bad(i)
      PROVE  KeptInv'
  <2>1. /\ req'[i] \in {"prove", "revoke"} /\ ~Building(i)'
        /\ \A j \in Session!Attempts \ {i} : kind'[j] = kind[j] /\ req'[j] = req[j] /\ ok'[j] = ok[j]
    BY <1>2, GoodPoint, EndPoint DEF Building
  <2>2. worker' = [worker EXCEPT ![n] = w]
    BY <1>2 DEF Session!Put
  <2>3. \A j \in Session!Attempts : Standing(j) => seed[j] # n
    BY <1>1, <1>2, NoneStands DEF KeptInv, StandingIsKept, Stays
  <2>7. \A j \in Session!Attempts : req'[j] = "retire" => req[j] = "retire"
    BY <2>1
  <2>8. seed[i] \in Session!Attempts /\ OnRecord(seed[i]) /\ seed[i] # 0
    BY <1>1 DEF SessionInv, AttemptStands, ActsOn, Session!Attempts
  <2>9. overtaken \subseteq overtaken'
    BY DEF SessionFlow, OwnersMove, OvertakenGrows
  <2> HIDE DEF n
  <2>4. Fits(n, w)
    BY <1>1, <1>2, <2>3, <2>7, <2>8, <2>9, RemovalFits
  <2> USE DEF n
  <2>5. \A j \in Session!Attempts : Building(j)' => Building(j)
    BY <2>1 DEF Building, Removes
  <2>6. \A j \in Session!Attempts : req[j] # "new" /\ req'[j] = "retire" =>
          req'[j] = req[j] \/ Session!Target(j) = n
    BY <2>1
  <2> HIDE DEF n
  <2> QED BY <1>1, <2>2, <2>4, <2>5, <2>6, PutKept
<1>3. CASE /\ worker[n].by = seed[i] /\ Session!Put(n, Session!NoWorker)
           /\ Session!Good(i, "prove") \/ Session!Bad(i)
  <2> DEFINE w == Session!NoWorker
  <2>2. w.by = 0 /\ ~w.going /\ Session!Put(n, w)
    BY <1>3 DEF Session!NoWorker
  <2> HIDE DEF w
  <2> QED BY <1>2, <1>3, <2>2
<1>4. CASE /\ worker[n].by = seed[i] /\ Session!Put(n, [worker[n] EXCEPT !.going = TRUE])
           /\ Session!Good(i, "prove") \/ Session!Bad(i)
  <2> DEFINE w == [worker[n] EXCEPT !.going = TRUE]
  <2>2. w.by = seed[i]
    BY <1>1, <1>4 DEF Session!Workers
  <2> HIDE DEF w
  <2>3. Session!Put(n, w)
    BY <1>4 DEF w
  <2> QED BY <1>2, <1>4, <2>2, <2>3
<1>5. CASE UNCHANGED Session!cloud /\ (Session!Bad(i) \/ Session!Refuse(i))
  BY <1>5, EndsKept DEF Session!cloud
<1> QED BY <1>3, <1>4, <1>5 DEF Session!Delete, Session!Recorded

LEMMA VanishKept ==
  ASSUME SessionInv, SessionInv', KeptInv, SessionFlow, NEW n \in Session!Seeded, Session!Vanish(n)
  PROVE  KeptInv'
<1>1. /\ worker[n].going /\ worker' = [worker EXCEPT ![n] = Session!NoWorker] /\ UNCHANGED <<kind, seed, req, ok>>
  BY DEF Session!Vanish, Session!Put, Session!call
<1>2. \A j \in Session!Attempts : Standing(j) => seed[j] # n
  BY <1>1 DEF KeptInv, StandingIsKept, Stays
<1> DEFINE w == Session!NoWorker
<1>3. w.by = 0 /\ ~w.going /\ worker' = [worker EXCEPT ![n] = w]
  BY <1>1 DEF Session!NoWorker
<1> HIDE DEF w
<1>4. Fits(n, w)
  BY <1>2, <1>3 DEF Fits
<1>5. \A j \in Session!Attempts : Building(j)' => Building(j)
  BY <1>1 DEF Building, Removes
<1> QED BY <1>1, <1>3, <1>4, <1>5, PutKept

LEMMA AlterKept ==
  ASSUME SessionInv, SessionInv', KeptInv, SessionFlow, NEW n \in Session!Seeded, Session!Alter(n)
  PROVE  KeptInv'
<1>1. /\ worker' = [worker EXCEPT ![n] = [worker[n] EXCEPT !.code = "other"]]
      /\ UNCHANGED <<kind, seed, req, ok>> /\ worker[n] \in Session!Workers
  BY DEF Session!Alter, Session!call, SessionInv, SessionTypes
<1> DEFINE w == [worker[n] EXCEPT !.code = "other"]
<1>2. w.by = worker[n].by /\ w.going = worker[n].going /\ w.code = "other"
  BY <1>1 DEF Session!Workers
<1>3. worker' = [worker EXCEPT ![n] = w]
  BY <1>1
<1> HIDE DEF w
<1>6. overtaken \subseteq overtaken'
  BY DEF SessionFlow, OwnersMove, OvertakenGrows
<1>7. ASSUME NEW j \in Session!Attempts, Standing(j), seed[j] = n PROVE Stays(j, w, overtaken')
  BY <1>2, <1>7 DEF KeptInv, StandingIsKept, Stays
<1>4. Fits(n, w)
  BY <1>1, <1>2, <1>6, <1>7 DEF KeptInv, RetiresRecorded, GoingIsRecorded, Fits
<1>5. \A j \in Session!Attempts : Building(j)' => Building(j)
  BY <1>1 DEF Building, Removes
<1> QED BY <1>1, <1>3, <1>4, <1>5, PutKept

LEMMA KeptHolds ==
  ASSUME RememberInv, KeptInv, [Session!Next]_(Session!vars) PROVE KeptInv'
<1>1. SessionInv /\ SessionInv' /\ SessionFlow
  BY SessionStepFlows, SessionStepHolds DEF RememberInv
<1>2. CASE Session!Browser
  BY <1>1, <1>2, CallsRest
  DEF Session!Browser, Session!SaveSelection, Session!FreezePlan, Session!NewSession, Session!LoseCookie,
      Session!PollHandoff, Session!AnswerHandoff, Session!cloud, Session!call
<1>3. ASSUME NEW i \in Session!Attempts, Session!Request(i) \/ Session!Work(i) PROVE KeptInv'
  BY <1>1, <1>3, RequestKept, AnswersKept, AccountKept, EnsureKept, UploadKept, ExposeKept, VerifyKept,
     RetireKept, DeleteKept
  DEF Session!Work
<1>4. ASSUME NEW s \in Session!Sessions, Session!Alarm(s) \/ Session!SessionExpires(s) PROVE KeptInv'
  BY <1>1, <1>4, CallsRest DEF Session!Alarm, Session!SessionExpires, Session!cloud, Session!call
<1>5. ASSUME NEW n \in Session!Seeded, Session!Vanish(n) \/ Session!Alter(n) PROVE KeptInv'
  BY <1>1, <1>5, VanishKept, AlterKept
<1>6. CASE UNCHANGED Session!vars \/ Session!Bind
  BY <1>1, <1>6, CallsRest DEF Session!vars, Session!Bind, Session!call
<1> QED BY <1>2, <1>3, <1>4, <1>5, <1>6 DEF Session!Next

LEMMA KeptInitHolds == Session!Init => KeptInv
<1> SUFFICES ASSUME Session!Init PROVE KeptInv
  OBVIOUS
<1>1. \A i \in Session!Attempts : ~Standing(i)
  BY SessionRecords DEF Session!Init, Standing, Building, Session!Attempts
<1>2. StandingIsKept
  BY <1>1 DEF StandingIsKept
<1>3. ReleasedIsHandedOff /\ CleanupIsOwed /\ RetiresRecorded /\ GoingIsRecorded
  BY DEF Session!Init, ReleasedIsHandedOff, CleanupIsOwed, RetiresRecorded, GoingIsRecorded, Removes,
         Session!NoWorker
<1> QED BY <1>2, <1>3 DEF KeptInv

LEMMA KeptIsSafe == RememberInv /\ KeptInv => Session!Safe
<1> SUFFICES ASSUME RememberInv, KeptInv PROVE Session!Safe
  OBVIOUS
<1>1. Session!ReleasedIsKept
  BY SessionFacts DEF RememberInv, KeptInv, StandingIsKept, Standing, Stays, Session!ReleasedIsKept
<1> QED BY <1>1, RememberIsSafe DEF SessionRecordsAreSafe, Session!Safe

\* Stage1Session, for any number of sessions, approvals, plans and faults: every record keeps the
\* phase's invariants, a recorded Worker stays on record until it is handed over or gone whatever
\* expires, fails or begins anew, a session records a provision only once its grant is revoked, a
\* cleanup completes only when the recorded Worker is gone, and a callback redeems its code once.
THEOREM SessionRecordSafety ==
  Session!Spec =>
    [](Session!TypeOK /\ Session!ProvisionIsRemembered /\ Session!RecordedIsRevoked /\ Session!RedeemedOnce)
<1>1. Session!Init => RememberInv
  BY RememberInitHolds
<1>2. RememberInv /\ [Session!Next]_(Session!vars) => RememberInv'
  BY RememberHolds
<1>3. RememberInv =>
        Session!TypeOK /\ Session!ProvisionIsRemembered /\ Session!RecordedIsRevoked /\ Session!RedeemedOnce
  BY RememberIsSafe DEF SessionRecordsAreSafe
<1> QED BY <1>1, <1>2, <1>3, PTL DEF Session!Spec

\* Stage1Session, for any number of sessions, approvals, plans and faults, whatever the customer
\* changes and when: beside the records, a capability that left the installer belongs to a Worker the
\* installer never removes, and that only a cleanup which was about to retire an earlier Worker of
\* that name when this one was made retires.
THEOREM SessionSafety == Session!Spec => []Session!Safe
<1> DEFINE Inv == RememberInv /\ KeptInv
<1>1. Session!Init => Inv
  BY RememberInitHolds, KeptInitHolds
<1>2. Inv /\ [Session!Next]_(Session!vars) => Inv'
  BY RememberHolds, KeptHolds
<1>3. Inv => Session!Safe
  BY KeptIsSafe
<1> QED BY <1>1, <1>2, <1>3, PTL DEF Session!Spec

\* Stage1Session: no step retires or removes a Worker that was changed by hand or that another
\* script of the account binds (readExactVersion, foreignBindingsUnshared), but that of a cleanup
\* which had verified it before something was changed.
THEOREM SessionSparesOthers == Session!Spec => [][Session!KeepsNotOurs]_(Session!vars)
<1>1. Session!Init => RememberInv
  BY RememberInitHolds
<1>2. RememberInv /\ [Session!Next]_(Session!vars) => RememberInv'
  BY RememberHolds
<1>3. RememberInv /\ [Session!Next]_(Session!vars) => [Session!KeepsNotOurs]_(Session!vars)
  BY StepIsSpared DEF RememberInv
<1> QED BY <1>1, <1>2, <1>3, PTL DEF Session!Spec

-------------------------------------------------------------------------------
(* Ownership *)

Deployments == [id : Nat, version : Nat, sole : BOOLEAN]
Passes      == [at : Owner!PassSteps, dep : Nat \X Nat]
MoreTypes ==
  /\ versions \in Seq(Owner!VersionRecords) /\ Len(versions) \in 1..MaxVersions
  /\ Len(ownerIssued) <= MaxIssued /\ configured \in 0..Len(ownerIssued)
  /\ adopted <= Len(versions) /\ active \in Deployments /\ pass \in Passes

\* A start that is still reading holds the attempt, and what it read is what the setup holds: nobody
\* certifies another review under an attempt.
StartsStand ==
  \A t \in Tabs :
    /\ start[t].at \in {"persisted", "read", "checked"} =>
         host = "shell" /\ oauth = [tab |-> t, phase |-> "authorizing"]
    /\ start[t].at \in {"read", "checked"} => start[t].seen = configured
    /\ start[t].at = "checked" => start[t].seen # 0

\* A pass of the bootstrap runs under an attempt that was called back, and works on an adoption while
\* nothing is adopted; the version it read stays what it is.
PassStands ==
  /\ host = "shell" /\ pass.at # "idle" => oauth.phase \in {"converging", "finalizing"}
  /\ pass.at \in {"worker", "version", "namespace", "again", "adopt"} => adopted = 0
  /\ pass.at \in {"version", "namespace", "again", "adopt"} => pass.dep[2] \in DOMAIN versions
  /\ pass.at \in {"namespace", "again", "adopt"} => Owner!ExactBootstrapVersion(pass.dep[2])
  /\ pass.at = "adopt" => closing = pass.dep[2]

OwnerInv ==
  /\ Owner!TypeOK /\ MoreTypes /\ StartsStand /\ PassStands /\ Owner!AcceptedIsConfigured
  /\ Owner!AdoptedWasDeployed

USE DEF Owner!StoredPermits, Owner!AdoptionReceipts, Owner!OwnershipStates, Owner!Handoffs,
  Owner!Phases, Owner!StartSteps, Owner!PassSteps, Owner!Kinds, Owner!Hosts, Deployments

LEMMA OwnerInitHolds == Owner!Init => OwnerInv
<1> SUFFICES ASSUME Owner!Init PROVE OwnerInv
  OBVIOUS
<1>0. [kind |-> "boot", nonce |-> TRUE, from |-> 0] \in Owner!VersionRecords
  BY OwnerBounds DEF Owner!VersionRecords
<1>1. /\ versions \in Seq(Owner!VersionRecords) /\ Len(versions) = 1 /\ DOMAIN versions = {1}
  BY <1>0 DEF Owner!Init
<1>2. Owner!TypeOK
  <2>1. ownerIssued \in Owner!SignedHandoffs /\ configured \in Owner!Handoffs
    BY OwnerBounds DEF Owner!Init, Owner!SignedHandoffs
  <2>2. [accepted |-> accepted, adopted |-> adopted] \in Owner!OwnershipStates
    BY OwnerBounds DEF Owner!Init
  <2>3. /\ oauth \in [tab : Tabs \cup {None}, phase : Owner!Phases]
        /\ start \in [Tabs -> [at : Owner!StartSteps, seen : Owner!Handoffs]]
    BY OwnerBounds DEF Owner!Init, Owner!NoOauth, Owner!Idle
  <2>4. \A v \in DOMAIN versions : versions[v] \in Owner!VersionRecords
    BY <1>1
  <2> QED BY <1>1, <2>1, <2>2, <2>3, <2>4 DEF Owner!Init, Owner!TypeOK, Owner!NoPass
<1>3. MoreTypes
  BY <1>1, OwnerBounds DEF Owner!Init, MoreTypes, Owner!NoPass, Passes
<1>4. StartsStand /\ PassStands /\ Owner!AcceptedIsConfigured /\ Owner!AdoptedWasDeployed
  BY DEF Owner!Init, StartsStand, PassStands, Owner!AcceptedIsConfigured,
    Owner!AdoptedWasDeployed, Owner!NoPass, Owner!Idle
<1> QED BY <1>2, <1>3, <1>4 DEF OwnerInv

-----------------------------------------------------------------------------
\* Versions are only added.
VersionsKept ==
  /\ versions' \in Seq(Owner!VersionRecords) /\ Len(versions') \in 1..MaxVersions
  /\ Len(versions) <= Len(versions')
  /\ \A v \in 1..Len(versions) : versions'[v] = versions[v]

LEMMA OneMoreVersion ==
  ASSUME OwnerInv, Len(versions) < MaxVersions, NEW v \in Owner!VersionRecords,
         versions' = Append(versions, v)
  PROVE  VersionsKept /\ Len(versions') = Len(versions) + 1
BY OwnerBounds DEF VersionsKept, OwnerInv, MoreTypes

LEMMA ScriptAddsVersion ==
  ASSUME OwnerInv, Owner!PutScript
  PROVE  VersionsKept /\ active' \in Deployments /\ active'.version \in DOMAIN versions'
<1>1. versions[Len(versions)] \in Owner!VersionRecords
  BY OwnerBounds DEF OwnerInv, MoreTypes
<1>2. [kind |-> "final", nonce |-> versions[Len(versions)].nonce, from |-> Len(versions)] \in Owner!VersionRecords
  BY <1>1 DEF OwnerInv, MoreTypes, Owner!VersionRecords
<1> QED BY <1>2, OneMoreVersion DEF Owner!PutScript, OwnerInv, MoreTypes, VersionsKept

LEMMA DeletionAddsVersion ==
  ASSUME OwnerInv, Owner!WithoutNonce
  PROVE  VersionsKept /\ active' \in Deployments /\ active'.version \in DOMAIN versions'
<1>1. versions[active.version] \in Owner!VersionRecords
  BY DEF OwnerInv, MoreTypes, Owner!TypeOK
<1>2. [versions[active.version] EXCEPT !.nonce = FALSE] \in Owner!VersionRecords
  BY <1>1 DEF Owner!VersionRecords
<1>3. VersionsKept /\ Len(versions') = Len(versions) + 1
  BY <1>2, OneMoreVersion DEF Owner!WithoutNonce
<1> QED BY <1>3 DEF Owner!WithoutNonce, OwnerInv, MoreTypes, VersionsKept

LEMMA NoVersionMore ==
  ASSUME OwnerInv, UNCHANGED Owner!provider
  PROVE  VersionsKept /\ active' \in Deployments /\ active'.version \in DOMAIN versions'
BY DEF Owner!provider, VersionsKept, OwnerInv, MoreTypes, Owner!TypeOK

\* A step of a pass leaves what it read, the setup and the starts alone.
LEMMA PassMoves ==
  ASSUME OwnerInv, NEW at \in Owner!PassSteps, Owner!StepPass(at)
  PROVE  /\ pass' \in Passes /\ pass'.at = at /\ pass'.dep = pass.dep
         /\ UNCHANGED <<permit, configured, ownerIssued, late, start, host, starts>>
BY DEF Owner!StepPass, OwnerInv, MoreTypes, Passes, Owner!setup

LEMMA NoPassFits == Owner!NoPass \in Passes /\ Owner!NoPass.at = "idle"
BY DEF Owner!NoPass, Passes

-----------------------------------------------------------------------------
\* Types, for the steps that leave the setup alone.
LEMMA TypesHold ==
  ASSUME OwnerInv, VersionsKept, UNCHANGED <<permit, configured, ownerIssued>>, late' \in BOOLEAN,
         host' \in Owner!Hosts,
         start' \in [Tabs -> [at : Owner!StartSteps, seen : Owner!Handoffs]],
         accepted' \in Owner!Handoffs, adopted' \in 0..Len(versions'), pass' \in Passes,
         oauth' \in [tab : Tabs \cup {None}, phase : Owner!Phases], wire' \in BOOLEAN,
         ready' \in BOOLEAN,
         active' \in Deployments, active'.version \in DOMAIN versions'
  PROVE  Owner!TypeOK' /\ MoreTypes'
<1>1. \A v \in DOMAIN versions' : versions'[v] \in Owner!VersionRecords
  BY DEF VersionsKept
<1>2. [accepted |-> accepted', adopted |-> adopted'] \in Owner!OwnershipStates
  BY OwnerBounds DEF VersionsKept
<1>3. pass'.at \in Owner!PassSteps
  BY DEF Passes
<1> QED BY <1>1, <1>2, <1>3 DEF OwnerInv, Owner!TypeOK, MoreTypes, VersionsKept

\* While a pass runs, no start is reading.
LEMMA NoStartWithPass ==
  ASSUME OwnerInv, pass.at # "idle", UNCHANGED start
  PROVE  StartsStand'
BY DEF OwnerInv, StartsStand, PassStands

\* What was adopted stays, as long as versions are only added.
LEMMA AdoptionStays ==
  ASSUME OwnerInv, VersionsKept, UNCHANGED <<adopted, closing>>
  PROVE  Owner!AdoptedWasDeployed'
BY DEF OwnerInv, Owner!TypeOK, MoreTypes, Owner!AdoptedWasDeployed, Owner!ExactBootstrapVersion,
  VersionsKept

\* -- actions
-----------------------------------------------------------------------------
\* The setup, and the starts.
LEMMA AcceptHolds ==
  ASSUME OwnerInv, NEW p \in Permits, Owner!Accept(p)
  PROVE  OwnerInv'
BY DEF Owner!Accept, OwnerInv, Owner!TypeOK, MoreTypes, StartsStand, PassStands,
  Owner!AcceptedIsConfigured, Owner!AdoptedWasDeployed, Owner!own, Owner!provider,
  Owner!ExactBootstrapVersion

\* No start is reading while a review is certified: it would hold the attempt.
LEMMA ConfigureHolds ==
  ASSUME OwnerInv, NEW pl \in Plans, Owner!Configure(pl)
  PROVE  OwnerInv'
BY OwnerBounds DEF Owner!Configure, Owner!Certify, Owner!ReviewOpen, Owner!Fault, OwnerInv,
  Owner!TypeOK, MoreTypes, Owner!SignedHandoffs, Owner!own, Owner!provider, StartsStand,
  Owner!NoOauth, PassStands, Owner!AcceptedIsConfigured, Owner!AdoptedWasDeployed,
  Owner!ExactBootstrapVersion

\* What a step of a start changes, and what it leaves.
LEMMA StartHolds ==
  ASSUME OwnerInv, NEW t \in Tabs, NEW s \in [at : Owner!StartSteps, seen : Owner!Handoffs],
         start' = [start EXCEPT ![t] = s],
         UNCHANGED <<permit, configured, ownerIssued, late, pass, Owner!provider, wire, host,
                     ready, adopted, closing>>,
         accepted' \in Owner!Handoffs, accepted' # 0 => configured = accepted',
         oauth' \in [tab : Tabs \cup {None}, phase : Owner!Phases],
         oauth' = oauth \/ (~(host = "shell" /\ pass.at # "idle")),
         \A u \in Tabs : oauth # oauth' => u = t \/ oauth # [tab |-> u, phase |-> "authorizing"],
         s.at \in {"persisted", "read", "checked"} =>
           host = "shell" /\ oauth' = [tab |-> t, phase |-> "authorizing"],
         s.at \in {"read", "checked"} => s.seen = configured,
         s.at = "checked" => s.seen # 0
  PROVE  OwnerInv'
<1>1. VersionsKept /\ active' \in Deployments /\ active'.version \in DOMAIN versions'
  BY NoVersionMore
<1>2. start' \in [Tabs -> [at : Owner!StartSteps, seen : Owner!Handoffs]]
  BY DEF OwnerInv, Owner!TypeOK
<1>3. Owner!TypeOK' /\ MoreTypes'
  BY <1>1, <1>2, TypesHold DEF OwnerInv, Owner!TypeOK, MoreTypes, VersionsKept
<1>4. StartsStand'
  BY DEF OwnerInv, Owner!TypeOK, StartsStand
<1>5. PassStands' /\ Owner!AdoptedWasDeployed'
  BY <1>1, AdoptionStays DEF OwnerInv, PassStands, Owner!provider, Owner!ExactBootstrapVersion
<1>6. Owner!AcceptedIsConfigured'
  BY DEF Owner!AcceptedIsConfigured
<1> QED BY <1>3, <1>4, <1>5, <1>6 DEF OwnerInv

LEMMA StartOauthHolds ==
  ASSUME OwnerInv, NEW t \in Tabs, Owner!StartOauth(t)
  PROVE  OwnerInv'
<1>1. [at |-> "persisted", seen |-> 0] \in [at : Owner!StartSteps, seen : Owner!Handoffs]
  BY OwnerBounds
<1>2. ~(host = "shell" /\ pass.at # "idle")
  BY DEF Owner!StartOauth, OwnerInv, PassStands
<1>3. /\ oauth' \in [tab : Tabs \cup {None}, phase : Owner!Phases]
      /\ oauth' = [tab |-> t, phase |-> "authorizing"]
      /\ \A u \in Tabs : oauth # [tab |-> u, phase |-> "authorizing"]
      /\ host = "shell" /\ UNCHANGED <<accepted, adopted, closing>>
      /\ start' = [start EXCEPT ![t] = [at |-> "persisted", seen |-> 0]]
      /\ UNCHANGED <<permit, configured, ownerIssued, late, pass, Owner!provider, wire, host,
                     ready>>
  BY DEF Owner!StartOauth, Owner!setup, Owner!own
<1>4. accepted' \in Owner!Handoffs /\ (accepted' # 0 => configured = accepted')
  BY <1>3 DEF OwnerInv, Owner!TypeOK, Owner!AcceptedIsConfigured
<1> QED BY <1>1, <1>2, <1>3, <1>4, StartHolds

LEMMA StartStepHolds ==
  ASSUME OwnerInv, NEW t \in Tabs,
         \/ Owner!ReadConfigured(t) \/ Owner!CheckHandoff(t) \/ Owner!AcceptHandoff(t) \/ Owner!AcceptedBefore(t)
         \/ Owner!Ticketed(t)
  PROVE  OwnerInv'
<1>5. /\ start[t] \in [at : Owner!StartSteps, seen : Owner!Handoffs]
      /\ configured \in Owner!Handoffs
      /\ accepted \in Owner!Handoffs /\ oauth \in [tab : Tabs \cup {None}, phase : Owner!Phases]
      /\ accepted # 0 => configured = accepted
  BY DEF OwnerInv, Owner!TypeOK, Owner!AcceptedIsConfigured
<1>6. /\ start[t].at \in {"persisted", "read", "checked"} =>
           host = "shell" /\ oauth = [tab |-> t, phase |-> "authorizing"]
      /\ start[t].at \in {"read", "checked"} => start[t].seen = configured
      /\ start[t].at = "checked" => start[t].seen # 0
  BY DEF OwnerInv, StartsStand
<1>1. CASE Owner!ReadConfigured(t)
  BY <1>5, <1>1, <1>6, StartHolds DEF Owner!ReadConfigured, Owner!StepStart, Owner!setup, Owner!own
<1>2. CASE Owner!CheckHandoff(t)
  BY <1>5, <1>2, <1>6, StartHolds DEF Owner!CheckHandoff, Owner!StepStart, Owner!setup, Owner!own
<1>3. CASE Owner!AcceptHandoff(t) \/ Owner!AcceptedBefore(t)
  BY <1>5, <1>3, <1>6, StartHolds DEF Owner!AcceptHandoff, Owner!AcceptedBefore, Owner!StepStart,
    Owner!setup, Owner!own
<1>4. CASE Owner!Ticketed(t)
  <2>1. Owner!Idle \in [at : Owner!StartSteps, seen : Owner!Handoffs] /\ Owner!Idle.at = "idle"
    BY OwnerBounds DEF Owner!Idle
  <2> QED
    BY <1>4, <1>5, <2>1, StartHolds DEF Owner!Ticketed, Owner!StepStart, Owner!setup, Owner!own
<1> QED BY <1>1, <1>2, <1>3, <1>4

LEMMA RejectStartHolds ==
  ASSUME OwnerInv, NEW t \in Tabs, Owner!RejectStart(t)
  PROVE  OwnerInv'
<1>1. Owner!Idle \in [at : Owner!StartSteps, seen : Owner!Handoffs] /\ Owner!Idle.at = "idle"
  BY OwnerBounds DEF Owner!Idle
<1>2. /\ start' = [start EXCEPT ![t] = Owner!Idle] /\ UNCHANGED <<accepted, adopted, closing>>
      /\ UNCHANGED <<permit, configured, ownerIssued, late, pass, Owner!provider, wire, host,
                     ready>>
      /\ oauth' = IF oauth = [tab |-> t, phase |-> "authorizing"] THEN Owner!NoOauth ELSE oauth
  BY DEF Owner!RejectStart, Owner!StepStart, Owner!setup, Owner!own
<1>3. CASE oauth = [tab |-> t, phase |-> "authorizing"]
  BY <1>2, <1>3, <1>1, StartHolds DEF Owner!NoOauth, OwnerInv, PassStands, Owner!TypeOK,
    Owner!AcceptedIsConfigured
<1>4. CASE oauth # [tab |-> t, phase |-> "authorizing"]
  BY <1>1, <1>2, <1>4, StartHolds DEF OwnerInv, Owner!TypeOK, Owner!AcceptedIsConfigured
<1> QED BY <1>3, <1>4

LEMMA OauthOverHolds ==
  ASSUME OwnerInv, Owner!OauthOver
  PROVE  OwnerInv'
<1>1. /\ \A t \in Tabs : start[t].at \in {"idle", "ticket"}
      /\ oauth.phase = "authorizing" /\ oauth' = [oauth EXCEPT !.phase = "over"]
      /\ UNCHANGED <<Owner!setup, Owner!own, late, start, pass, Owner!provider, wire, host, ready>>
  BY DEF Owner!OauthOver
<1>2. VersionsKept /\ active' \in Deployments /\ active'.version \in DOMAIN versions'
  BY <1>1, NoVersionMore
<1>3. Owner!TypeOK' /\ MoreTypes'
  BY <1>1, <1>2, TypesHold DEF OwnerInv, Owner!TypeOK, MoreTypes, Owner!setup, Owner!own,
    Owner!provider
<1>4. StartsStand'
  BY <1>1 DEF StartsStand
<1>5. PassStands' /\ Owner!AcceptedIsConfigured' /\ Owner!AdoptedWasDeployed'
  BY <1>1 DEF OwnerInv, PassStands, Owner!AcceptedIsConfigured, Owner!AdoptedWasDeployed,
    Owner!setup, Owner!own, Owner!provider, Owner!ExactBootstrapVersion
<1> QED BY <1>3, <1>4, <1>5 DEF OwnerInv

\* A callback, or the recovery of the final runtime, opens a pass.
LEMMA PassOpens ==
  ASSUME OwnerInv, NEW t \in Tabs, Owner!Callback(t) \/ Owner!StartRecovery(t)
  PROVE  OwnerInv'
<1>1. /\ oauth' \in [tab : Tabs \cup {None}, phase : Owner!Phases] /\ oauth'.phase = "converging"
      /\ pass' = [Owner!NoPass EXCEPT !.at = "open"]
      /\ UNCHANGED <<Owner!setup, Owner!own, late, start, Owner!provider, wire, host, ready>>
  BY DEF Owner!Callback, Owner!StartRecovery, OwnerInv, Owner!TypeOK
<1>2. pass' \in Passes /\ pass'.at = "open"
  BY <1>1 DEF Owner!NoPass, Passes
<1>3. VersionsKept /\ active' \in Deployments /\ active'.version \in DOMAIN versions'
  BY <1>1, NoVersionMore
<1>4. Owner!TypeOK' /\ MoreTypes'
  BY <1>1, <1>2, <1>3, TypesHold DEF OwnerInv, Owner!TypeOK, MoreTypes, Owner!setup, Owner!own,
    Owner!provider
<1>5. StartsStand'
  <2>1. CASE Owner!Callback(t)
    <3>1. oauth = [tab |-> t, phase |-> "authorizing"] /\ start[t].at = "idle"
      BY <2>1 DEF Owner!Callback, Owner!Idle
    <3>2. \A u \in Tabs : start[u].at \notin {"persisted", "read", "checked"}
      BY <3>1 DEF OwnerInv, StartsStand
    <3> QED BY <1>1, <3>2 DEF StartsStand
  <2>2. CASE Owner!StartRecovery(t)
    BY <1>1, <2>2 DEF Owner!StartRecovery, OwnerInv, StartsStand
  <2> QED BY <2>1, <2>2
<1>6. PassStands' /\ Owner!AcceptedIsConfigured' /\ Owner!AdoptedWasDeployed'
  BY <1>1, <1>2 DEF OwnerInv, PassStands, Owner!AcceptedIsConfigured, Owner!AdoptedWasDeployed,
    Owner!setup, Owner!own, Owner!provider, Owner!ExactBootstrapVersion
<1> QED BY <1>4, <1>5, <1>6 DEF OwnerInv

-----------------------------------------------------------------------------
\* A step of a pass.  Whatever it changes, no start is reading meanwhile.
LEMMA PassStepHolds ==
  ASSUME OwnerInv, pass.at # "idle", VersionsKept, pass' \in Passes,
         active' \in Deployments, active'.version \in DOMAIN versions',
         UNCHANGED <<permit, configured, ownerIssued, late, start, host, accepted>>,
         adopted' \in 0..Len(versions'), oauth' \in [tab : Tabs \cup {None}, phase : Owner!Phases],
         wire' \in BOOLEAN, ready' \in BOOLEAN, PassStands', Owner!AdoptedWasDeployed'
  PROVE  OwnerInv'
BY TypesHold, NoStartWithPass DEF OwnerInv, Owner!TypeOK, Owner!AcceptedIsConfigured

\* The readback.
LEMMA AdoptionHolds ==
  ASSUME OwnerInv, Owner!Adoption
  PROVE  OwnerInv'
<1>7. UNCHANGED <<permit, configured, ownerIssued, late, start, host, accepted, Owner!provider,
                  oauth, wire, ready>>
  BY DEF Owner!Adoption, Owner!AdoptedBefore, Owner!OpenAdoption, Owner!ReadDeployment,
    Owner!ReadVersion, Owner!ReadNamespace, Owner!ReadDeploymentAgain, Owner!Adopt,
    Owner!StepPass, Owner!setup, Owner!own, Owner!PassWorld
<1>8. VersionsKept /\ active' \in Deployments /\ active'.version \in DOMAIN versions'
  BY <1>7, NoVersionMore
<1>5. /\ pass \in Passes /\ oauth \in [tab : Tabs \cup {None}, phase : Owner!Phases]
      /\ wire \in BOOLEAN /\ ready \in BOOLEAN /\ adopted \in 0..Len(versions)
      /\ active.id \in Nat /\ active.version \in DOMAIN versions /\ active.version \in Nat
      /\ UNCHANGED versions
  BY <1>7 DEF OwnerInv, Owner!TypeOK, MoreTypes, Owner!provider
<1>1. CASE Owner!AdoptedBefore \/ Owner!OpenAdoption \/ Owner!ReadVersion \/ Owner!ReadNamespace
  <2>1. PICK at \in {"converge", "worker", "namespace", "again"} :
          /\ Owner!StepPass(at) /\ UNCHANGED <<adopted, closing>> /\ pass.at # "idle"
          /\ at = "worker" => adopted = 0
          /\ at = "namespace" => pass.at = "version" /\ Owner!ExactBootstrapVersion(pass.dep[2])
          /\ at = "again" => pass.at = "namespace"
    BY <1>1 DEF Owner!AdoptedBefore, Owner!OpenAdoption, Owner!ReadVersion, Owner!ReadNamespace,
      Owner!own
  <2>2. pass' \in Passes /\ pass'.at = at /\ pass'.dep = pass.dep
    BY <2>1, PassMoves
  <2>3. PassStands'
    BY <1>7, <1>5, <2>1, <2>2 DEF OwnerInv, PassStands, Owner!ExactBootstrapVersion
  <2>4. Owner!AdoptedWasDeployed'
    BY <1>8, <2>1, AdoptionStays
  <2> QED BY <1>7, <1>8, <1>5, <2>1, <2>2, <2>3, <2>4, PassStepHolds
<1>2. CASE Owner!ReadDeployment
  BY <1>2, <1>5, <1>7, <1>8, AdoptionStays, PassStepHolds DEF Owner!ReadDeployment,
    Owner!Deployment, Owner!own, Passes, OwnerInv, PassStands
<1>3. CASE Owner!ReadDeploymentAgain
  BY <1>3, PassMoves, <1>7, <1>5, <1>8, PassStepHolds DEF Owner!ReadDeploymentAgain,
    Owner!StillActive, Owner!Deployment, OwnerInv, PassStands, Owner!ExactBootstrapVersion,
    Owner!AdoptedWasDeployed
<1>4. CASE Owner!Adopt
  BY <1>4, PassMoves, <1>5, <1>7, <1>8, PassStepHolds DEF Owner!Adopt, OwnerInv, PassStands,
    MoreTypes, Owner!ExactBootstrapVersion, Owner!AdoptedWasDeployed
<1> QED BY <1>1, <1>2, <1>3, <1>4 DEF Owner!Adoption

\* The upload and the end of a pass: what was adopted stays.
LEMMA RuntimeHolds ==
  ASSUME OwnerInv,
         \/ Owner!HandOver \/ Owner!UploadFinalRuntime \/ Owner!AlreadyUploaded \/ Owner!Put \/ Owner!PutLost \/ Owner!DeleteNonce
         \/ Owner!DeleteLost \/ Owner!PassFails \/ Owner!PassSettles \/ Owner!InspectFinalRuntime
  PROVE  OwnerInv'
<1>1. /\ pass.at # "idle"
      /\ UNCHANGED <<permit, configured, ownerIssued, late, start, host, accepted, adopted, closing>>
      /\ wire' \in BOOLEAN /\ ready' \in BOOLEAN
      /\ Owner!PutScript \/ Owner!WithoutNonce \/ UNCHANGED Owner!provider
      /\ \/ pass' = Owner!NoPass
         \/ \E at \in {"upload", "put", "nonce", "failed"} : Owner!StepPass(at)
      /\ \/ oauth' = oauth
         \/ oauth' = Owner!NoOauth /\ pass' = Owner!NoPass
         \/ oauth' = [oauth EXCEPT !.phase = "finalizing"]
  BY DEF Owner!HandOver, Owner!StepPass, Owner!setup, Owner!own, Owner!provider, OwnerInv,
    Owner!TypeOK, Owner!UploadFinalRuntime, Owner!AlreadyUploaded, Owner!PassWorld, Owner!Put,
    Owner!PutLost, Owner!DeleteNonce, Owner!DeleteLost, Owner!PassFails, Owner!CannotGoOn,
    Owner!PassSettles, Owner!InspectFinalRuntime
<1>2. VersionsKept /\ active' \in Deployments /\ active'.version \in DOMAIN versions'
  BY <1>1, ScriptAddsVersion, DeletionAddsVersion, NoVersionMore
<1>3. pass' \in Passes /\ pass'.at \in {"idle", "upload", "put", "nonce", "failed"}
  BY <1>1, PassMoves, NoPassFits
<1>4. /\ oauth' \in [tab : Tabs \cup {None}, phase : Owner!Phases]
      /\ pass'.at # "idle" => oauth'.phase \in {oauth.phase, "finalizing"}
  BY <1>1, NoPassFits DEF OwnerInv, Owner!TypeOK, Owner!NoOauth
<1>5. PassStands'
  BY <1>1, <1>3, <1>4 DEF OwnerInv, PassStands
<1>6. Owner!AdoptedWasDeployed' /\ adopted' \in 0..Len(versions')
  BY <1>1, <1>2, AdoptionStays DEF OwnerInv, Owner!TypeOK, MoreTypes, VersionsKept
<1> QED BY <1>1, <1>2, <1>3, <1>4, <1>5, <1>6, PassStepHolds

-----------------------------------------------------------------------------
\* What the rest of the world does.
LEMMA WorldHolds ==
  ASSUME OwnerInv,
         Owner!LandPut \/ Owner!SwapRuntime \/ Owner!Restart \/ Owner!Expire \/ Owner!OutsideUpload \/ Owner!OutsideDeploy \/ Owner!FinalAlarm
  PROVE  OwnerInv'
<1>1. /\ UNCHANGED <<permit, configured, ownerIssued, accepted, adopted, closing>> /\ late' \in BOOLEAN
      /\ wire' \in BOOLEAN /\ ready' \in BOOLEAN /\ host' \in {host, "final"}
      /\ \/ UNCHANGED <<start, oauth>>
         \/ start' = [t \in Tabs |-> Owner!Idle]
         \/ UNCHANGED start /\ host = "final"
      /\ UNCHANGED pass \/ pass' = Owner!NoPass
      /\ \/ UNCHANGED oauth
         \/ oauth' = Owner!NoOauth /\ (pass' = Owner!NoPass \/ host = "final")
  BY DEF Owner!LandPut, Owner!Expire, Owner!setup, Owner!own, OwnerInv, Owner!TypeOK,
    Owner!SwapRuntime, Owner!FinalAlarm, Owner!Restart, Owner!OutsideUpload, Owner!OutsideDeploy
<1>2. VersionsKept /\ active' \in Deployments /\ active'.version \in DOMAIN versions'
  <2>1. CASE Owner!OutsideUpload
    <3>1. PICK k \in {"boot", "other"} : versions' =
            Append(versions, [kind |-> k, nonce |-> versions[Len(versions)].nonce, from |-> Len(versions)])
      BY <2>1 DEF Owner!OutsideUpload
    <3>2. versions[Len(versions)] \in Owner!VersionRecords
      BY OwnerBounds DEF OwnerInv, MoreTypes
    <3>3. [kind |-> k, nonce |-> versions[Len(versions)].nonce, from |-> Len(versions)] \in Owner!VersionRecords
      BY <3>2 DEF OwnerInv, MoreTypes, Owner!VersionRecords
    <3>4. VersionsKept
      BY <2>1, <3>1, <3>3, OneMoreVersion DEF Owner!OutsideUpload
    <3> QED BY <2>1, <3>4 DEF Owner!OutsideUpload, OwnerInv, Owner!TypeOK, MoreTypes, VersionsKept
  <2>2. CASE Owner!OutsideDeploy
    <3>1. PICK v \in DOMAIN versions, s \in BOOLEAN :
            active' = [id |-> active.id + 1, version |-> v, sole |-> s]
      BY <2>2 DEF Owner!OutsideDeploy
    <3>2. UNCHANGED versions
      BY <2>2 DEF Owner!OutsideDeploy
    <3>4. v \in 1..Len(versions)
      BY <3>1 DEF OwnerInv, MoreTypes
    <3>3. active' \in Deployments /\ active'.version \in DOMAIN versions'
      BY <3>1, <3>2, <3>4 DEF OwnerInv, MoreTypes
    <3> QED BY <3>2, <3>3 DEF OwnerInv, MoreTypes, VersionsKept
  <2>3. CASE Owner!LandPut \/ Owner!SwapRuntime \/ Owner!Restart \/ Owner!Expire \/ Owner!FinalAlarm
    BY <2>3, ScriptAddsVersion, NoVersionMore DEF Owner!LandPut, Owner!SwapRuntime, Owner!Restart,
      Owner!Expire, Owner!FinalAlarm
  <2> QED BY <2>1, <2>2, <2>3
<1>3. pass' \in Passes /\ (pass'.at = "idle" \/ UNCHANGED pass)
  BY <1>1, NoPassFits DEF OwnerInv, MoreTypes
<1>4. /\ oauth' \in [tab : Tabs \cup {None}, phase : Owner!Phases]
      /\ start' \in [Tabs -> [at : Owner!StartSteps, seen : Owner!Handoffs]]
      /\ host' \in Owner!Hosts
  BY <1>1, OwnerBounds DEF OwnerInv, Owner!TypeOK, Owner!NoOauth, Owner!Idle
<1>5. Owner!TypeOK' /\ MoreTypes'
  BY <1>1, <1>2, <1>3, <1>4, TypesHold DEF OwnerInv, Owner!TypeOK, MoreTypes, VersionsKept
<1>6. StartsStand'
  <2>1. CASE start' = [t \in Tabs |-> Owner!Idle]
    BY <2>1 DEF StartsStand, Owner!Idle
  <2>2. CASE UNCHANGED start /\ host = "final"
    BY <2>2 DEF OwnerInv, StartsStand
  <2>3. CASE UNCHANGED <<start, oauth>>
    BY <1>1, <2>1, <2>3 DEF Owner!LandPut, Owner!SwapRuntime, Owner!Restart, Owner!Expire,
      Owner!OutsideUpload, Owner!OutsideDeploy, Owner!FinalAlarm, OwnerInv, StartsStand
  <2> QED BY <1>1, <2>1, <2>2, <2>3
<1>7. PassStands'
  <2>1. DOMAIN versions = 1..Len(versions) /\ DOMAIN versions' = 1..Len(versions')
    BY <1>2 DEF OwnerInv, MoreTypes, VersionsKept
  <2>2. pass.dep[2] \in DOMAIN versions =>
          pass.dep[2] \in DOMAIN versions' /\ versions'[pass.dep[2]] = versions[pass.dep[2]]
    BY <1>2, <2>1 DEF VersionsKept
  <2>3. CASE pass'.at = "idle"
    BY <2>3 DEF PassStands
  <2>4. CASE UNCHANGED pass /\ pass'.at # "idle"
    BY <1>1, <2>4, NoPassFits, <2>2 DEF OwnerInv, PassStands, Owner!ExactBootstrapVersion
  <2> QED BY <1>3, <2>3, <2>4
<1>8. Owner!AcceptedIsConfigured' /\ Owner!AdoptedWasDeployed'
  BY <1>1, <1>2, AdoptionStays DEF OwnerInv, Owner!AcceptedIsConfigured
<1> QED BY <1>5, <1>6, <1>7, <1>8 DEF OwnerInv

LEMMA OwnerStepHolds == OwnerInv /\ [Owner!Next]_(Owner!vars) => OwnerInv'
<1> SUFFICES ASSUME OwnerInv, [Owner!Next]_(Owner!vars) PROVE OwnerInv'
  OBVIOUS
<1>1. CASE Owner!Setup
  BY <1>1, AcceptHolds, ConfigureHolds DEF Owner!Setup
<1>2. CASE Owner!Approval
  <2>1. PICK t \in Tabs :
          \/ Owner!StartOauth(t) \/ Owner!ReadConfigured(t) \/ Owner!CheckHandoff(t)
          \/ Owner!AcceptHandoff(t)
          \/ Owner!AcceptedBefore(t) \/ Owner!Ticketed(t) \/ Owner!RejectStart(t)
          \/ Owner!Callback(t) \/ Owner!StartRecovery(t)
    BY <1>2 DEF Owner!Approval
  <2> QED BY <2>1, StartOauthHolds, StartStepHolds, RejectStartHolds, PassOpens
<1>3. CASE Owner!Adoption
  BY <1>3, AdoptionHolds
<1>4. CASE Owner!Runtime \/ Owner!World
  BY <1>4, RuntimeHolds, WorldHolds, OauthOverHolds DEF Owner!Runtime, Owner!World
<1>5. CASE UNCHANGED Owner!vars
  BY <1>5 DEF Owner!vars, OwnerInv, Owner!TypeOK, MoreTypes, StartsStand, PassStands,
    Owner!AcceptedIsConfigured, Owner!AdoptedWasDeployed, Owner!ExactBootstrapVersion
<1> QED BY <1>1, <1>2, <1>3, <1>4, <1>5 DEF Owner!Next

LEMMA OwnerInvIsSafe == OwnerInv => Owner!Safe
BY DEF OwnerInv, Owner!Safe

\* The handoff the gateway accepted is the configuration its setup holds, and the adopted version
\* carries the signed bootstrap and was the one sole deployment when the readback closed.
THEOREM OwnerSafety == Owner!Spec => []Owner!Safe
<1> QED BY OwnerInitHolds, OwnerStepHolds, OwnerInvIsSafe, PTL DEF Owner!Spec

-------------------------------------------------------------------------------
(* GrantExchange *)

\* Before the revocations: nothing is issued, or the grant holds what is, and nothing was tried.
AllHeld ==
  /\ held = Grant!Issued /\ live = Grant!Issued
  /\ queue = <<>> /\ ~failed /\ tries = [t \in Grant!Tokens |-> 0]
BeforeRevoking ==
  /\ pc = "exchange" =>
       held = {} /\ live = {} /\ queue = <<>> /\ ~failed /\ tries = [t \in Grant!Tokens |-> 0]
  /\ pc \in {"assert", "account", "zone", "work"} => AllHeld

\* What a call at work was granted, and where it works.
Granted ==
  pc \in {"account", "zone", "work"} => usable /\ consent.scopes = "exact" /\ ~consent.refresh
Bound ==
  /\ pc = "zone" => call = "install"
  /\ pc \in {"zone", "work"} =>
       /\ bound.acc \in consent.accounts
       /\ ~Grant!Hosted(call) => bound.acc = Home
       /\ Grant!Listed(call) => Grant!Cardinality(consent.accounts) = 1
  /\ pc = "work" /\ call = "install" => Grant!Matches(bound.zone)

\* While tokens are revoked, one that is not queued any more was tried as often as the call may or
\* is gone, and one of those that lives on makes the call fail.
Tried(t)    == tries[t] = Grant!Attempts \/ (tries[t] > 0 /\ t \notin live)
Reported(t) == t \in live => failed
Queued      == {queue[i] : i \in DOMAIN queue}
Revoking ==
  pc = "revoke" =>
    /\ held = Grant!Issued /\ live \subseteq Grant!Issued
    /\ queue \in {<<>>, <<"access">>, <<"refresh">>, <<"access", "refresh">>}
    /\ Queued \subseteq Grant!Issued
    /\ \A t \in Queued : tries[t] < Grant!Attempts
    /\ \A t \in Grant!Issued \ Queued : Tried(t) /\ Reported(t)

Shape ==
  /\ DOMAIN zones \subseteq 1..MaxZones
  /\ bound \in [acc : Accounts \cup {Grant!Nothing}, zone : 0..MaxZones]
  /\ pc \notin {"exchange", "revoke"} => queue = <<>>

GrantInv ==
  /\ Grant!TypeOK /\ Shape /\ BeforeRevoking /\ Granted /\ Bound /\ Revoking
  /\ Grant!LiveIsReported /\ Grant!EveryTokenTried

USE DEF Grant!Tokens, Grant!Calls, Grant!ScopeSets, Grant!Outcomes, Grant!Nothing

LEMMA AttemptsFit == Grant!Attempts \in 1..RevokeAttempts
BY GrantBounds DEF Grant!Attempts

LEMMA IssuedFits == ASSUME Grant!TypeOK PROVE Grant!Issued \in {{"access"}, {"access", "refresh"}}
BY DEF Grant!TypeOK, Grant!Issued, Grant!Consents

\* Stop queues every token that was issued.
LEMMA StopQueuesAll ==
  ASSUME GrantInv, pc \in {"assert", "account", "zone", "work"}, NEW code \in Grant!Outcomes,
         code # Grant!Nothing,
         Grant!Stop(code), UNCHANGED <<call, consent, zones, live, held, failed, tries>>,
         usable' \in {usable, FALSE}, UNCHANGED bound
  PROVE  GrantInv'
<1>1. /\ pc' = "revoke" /\ outcome' = code /\ held = Grant!Issued /\ live = Grant!Issued
      /\ UNCHANGED Grant!Issued
      /\ ~failed /\ tries = [t \in Grant!Tokens |-> 0]
      /\ Grant!Issued \in {{"access"}, {"access", "refresh"}}
  BY IssuedFits DEF Grant!Stop, GrantInv, BeforeRevoking, AllHeld, Grant!Issued
<1>2. \/ Grant!Issued = {"access"} /\ queue' = <<"access">>
      \/ Grant!Issued = {"access", "refresh"} /\ queue' = <<"access", "refresh">>
  BY <1>1 DEF Grant!Stop, Grant!ToRevoke
<1>3. Queued' = Grant!Issued
  BY <1>2 DEF Queued
<1>4. Grant!TypeOK' /\ Shape'
  <2>1. \A i \in DOMAIN queue' : queue'[i] \in held'
    BY <1>1, <1>2
  <2>2. Grant!TypeOK'
    BY <1>1, <2>1 DEF GrantInv, Grant!TypeOK, Grant!GrantObject
  <2> QED BY <1>1, <2>2 DEF GrantInv, Shape
<1>5. Revoking'
  BY <1>1, <1>2, <1>3, AttemptsFit DEF Revoking, Grant!Attempts
<1> QED
  BY <1>1, <1>4, <1>5 DEF GrantInv, BeforeRevoking, Granted, Bound, Grant!LiveIsReported,
    Grant!EveryTokenTried

LEMMA GrantInitHolds == Grant!Init => GrantInv
<1> SUFFICES ASSUME Grant!Init PROVE GrantInv
  OBVIOUS
<1>1. DOMAIN zones \subseteq 1..MaxZones
  BY GrantBounds DEF Grant!Init
<1>2. Grant!TypeOK
  <2>1. tries \in [Grant!Tokens -> 0 .. RevokeAttempts]
    BY GrantBounds DEF Grant!Init
  <2>2. bound.acc \in Accounts \cup {Grant!Nothing} /\ bound.zone \in 0 .. MaxZones
    BY GrantBounds DEF Grant!Init
  <2>3. \A i \in DOMAIN queue : queue[i] \in held
    BY DEF Grant!Init
  <2> QED BY <2>1, <2>2, <2>3 DEF Grant!Init, Grant!TypeOK, Grant!GrantObject
<1>3. Shape
  BY <1>1, GrantBounds DEF Grant!Init, Shape
<1> QED
  BY <1>2, <1>3 DEF Grant!Init, GrantInv, BeforeRevoking, Granted, Bound, Revoking,
    Grant!LiveIsReported, Grant!EveryTokenTried

LEMMA RefuseHolds == ASSUME GrantInv, Grant!Refuse PROVE GrantInv'
BY DEF Grant!Refuse, GrantInv, BeforeRevoking, Grant!Issued, Grant!TypeOK, Shape, Grant!GrantObject,
  Granted, Bound, Revoking, Grant!LiveIsReported, Grant!EveryTokenTried

LEMMA ExchangeHolds == ASSUME GrantInv, Grant!Exchange PROVE GrantInv'
BY IssuedFits DEF Grant!Exchange, Grant!Captured, GrantInv, Grant!Issued, Grant!TypeOK, Shape,
  Grant!GrantObject, BeforeRevoking, AllHeld, Granted, Bound, Revoking, Grant!LiveIsReported,
  Grant!EveryTokenTried

\* A step of a call at work, which may bind it.
LEMMA WorkHolds ==
  ASSUME GrantInv, pc \in {"assert", "account", "zone"}, pc' \in {"account", "zone", "work"},
         UNCHANGED <<call, consent, zones, live, held, outcome, queue, failed, tries>>,
         usable' = TRUE, bound' \in [acc : Accounts \cup {Grant!Nothing}, zone : 0..MaxZones],
         Granted', Bound'
  PROVE  GrantInv'
BY IssuedFits DEF GrantInv, BeforeRevoking, AllHeld, Grant!Issued, Grant!TypeOK, Shape,
  Grant!GrantObject, Revoking, Grant!LiveIsReported, Grant!EveryTokenTried

LEMMA AssertHolds == ASSUME GrantInv, Grant!AssertUsable PROVE GrantInv'
BY WorkHolds, StopQueuesAll DEF Grant!AssertUsable, Grant!AssertError, GrantInv, BeforeRevoking,
  AllHeld, Grant!Issued, Granted, Bound, Shape

LEMMA ReadFailsHolds == ASSUME GrantInv, Grant!ReadFails PROVE GrantInv'
BY StopQueuesAll DEF Grant!ReadFails

LEMMA ExecuteHolds == ASSUME GrantInv, Grant!Execute PROVE GrantInv'
<1>1. PICK result \in {"done", "deploy_failed"} : Grant!Stop(result)
  BY DEF Grant!Execute
<1> QED BY <1>1, StopQueuesAll DEF Grant!Execute

LEMMA ListAccountsHolds == ASSUME GrantInv, Grant!ListAccounts PROVE GrantInv'
<1> DEFINE only == CHOOSE a \in consent.accounts : TRUE
<1>1. CASE Grant!Stop("account_ambiguous") /\ UNCHANGED bound
  BY <1>1, StopQueuesAll DEF Grant!ListAccounts
<1>2. CASE Grant!Stop("account_mismatch") /\ UNCHANGED bound
  BY <1>2, StopQueuesAll DEF Grant!ListAccounts
<1>3. CASE /\ Grant!Cardinality(consent.accounts) = 1 /\ ~(call = "install" /\ only # Home)
           /\ bound' = [bound EXCEPT !.acc = only]
           /\ pc' = IF call = "install" THEN "zone" ELSE "work"
           /\ UNCHANGED <<outcome, queue>>
  <2>1. only \in consent.accounts /\ only \in Accounts
    BY DEF GrantInv, Grant!TypeOK, Grant!Consents
  <2>2. /\ bound' \in [acc : Accounts \cup {Grant!Nothing}, zone : 0..MaxZones] /\ bound'.acc = only
    BY <1>3, <2>1 DEF GrantInv, Shape
  <2>3. /\ pc = "account" /\ usable /\ Grant!Listed(call)
        /\ UNCHANGED <<call, consent, zones, live, held, usable, failed, tries>>
    BY DEF Grant!ListAccounts
  <2>4. Granted'
    BY <2>3 DEF GrantInv, Granted
  <2>5. Bound'
    BY <1>3, <2>1, <2>2, <2>3 DEF Bound, Grant!Hosted, Grant!Listed
  <2> HIDE DEF only
  <2>6. pc' \in {"zone", "work"}
    BY <1>3
  <2> QED BY <1>3, <2>2, <2>3, <2>4, <2>5, <2>6, WorkHolds
<1> QED BY <1>1, <1>2, <1>3 DEF Grant!ListAccounts

LEMMA ProbeAccountHolds == ASSUME GrantInv, Grant!ProbeAccount PROVE GrantInv'
BY StopQueuesAll, GrantBounds, WorkHolds DEF Grant!ProbeAccount, GrantInv, Shape, Granted, Bound,
  Grant!Listed

LEMMA ResolveZoneHolds == ASSUME GrantInv, Grant!ResolveZone PROVE GrantInv'
<1> DEFINE answer == IF Grant!FilterAnswer = {} THEN Grant!Found ELSE Grant!FilterAnswer
<1>1. CASE (Grant!Stop("zone_ambiguous") \/ Grant!Stop("zone_mismatch")) /\ UNCHANGED bound
  BY <1>1, StopQueuesAll DEF Grant!ResolveZone
<1>2. CASE /\ \E i \in answer : Grant!Matches(i) /\ bound' = [bound EXCEPT !.zone = i]
           /\ pc' = "work" /\ UNCHANGED <<outcome, queue>>
  <2>1. PICK i \in answer : Grant!Matches(i) /\ bound' = [bound EXCEPT !.zone = i]
    BY <1>2
  <2>2. i \in DOMAIN zones
    BY DEF Grant!Found, Grant!FilterAnswer, Grant!Visible
  <2>3. /\ bound' \in [acc : Accounts \cup {Grant!Nothing}, zone : 0..MaxZones]
        /\ bound'.acc = bound.acc /\ bound'.zone = i
    BY <2>1, <2>2 DEF GrantInv, Shape
  <2>4. /\ pc = "zone" /\ usable
        /\ UNCHANGED <<call, consent, zones, live, held, usable, failed, tries>>
    BY DEF Grant!ResolveZone
  <2>5. Granted' /\ Bound'
    BY <1>2, <2>1, <2>3, <2>4 DEF GrantInv, Granted, Bound, Grant!Matches
  <2> QED BY <1>2, <2>3, <2>4, <2>5, WorkHolds
<1> QED BY <1>1, <1>2 DEF Grant!ResolveZone

LEMMA DiscardHolds == ASSUME GrantInv, Grant!Discard PROVE GrantInv'
<1>1. /\ pc = "revoke" /\ queue = <<>> /\ pc' = "end" /\ held' = {} /\ usable' = FALSE
      /\ outcome' = IF failed THEN "revoke_failed" ELSE outcome
      /\ UNCHANGED <<call, consent, zones, live, bound, queue, failed, tries>>
  BY DEF Grant!Discard
<1>2. Queued = {}
  BY <1>1 DEF Queued
<1>3. /\ \A t \in Grant!Issued : Tried(t) /\ Reported(t)
      /\ live \subseteq Grant!Issued /\ UNCHANGED <<Grant!Issued, Grant!Attempts>>
  BY <1>1, <1>2 DEF GrantInv, Revoking, Grant!Issued, Grant!Attempts
<1>4. Grant!TypeOK' /\ Shape'
  <2>1. outcome' \in Grant!Outcomes
    BY <1>1 DEF GrantInv, Grant!TypeOK
  <2>2. Grant!GrantObject'
    BY <1>1 DEF Grant!GrantObject
  <2>3. \A i \in DOMAIN queue' : queue'[i] \in held'
    BY <1>1
  <2>4. Grant!TypeOK'
    BY <1>1, <2>1, <2>2, <2>3 DEF GrantInv, Grant!TypeOK
  <2> QED BY <1>1, <2>4 DEF GrantInv, Shape
<1>5. Grant!LiveIsReported' /\ Grant!EveryTokenTried'
  BY <1>1, <1>3 DEF Grant!LiveIsReported, Grant!EveryTokenTried, Tried, Reported
<1> QED BY <1>1, <1>4, <1>5 DEF GrantInv, BeforeRevoking, Granted, Bound, Revoking

LEMMA RevokeHolds ==
  ASSUME GrantInv, NEW revoked \in BOOLEAN, NEW confirmed \in BOOLEAN,
         Grant!Revoke(revoked, confirmed)
  PROVE  GrantInv'
<1> DEFINE t    == Head(queue)
           last == confirmed \/ tries[t] + 1 = Grant!Attempts
<1>1. /\ pc = "revoke" /\ queue # <<>> /\ (confirmed => revoked)
      /\ live' = IF revoked THEN live \ {t} ELSE live
      /\ tries' = [tries EXCEPT ![t] = @ + 1]
      /\ queue' = IF last THEN Tail(queue) ELSE queue
      /\ failed' = IF last THEN failed \/ ~confirmed ELSE failed
      /\ UNCHANGED <<call, consent, zones, held, usable, pc, bound, outcome>>
  BY DEF Grant!Revoke, Grant!Rest, Grant!FailedAfter
<1>2. \/ queue = <<"access">> /\ t = "access" /\ Tail(queue) = <<>>
      \/ queue = <<"refresh">> /\ t = "refresh" /\ Tail(queue) = <<>>
      \/ queue = <<"access", "refresh">> /\ t = "access" /\ Tail(queue) = <<"refresh">>
  <2>1. queue \in {<<"access">>, <<"refresh">>, <<"access", "refresh">>}
    BY <1>1 DEF GrantInv, Revoking
  <2>2. CASE queue = <<"access">>
    BY <2>2
  <2>3. CASE queue = <<"refresh">>
    BY <2>3
  <2>4. CASE queue = <<"access", "refresh">>
    BY <2>4
  <2> QED BY <2>1, <2>2, <2>3, <2>4
<1>3. t \in Queued /\ Queued' = (IF last THEN Queued \ {t} ELSE Queued)
  BY <1>1, <1>2 DEF Queued
<1>4. /\ t \in Grant!Tokens /\ t \in Grant!Issued /\ tries[t] \in Nat /\ tries[t] < Grant!Attempts
      /\ tries' \in [Grant!Tokens -> 0..RevokeAttempts] /\ tries'[t] = tries[t] + 1
      /\ \A u \in Grant!Tokens \ {t} : tries'[u] = tries[u]
  <2>1. t \in Grant!Issued /\ tries[t] < Grant!Attempts /\ t \in Grant!Tokens
    BY <1>1, <1>2, <1>3 DEF GrantInv, Revoking
  <2>2. tries \in [Grant!Tokens -> 0..RevokeAttempts]
    BY DEF GrantInv, Grant!TypeOK
  <2> HIDE DEF t
  <2> QED BY <1>1, <2>1, <2>2, AttemptsFit, GrantBounds
<1> HIDE DEF t
<1>5. UNCHANGED <<Grant!Issued, Grant!Attempts>> /\ Grant!Issued \subseteq Grant!Tokens
  BY <1>1 DEF Grant!Issued, Grant!Attempts
<1>6. Grant!TypeOK' /\ Shape'
  <2>1. \A i \in DOMAIN queue' : queue'[i] \in held
    BY <1>1, <1>2 DEF GrantInv, Grant!TypeOK
  <2> QED BY <1>1, <1>4, <2>1 DEF GrantInv, Grant!TypeOK, Shape, Grant!GrantObject
<1>7. Revoking'
  <2>1. queue' \in {<<>>, <<"access">>, <<"refresh">>, <<"access", "refresh">>}
    BY <1>1, <1>2
  <2>2. /\ held' = Grant!Issued' /\ live' \subseteq Grant!Issued' /\ Queued' \subseteq Grant!Issued'
    BY <1>1, <1>3, <1>5 DEF GrantInv, Revoking
  <2>3. \A u \in Queued' : tries'[u] < Grant!Attempts'
    <3> SUFFICES ASSUME NEW u \in Queued' PROVE tries'[u] < Grant!Attempts
      BY <1>5
    <3> HIDE DEF last
    <3>1. u \in Queued /\ (u = t => ~last)
      BY <1>3
    <3>4. u \in Grant!Tokens
      BY <1>1, <1>5, <3>1 DEF GrantInv, Revoking
    <3> USE DEF last
    <3>2. CASE u = t
      BY <1>4, <3>1, <3>2, <3>4, AttemptsFit, GrantBounds
    <3>3. CASE u # t
      BY <1>1, <1>4, <3>1, <3>3, <3>4 DEF GrantInv, Revoking
    <3> QED BY <3>2, <3>3
  <2>4. \A u \in Grant!Issued' \ Queued' : Tried(u)' /\ Reported(u)'
    <3> SUFFICES ASSUME NEW u \in Grant!Issued \ Queued' PROVE Tried(u)' /\ Reported(u)'
      BY <1>5
    <3>1. CASE u = t
      <4>1. last
        BY <1>3, <3>1
      <4>2. tries'[u] > 0 /\ (tries'[u] = Grant!Attempts' \/ u \notin live')
        BY <1>1, <1>4, <1>5, <3>1, <4>1
      <4>3. u \in live' => failed'
        BY <1>1, <3>1, <4>1
      <4> QED BY <4>2, <4>3 DEF Tried, Reported
    <3>2. CASE u # t
      BY <1>1, <1>3, <1>4, <1>5, <3>2 DEF GrantInv, Revoking, Tried, Reported
    <3> QED BY <3>1, <3>2
  <2> QED BY <1>1, <2>1, <2>2, <2>3, <2>4 DEF Revoking
<1> QED
  BY <1>1, <1>6, <1>7 DEF GrantInv, BeforeRevoking, Granted, Bound, Grant!LiveIsReported,
    Grant!EveryTokenTried

LEMMA GrantStepHolds == GrantInv /\ [Grant!Next]_(Grant!vars) => GrantInv'
<1> SUFFICES ASSUME GrantInv, [Grant!Next]_(Grant!vars) PROVE GrantInv'
  OBVIOUS
<1>1. CASE UNCHANGED Grant!vars
  BY <1>1 DEF Grant!vars, GrantInv, Grant!TypeOK, Grant!GrantObject, Shape, BeforeRevoking,
    AllHeld, Grant!Issued, Granted, Bound, Grant!Matches, Revoking, Queued, Tried, Reported,
    Grant!Attempts, Grant!LiveIsReported, Grant!EveryTokenTried
<1> QED
  BY <1>1, RefuseHolds, ExchangeHolds, AssertHolds, ReadFailsHolds, ListAccountsHolds,
    ProbeAccountHolds, ResolveZoneHolds, ExecuteHolds, RevokeHolds, DiscardHolds DEF Grant!Next

LEMMA GrantInvIsSafe == GrantInv => Grant!Safe
BY DEF GrantInv, Grant!Safe, Grant!WorkIsAuthorized, Granted, Bound

\* Work runs only with exactly the operation's scopes on the account and the zone it is bound to,
\* every token of an answer is revoked or tried as often as the call may, and one that lives on is
\* reported.
THEOREM GrantExchangeSafety == Grant!Spec => []Grant!Safe
<1> QED BY GrantInitHolds, GrantStepHolds, GrantInvIsSafe, PTL DEF Grant!Spec

\* The instance has a Cardinality of its own, which counts as the other does.
LEMMA GrantCounts == \A S : Grant!Cardinality(S) = Cardinality(S)
BY DEF Cardinality, Grant!Cardinality

LEMMA PlacesAreCounted ==
  ASSUME GrantInv, NEW i \in Grant!Visible
  PROVE  Grant!Place(i) \in Nat /\ Grant!Cardinality(Grant!Visible) \in Nat
         /\ Grant!Place(i) <= Grant!Cardinality(Grant!Visible)
<1>1. Grant!Visible \subseteq 1..MaxZones /\ MaxZones \in Nat
  BY GrantBounds DEF GrantInv, Shape, Grant!Visible
<1>2. IsFiniteSet(Grant!Visible)
  <2>1. IsFiniteSet(1..MaxZones)
    BY <1>1, FS_Interval
  <2> QED BY <1>1, <2>1, FS_Subset
<1>3. {j \in Grant!Visible : j <= i} \subseteq Grant!Visible
  OBVIOUS
<1> QED BY <1>2, <1>3, FS_Subset, FS_CardinalityType, GrantCounts DEF Grant!Place

\* The pages that are read hold all that the pages it may read show.
LEMMA PagesSuffice ==
  ASSUME GrantInv, NEW i \in Grant!Visible, Grant!Place(i) <= PageSize * MaxPages
  PROVE  Grant!Place(i) <= Grant!Pages * PageSize
<1> DEFINE all == Grant!Cardinality(Grant!Visible)
           full == all \div PageSize
<1>1. Grant!Place(i) \in Nat /\ all \in Nat /\ Grant!Place(i) <= all /\ PageSize \in Nat \ {0} /\ MaxPages \in Nat
  BY PlacesAreCounted, GrantBounds
<1>2. full \in Nat /\ all < (full + 1) * PageSize
  BY <1>1
<1> HIDE DEF full, all
<1>3. CASE full < MaxPages
  BY <1>3, <1>1, <1>2 DEF Grant!Pages, full, all
<1>4. CASE ~(full < MaxPages)
  BY <1>4, <1>1 DEF Grant!Pages, full, all
<1> QED BY <1>3, <1>4

\* A call has no outcome until it stops.
Unstopped == pc \in {"exchange", "assert", "account", "zone", "work"} => outcome = Grant!Nothing

LEMMA UnstoppedStays == Unstopped /\ [Grant!Next]_(Grant!vars) => Unstopped'
BY DEF Unstopped, Grant!vars, Grant!Next, Grant!Refuse, Grant!Exchange, Grant!AssertUsable, Grant!ReadFails,
  Grant!ListAccounts, Grant!ProbeAccount, Grant!ResolveZone, Grant!Execute, Grant!Revoke, Grant!Discard,
  Grant!Stop

LEMMA ZoneIsFound ==
  ASSUME GrantInv, Unstopped, [Grant!Next]_(Grant!vars) PROVE Grant!FindsZone
<1> SUFFICES ASSUME pc = "zone", outcome' = "zone_mismatch", consent.filter # "unfiltered",
                    NEW i \in Grant!Visible, Grant!Place(i) <= PageSize * MaxPages, Grant!Matches(i)
             PROVE  FALSE
  BY DEF Grant!FindsZone
<1>1. outcome = Grant!Nothing /\ consent.filter \in {"right", "empty"}
  BY DEF Unstopped, GrantInv, Grant!TypeOK, Grant!Consents, Grant!Filters
<1>2. ~UNCHANGED Grant!vars /\ ~Grant!ReadFails
  BY <1>1 DEF Grant!vars, Grant!ReadFails, Grant!Stop
<1>3. Grant!ResolveZone
  BY <1>2 DEF Grant!Next, Grant!Refuse, Grant!Exchange, Grant!AssertUsable, Grant!ListAccounts,
    Grant!ProbeAccount, Grant!Execute, Grant!Revoke, Grant!Discard
<1>4. PICK answer :
        /\ answer = IF Grant!FilterAnswer = {} THEN Grant!Found ELSE Grant!FilterAnswer
        /\ \A j \in answer : ~Grant!Matches(j)
  BY <1>1, <1>3 DEF Grant!ResolveZone, Grant!Stop
<1>5. i \in answer
  BY <1>4, PagesSuffice, <1>1 DEF Grant!FilterAnswer, Grant!Found
<1> QED BY <1>4, <1>5

\* The install gives up on its zone only when no page it may read shows it, however many zones there
\* are and wherever the listing has it, unless the provider's filter lets the wrong ones through.
THEOREM GrantFindsZone == Grant!Spec => [][Grant!FindsZone]_(Grant!vars)
<1>1. GrantInv /\ Unstopped /\ [Grant!Next]_(Grant!vars) => [Grant!FindsZone]_(Grant!vars)
  BY ZoneIsFound
<1>2. Grant!Init => Unstopped
  BY DEF Grant!Init, Unstopped
<1> QED BY <1>1, <1>2, GrantInitHolds, GrantStepHolds, UnstoppedStays, PTL DEF Grant!Spec

-------------------------------------------------------------------------------
(* WorkerUpload *)

\* The entries of a history that carry the tag of this release.
Tagged(s) == {i \in DOMAIN s : s[i]}
Single(S) == \A i, j \in S : i = j

\* What is known to be submitted: of a failed call, what it reports.
Known == IF pc = "failed" THEN error.subs ELSE subs

\* Submissions come in order, and each one is at the provider.
Chains == {{}, {"worker"}, {"worker", "version"}, Upload!Mutations}
KnownExists ==
  /\ Known \in Chains /\ subs \in Chains /\ subs \subseteq Known
  /\ "worker" \in Known => worker = "ours"
  /\ "version" \in Known => Tagged(versions) # {}
  /\ "deployment" \in Known => Tagged(deployments) # {}

\* What is at the provider, or on its way, follows a submission that is known.
Evidence ==
  /\ Tagged(versions) # {} \/ "version" \in wire \/ late["version"] > 0 => "worker" \in Known
  /\ Tagged(deployments) # {} \/ "deployment" \in wire \/ late["deployment"] > 0 => "version" \in Known

\* Only a failed call leaves a request of its own on its way.
Underway == wire # {} => pc = "failed"

UploadAccounted ==
  /\ pc # "failed" => made \subseteq subs
  /\ Upload!OutcomeIsHonest

\* Of a kind that was not overtaken there is one copy, or one request on its way, and no other.
Alone(k, S) ==
  \/ k \in overtaken
  \/ /\ Single(S) /\ late[k] <= 1
     /\ S # {} => k \notin wire /\ late[k] = 0
     /\ k \in wire => late[k] = 0
OneOfEach == Alone("version", Tagged(versions)) /\ Alone("deployment", Tagged(deployments))

Before  == {"lookup", "worker", "findWorker"}
Started == {"verifyWorker", "session", "bucket", "version"}
Versioned == {"verifyVersion", "deployment", "deployments"}
Places ==
  /\ pc \in Before => subs = {}
  /\ pc \in Started \cup {"versions"} => subs = {"worker"}
  /\ pc \in Versioned => subs = {"worker", "version"}
  /\ pc \in {"verifyDeployment", "done"} => subs = Upload!Mutations
  /\ pc \in Started => Tagged(versions) = {} \/ "version" \in overtaken
  /\ pc \in {"verifyVersion", "deployment"} => Tagged(deployments) = {} \/ "deployment" \in overtaken
  /\ pc = "verifyWorker" => late["version"] = 0
  /\ pc = "verifyVersion" => late["deployment"] = 0

\* A listing has seen the newest of the versions that were there when it began; and when it ends, no
\* version of this release came since, or it was overtaken.
Listing == [page : Nat \ {0}, pages : Nat, total : Nat, seen : SUBSET Nat, matches : SUBSET Nat]
Listed ==
  /\ pc = "findWorker" => list = Upload!NoList
  /\ pc = "versions" =>
    /\ list.total <= Len(versions)
    /\ list.page = 1 => list = Upload!NoList
    /\ list.page > 1 =>
         /\ list.pages = list.total
         /\ list.seen = {i \in 1..list.total : i >= list.total + 2 - list.page}
         /\ list.page > list.pages =>
              "version" \in overtaken \/ \A i \in Tagged(versions) : i <= list.total
    /\ list.matches = list.seen \cap Tagged(versions)

Buckets ==
  /\ stored = bucket /\ buckets \in 0..MaxBuckets /\ bucket \in 0..buckets
  /\ pc = "bucket" => bucket < buckets
  /\ pc = "version" => bucket = buckets

Typed ==
  /\ worker \in Upload!WorkerStates /\ versions \in Seq(BOOLEAN) /\ deployments \in Seq(BOOLEAN)
  /\ wire \subseteq Upload!Mutations /\ pc \in Upload!Steps /\ made \subseteq Upload!Mutations
  /\ error \in Upload!Errors /\ list \in Listing /\ list.matches \subseteq list.seen
  /\ late \in [Upload!Mutations -> Nat] /\ overtaken \subseteq Upload!Mutations

UploadInv ==
  /\ Typed /\ KnownExists /\ Evidence /\ Underway /\ UploadAccounted /\ OneOfEach /\ Places
  /\ Listed
  /\ Buckets

LEMMA TagAppended ==
  ASSUME NEW s \in Seq(BOOLEAN)
  PROVE  /\ Tagged(Append(s, TRUE)) = Tagged(s) \cup {Len(s) + 1}
         /\ Tagged(Append(s, FALSE)) = Tagged(s)
         /\ Append(s, TRUE) \in Seq(BOOLEAN) /\ Append(s, FALSE) \in Seq(BOOLEAN)
         /\ Tagged(s) \subseteq 1..Len(s) /\ Len(s) \in Nat
         /\ \A b \in BOOLEAN : Len(Append(s, b)) = Len(s) + 1
<1>1. /\ \A b \in BOOLEAN : DOMAIN Append(s, b) = 1..(Len(s) + 1)
      /\ \A b \in BOOLEAN : \A i \in 1..Len(s) : Append(s, b)[i] = s[i]
      /\ \A b \in BOOLEAN : Append(s, b)[Len(s) + 1] = b
      /\ \A b \in BOOLEAN : Append(s, b) \in Seq(BOOLEAN)
      /\ DOMAIN s = 1..Len(s) /\ Len(s) \in Nat
      /\ \A b \in BOOLEAN : Len(Append(s, b)) = Len(s) + 1
  OBVIOUS
<1>2. 1..(Len(s) + 1) = 1..Len(s) \cup {Len(s) + 1}
  BY <1>1
<1>3. \A i \in 1..Len(s) : i # Len(s) + 1
  BY <1>1
<1>4. Tagged(Append(s, TRUE)) = Tagged(s) \cup {Len(s) + 1}
  BY <1>1, <1>2, <1>3, Zenon DEF Tagged
<1>5. Tagged(Append(s, FALSE)) = Tagged(s)
  BY <1>1, <1>2, <1>3, Zenon DEF Tagged
<1>6. Tagged(s) \subseteq 1..Len(s)
  BY <1>1, Zenon DEF Tagged
<1> QED BY <1>1, <1>4, <1>5, <1>6

\* The instance has a Cardinality of its own, which counts as the other does.
LEMMA UploadCounts == \A S : Upload!Cardinality(S) = Cardinality(S)
BY DEF Cardinality, Upload!Cardinality

LEMMA SingleCounts ==
  ASSUME NEW S, Single(S)
  PROVE  Upload!Cardinality(S) <= 1
<1>1. CASE S = {}
  BY <1>1, FS_EmptySet, UploadCounts
<1>2. CASE S # {}
  <2>1. PICK x \in S : TRUE
    BY <1>2
  <2>2. S = {x}
    BY <2>1 DEF Single
  <2> QED BY <2>2, FS_Singleton, UploadCounts
<1> QED BY <1>1, <1>2

LEMMA UploadInvIsSafe == UploadInv => Upload!Safe
<1> SUFFICES ASSUME UploadInv PROVE Upload!Safe
  OBVIOUS
<1>1. Upload!TypeOK
  BY UploadBounds DEF UploadInv, KnownExists, Chains, Upload!Submissions, Upload!Mutations, Buckets,
    Upload!AssetSessions, Typed, Upload!TypeOK, Listing, Upload!VersionResults,
    Upload!DeploymentLists
<1>2. Upload!SubmissionsExist
  BY DEF UploadInv, KnownExists, Upload!SubmissionsExist, Tagged
<1>3. Upload!OneEach
  <2> SUFFICES ASSUME NEW k \in {"version", "deployment"} \ overtaken
               PROVE  Upload!Cardinality(Upload!Copies(k)) <= 1
    BY DEF Upload!OneEach
  <2>1. Upload!Copies("version") = Tagged(versions) /\ Upload!Copies("deployment") = Tagged(deployments)
    BY DEF Upload!Copies, Tagged
  <2>2. Single(Upload!Copies(k))
    BY <2>1 DEF UploadInv, OneOfEach, Alone
  <2> QED BY <2>2, SingleCounts
<1> QED
  BY <1>1, <1>2, <1>3 DEF UploadInv, UploadAccounted, Upload!Safe, Upload!AssetsAreWhole, Buckets

USE DEF Upload!Mutations, Upload!Steps, Upload!WorkerStates, Upload!Errors, Upload!Outcomes,
  Upload!Submissions

LEMMA UploadInitHolds == Upload!Init => UploadInv
<1> SUFFICES ASSUME Upload!Init PROVE UploadInv
  OBVIOUS
<1>1. Tagged(<<>>) = {} /\ versions = <<>> /\ deployments = <<>> /\ Len(<<>>) = 0
  BY DEF Tagged, Upload!Init
<1>2. list \in Listing /\ list.matches \subseteq list.seen
  BY DEF Upload!Init, Listing, Upload!NoList
<1>6. late = [k \in Upload!Mutations |-> 0] /\ late["version"] = 0 /\ late["deployment"] = 0
  BY DEF Upload!Init
<1>3. Typed
  BY <1>1, <1>2, <1>6 DEF Upload!Init, Typed
<1>4. KnownExists /\ Evidence /\ Underway /\ UploadAccounted
  BY <1>1, <1>6 DEF Upload!Init, KnownExists, Evidence, Underway, UploadAccounted,
    Upload!OutcomeIsHonest, Known, Chains
<1>5. OneOfEach /\ Places /\ Listed /\ Buckets
  BY <1>1, <1>6, UploadBounds DEF Upload!Init, OneOfEach, Alone, Single, Places, Before, Started,
    Versioned, Listed, Buckets
<1> QED BY <1>3, <1>4, <1>5 DEF UploadInv

\* A call fails: what it reports is what was known, and what it may have done.
LEMMA RethrowHolds ==
  ASSUME UploadInv, NEW stage \in Upload!Steps, NEW how \in Upload!Outcomes,
         NEW more \in SUBSET Upload!Mutations,
         pc # "failed", more \subseteq subs, Upload!Rethrow(stage, how, more),
         overtaken \subseteq overtaken', overtaken' \subseteq Upload!Mutations,
         UNCHANGED <<Upload!provider, wire, late, made, Upload!assets, list>>
  PROVE  UploadInv'
<1>1. /\ pc' = "failed" /\ error' = [stage |-> stage, outcome |-> how, subs |-> more \cup subs]
      /\ error'.subs = subs /\ Known = subs /\ Known' = subs /\ UNCHANGED subs
      /\ subs \subseteq Upload!Mutations
      /\ wire = {}
  BY DEF Upload!Rethrow, Known, UploadInv, KnownExists, Chains, Underway
<1>2. Typed'
  BY <1>1 DEF UploadInv, Typed, Upload!provider
<1>3. KnownExists' /\ Evidence' /\ Underway'
  BY <1>1 DEF UploadInv, KnownExists, Evidence, Underway, Upload!provider
<1>6. OneOfEach'
  BY <1>1 DEF UploadInv, OneOfEach, Alone, Upload!provider
<1>4. UploadAccounted'
  BY <1>1 DEF UploadInv, UploadAccounted, Upload!OutcomeIsHonest
<1>5. Places' /\ Listed' /\ Buckets'
  BY <1>1 DEF UploadInv, Places, Before, Started, Versioned, Listed, Buckets, Upload!assets
<1> QED BY <1>2, <1>3, <1>4, <1>5, <1>6 DEF UploadInv

LEMMA FailsHolds ==
  ASSUME UploadInv, NEW stage \in Upload!Steps, NEW how \in Upload!Outcomes,
         NEW more \in SUBSET Upload!Mutations,
         pc # "failed", more \subseteq subs, Upload!Rethrow(stage, how, more),
         UNCHANGED <<Upload!provider, wire, late, made, overtaken, Upload!assets, list>>
  PROVE  UploadInv'
<1>1. overtaken \subseteq overtaken' /\ overtaken' \subseteq Upload!Mutations
  BY DEF UploadInv, Typed
<1> QED BY <1>1, RethrowHolds

\* A step of a call that asks, and does not submit.
LEMMA AsksHolds ==
  ASSUME UploadInv, pc \notin {"failed", "versions"},
         pc' \in Upload!Steps \ {"failed", "versions", "findWorker"},
         subs \subseteq subs', subs' \in Chains, KnownExists', Places',
         Buckets', UNCHANGED <<Upload!provider, wire, late, made, overtaken, error, list>>
  PROVE  UploadInv'
BY DEF Known, UploadInv, Underway, Typed, Evidence, OneOfEach, Alone, UploadAccounted,
  Upload!OutcomeIsHonest, Listed, Upload!provider

\* What a request that takes effect changes.
LEMMA ApplyAdds ==
  ASSUME UploadInv, NEW k \in Upload!Mutations, ~Upload!Exists(k), Upload!Apply(k)
  PROVE  /\ worker' \in Upload!WorkerStates
         /\ versions' \in Seq(BOOLEAN) /\ deployments' \in Seq(BOOLEAN)
         /\ worker = "ours" => k # "worker"
         /\ worker' = IF k = "worker" THEN "ours" ELSE worker
         /\ k = "version" => Tagged(versions') = Tagged(versions) \cup {Len(versions) + 1}
         /\ k # "version" => versions' = versions
         /\ k = "deployment" => Tagged(deployments') = Tagged(deployments) \cup {Len(deployments) + 1}
         /\ k # "deployment" => deployments' = deployments
BY TagAppended DEF UploadInv, Typed, Upload!Apply, Upload!Exists

\* A request is sent in its order: nothing of its kind is at the provider.
LEMMA SendsFirst ==
  ASSUME UploadInv, NEW k \in Upload!Mutations, pc = k
  PROVE  /\ Known = subs /\ wire = {} /\ k \notin subs /\ made \subseteq subs
         /\ subs \cup {k} \in Chains /\ subs \in Chains
         /\ k = "worker" => subs = {} /\ Tagged(versions) = {} /\ late["version"] = 0
         /\ k = "version" => subs = {"worker"} /\ (Tagged(versions) = {} \/ k \in overtaken)
         /\ k = "deployment" =>
              subs = {"worker", "version"} /\ (Tagged(deployments) = {} \/ k \in overtaken)
         /\ k # "deployment" => Tagged(deployments) = {} /\ late["deployment"] = 0
         /\ late \in [Upload!Mutations -> Nat]
BY DEF Known, UploadInv, Underway, UploadAccounted, Places, Before, Started, Versioned, Chains,
  Evidence, Typed

\* What a request makes, and what it is overtaken by, leaves no second copy unaccounted for.
LEMMA MadeIsAlone ==
  ASSUME UploadInv, NEW k \in Upload!Mutations, pc = k, ~Upload!Exists(k), Upload!Apply(k),
         overtaken' = IF late[k] > 0 THEN overtaken \cup {k} ELSE overtaken, UNCHANGED <<wire, late>>
  PROVE  OneOfEach'
BY SendsFirst, ApplyAdds DEF Alone, Single, UploadInv, OneOfEach

LEMMA SubmitHolds ==
  ASSUME UploadInv, NEW k \in Upload!Mutations, NEW next,
         next = (CASE k = "worker" -> "verifyWorker" [] k = "version" -> "verifyVersion"
                   [] OTHER -> "verifyDeployment"),
         Upload!Submit(k, next)
  PROVE  UploadInv'
<1>1. /\ pc = k /\ UNCHANGED <<stored, buckets, bucket, late, list, outside>> /\ k \in Upload!Steps
      /\ pc \notin {"failed", "versions"}
      /\ overtaken' = IF late[k] > 0 THEN overtaken \cup {k} ELSE overtaken
  BY DEF Upload!Submit, Upload!assets
<1>2. /\ Known = subs /\ wire = {} /\ k \notin subs /\ made \subseteq subs
      /\ subs \cup {k} \in Chains /\ subs \in Chains
      /\ k = "worker" => subs = {} /\ Tagged(versions) = {} /\ late["version"] = 0
      /\ k = "version" => subs = {"worker"} /\ (Tagged(versions) = {} \/ k \in overtaken)
      /\ k = "deployment" =>
           subs = {"worker", "version"} /\ (Tagged(deployments) = {} \/ k \in overtaken)
      /\ k # "deployment" => Tagged(deployments) = {} /\ late["deployment"] = 0
      /\ late \in [Upload!Mutations -> Nat]
  BY <1>1, SendsFirst
<1>3. list \in Listing /\ list.matches \subseteq list.seen
  BY DEF UploadInv, Typed
<1>10. /\ overtaken \subseteq overtaken' /\ overtaken' \subseteq Upload!Mutations
       /\ late' \in [Upload!Mutations -> Nat]
  BY <1>1, <1>2 DEF UploadInv, Typed
<1>4. CASE Upload!Submitted(k, next)
  <2>1. /\ ~Upload!Exists(k) /\ Upload!Apply(k) /\ subs' = subs \cup {k} /\ pc' = next
        /\ UNCHANGED <<error, wire, faults>> /\ Known' = subs' /\ made' = made \cup {k}
    BY <1>4 DEF Upload!Submitted, Upload!Make, Known
  <2>2. pc' \in Upload!Steps \ {"failed", "versions", "findWorker"}
    BY <2>1
  <2>3. Typed'
    BY <1>1, <1>3, <1>10, <2>1, <2>2, ApplyAdds DEF UploadInv, Typed
  <2>4. KnownExists' /\ Evidence' /\ Underway'
    BY <1>1, <1>2, <2>1, ApplyAdds DEF UploadInv, KnownExists, Evidence, Underway, Chains
  <2>5. OneOfEach'
    BY <1>1, <2>1, MadeIsAlone
  <2>6. UploadAccounted' /\ Listed'
    BY <1>2, <2>1, <2>2 DEF UploadAccounted, Upload!OutcomeIsHonest, Listed
  <2>7. Places'
    BY <1>1, <1>2, <1>10, <2>1, ApplyAdds DEF Places, Before, Started, Versioned
  <2>8. Buckets'
    BY <1>1, <2>1 DEF UploadInv, Buckets
  <2> QED BY <2>3, <2>4, <2>5, <2>6, <2>7, <2>8 DEF UploadInv
<1>5. ASSUME NEW how \in {"submitted", "unknown"}, NEW more \in {{}, {k}},
             Upload!Make(k), Upload!Rethrow(k, how, more), UNCHANGED wire
      PROVE  UploadInv'
  <2>1. /\ pc' = "failed" /\ error' = [stage |-> k, outcome |-> how, subs |-> more \cup subs]
        /\ UNCHANGED <<subs, wire>> /\ Known' = more \cup subs /\ error'.subs = more \cup subs
        /\ error'.stage = k /\ error'.outcome = how
        /\ ~Upload!Exists(k) /\ Upload!Apply(k) /\ made' = made \cup {k}
    BY <1>5 DEF Upload!Rethrow, Known, Upload!Make
  <2>2. error' \in Upload!Errors
    BY <1>2, <2>1 DEF Chains
  <2>3. Typed'
    BY <1>1, <1>3, <1>10, <2>1, <2>2, ApplyAdds DEF UploadInv, Typed
  <2>4. KnownExists'
    BY <1>2, <2>1, ApplyAdds DEF UploadInv, KnownExists, Chains
  <2>9. Evidence' /\ Underway'
    BY <1>1, <1>2, <2>1, ApplyAdds DEF UploadInv, Evidence, Underway
  <2>5. OneOfEach'
    BY <1>1, <1>5, <2>1, MadeIsAlone
  <2>6. UploadAccounted' /\ Listed'
    BY <1>2, <1>5, <2>1 DEF UploadAccounted, Upload!OutcomeIsHonest, Listed
  <2>7. Places'
    BY <2>1 DEF Places, Before, Started, Versioned
  <2>8. Buckets'
    BY <1>1, <2>1 DEF UploadInv, Buckets
  <2> QED BY <2>3, <2>4, <2>5, <2>6, <2>7, <2>8, <2>9 DEF UploadInv
<1>6. CASE Upload!SubmittedOddly(k)
  BY <1>5, <1>6 DEF Upload!SubmittedOddly
<1>7. CASE Upload!Rejected(k)
  BY <1>1, <1>7, <1>10, RethrowHolds DEF Upload!Rejected, Upload!OutcomeOf, Upload!assets
<1>8. CASE Upload!NotSent(k)
  BY <1>1, <1>8, <1>10, RethrowHolds DEF Upload!NotSent, Upload!assets
<1>9. CASE Upload!Unanswered(k)
  BY <1>5, <1>9, <1>2, <1>1, <1>3, <1>10 DEF Upload!Unanswered, Upload!OutcomeOf, Upload!Rethrow,
    Known, Upload!provider, UploadInv, Typed, Chains, KnownExists, Evidence, Underway, OneOfEach,
    Alone, UploadAccounted, Upload!OutcomeIsHonest, Listed, Places, Before, Started, Versioned,
    Buckets
<1> QED BY <1>4, <1>6, <1>7, <1>8, <1>9 DEF Upload!Submit

\* A request that was on its way takes effect, or never does.
LEMMA LandHolds == ASSUME UploadInv, Upload!Land PROVE UploadInv'
<1>1. PICK k \in wire : /\ wire' = wire \ {k} /\ Upload!Lands(k)
                        /\ made' = IF Upload!provider' = Upload!provider THEN made ELSE made \cup {k}
                        /\ UNCHANGED <<Upload!assets, late, pc, subs, error, list, overtaken, faults, outside>>
  BY DEF Upload!Land
<1>2. k \in Upload!Mutations /\ pc = "failed" /\ made' \subseteq made \cup {k}
  BY <1>1 DEF UploadInv, Typed, Underway
<1>3. UNCHANGED <<Known, subs, error, pc, list, stored, buckets, bucket>> /\ wire' \subseteq wire
  BY <1>1 DEF Known, Upload!assets
<1>4. k = "version" => "worker" \in Known
  BY DEF UploadInv, Evidence
<1>8. k = "deployment" => "version" \in Known
  BY DEF UploadInv, Evidence
<1>5. Places' /\ Listed' /\ Buckets'
  BY <1>2, <1>3 DEF UploadInv, Places, Before, Started, Versioned, Listed, Buckets
<1>9. UploadAccounted'
  BY <1>1, <1>2, <1>3 DEF UploadInv, UploadAccounted, Upload!OutcomeIsHonest
<1>6. CASE UNCHANGED Upload!provider
  BY <1>1, <1>2, <1>3, <1>6, <1>5, <1>9 DEF UploadInv, Typed, KnownExists, Evidence, Underway,
    OneOfEach, Alone, Upload!provider
<1>7. CASE ~Upload!Exists(k) /\ Upload!Apply(k)
  <2>1. Typed'
    BY <1>1, <1>2, <1>3, <1>7, ApplyAdds DEF UploadInv, Typed
  <2>2. KnownExists'
    BY <1>2, <1>3, <1>7, ApplyAdds DEF UploadInv, KnownExists
  <2>3. Evidence' /\ Underway'
    BY <1>1, <1>2, <1>3, <1>4, <1>8, <1>7, ApplyAdds DEF UploadInv, Evidence, Underway
  <2>4. OneOfEach'
    BY <1>1, <1>2, <1>7, ApplyAdds DEF UploadInv, OneOfEach, Alone, Single
  <2> QED BY <1>5, <1>9, <2>1, <2>2, <2>3, <2>4 DEF UploadInv
<1> QED BY <1>1, <1>6, <1>7 DEF Upload!Lands

\* A request of an earlier call lands while the present one is at any of its steps: where it has
\* looked for that kind, the kind is overtaken.
LEMMA LandLateHolds == ASSUME UploadInv, Upload!LandLate PROVE UploadInv'
<1>1. PICK k \in Upload!Mutations :
        /\ late[k] > 0 /\ late' = [late EXCEPT ![k] = @ - 1] /\ Upload!Lands(k)
        /\ overtaken' = IF Upload!HasLooked(k) THEN overtaken \cup {k} ELSE overtaken
        /\ UNCHANGED <<Upload!assets, wire, pc, subs, error, list, made, faults, outside>>
  BY DEF Upload!LandLate
<1>2. /\ late \in [Upload!Mutations -> Nat] /\ late' \in [Upload!Mutations -> Nat]
      /\ late'[k] = late[k] - 1 /\ \A l \in Upload!Mutations \ {k} : late'[l] = late[l]
      /\ \A l \in Upload!Mutations : late'[l] <= late[l]
      /\ overtaken \subseteq overtaken' /\ overtaken' \subseteq Upload!Mutations
  BY <1>1 DEF UploadInv, Typed
<1>3. UNCHANGED <<Known, subs, error, pc, list, made, wire, stored, buckets, bucket>>
  BY <1>1 DEF Known, Upload!assets
<1>4. /\ k = "version" => "worker" \in Known
      /\ k = "deployment" => "version" \in Known
  BY <1>1 DEF UploadInv, Evidence
<1>5. UploadAccounted' /\ Buckets' /\ Underway'
  BY <1>3 DEF UploadInv, UploadAccounted, Upload!OutcomeIsHonest, Buckets, Underway
<1>6. CASE UNCHANGED Upload!provider
  BY <1>2, <1>3, <1>6, <1>5 DEF UploadInv, Typed, KnownExists, Evidence, Upload!provider, OneOfEach,
    Alone, Places, Before, Started, Versioned, Listed
<1>7. CASE ~Upload!Exists(k) /\ Upload!Apply(k)
  <2>1. Typed'
    BY <1>1, <1>2, <1>3, <1>7, ApplyAdds DEF UploadInv, Typed
  <2>2. KnownExists'
    BY <1>3, <1>7, ApplyAdds DEF UploadInv, KnownExists
  <2>3. Evidence'
    BY <1>2, <1>3, <1>4, <1>7, ApplyAdds DEF UploadInv, Evidence
  <2>4. OneOfEach'
    BY <1>1, <1>2, <1>3, <1>7, ApplyAdds DEF UploadInv, OneOfEach, Alone, Single
  <2>5. Places'
    BY <1>1, <1>4, <1>2, <1>3, <1>7, ApplyAdds DEF UploadInv, Places, Before, Started, Known,
      Upload!HasLooked, Versioned
  <2>6. Listed'
    <3>1. CASE k # "version"
      BY <1>2, <1>3, <1>7, <3>1, ApplyAdds DEF UploadInv, Listed
    <3>2. CASE k = "version" /\ pc # "versions"
      BY <1>3, <3>2 DEF UploadInv, Listed
    <3>3. CASE k = "version" /\ pc = "versions"
      <4>1. /\ versions \in Seq(BOOLEAN) /\ Len(versions) \in Nat /\ Len(versions') = Len(versions) + 1
            /\ Tagged(versions') = Tagged(versions) \cup {Len(versions) + 1}
        BY <1>7, <3>3, TagAppended DEF UploadInv, Typed, Upload!Apply
      <4>2. list \in Listing /\ list.total \in Nat /\ list.page \in Nat \ {0} /\ list.pages \in Nat
        BY DEF UploadInv, Typed, Listing
      <4>3. list.page > list.pages => k \in overtaken'
        BY <1>1, <3>3 DEF Upload!HasLooked
      <4>4. Len(versions) + 1 \notin list.seen
        BY <3>3, <4>1, <4>2 DEF UploadInv, Listed, Upload!NoList
      <4> QED BY <1>3, <3>3, <4>1, <4>2, <4>3, <4>4 DEF UploadInv, Listed
    <3> QED BY <3>1, <3>2, <3>3
  <2> QED BY <1>5, <2>1, <2>2, <2>3, <2>4, <2>5, <2>6 DEF UploadInv
<1> QED BY <1>1, <1>6, <1>7 DEF Upload!Lands

LEMMA LookupHolds == ASSUME UploadInv, Upload!LookupWorker PROVE UploadInv'
<1>1. /\ pc = "lookup" /\ UNCHANGED <<Upload!provider, wire, late, made, overtaken, Upload!assets, list>>
      /\ overtaken \subseteq Upload!Mutations /\ subs = {} /\ {} \in Chains
  BY DEF Upload!LookupWorker, Upload!quiet, UploadInv, Places, Before, Typed, Chains
<1>2. CASE worker = "none" /\ pc' = "worker" /\ UNCHANGED <<subs, error, faults>>
  BY <1>1, <1>2, AsksHolds DEF UploadInv, KnownExists, Known, Places, Before, Started, Versioned,
    Buckets, Upload!provider, Upload!assets
<1>3. CASE \E how \in Upload!Outcomes : Upload!Rethrow("lookup", how, {})
  BY <1>1, <1>3, FailsHolds
<1> QED BY <1>2, <1>3 DEF Upload!LookupWorker

LEMMA VerifyHolds ==
  ASSUME UploadInv, NEW k \in Upload!Mutations, NEW at \in Upload!Steps, NEW exact, NEW next,
         /\ k = "worker" => at = "verifyWorker" /\ next = "session"
         /\ k = "version" => at = "verifyVersion" /\ next = "deployment"
         /\ k = "deployment" => at = "verifyDeployment" /\ next = "done",
         Upload!Verify(k, at, exact, next)
  PROVE  UploadInv'
<1>1. /\ pc = at /\ UNCHANGED <<Upload!provider, wire, late, made, overtaken, Upload!assets, list>>
      /\ overtaken \subseteq Upload!Mutations /\ subs \in Chains /\ {k} \subseteq subs
      /\ pc \notin {"failed", "versions"}
  BY DEF Upload!Verify, Upload!quiet, UploadInv, Places, Started, Versioned, Typed, Chains
<1>2. CASE pc' = next /\ UNCHANGED <<subs, error, faults>>
  BY <1>1, <1>2, AsksHolds DEF UploadInv, KnownExists, Known, Buckets, Upload!provider,
    Upload!assets, Places, Before, Started, Versioned
<1>3. CASE Upload!Rethrow(at, "submitted", {k})
  BY <1>1, <1>3, FailsHolds
<1> QED BY <1>2, <1>3 DEF Upload!Verify

LEMMA AssetsHold == ASSUME UploadInv, Upload!UploadAssets PROVE UploadInv'
<1>1. /\ pc \in {"session", "bucket"}
      /\ UNCHANGED <<Upload!provider, wire, late, made, overtaken, list>>
      /\ overtaken \subseteq Upload!Mutations /\ subs = {"worker"} /\ subs \in Chains
  BY DEF Upload!UploadAssets, Upload!AssetUploadSession, Upload!UploadBucket, Upload!quiet, UploadInv,
    Places, Started, Typed, Chains
<1>2. CASE pc' \in {"bucket", "version"} /\ UNCHANGED <<subs, error, faults>> /\ Buckets'
  BY <1>1, <1>2, AsksHolds DEF UploadInv, KnownExists, Known, Places, Before, Started, Versioned,
    Upload!provider
<1>3. CASE \E how \in Upload!Outcomes : Upload!Rethrow(pc, how, {}) /\ UNCHANGED Upload!assets
  BY <1>1, <1>3, FailsHolds
<1>4. CASE Upload!AssetUploadSession
  BY UploadBounds, <1>2, <1>3, <1>4 DEF Buckets, Upload!AssetSessions, Upload!AssetUploadSession,
    Upload!OutcomeOf
<1>5. CASE Upload!UploadBucket
  BY UploadBounds, <1>2, <1>3, <1>5 DEF UploadInv, Buckets, Upload!IsFinal, Upload!UploadBucket,
    Upload!OutcomeOf
<1> QED BY <1>4, <1>5 DEF Upload!UploadAssets

\* What the failed call reports tells the caller where to go on from.
LEMMA RecoverHolds == ASSUME UploadInv, Upload!Recover PROVE UploadInv'
<1>1. /\ pc = "failed" /\ subs' = error.subs /\ made' = {} /\ wire' = {} /\ list' = Upload!NoList
      /\ UNCHANGED <<worker, versions, deployments, stored, buckets, bucket, error, overtaken>>
      /\ Known = error.subs /\ Known' = error.subs /\ error.subs \in Chains
      /\ pc' \in {"verifyDeployment", "deployments", "versions", "findWorker"}
      /\ pc' = "verifyDeployment" => error.subs = Upload!Mutations
      /\ pc' = "deployments" => error.subs = {"worker", "version"}
      /\ pc' = "versions" => error.subs = {"worker"}
      /\ pc' = "findWorker" => error.subs = {}
  BY DEF Upload!Recover, Upload!provider, Upload!assets, Known, UploadInv, KnownExists, Chains
<1>2. /\ late' \in [Upload!Mutations -> Nat] /\ late \in [Upload!Mutations -> Nat]
      /\ \A k \in Upload!Mutations : late'[k] = IF k \in wire THEN late[k] + 1 ELSE late[k]
  BY DEF Upload!Recover, UploadInv, Typed
<1>3. Typed'
  BY <1>1, <1>2 DEF UploadInv, Typed, Listing, Upload!NoList, Chains
<1>4. KnownExists' /\ Evidence' /\ Underway' /\ UploadAccounted'
  BY <1>1, <1>2 DEF UploadInv, KnownExists, Evidence, Underway, UploadAccounted, Upload!OutcomeIsHonest
<1>5. OneOfEach'
  BY <1>1, <1>2 DEF UploadInv, OneOfEach, Alone
<1>6. Places' /\ Buckets'
  BY <1>1 DEF UploadInv, Places, Before, Started, Versioned, Buckets
<1>7. Listed'
  BY TagAppended, <1>1 DEF UploadInv, Typed, Listed, Upload!NoList
<1> QED BY <1>3, <1>4, <1>5, <1>6, <1>7 DEF UploadInv

\* The listing has only begun when the Worker is found.
LEMMA FindHolds == ASSUME UploadInv, Upload!InspectWorkerRecovery PROVE UploadInv'
<1>1. /\ pc = "findWorker" /\ subs = {}
      /\ UNCHANGED <<Upload!provider, wire, late, made, overtaken, Upload!assets, list>>
      /\ pc \in Upload!Steps /\ list = Upload!NoList /\ overtaken \subseteq Upload!Mutations
      /\ Len(versions) \in Nat
  BY TagAppended DEF Upload!InspectWorkerRecovery, UploadInv, Places, Before, Listed, Upload!quiet, Typed
<1>2. CASE worker = "none" /\ pc' = "worker" /\ UNCHANGED <<subs, error, faults>>
  BY <1>1, <1>2, AsksHolds DEF UploadInv, KnownExists, Known, Upload!provider, Places, Before,
    Started, Versioned, Buckets, Upload!assets, Chains
<1>3. CASE /\ Upload!ExactWorkerState /\ subs' = {"worker"} /\ pc' = "versions"
           /\ UNCHANGED <<error, faults>>
  BY <1>1, <1>3 DEF Known, Upload!ExactWorkerState, Upload!provider, Chains, UploadInv, Underway,
    Typed, KnownExists, Evidence, OneOfEach, Alone, UploadAccounted, Upload!OutcomeIsHonest, Places,
    Before, Started, Versioned, Buckets, Upload!assets, Listed, Upload!NoList
<1>4. CASE \E how \in Upload!Outcomes : Upload!Rethrow("findWorker", how, {})
  BY <1>1, <1>4, FailsHolds
<1> QED BY <1>2, <1>3, <1>4 DEF Upload!InspectWorkerRecovery

LEMMA ReadPageHolds ==
  ASSUME UploadInv, pc = "versions", Upload!ReadPage, UNCHANGED <<Upload!quiet, Upload!assets>>
  PROVE  UploadInv'
<1>1. /\ UNCHANGED <<worker, versions, deployments, wire, late, made, overtaken, stored, buckets, bucket, pc, subs, error>>
      /\ versions \in Seq(BOOLEAN) /\ Len(versions) \in Nat /\ list \in Listing
      /\ Tagged(versions) \subseteq 1..Len(versions)
  <2>1. versions \in Seq(BOOLEAN) /\ list \in Listing
    BY DEF UploadInv, Typed
  <2>2. Tagged(versions) \subseteq 1..Len(versions) /\ Len(versions) \in Nat
    BY <2>1, TagAppended, Zenon
  <2> QED BY <2>1, <2>2 DEF Upload!ReadPage, Upload!quiet, Upload!assets, Upload!provider
<1>2. /\ list' = [page |-> list.page + 1, pages |-> Upload!Pages, total |-> Len(versions),
                  seen |-> list.seen \cup Upload!PageItems,
                  matches |-> list.matches \cup {i \in Upload!PageItems : versions[i]}]
      /\ list.page > 1 => Len(versions) = list.total
  BY DEF Upload!ReadPage, Upload!PageAgrees
<1>3. /\ Upload!PageItems \subseteq 1..Len(versions)
      /\ {i \in Upload!PageItems : versions[i]} = Upload!PageItems \cap Tagged(versions)
  BY <1>1 DEF Upload!PageItems, Tagged, Listing
<1>4. /\ list.page \in Nat \ {0} /\ list.pages \in Nat /\ list.total \in Nat
      /\ list.seen \subseteq Nat /\ list.matches \subseteq Nat
  BY <1>1 DEF Listing
<1>5. Upload!Pages \in Nat
  BY <1>1, <1>4 DEF Upload!Pages
<1>6. list' \in Listing
  <2>1. 1..Len(versions) \subseteq Nat /\ list.page + 1 \in Nat \ {0}
    BY <1>1, <1>4
  <2>2. list.seen \cup Upload!PageItems \in SUBSET Nat
    BY <1>3, <1>4, <2>1
  <2>3. list.matches \cup {i \in Upload!PageItems : versions[i]} \in SUBSET Nat
    BY <1>3, <1>4, <2>1
  <2> QED BY <1>1, <1>2, <1>5, <2>1, <2>2, <2>3 DEF Listing
<1>7. Listed'
  <2>1. list.matches = list.seen \cap Tagged(versions)
    BY DEF UploadInv, Listed
  <2>2. list'.matches = list'.seen \cap Tagged(versions)
    BY <1>2, <1>3, <2>1
  <2>3. CASE list.page = 1
    BY <1>2, <2>3, <1>1, <2>2 DEF UploadInv, Listed, Upload!NoList, Upload!Pages, Upload!PageItems
  <2>4. CASE list.page > 1
    <3>1. /\ list.pages = list.total /\ Len(versions) = list.total
          /\ list.seen = {i \in 1..list.total : i >= list.total + 2 - list.page}
      BY <1>2, <2>4 DEF UploadInv, Listed
    <3>2. /\ list'.page = list.page + 1 /\ list'.pages = list.total /\ list'.total = list.total
          /\ list'.seen = list.seen \cup Upload!PageItems
      BY <1>2, <1>4, <2>4, <3>1 DEF Upload!Pages
    <3>3. list.seen \cup Upload!PageItems = {i \in 1..list.total : i >= list.total + 2 - (list.page + 1)}
      BY <1>1, <1>4, <2>4, <3>1 DEF Upload!PageItems
    <3> QED BY <1>1, <1>4, <2>2, <2>4, <3>1, <3>2, <3>3 DEF Listed
  <2> QED BY <1>4, <2>3, <2>4
<1>8. Typed'
  BY <1>1, <1>7, <1>2, <1>3, <1>6 DEF Listed, UploadInv, Typed
<1>9. /\ KnownExists' /\ Evidence' /\ Underway' /\ OneOfEach' /\ UploadAccounted' /\ Places'
      /\ Buckets'
  BY <1>1 DEF UploadInv, KnownExists, Known, Evidence, Underway, OneOfEach, Alone, UploadAccounted,
    Upload!OutcomeIsHonest, Places, Before, Started, Versioned, Buckets
<1> QED BY <1>7, <1>8, <1>9 DEF UploadInv

\* A listing that was read to its end has seen every version of this release.
LEMMA ListingIsWhole ==
  ASSUME UploadInv, pc = "versions", list.page > list.pages
  PROVE  "version" \in overtaken \/ Tagged(versions) \subseteq list.matches
<1>1. /\ list.page \in Nat \ {0} /\ list.pages \in Nat /\ list.total \in Nat
  BY DEF UploadInv, Typed, Listing
<1>2. list.page > 1
  BY <1>1 DEF UploadInv, Listed, Upload!NoList
<1>3. "version" \in overtaken \/ Tagged(versions) \subseteq list.seen
  <2>1. Tagged(versions) \subseteq 1..Len(versions) /\ Len(versions) \in Nat
    BY TagAppended DEF UploadInv, Typed
  <2> QED BY <1>1, <1>2, <2>1 DEF UploadInv, Listed
<1> QED BY <1>3 DEF UploadInv, Listed

LEMMA VersionsHolds == ASSUME UploadInv, Upload!InspectWorkerVersionRecovery PROVE UploadInv'
<1>1. /\ pc = "versions"
      /\ UNCHANGED <<Upload!provider, wire, late, made, overtaken, Upload!assets>>
      /\ pc \in Upload!Steps /\ overtaken \subseteq Upload!Mutations
      /\ subs = {"worker"} /\ wire = {} /\ Known = subs
  BY DEF Upload!InspectWorkerVersionRecovery, Upload!quiet, UploadInv, Places, Underway, Known, Typed
<1>2. CASE Upload!ReadPage
  BY <1>1, <1>2, ReadPageHolds DEF Upload!quiet, Upload!InspectWorkerVersionRecovery
<1>3. CASE \E how \in Upload!Outcomes : Upload!Rethrow("versions", how, {}) /\ UNCHANGED list
  BY <1>1, <1>3, FailsHolds
<1>4. ASSUME pc' \in {"session", "verifyVersion"}, subs' \in Chains,
             UNCHANGED <<error, list, faults>>, KnownExists', Places', subs \subseteq subs'
      PROVE  UploadInv'
  BY <1>4, <1>1 DEF Known, UploadInv, Typed, Evidence, Underway, Upload!provider, OneOfEach, Alone,
    UploadAccounted, Upload!OutcomeIsHonest, Listed, Buckets, Upload!assets
<1>5. CASE /\ list.page > list.pages /\ list.matches = {} /\ pc' = "session"
           /\ UNCHANGED <<subs, error, list, faults>>
  BY <1>1, <1>5, ListingIsWhole, <1>4 DEF UploadInv, KnownExists, Known, Places, Before, Started,
    Versioned, Upload!provider, Chains
<1>6. CASE /\ list.page > list.pages /\ Upload!Cardinality(list.matches) = 1
           /\ subs' = subs \cup {"version"} /\ pc' = "verifyVersion"
           /\ UNCHANGED <<error, list, faults>>
  <2>1. Tagged(versions) # {}
    <3>1. list.matches # {}
      BY <1>6, FS_EmptySet, UploadCounts
    <3>2. list.matches \subseteq Tagged(versions)
      BY <1>1 DEF UploadInv, Listed
    <3> QED BY <3>1, <3>2
  <2>2. subs' = {"worker", "version"} /\ subs' \in Chains /\ Known' = subs'
    BY <1>1, <1>6 DEF Chains, Known
  <2>3. Tagged(deployments) = {} /\ late["deployment"] = 0
    BY <1>1 DEF UploadInv, Evidence, Typed
  <2>4. KnownExists'
    BY <1>1, <2>1, <2>2 DEF UploadInv, KnownExists, Upload!provider
  <2>5. Places'
    BY <1>1, <1>6, <2>2, <2>3 DEF Places, Before, Started, Versioned, Upload!provider
  <2> QED BY <1>1, <1>4, <1>6, <2>2, <2>4, <2>5
<1> QED BY <1>2, <1>3, <1>5, <1>6 DEF Upload!InspectWorkerVersionRecovery

LEMMA DeploymentsHolds == ASSUME UploadInv, Upload!InspectWorkerDeploymentRecovery PROVE UploadInv'
<1> DEFINE matches == {i \in DOMAIN deployments : deployments[i]}
<1>1. /\ pc = "deployments"
      /\ UNCHANGED <<Upload!provider, wire, late, made, overtaken, Upload!assets, list>>
      /\ pc \in Upload!Steps /\ overtaken \subseteq Upload!Mutations /\ Upload!Mutations \in Chains
      /\ subs = {"worker", "version"} /\ matches = Tagged(deployments) /\ subs \in Chains
  BY DEF Upload!InspectWorkerDeploymentRecovery, Upload!quiet, UploadInv, Places, Versioned, Tagged,
    Typed, Chains
<1>2. CASE matches = {} /\ pc' = "deployment" /\ UNCHANGED <<subs, error, faults>>
  BY <1>1, <1>2, AsksHolds DEF UploadInv, KnownExists, Known, Places, Before, Started, Versioned,
    Buckets, Upload!assets, Upload!provider
<1>3. CASE /\ Upload!Cardinality(matches) = 1 /\ subs' = subs \cup {"deployment"}
           /\ pc' = "verifyDeployment"
           /\ UNCHANGED <<error, faults>>
  BY <1>1, <1>3, FS_EmptySet, UploadCounts, AsksHolds DEF UploadInv, KnownExists, Known, Places,
    Before, Started, Versioned, Buckets, Upload!assets, Upload!provider
<1>4. CASE \E how \in Upload!Outcomes : Upload!Rethrow("deployments", how, {})
  BY <1>1, <1>4, FailsHolds
<1> QED BY <1>2, <1>3, <1>4 DEF Upload!InspectWorkerDeploymentRecovery

LEMMA OutsideHolds == ASSUME UploadInv, Upload!Outside PROVE UploadInv'
<1>1. /\ worker' \in Upload!WorkerStates /\ (worker = "ours" => worker' = "ours")
      /\ versions' \in Seq(BOOLEAN) /\ deployments' \in Seq(BOOLEAN)
      /\ Tagged(versions') = Tagged(versions) /\ Tagged(deployments') = Tagged(deployments)
      /\ Len(versions) \in Nat /\ Len(versions') \in Nat /\ Len(versions') >= Len(versions)
      /\ UNCHANGED <<stored, buckets, bucket, wire, late, pc, subs, error, list, made, overtaken, faults>>
      /\ UNCHANGED Known
  <2>1. /\ worker \in Upload!WorkerStates /\ versions \in Seq(BOOLEAN)
        /\ deployments \in Seq(BOOLEAN)
        /\ Len(versions) \in Nat
    BY DEF UploadInv, Typed
  <2>2. /\ UNCHANGED <<stored, buckets, bucket, wire, late, pc, subs, error, list, made, overtaken, faults>>
        /\ UNCHANGED Known
    BY DEF Upload!Outside, Upload!assets, Known
  <2>3. CASE worker = "none" /\ worker' = "other" /\ UNCHANGED <<versions, deployments>>
    BY <2>1, <2>2, <2>3
  <2>4. CASE /\ worker # "none" /\ versions' = Append(versions, FALSE)
             /\ UNCHANGED <<worker, deployments>>
    <3>1. /\ Tagged(versions') = Tagged(versions) /\ versions' \in Seq(BOOLEAN)
          /\ Len(versions') = Len(versions) + 1
      BY <2>1, <2>4, TagAppended
    <3>2. Len(versions') \in Nat /\ Len(versions') >= Len(versions)
      BY <2>1, <3>1
    <3> QED BY <2>1, <2>2, <2>4, <3>1, <3>2
  <2>5. CASE /\ versions # <<>> /\ deployments' = Append(deployments, FALSE)
             /\ UNCHANGED <<worker, versions>>
    <3>1. Tagged(deployments') = Tagged(deployments) /\ deployments' \in Seq(BOOLEAN)
      BY <2>1, <2>5, TagAppended
    <3>2. Len(versions') \in Nat /\ Len(versions') >= Len(versions)
      BY <2>1, <2>5
    <3> QED BY <2>1, <2>2, <2>5, <3>1, <3>2
  <2> QED BY <2>3, <2>4, <2>5 DEF Upload!Outside
<1>2. /\ Typed' /\ KnownExists' /\ Evidence' /\ Underway' /\ OneOfEach' /\ UploadAccounted'
      /\ Places' /\ Buckets'
  BY <1>1 DEF UploadInv, Typed, KnownExists, Evidence, Underway, OneOfEach, Alone, UploadAccounted,
    Upload!OutcomeIsHonest, Places, Before, Started, Versioned, Buckets
<1>3. Listed'
  BY <1>1 DEF UploadInv, Typed, Listing, Listed
<1> QED BY <1>2, <1>3 DEF UploadInv

LEMMA UploadStepHolds == UploadInv /\ [Upload!Next]_(Upload!vars) => UploadInv'
<1> SUFFICES ASSUME UploadInv, [Upload!Next]_(Upload!vars) PROVE UploadInv'
  OBVIOUS
<1>1. CASE UNCHANGED Upload!vars
  BY <1>1 DEF Upload!vars, UploadInv, Typed, KnownExists, Known, Evidence, Underway, OneOfEach, Alone,
    UploadAccounted, Upload!OutcomeIsHonest, Places, Before, Started, Versioned, Listed, Buckets
<1>2. CASE \/ Upload!SubmitWorkerMutation \/ Upload!SubmitWorkerVersion
           \/ Upload!SubmitWorkerDeployment
  BY <1>2, SubmitHolds DEF Upload!SubmitWorkerMutation, Upload!SubmitWorkerVersion,
    Upload!SubmitWorkerDeployment
<1>3. CASE \/ Upload!VerifyWorkerSubmission \/ Upload!VerifyWorkerVersion
           \/ Upload!VerifyWorkerDeployment
  BY <1>3, VerifyHolds DEF Upload!VerifyWorkerSubmission, Upload!VerifyWorkerVersion,
    Upload!VerifyWorkerDeployment
<1> QED
  BY <1>1, <1>2, <1>3, LookupHolds, AssetsHold, RecoverHolds, FindHolds, VersionsHolds,
    DeploymentsHolds, LandHolds, LandLateHolds, OutsideHolds DEF Upload!Next, Upload!Call

\* However often a deployment fails and is recovered, and whatever others upload meanwhile, an error
\* names all that was done, a version is created with whole assets, and the release becomes one
\* version and one deployment, unless a request overtook its own recovery.
THEOREM UploadSafety == Upload!Spec => []Upload!Safe
<1> QED BY UploadInitHolds, UploadStepHolds, UploadInvIsSafe, PTL DEF Upload!Spec

-------------------------------------------------------------------------------
(* The same in the run: the behaviours of a part are those of its component. *)

\* Ownership, in the run: what was accepted is what is configured, and what was adopted was
\* deployed.
THEOREM OwnerSafetyInRun == AnySpec => []OwnerIsSafe
<1> DEFINE Inv == part = "owner" => OwnerInv
<1>1. AnyInit => Inv
  BY OwnerInitHolds DEF AnyInit,
    SessionInit, RotationInit, OwnerInit, RelayInit, ClocksInit, RivalsInit, GrantInit, UploadInit
<1>2. Inv /\ [AnyNext]_allVars => Inv'
  <2> SUFFICES ASSUME Inv, [AnyNext]_allVars, part' = "owner"
               PROVE  OwnerInv'
    OBVIOUS
  <2>1. CASE OwnerNext
    BY <2>1, OwnerStepHolds DEF OwnerNext
  <2>2. CASE UNCHANGED allVars
    BY <2>2, OwnerStepHolds DEF allVars, Owner!vars
  <2>3. /\ ~SessionNext
      /\ ~RotationNext
      /\ ~RelayNext
      /\ ~ClocksNext
      /\ ~RivalsNext
      /\ ~GrantNext
      /\ ~UploadNext
    BY DEF SessionNext, RotationNext, RelayNext, ClocksNext, RivalsNext, GrantNext, UploadNext
  <2> QED BY <2>1, <2>2, <2>3 DEF AnyNext
<1>3. Inv => OwnerIsSafe
  BY OwnerInvIsSafe DEF OwnerIsSafe
<1> QED BY <1>1, <1>2, <1>3, PTL DEF AnySpec

\* GrantExchange, in the run: authorized work, and tokens that are all tried and reported.
THEOREM GrantSafetyInRun == AnySpec => []GrantIsSafe
<1> DEFINE Inv == part = "grant" => GrantInv
<1>1. AnyInit => Inv
  BY GrantInitHolds DEF AnyInit,
    SessionInit, RotationInit, OwnerInit, RelayInit, ClocksInit, RivalsInit, GrantInit, UploadInit
<1>2. Inv /\ [AnyNext]_allVars => Inv'
  <2> SUFFICES ASSUME Inv, [AnyNext]_allVars, part' = "grant"
               PROVE  GrantInv'
    OBVIOUS
  <2>1. CASE GrantNext
    BY <2>1, GrantStepHolds DEF GrantNext
  <2>2. CASE UNCHANGED allVars
    BY <2>2, GrantStepHolds DEF allVars, Grant!vars
  <2>3. /\ ~SessionNext
      /\ ~RotationNext
      /\ ~OwnerNext
      /\ ~RelayNext
      /\ ~ClocksNext
      /\ ~RivalsNext
      /\ ~UploadNext
    BY DEF SessionNext, RotationNext, OwnerNext, RelayNext, ClocksNext, RivalsNext, UploadNext
  <2> QED BY <2>1, <2>2, <2>3 DEF AnyNext
<1>3. Inv => GrantIsSafe
  BY GrantInvIsSafe DEF GrantIsSafe
<1> QED BY <1>1, <1>2, <1>3, PTL DEF AnySpec

\* WorkerUpload, in the run: honest errors, one of each, whole assets.
THEOREM UploadSafetyInRun == AnySpec => []UploadIsSafe
<1> DEFINE Inv == part = "upload" => UploadInv
<1>1. AnyInit => Inv
  BY UploadInitHolds DEF AnyInit,
    SessionInit, RotationInit, OwnerInit, RelayInit, ClocksInit, RivalsInit, GrantInit, UploadInit
<1>2. Inv /\ [AnyNext]_allVars => Inv'
  <2> SUFFICES ASSUME Inv, [AnyNext]_allVars, part' = "upload"
               PROVE  UploadInv'
    OBVIOUS
  <2>1. CASE UploadNext
    BY <2>1, UploadStepHolds DEF UploadNext
  <2>2. CASE UNCHANGED allVars
    BY <2>2, UploadStepHolds DEF allVars, Upload!vars
  <2>3. /\ ~SessionNext
      /\ ~RotationNext
      /\ ~OwnerNext
      /\ ~RelayNext
      /\ ~ClocksNext
      /\ ~RivalsNext
      /\ ~GrantNext
    BY DEF SessionNext, RotationNext, OwnerNext, RelayNext, ClocksNext, RivalsNext, GrantNext
  <2> QED BY <2>1, <2>2, <2>3 DEF AnyNext
<1>3. Inv => UploadIsSafe
  BY UploadInvIsSafe DEF UploadIsSafe
<1> QED BY <1>1, <1>2, <1>3, PTL DEF AnySpec

\* Stage1Session, in the run: whatever the numbers of sessions, approvals, plans and faults.
THEOREM SessionSafetyInRun == AnySpec => []SessionIsSafe
<1> DEFINE Inv == part \in {"session", "rotation"} => RememberInv /\ KeptInv
<1>1. AnyInit => Inv
  BY RememberInitHolds, KeptInitHolds DEF AnyInit,
    SessionInit, RotationInit, OwnerInit, RelayInit, ClocksInit, RivalsInit, GrantInit, UploadInit
<1>2. Inv /\ [AnyNext]_allVars => Inv'
  <2> SUFFICES ASSUME Inv, [AnyNext]_allVars, part' \in {"session", "rotation"}
               PROVE  RememberInv' /\ KeptInv'
    OBVIOUS
  <2>1. part \in {"session", "rotation"} /\ [Session!Next]_(Session!vars)
    BY DEF SessionNext, RotationNext, allVars, Session!vars, OwnerNext, RelayNext, ClocksNext,
      RivalsNext, GrantNext, UploadNext, AnyNext
  <2> QED BY <2>1, RememberHolds, KeptHolds
<1>3. Inv => SessionIsSafe
  BY KeptIsSafe DEF SessionIsSafe
<1> QED BY <1>1, <1>2, <1>3, PTL DEF AnySpec

\* Stage1Session and GrantExchange, in the run: a Worker that is not the installer's is left alone,
\* and the zone is found.
THEOREM StepsSpareOthersInRun == AnySpec => StepsSpareOthers
<1> DEFINE Inv == /\ part \in {"session", "rotation"} => RememberInv
                  /\ part = "grant" => GrantInv /\ Unstopped
           Spared == /\ part \in {"session", "rotation"} => Session!KeepsNotOurs
                     /\ part = "grant" => Grant!FindsZone
<1>1. AnyInit => Inv
  BY RememberInitHolds, GrantInitHolds DEF AnyInit, Unstopped, Grant!Init,
    SessionInit, RotationInit, OwnerInit, RelayInit, ClocksInit, RivalsInit, GrantInit, UploadInit
<1>2. ASSUME Inv, [AnyNext]_allVars PROVE Inv' /\ Spared
  BY <1>2, RememberHolds, StepIsSpared, GrantStepHolds, UnstoppedStays, ZoneIsFound DEF AnyNext, allVars,
    RememberInv,
    SessionNext, RotationNext, OwnerNext, RelayNext, ClocksNext, RivalsNext, GrantNext, UploadNext,
    Session!vars, Grant!vars
<1>3. Inv /\ [AnyNext]_allVars => Inv'
  BY <1>2
<1>4. Inv /\ [AnyNext]_allVars => [Spared]_allVars
  BY <1>2
<1> QED BY <1>1, <1>3, <1>4, PTL DEF AnySpec, StepsSpareOthers

================================================================================
