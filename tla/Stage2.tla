------------------------------- MODULE Stage2 -------------------------------
(***************************************************************************)
(* Stage 2 of the hosted install: the converger that the customer's Worker *)
(* runs to create the management surface of the gateway, and the journal   *)
(* it keeps in its Durable Object                                          *)
(* (apps/installer/src/customer-stage2-converger.ts,                       *)
(* customer-stage2-journal.ts, customer-stage2-durable-state.ts).          *)
(*                                                                         *)
(* An attempt is one OAuth authorization.  It runs the converger in        *)
(* passes; a pass works on its own copy of the journal, ctx[r], and every  *)
(* change of the stored journal is a compare-and-set on its revision.      *)
(* Several attempts may overlap: one that is slow, or whose requests are   *)
(* still on the wire after it died, and the next one the customer starts.  *)
(*                                                                         *)
(* The provider is the customer's Cloudflare account.  A request is sent,  *)
(* may be applied at any later time or never, and the answer to it may be  *)
(* lost.  Reads see the provider as it is.                                 *)
(***************************************************************************)
EXTENDS Integers

CONSTANTS
  Attempts,       \* authorizations the customer may start
  NoAttempt,      \* the lease is free
  ServicePolicy,  \* the plan opted in to the Service Auth policy
  LeaseTTL,       \* LEASE_TTL_MS
  PreflightTTL,   \* lifetime of the fresh-state attestation
  MaxClock        \* bound: the clock stops here

ASSUME AttemptsAssumption == NoAttempt \notin Attempts
ASSUME ServicePolicyAssumption == ServicePolicy \in BOOLEAN
ASSUME TimeAssumption ==
  /\ LeaseTTL \in Nat \ {0}
  /\ PreflightTTL \in Nat \ {0}
  /\ MaxClock \in Nat

VARIABLES
  journal,  \* the stored journal; rev = 0 before it exists
  ctx,      \* the copy of the journal each attempt works on
  pc,       \* where the attempt's pass is
  at,       \* the action the pass converges
  host,     \* the runtime the pass runs on: the bootstrap shell or the final one
  wire,     \* the attempt's provider write: none, sent or applied
  res,      \* what exists at the provider, per action
  sent,     \* how often each action's write was sent (history)
  now       \* the clock

vars == <<journal, ctx, pc, at, host, wire, res, sent, now>>

-----------------------------------------------------------------------------
(* The fixed order of actions.                                              *)

DnsRecord     == "management_dns_record"
Application   == "management_access_application"
AdminPolicy   == "management_admin_policy"
SvcPolicy     == "management_service_policy"
Gateway       == "gateway_resources"
DnsRelease    == "management_dns_record_release"
CustomDomain  == "management_custom_domain"
WorkersDev    == "workers_dev_disable"
Terminal      == "terminal_verify"
FinalRuntime  == "final_runtime"

\* Mutant of Rank: the hostname is published before Access guards it.
RankPublishFirst ==
        [management_dns_record |-> 1, management_access_application |-> 5,
         management_admin_policy |-> 6, management_service_policy |-> 7,
         gateway_resources |-> 2, management_dns_record_release |-> 3,
         management_custom_domain |-> 4, workers_dev_disable |-> 8,
         terminal_verify |-> 9, final_runtime |-> 10]

\* CUSTOMER_STAGE2_ACTION_ORDER
Rank == [management_dns_record |-> 1, management_access_application |-> 2,
         management_admin_policy |-> 3, management_service_policy |-> 4,
         gateway_resources |-> 5, management_dns_record_release |-> 6,
         management_custom_domain |-> 7, workers_dev_disable |-> 8,
         terminal_verify |-> 9, final_runtime |-> 10]

\* customerStage2ActionSequence: the service policy slot is optional.
Names == {DnsRecord, Application, AdminPolicy, Gateway, DnsRelease,
          CustomDomain, WorkersDev, Terminal, FinalRuntime}
         \cup (IF ServicePolicy THEN {SvcPolicy} ELSE {})

Earlier(a) == {b \in Names : Rank[b] < Rank[a]}
Later(a)   == {b \in Names : Rank[b] > Rank[a]}
\* The action the converger turns to after a.
Successor(a) ==
  CHOOSE b \in Later(a) : \A c \in Later(a) : Rank[b] <= Rank[c]

\* Creations: their write is sent by the pass that armed it, and by no other.
Creates == {DnsRecord, Application, AdminPolicy, CustomDomain}
           \cup (IF ServicePolicy THEN {SvcPolicy} ELSE {})

Phases  == {"absent", "prepared", "send_armed", "submitted", "verified"}
Armed   == {"send_armed", "submitted", "verified"}
Located == {"submitted", "verified"}

\* CUSTOMER_STAGE2_CHUNK_CHECKPOINTS
Checkpoint(a, phase) ==
  <<a, phase>> \in {<<AdminPolicy, "verified">>, <<Gateway, "submitted">>,
                    <<CustomDomain, "verified">>}

-----------------------------------------------------------------------------
(* The journal's transitions, each a function of the journal it is given.   *)

Leases   == [holder : Attempts \cup {NoAttempt}, expiresAt : Nat]
Journals == [rev : Nat, lease : Leases, preflight : Nat,
             phase : [Names -> Phases], completed : BOOLEAN]

NoLease   == [holder |-> NoAttempt, expiresAt |-> 0]
LeaseTo(r) == [holder |-> r, expiresAt |-> now + LeaseTTL]

NoJournal == [rev |-> 0, lease |-> NoLease, preflight |-> 0,
              phase |-> [a \in Names |-> "absent"], completed |-> FALSE]

\* createCustomerStage2Journal
CreateJournal(r) == [rev |-> 1, lease |-> LeaseTo(r), preflight |-> now + PreflightTTL,
                     phase |-> NoJournal.phase, completed |-> FALSE]

\* next: every transition raises the revision by one.
NextRevision(j) == [j EXCEPT !.rev = @ + 1]

\* Mutant of TakeLease: taking the lease does not count as a revision.
TakeLeaseSilently(j, r) == [j EXCEPT !.lease = LeaseTo(r)]

\* acquireCustomerStage2Lease and renewCustomerStage2Lease
TakeLease(j, r) == [NextRevision(j) EXCEPT !.lease = LeaseTo(r)]

\* releaseCustomerStage2Lease
ReleaseLease(j) == [NextRevision(j) EXCEPT !.lease = NoLease]

\* prepare-, arm-, submit- and verifyCustomerStage2Action
SetPhase(j, a, p) == [NextRevision(j) EXCEPT !.phase[a] = p]

\* completeCustomerStage2Journal
CompleteJournal(j) == [ReleaseLease(j) EXCEPT !.completed = TRUE]

\* assertLease
HoldsLease(j, r) == ~j.completed /\ j.lease.holder = r /\ j.lease.expiresAt > now

\* Mutant of Leased: the lease is checked for its holder only.
LeasedForever(j, r) == ~j.completed /\ j.lease.holder = r

\* ensureLease returns without writing: at least half of the lease is left.
Leased(j, r) == HoldsLease(j, r) /\ 2 * (j.lease.expiresAt - now) >= LeaseTTL

-----------------------------------------------------------------------------
(* The provider, as the converger's reads see it.                           *)

\* Mutant of Standing: the workers.dev state is not read back.
StandingUnread(a) ==
  IF a = DnsRelease THEN res[DnsRecord] = 0
  ELSE IF a \in {Terminal, WorkersDev} THEN TRUE
  ELSE res[a] = 1

\* verifyManagement...Get/List, verifyWorkerBootstrapSubdomain, verifyReady,
\* inspectCustomerWorkerFinalRuntime: the action's result is exactly there.
Standing(a) ==
  IF a = DnsRelease THEN res[DnsRecord] = 0
  ELSE IF a = Terminal THEN TRUE
  ELSE res[a] = 1

\* terminalProof without the runtime; the placeholder is proven released.
TerminalProof == \A b \in Earlier(Terminal) \ {DnsRecord} : Standing(b)

\* What a pass proves of the action it is at.  The placeholder is not
\* proven any more once its release is journaled.
Proven(j, a) ==
  IF a = DnsRecord /\ j.phase[DnsRelease] # "absent" THEN TRUE
  ELSE IF a = Terminal THEN TerminalProof
  ELSE Standing(a)

\* The checks each write makes at the provider right before it is sent:
\* assertNoExactDnsCollision, assertNoManagementCustomDomain,
\* readDnsRecordById.
SendAllowed(a) ==
  /\ a = DnsRecord => res[DnsRecord] = 0 /\ res[CustomDomain] = 0
  /\ a = CustomDomain => res[DnsRecord] = 0 /\ res[CustomDomain] = 0
  /\ a = DnsRelease => res[DnsRecord] = 1

\* Effect of a write when the provider applies it.  A POST creates one more
\* object; the other writes are idempotent.
Applied(a) ==
  IF a \in Creates THEN [res EXCEPT ![a] = @ + 1]
  ELSE IF a = DnsRelease THEN [res EXCEPT ![DnsRecord] = 0]
  ELSE [res EXCEPT ![a] = 1]

-----------------------------------------------------------------------------
Init ==
  /\ journal = NoJournal
  /\ ctx = [r \in Attempts |-> NoJournal]
  /\ pc = [r \in Attempts |-> "idle"]
  /\ at = [r \in Attempts |-> DnsRecord]
  /\ host = [r \in Attempts |-> "shell"]
  /\ wire = [r \in Attempts |-> "none"]
  /\ res = [a \in Names |-> 0]
  /\ sent = [a \in Names |-> 0]
  /\ now = 0

Goto(r, label) == pc' = [pc EXCEPT ![r] = label]

\* Mutant of Current: the journal is written without comparing revisions.
CurrentUnchecked(r) == journal.rev >= ctx[r].rev

\* compareAndSet succeeds: nobody wrote since this attempt's copy was taken.
Current(r) == journal.rev = ctx[r].rev

\* persistTransition: the stored journal and the attempt's copy become next.
Persist(r, next) ==
  /\ Current(r)
  /\ journal' = next
  /\ ctx' = [ctx EXCEPT ![r] = next]

\* A pass starts by reading the journal.  A paused attempt continues with a
\* new pass; a failed one is settled by the driver and never runs again.
Open(r) ==
  /\ pc[r] \in {"idle", "paused"}
  /\ ctx' = [ctx EXCEPT ![r] = journal]
  /\ at' = [at EXCEPT ![r] = DnsRecord]
  /\ host' = [host EXCEPT ![r] = IF res[FinalRuntime] = 1 THEN "final" ELSE "shell"]
  /\ Goto(r, "opened")
  /\ UNCHANGED <<journal, wire, res, sent, now>>

\* No journal was read: the fresh-state preflights run, then the journal is
\* inserted.  Only the shell has the runtime source this needs.
Create(r) ==
  /\ pc[r] = "opened" /\ ctx[r].rev = 0 /\ host[r] = "shell"
  /\ \A a \in Creates : res[a] = 0
  /\ Persist(r, CreateJournal(r))
  /\ Goto(r, "step")
  /\ UNCHANGED <<at, host, wire, res, sent, now>>

\* A free or expired lease is taken over.
Acquire(r) ==
  /\ pc[r] = "opened" /\ ctx[r].rev > 0 /\ ~ctx[r].completed
  /\ ctx[r].lease.holder = NoAttempt \/ ctx[r].lease.expiresAt <= now
  /\ Persist(r, TakeLease(ctx[r], r))
  /\ Goto(r, "step")
  /\ UNCHANGED <<at, host, wire, res, sent, now>>

\* The attempt still holds the lease from its previous pass.
Continue(r) ==
  /\ pc[r] = "opened" /\ HoldsLease(ctx[r], r)
  /\ Goto(r, "step")
  /\ UNCHANGED <<journal, ctx, at, host, wire, res, sent, now>>

\* A completed journal is only proven again, the active runtime included.
ProveCompleted(r) ==
  /\ pc[r] = "opened" /\ ctx[r].completed
  /\ TerminalProof /\ Standing(FinalRuntime)
  /\ Goto(r, "converged")
  /\ UNCHANGED <<journal, ctx, at, host, wire, res, sent, now>>

\* ensureLease renews a lease with less than half of its time left.
Renew(r) ==
  /\ pc[r] \in {"step", "submit", "verify"}
  /\ HoldsLease(ctx[r], r) /\ ~Leased(ctx[r], r)
  /\ Persist(r, TakeLease(ctx[r], r))
  /\ UNCHANGED <<pc, at, host, wire, res, sent, now>>

\* prepareAction: the action becomes the next of the sequence.
Prepare(r) ==
  /\ pc[r] = "step" /\ Leased(ctx[r], r)
  /\ ctx[r].phase[at[r]] = "absent"
  /\ at[r] = Terminal => TerminalProof
  /\ \A b \in Earlier(at[r]) : ctx[r].phase[b] # "absent"
  /\ \A b \in Later(at[r]) : ctx[r].phase[b] = "absent"
  /\ Persist(r, SetPhase(ctx[r], at[r], "prepared"))
  /\ UNCHANGED <<pc, at, host, wire, res, sent, now>>

\* armAction: from here on the write may have been sent.  The first one is
\* armed only while the fresh-state attestation is current.  The pass that
\* armed a creation or the release goes on to send it.
Arm(r) ==
  /\ pc[r] = "step" /\ Leased(ctx[r], r)
  /\ ctx[r].phase[at[r]] = "prepared"
  /\ \A b \in Earlier(at[r]) : ctx[r].phase[b] = "verified"
  /\ at[r] = DnsRecord => now < ctx[r].preflight
  /\ Persist(r, SetPhase(ctx[r], at[r], "send_armed"))
  /\ Goto(r, IF at[r] \in Creates \cup {DnsRelease} THEN "send" ELSE "step")
  /\ UNCHANGED <<at, host, wire, res, sent, now>>

\* Mutant of Recover: a creation that is not found is sent again.
RecoverResends(r) ==
  /\ pc[r] = "step" /\ Leased(ctx[r], r)
  /\ at[r] \in Creates /\ ctx[r].phase[at[r]] = "send_armed"
  /\ Goto(r, IF res[at[r]] = 1 THEN "submit" ELSE "send")
  /\ UNCHANGED <<journal, ctx, at, host, wire, res, sent, now>>

\* A pass finds a creation armed by an earlier pass: it only looks for the
\* one exact object and never sends again (recoverManagement...).
Recover(r) ==
  /\ pc[r] = "step" /\ Leased(ctx[r], r)
  /\ at[r] \in Creates /\ ctx[r].phase[at[r]] = "send_armed"
  /\ res[at[r]] = 1
  /\ Goto(r, "submit")
  /\ UNCHANGED <<journal, ctx, at, host, wire, res, sent, now>>

\* The other armed actions inspect the provider first: what is already as it
\* should be is recorded without a write, the rest is (re)sent.
Resume(r) ==
  /\ pc[r] = "step" /\ Leased(ctx[r], r)
  /\ at[r] \notin Creates /\ ctx[r].phase[at[r]] = "send_armed"
  /\ \/ /\ at[r] \in {DnsRelease, WorkersDev, Terminal} /\ Standing(at[r])
        /\ Goto(r, "submit")
     \/ /\ at[r] = FinalRuntime /\ host[r] = "final" /\ Standing(at[r])
        /\ Goto(r, "submit")
     \/ /\ at[r] = FinalRuntime /\ host[r] = "shell" /\ Standing(at[r])
        /\ Goto(r, "handed_over")
     \/ /\ at[r] \in {DnsRelease, WorkersDev} /\ ~Standing(at[r])
        /\ Goto(r, "send")
     \/ /\ at[r] = Gateway /\ host[r] = "shell"
        /\ Goto(r, "send")
     \/ /\ at[r] = FinalRuntime /\ host[r] = "shell" /\ ~Standing(at[r])
        /\ Goto(r, "send")
  /\ UNCHANGED <<journal, ctx, at, host, wire, res, sent, now>>

\* The write leaves for the provider.
Send(r) ==
  /\ pc[r] = "send" /\ SendAllowed(at[r])
  /\ wire' = [wire EXCEPT ![r] = "sent"]
  /\ sent' = [sent EXCEPT ![at[r]] = @ + 1]
  /\ Goto(r, "await")
  /\ UNCHANGED <<journal, ctx, at, host, res, now>>

\* The provider applies a write, whether or not its sender still waits.
Land(r) ==
  /\ wire[r] = "sent"
  /\ wire' = [wire EXCEPT ![r] = IF pc[r] = "await" THEN "applied" ELSE "none"]
  /\ res' = Applied(at[r])
  /\ UNCHANGED <<journal, ctx, pc, at, host, sent, now>>

\* The answer arrives.  The shell that uploaded the final runtime is
\* replaced by it and writes nothing more.
Reply(r) ==
  /\ pc[r] = "await" /\ wire[r] = "applied"
  /\ wire' = [wire EXCEPT ![r] = "none"]
  /\ Goto(r, IF at[r] = FinalRuntime THEN "handed_over" ELSE "submit")
  /\ UNCHANGED <<journal, ctx, at, host, res, sent, now>>

\* submitAction
Submit(r) ==
  /\ pc[r] = "submit" /\ Leased(ctx[r], r)
  /\ ctx[r].phase[at[r]] = "send_armed"
  /\ Persist(r, SetPhase(ctx[r], at[r], "submitted"))
  /\ Goto(r, IF Checkpoint(at[r], "submitted") THEN "paused" ELSE "step")
  /\ UNCHANGED <<at, host, wire, res, sent, now>>

\* The result of a submitted action is read back ...
Prove(r) ==
  /\ pc[r] = "step" /\ Leased(ctx[r], r)
  /\ ctx[r].phase[at[r]] = "submitted" /\ Proven(ctx[r], at[r])
  /\ Goto(r, "verify")
  /\ UNCHANGED <<journal, ctx, at, host, wire, res, sent, now>>

\* ... and verifyAction records it.
Verify(r) ==
  /\ pc[r] = "verify" /\ Leased(ctx[r], r)
  /\ ctx[r].phase[at[r]] = "submitted"
  /\ Persist(r, SetPhase(ctx[r], at[r], "verified"))
  /\ Goto(r, IF Checkpoint(at[r], "verified") THEN "paused" ELSE "step")
  /\ UNCHANGED <<at, host, wire, res, sent, now>>

\* A verified action is proven once per pass, and the pass moves on.
Advance(r) ==
  /\ pc[r] = "step" /\ Leased(ctx[r], r) /\ at[r] # FinalRuntime
  /\ ctx[r].phase[at[r]] = "verified" /\ Proven(ctx[r], at[r])
  /\ at' = [at EXCEPT ![r] = Successor(at[r])]
  /\ UNCHANGED <<journal, ctx, pc, host, wire, res, sent, now>>

\* The last action is verified: the journal completes and frees the lease.
Complete(r) ==
  /\ pc[r] = "step" /\ HoldsLease(ctx[r], r) /\ at[r] = FinalRuntime
  /\ \A a \in Names : ctx[r].phase[a] = "verified"
  /\ Standing(FinalRuntime)
  /\ Persist(r, CompleteJournal(ctx[r]))
  /\ Goto(r, "converged")
  /\ UNCHANGED <<at, host, wire, res, sent, now>>

Active == {"step", "send", "await", "submit", "verify"}

\* What was in the pass's memory is gone; a request on the wire is not.
Discard(r) ==
  /\ ctx' = [ctx EXCEPT ![r] = NoJournal]
  /\ wire' = [wire EXCEPT ![r] = IF @ = "sent" THEN "sent" ELSE "none"]
  /\ Goto(r, "failed")
  /\ UNCHANGED <<at, host, res, sent, now>>

\* The pass throws: a provider call failed, a read did not match, or the
\* lease or the journal is no longer this attempt's.  A lease it still holds
\* is released; a conflict on that write is ignored.
Fail(r) ==
  /\ pc[r] \in Active
  /\ journal' = IF HoldsLease(ctx[r], r) /\ Current(r)
                  THEN ReleaseLease(ctx[r]) ELSE journal
  /\ Discard(r)

\* A pass that has no lease yet throws, or the object restarts and the grant
\* is lost: nothing is written and the lease is left to expire.
Crash(r) ==
  /\ pc[r] \in Active \cup {"opened", "paused"}
  /\ Discard(r)
  /\ UNCHANGED journal

Tick == now < MaxClock /\ now' = now + 1
        /\ UNCHANGED <<journal, ctx, pc, at, host, wire, res, sent>>

Step(r) ==
  \/ Open(r) \/ Create(r) \/ Acquire(r) \/ Continue(r) \/ ProveCompleted(r)
  \/ Renew(r) \/ Prepare(r) \/ Arm(r) \/ Recover(r) \/ Resume(r)
  \/ Send(r) \/ Land(r) \/ Reply(r) \/ Submit(r) \/ Prove(r) \/ Verify(r)
  \/ Advance(r) \/ Complete(r) \/ Fail(r) \/ Crash(r)

Next == Tick \/ \E r \in Attempts : Step(r)

Spec == Init /\ [][Next]_vars

-----------------------------------------------------------------------------
(* Properties.                                                              *)

\* Types of all variables.
TypeOK ==
  /\ journal \in Journals
  /\ ctx \in [Attempts -> Journals]
  /\ pc \in [Attempts -> Active \cup
             {"idle", "opened", "paused", "handed_over", "converged", "failed"}]
  /\ at \in [Attempts -> Names]
  /\ host \in [Attempts -> {"shell", "final"}]
  /\ wire \in [Attempts -> {"none", "sent", "applied"}]
  /\ res \in [Names -> Nat]
  /\ sent \in [Names -> Nat]
  /\ now \in Nat

\* No creation is ever sent twice, whatever attempts overlap, fail, lose an
\* answer or take over an expired lease: a pass that finds an action armed by
\* another only reads (`armedHere ? create : recover` in each converge step).
CreateSentOnce == \A a \in Creates : sent[a] <= 1

\* The journal precedes the provider: a write is sent only when the stored
\* journal has it armed, and everything before it is verified.
JournaledBeforeSent ==
  \A a \in Names : sent[a] > 0 =>
    /\ journal.phase[a] \in Armed
    /\ \A b \in Earlier(a) : journal.phase[b] = "verified"

\* The journal never claims more than the provider holds: a creation it has a
\* locator for exists exactly once (until the placeholder is released), and a
\* submitted release, disable or upload took effect.
JournalIsTrue ==
  \A a \in Names \ {Terminal} : journal.phase[a] \in Located =>
    IF a = DnsRecord THEN res[a] = 1 \/ journal.phase[DnsRelease] \in Armed
    ELSE IF a = DnsRelease THEN res[DnsRecord] = 0
    ELSE res[a] = 1

\* The placeholder record and the custom domain never hold the management
\* hostname at once (Cloudflare refuses the domain over a foreign record).
OneHostnameOwner == ~(res[DnsRecord] > 0 /\ res[CustomDomain] > 0)

\* The management hostname is served by the Worker only while the Access
\* application and its policies stand in front of it.
NeverPublicWithoutAccess ==
  res[CustomDomain] > 0 =>
    \A a \in {Application, AdminPolicy} \cup (Creates \cap {SvcPolicy}) : res[a] = 1

\* The workers.dev entry is switched off only after the custom domain serves
\* the Worker, so the customer is never locked out of the installation.
NeverUnreachable == res[WorkersDev] = 1 => res[CustomDomain] = 1

\* A completed journal is the converged installation, without its
\* placeholder, and its lease is free.
CompletedIsConverged ==
  journal.completed =>
    /\ \A a \in Names \ {DnsRecord, DnsRelease, Terminal} : res[a] = 1
    /\ res[DnsRecord] = 0 /\ journal.lease.holder = NoAttempt

\* Only the holder of the unexpired lease advances an action, one action by
\* one phase at a time, and a completed journal never changes again.
LeaseGuardsJournal ==
  [][/\ journal.completed => journal' = journal
     /\ journal'.phase # journal.phase =>
          /\ journal.lease.holder \in Attempts /\ journal.lease.expiresAt > now
          /\ ctx'[journal.lease.holder] = journal'
          /\ \E a \in Names, step \in {<<"absent", "prepared">>,
                 <<"prepared", "send_armed">>, <<"send_armed", "submitted">>,
                 <<"submitted", "verified">>} :
               /\ journal.phase[a] = step[1]
               /\ journal'.phase = [journal.phase EXCEPT ![a] = step[2]]]_vars

\* What a comment on the provider operations says: apart from the release of
\* the placeholder, no write of the management surface is ever sent again
\* (cloudflare-management-surface.ts, recoverManagementDnsRecordRelease).
NothingElseResent == \A a \in Creates \cup {WorkersDev} : sent[a] <= 1

\* What compareAndSet relies on: a revision names one journal.  No attempt's
\* copy is ahead of the stored journal, and a copy of the stored revision is
\* the stored journal, so a write that passes the comparison loses nothing.
RevisionNamesJournal ==
  \A r \in Attempts :
    /\ ctx[r].rev <= journal.rev
    /\ ctx[r].rev = journal.rev => ctx[r] = journal

\* What the journal says is so: every state is well formed, a located creation
\* exists once and a submitted change took effect, workers.dev is closed only
\* behind the custom domain, and a completed journal is the whole installation.
JournalIsReal ==
  TypeOK /\ JournalIsTrue /\ NeverUnreachable /\ CompletedIsConverged
=============================================================================
