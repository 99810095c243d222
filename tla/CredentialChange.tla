--------------------------- MODULE CredentialChange ---------------------------
(***************************************************************************)
(* Replacing the gateway's management token after the installation: the    *)
(* recorded change and its lifecycle lock (payload/worker/index.js), the   *)
(* one attempt slot and the callback that redeems the approval and writes  *)
(* the Worker secret (customer-operation-router.ts), and the check that    *)
(* proves what the installed token may do by writing two resources back as *)
(* they are.  The write replaces the Worker's version, so the callback may *)
(* never record its end; an approval and a write then lose the lock by     *)
(* time alone.                                                             *)
(***************************************************************************)
EXTENDS Integers, FiniteSets

CONSTANTS
    Admins,       \* administrators of the dashboard
    Callbacks,    \* requests to the callback that run at the same time
    MaxChanges,   \* changes prepared
    MaxAttempts,  \* approvals started
    MaxEdits,     \* edits of the Portal and of its policy by somebody else
    MaxOthers,    \* other lifecycle operations begun
    MaxChecks     \* checks of the installed token

(* The bounds are numbers.                                                  *)
ASSUME BoundsAssumption ==
    /\ MaxChanges \in Nat /\ MaxAttempts \in Nat /\ MaxEdits \in Nat
    /\ MaxOthers \in Nat /\ MaxChecks \in Nat

Permissions == {"portal", "policy"}
Status == {"none", "authorization_required", "applying", "succeeded", "failed"}
NoActor == "nobody"

VARIABLES
    change,   \* the recorded change; late: approval expired, over: write window passed
    attempt,  \* the attempt slot: which change, which attempt, phase, expired
    relays,   \* the starts: which change, and where each is with its request to the relay
    cb,       \* the callbacks under way
    spent,    \* attempts whose code was redeemed, with how often it was sent
    wire,     \* secret writes sent whose fate is open
    landed,   \* changes whose token reached the Worker
    writes,   \* secret writes sent for each change (history)
    contested, \* changes a callback shared with another callback or start under way (history)
    other,    \* another source, Team, update or removal operation is under way
    check,    \* the verification of the installed token
    perms,    \* what the installed token may write
    live,     \* the Portal and the policy: 0 as recorded, n after the n-th edit
    started, edits, others, checks  \* counters of the bounds

counters == <<started, edits, others, checks>>
vars == <<change, attempt, relays, cb, spent, wire, landed, writes, contested, other, check, perms, live, counters>>

Changes == 1 .. MaxChanges
Attempts == 1 .. MaxAttempts
NoChange == [id |-> 0, actor |-> NoActor, status |-> "none", late |-> FALSE, over |-> FALSE]
NoAttempt == [n |-> 0, id |-> 0, phase |-> "none", late |-> FALSE]
NoRelay == [at |-> "none", id |-> 0]
Idle == [pc |-> "idle", n |-> 0, id |-> 0, result |-> "none"]
NoCheck == [pc |-> "idle", read |-> [r \in Permissions |-> -1], word |-> [r \in Permissions |-> "none"],
            saw |-> [r \in Permissions |-> -1]]

Init ==
    /\ change = NoChange /\ attempt = NoAttempt /\ relays = [n \in Attempts |-> NoRelay]
    /\ cb = [c \in Callbacks |-> Idle]
    /\ spent = [n \in Attempts |-> 0]
    /\ wire = {} /\ landed = {} /\ writes = [i \in Changes |-> 0] /\ contested = {}
    /\ other = FALSE /\ check = NoCheck
    /\ perms \in IF MaxChecks = 0 THEN {Permissions} ELSE SUBSET Permissions
    /\ live = [r \in Permissions |-> 0]
    /\ started = 0 /\ edits = 0 /\ others = 0 /\ checks = 0

-----------------------------------------------------------------------------
(* The record and its lock *)

\* openCredentialAction: the change that still holds the lock.
Open ==
    \/ change.status = "authorization_required" /\ ~change.late
    \/ change.status = "applying" /\ ~change.over

\* The object's queue: no command runs while the check does.
Queued == check.pc = "idle"

\* An administrator may start their own unfinished approval again; nothing else may be open.
Prepare(a) ==
    /\ Queued /\ change.id < MaxChanges
    /\ Open => change.status = "authorization_required" /\ change.actor = a
    /\ ~other
    /\ change' = [id |-> change.id + 1, actor |-> a, status |-> "authorization_required",
                  late |-> FALSE, over |-> FALSE]
    /\ UNCHANGED <<attempt, relays, cb, spent, wire, landed, writes, contested, other, check, perms, live, counters>>

\* A command signed with the change's own key.
Begins(i) == change.id = i /\ change.status = "authorization_required" /\ ~change.late

Completed(i) == IF change.id = i /\ change.status = "applying"
                THEN [change EXCEPT !.status = "succeeded"] ELSE change

Failed(i) == IF change.id = i /\ change.status \in {"authorization_required", "applying"}
             THEN [change EXCEPT !.status = "failed"] ELSE change

\* The other lifecycle operations look at the lock first.
OtherBegin ==
    /\ Queued /\ ~other /\ ~Open /\ others < MaxOthers
    /\ other' = TRUE /\ others' = others + 1
    /\ UNCHANGED <<change, attempt, relays, cb, spent, wire, landed, writes, contested, check, perms, live, started, edits, checks>>

OtherEnd ==
    /\ other /\ other' = FALSE
    /\ UNCHANGED <<change, attempt, relays, cb, spent, wire, landed, writes, contested, check, perms, live, counters>>

-----------------------------------------------------------------------------
(* The attempt *)

Taken == attempt.n # 0 /\ ~attempt.late

\* A slot is taken over while authorizing: the same change, or one that failed or was replaced.
Replaces(i) ==
    /\ attempt.phase # "exchanging"
    /\ attempt.id # i => change.id # attempt.id \/ change.status = "failed"

\* What is under way for a change: a callback, or a start whose request to the relay is not over.
CallbackFor(i) == \E b \in Callbacks : cb[b].pc # "idle" /\ cb[b].id = i
Asking(n) == relays[n].at \in {"asked", "failed"}
StartFor(i) == \E n \in Attempts : Asking(n) /\ relays[n].id = i
Contested(i, shared) == IF shared THEN contested \cup {i} ELSE contested

\* The attempt is stored, then the relay is asked for the address of the consent.
Start ==
    /\ change.status = "authorization_required" /\ ~change.late
    /\ Taken => Replaces(change.id)
    /\ started < MaxAttempts /\ started' = started + 1
    /\ attempt' = [n |-> started + 1, id |-> change.id, phase |-> "authorizing", late |-> FALSE]
    /\ relays' = [relays EXCEPT ![started + 1] = [at |-> "asked", id |-> change.id]]
    /\ contested' = Contested(change.id, CallbackFor(change.id))
    /\ UNCHANGED <<change, cb, spent, wire, landed, writes, other, check, perms, live, edits, others, checks>>

\* It answers, or the slot is freed, whoever holds it by then ...
Relay(n) ==
    /\ relays[n].at = "asked"
    /\ \/ relays' = [relays EXCEPT ![n].at = "consent"] /\ UNCHANGED attempt
       \/ relays' = [relays EXCEPT ![n].at = "failed"] /\ attempt' = NoAttempt
    /\ UNCHANGED <<change, cb, spent, wire, landed, writes, contested, other, check, perms, live, counters>>

\* ... and the change is ended, also when another start of it is applied by now.
Unreached(n) ==
    /\ relays[n].at = "failed" /\ Queued
    /\ relays' = [relays EXCEPT ![n].at = "none"] /\ change' = Failed(relays[n].id)
    /\ UNCHANGED <<attempt, cb, spent, wire, landed, writes, contested, other, check, perms, live, counters>>

\* Its cookie and its state went out with the answer of the start.
Usable(c) ==
    /\ attempt.n # 0 /\ attempt.phase = "authorizing" /\ ~attempt.late /\ relays[attempt.n].at = "consent"
    /\ cb[c].pc = "idle"
SharedSlot == CallbackFor(attempt.id) \/ StartFor(attempt.id)

\* The pasted token arrives; the state and the administrator are verified before the next step.
Arrive(c) ==
    /\ Usable(c)
    /\ cb' = [cb EXCEPT ![c] = [pc |-> "checked", n |-> attempt.n, id |-> attempt.id, result |-> "none"]]
    /\ contested' = Contested(attempt.id, SharedSlot)
    /\ UNCHANGED <<change, attempt, relays, spent, wire, landed, writes, other, check, perms, live, counters>>

\* Declined, cancelled, or the paste page reloaded: the slot is freed, then the change ended.
GiveUp(c) ==
    /\ Usable(c)
    /\ attempt' = NoAttempt
    /\ cb' = [cb EXCEPT ![c] = [pc |-> "ending", n |-> attempt.n, id |-> attempt.id, result |-> "failed"]]
    /\ contested' = Contested(attempt.id, SharedSlot)
    /\ UNCHANGED <<change, relays, spent, wire, landed, writes, other, check, perms, live, counters>>

\* The slot is spent before the exchange.
Spend(c) ==
    /\ cb[c].pc = "checked"
    /\ attempt' = [n |-> cb[c].n, id |-> cb[c].id, phase |-> "exchanging", late |-> FALSE]
    /\ cb' = [cb EXCEPT ![c].pc = "exchanging"]
    /\ UNCHANGED <<change, relays, spent, wire, landed, writes, contested, other, check, perms, live, counters>>

\* A code is honoured once; the answer, the scopes or the account may also refuse it.
Exchange(c, granted) ==
    /\ cb[c].pc = "exchanging" /\ (granted => spent[cb[c].n] = 0)
    /\ spent' = [spent EXCEPT ![cb[c].n] = @ + 1]
    /\ cb' = [cb EXCEPT ![c] = [@ EXCEPT !.pc = IF granted THEN "granted" ELSE "ending",
                                         !.result = IF granted THEN "none" ELSE "failed"]]
    /\ UNCHANGED <<change, attempt, relays, wire, landed, writes, contested, other, check, perms, live, counters>>

\* Mutant of Begin: the journal begins the write and is not asked whether it may.
BeginUnasked(c) ==
    /\ cb[c].pc = "granted" /\ Queued
    /\ change' = IF Begins(cb[c].id) THEN [change EXCEPT !.status = "applying"] ELSE change
    /\ attempt' = NoAttempt
    /\ wire' = wire \cup {cb[c].id}
    /\ writes' = [writes EXCEPT ![cb[c].id] = @ + 1]
    /\ cb' = [cb EXCEPT ![c].pc = "writing"]
    /\ UNCHANGED <<relays, spent, landed, contested, other, check, perms, live, counters>>

\* begin, then the slot is cleared and the one write is sent.
Begin(c) ==
    /\ cb[c].pc = "granted" /\ Queued
    /\ IF Begins(cb[c].id)
       THEN /\ change' = [change EXCEPT !.status = "applying"]
            /\ attempt' = NoAttempt
            /\ wire' = wire \cup {cb[c].id}
            /\ writes' = [writes EXCEPT ![cb[c].id] = @ + 1]
            /\ cb' = [cb EXCEPT ![c].pc = "writing"]
       ELSE /\ cb' = [cb EXCEPT ![c] = [@ EXCEPT !.pc = "ending", !.result = "failed"]]
            /\ UNCHANGED <<change, attempt, wire, writes>>
    /\ UNCHANGED <<relays, spent, landed, contested, other, check, perms, live, counters>>

Land(i) ==
    /\ i \in wire
    /\ wire' = wire \ {i}
    /\ \E ok \in BOOLEAN : landed' = IF ok THEN landed \cup {i} ELSE landed
    /\ UNCHANGED <<change, attempt, relays, cb, spent, writes, contested, other, check, perms, live, counters>>

\* 200 or 201 is a written secret; any other status and no answer are not.
Written(c) == cb[c].id \in landed

WriteAnswered(c, answered) ==
    /\ cb[c].pc = "writing"
    /\ answered => cb[c].id \notin wire
    /\ cb' = [cb EXCEPT ![c] = [@ EXCEPT !.pc = "ending",
                                         !.result = IF answered /\ Written(c) THEN "applied" ELSE "failed"]]
    /\ UNCHANGED <<change, attempt, relays, spent, wire, landed, writes, contested, other, check, perms, live, counters>>

\* After the revocation: the change is completed or failed, the slot cleared.
End(c) ==
    /\ cb[c].pc = "ending" /\ Queued
    /\ change' = IF cb[c].result = "applied" THEN Completed(cb[c].id) ELSE Failed(cb[c].id)
    /\ attempt' = NoAttempt
    /\ cb' = [cb EXCEPT ![c] = Idle]
    /\ UNCHANGED <<relays, spent, wire, landed, writes, contested, other, check, perms, live, counters>>

\* The new version takes the object over, or it restarts: no callback records its end, no start answers.
Restart ==
    /\ (\E c \in Callbacks : cb[c].pc # "idle") \/ \E n \in Attempts : Asking(n)
    /\ cb' = [c \in Callbacks |-> Idle]
    /\ relays' = [n \in Attempts |-> IF Asking(n) THEN NoRelay ELSE relays[n]]
    /\ check' = NoCheck
    /\ UNCHANGED <<change, attempt, spent, wire, landed, writes, contested, other, perms, live, counters>>

-----------------------------------------------------------------------------
(* Time *)

\* Ten minutes: the approval, and with it the attempt.
ApprovalExpires ==
    /\ change.id # 0 /\ ~change.late
    /\ change' = [change EXCEPT !.late = TRUE]
    /\ attempt' = IF attempt.id = change.id THEN [attempt EXCEPT !.late = TRUE] ELSE attempt
    /\ UNCHANGED <<relays, cb, spent, wire, landed, writes, contested, other, check, perms, live, counters>>

\* Two minutes after begin; the write's own deadline is fifteen seconds.
WindowPasses ==
    /\ change.status = "applying" /\ ~change.over
    /\ \A c \in Callbacks : cb[c].pc = "writing" => cb[c].id # change.id
    /\ change' = [change EXCEPT !.over = TRUE]
    /\ UNCHANGED <<attempt, relays, cb, spent, wire, landed, writes, contested, other, check, perms, live, counters>>

\* A slot that was spent and whose change was replaced.
AttemptExpires ==
    /\ attempt.n # 0 /\ ~attempt.late /\ attempt.id # change.id
    /\ attempt' = [attempt EXCEPT !.late = TRUE]
    /\ UNCHANGED <<change, relays, cb, spent, wire, landed, writes, contested, other, check, perms, live, counters>>

-----------------------------------------------------------------------------
(* What the installed token may do *)

Edit(r) ==
    /\ edits < MaxEdits
    /\ edits' = edits + 1
    /\ live' = [live EXCEPT ![r] = edits + 1]
    /\ UNCHANGED <<change, attempt, relays, cb, spent, wire, landed, writes, contested, other, check, perms, started, others, checks>>

\* Nothing else may be under way, and the token must answer as active.
CheckStart ==
    /\ Queued /\ ~Open /\ ~other
    /\ checks < MaxChecks /\ checks' = checks + 1
    /\ check' = [NoCheck EXCEPT !.pc = "running", !.saw = live]
    /\ UNCHANGED <<change, attempt, relays, cb, spent, wire, landed, writes, contested, other, perms, live, started, edits, others>>

\* Mutant of WordOfRead: what is there is not compared with what was recorded.
WordOfReadAny(r) == "none"

\* A resource that is not as recorded is reported as drift and not written.
WordOfRead(r) == IF live[r] # 0 THEN "drift" ELSE "none"

CheckRead(r) ==
    /\ check.pc = "running" /\ check.read[r] = -1
    /\ check' = [check EXCEPT !.read[r] = live[r], !.word[r] = WordOfRead(r)]
    /\ UNCHANGED <<change, attempt, relays, cb, spent, wire, landed, writes, contested, other, perms, live, counters>>

\* The Portal is sent the recorded body, the policy the fields as they were read.
Body(r) == IF r = "portal" THEN 0 ELSE check.read[r]

\* A refused write names the missing permission.
WordOfWrite(r) == IF r \in perms THEN "verified" ELSE "permission_missing"

CheckWrite(r) ==
    /\ check.pc = "running" /\ check.read[r] # -1 /\ check.word[r] = "none"
    /\ live' = IF r \in perms THEN [live EXCEPT ![r] = Body(r)] ELSE live
    /\ check' = [check EXCEPT !.word[r] = WordOfWrite(r)]
    /\ UNCHANGED <<change, attempt, relays, cb, spent, wire, landed, writes, contested, other, perms, counters>>

CheckFails(r) ==
    /\ check.pc = "running" /\ check.word[r] = "none"
    /\ check' = [check EXCEPT !.read[r] = IF @ = -1 THEN 0 ELSE @, !.word[r] = "unconfirmed"]
    /\ UNCHANGED <<change, attempt, relays, cb, spent, wire, landed, writes, contested, other, perms, live, counters>>

\* The portal is read once more, and both checks are drained before the queue goes on.
CheckEnd ==
    /\ check.pc = "running" /\ \A r \in Permissions : check.word[r] # "none"
    /\ check' = NoCheck
    /\ UNCHANGED <<change, attempt, relays, cb, spent, wire, landed, writes, contested, other, perms, live, counters>>

Callback(c) ==
    \/ Arrive(c) \/ GiveUp(c) \/ Spend(c) \/ Begin(c) \/ End(c)
    \/ \E ok \in BOOLEAN : Exchange(c, ok) \/ WriteAnswered(c, ok)

Time == ApprovalExpires \/ WindowPasses \/ AttemptExpires

Checking == CheckStart \/ CheckEnd \/ \E r \in Permissions : CheckRead(r) \/ CheckWrite(r) \/ CheckFails(r)

Next ==
    \/ \E a \in Admins : Prepare(a)
    \/ Start \/ \E n \in Attempts : Relay(n) \/ Unreached(n)
    \/ \E c \in Callbacks : Callback(c)
    \/ \E i \in Changes : Land(i)
    \/ OtherBegin \/ OtherEnd \/ Restart \/ Time \/ Checking
    \/ \E r \in Permissions : Edit(r)

Spec == Init /\ [][Next]_vars

\* Time passes, and the requests of the check are answered or end with its deadline.
FairSpec ==
    /\ Spec
    /\ WF_vars(ApprovalExpires) /\ WF_vars(WindowPasses) /\ WF_vars(AttemptExpires)
    /\ WF_vars(CheckEnd) /\ \A r \in Permissions : WF_vars(CheckFails(r))
    /\ \A c \in Callbacks : WF_vars(WriteAnswered(c, FALSE)) /\ WF_vars(End(c))

-----------------------------------------------------------------------------
\* safeCredentialAction: the change as it is recorded.
RecordedChange ==
    /\ change.id \in 0 .. MaxChanges /\ change.status \in Status
    /\ change.late \in BOOLEAN /\ change.over \in BOOLEAN
    /\ (change.id = 0) = (change.status = "none")

\* customerOperationAttemptSchema: the attempt as it is recorded.
RecordedAttempt ==
    /\ attempt.n \in 0 .. MaxAttempts /\ attempt.id \in 0 .. change.id
    /\ attempt.phase \in {"none", "authorizing", "exchanging"}
    /\ (attempt.n = 0) = (attempt.phase = "none")

TypeOK ==
    /\ RecordedChange /\ RecordedAttempt
    /\ \A c \in Callbacks :
          cb[c].pc \in {"idle", "checked", "exchanging", "granted", "writing", "ending"}
    /\ \A n \in Attempts : relays[n].at \in {"none", "asked", "failed", "consent"}
    /\ wire \subseteq Changes /\ landed \subseteq Changes /\ live \in [Permissions -> 0 .. MaxEdits]

\* However often the callback is replayed or the page reloaded, one approval writes one secret, and
\* only while its change was recorded as applying.
OneWriteEach == \A i \in Changes : writes[i] <= 1

\* A change the dashboard shows as succeeded is one whose token reached the Worker.
SucceededIsWritten == change.status = "succeeded" => change.id \in landed

\* While a callback waits for its secret write, the change holds the lock and no source, Team,
\* update or removal operation begins, unless a second callback for the change ended it, or a start
\* of it that the relay refused late.
LockCoversWrite ==
    \A c \in Callbacks : cb[c].pc = "writing" /\ cb[c].id \notin contested =>
                         Open /\ change.id = cb[c].id

\* The check never overwrites an edit that was there when it began.
KeepsEdits ==
    \A r \in Permissions : check.pc = "running" /\ check'.word[r] # check.word[r] /\ live'[r] # live[r]
        => check.saw[r] = 0

\* ... and this at every step of the check (verifyCredentialPermissions).
CheckKeepsEdits == [][KeepsEdits]_vars

\* "verified" is said only of a token that may write the resource.
VerifiedIsAble == \A r \in Permissions : check.word[r] = "verified" => r \in perms

\* Neither an approval nobody finishes nor a write whose end was never recorded locks the gateway
\* for good.
Due  == Open
Done == ~Open
LockEnds == Due ~> Done

(* The safety of a token change: one approval writes one secret, success is   *)
(* said of a token that reached the Worker, a write under way keeps the lock,  *)
(* and a check verifies what the token may do.                                 *)
CredentialIsSafe ==
  /\ TypeOK /\ OneWriteEach /\ SucceededIsWritten /\ LockCoversWrite /\ VerifiedIsAble
=============================================================================
