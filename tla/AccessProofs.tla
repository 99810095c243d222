----------------------------- MODULE AccessProofs -----------------------------
(***************************************************************************)
(* Proofs about what decides who and what gets in: CredentialChange,       *)
(* AgentEntrance and TeamAccess, the latter two as the instances of        *)
(* MCAccess, for every value of their constants.                           *)
(***************************************************************************)
EXTENDS MCAccess, FiniteSetTheorems, TLAPS

-----------------------------------------------------------------------------
(* The credential switch of a source: its safety, and that a check keeps   *)
(* the edits it saw, for every number of administrators, callbacks,        *)
(* changes, approvals, edits and checks.                                   *)
(*                                                                         *)
(* A change waits for its approval only before its secret was sent, and    *)
(* never again after it; a callback that writes for a change nobody else   *)
(* has a callback for is the only one that can end it; and a resource that *)
(* was edited before the check began stays edited until it is read.        *)

ChangeRecord == [id : 0..MaxChanges, actor : Admins \cup {NoActor}, status : Status,
                 late : BOOLEAN, over : BOOLEAN]
AttemptRecord == [n : 0..MaxAttempts, id : 0..MaxChanges,
                  phase : {"none", "authorizing", "exchanging"}, late : BOOLEAN]
CallbackRecord == [pc : {"idle", "checked", "exchanging", "granted", "writing", "ending"},
                   n : 0..MaxAttempts, id : 0..MaxChanges, result : {"none", "failed", "applied"}]
RelayRecord == [at : {"none", "asked", "failed", "consent"}, id : 0..MaxChanges]
Words == {"none", "drift", "verified", "permission_missing", "unconfirmed"}
CheckRecord == [pc : {"idle", "running"}, read : [Permissions -> Int],
                word : [Permissions -> Words],
                saw : [Permissions -> Int]]

(* What TypeOK leaves out.                                                  *)
MoreTypes ==
  /\ change \in ChangeRecord /\ attempt \in AttemptRecord /\ cb \in [Callbacks -> CallbackRecord]
  /\ spent \in [Attempts -> Nat] /\ writes \in [Changes -> Nat] /\ contested \subseteq 0..MaxChanges
  /\ relays \in [Attempts -> RelayRecord] /\ check \in CheckRecord /\ perms \subseteq Permissions
  /\ started \in 0..MaxAttempts /\ edits \in 0..MaxEdits

(* The slot and the callbacks under way are for changes that were prepared. *)
CallbacksRun ==
  /\ attempt.n # 0 => attempt.id # 0
  /\ \A c \in Callbacks : cb[c].pc # "idle" => cb[c].id \in 1..change.id /\ cb[c].n \in Attempts

(* A change that waits for its approval sent no secret, and its window did  *)
(* not begin; nor did a change that was not prepared yet.                   *)
NothingSentYet ==
  /\ \A i \in Changes : i > change.id => writes[i] = 0
  /\ change.status = "authorization_required" => writes[change.id] = 0 /\ ~change.over

(* Success is said of a token that reached the Worker.                      *)
AppliedIsLanded == \A c \in Callbacks : cb[c].result = "applied" => cb[c].id \in landed

(* Two callbacks that are under way for one change contest it; so do a      *)
(* callback and a start that is not over.                                   *)
ContestsAreSeen ==
  \A c \in Callbacks : cb[c].pc # "idle" =>
    /\ \A b \in Callbacks \ {c} : cb[b].pc # "idle" /\ cb[b].id = cb[c].id => cb[c].id \in contested
    /\ \A n \in Attempts : Asking(n) /\ relays[n].id = cb[c].id => cb[c].id \in contested

WriterHolds ==
  \A c \in Callbacks : cb[c].pc = "writing" /\ cb[c].id \notin contested =>
                       change.id = cb[c].id /\ change.status = "applying" /\ ~change.over

(* What was edited before the check began is not there as recorded until it *)
(* is read, and then it is not written.                                     *)
EditsStand ==
  \A r \in Permissions :
    /\ check.read[r] # -1 => check.read[r] \in 0..MaxEdits
    /\ check.word[r] # "none" => check.read[r] # -1
    /\ check.pc = "running" /\ check.word[r] = "none" /\ check.saw[r] # 0 =>
         check.read[r] = -1 /\ live[r] # 0

CredentialInv ==
  /\ TypeOK /\ MoreTypes /\ CallbacksRun /\ NothingSentYet /\ OneWriteEach /\ SucceededIsWritten
  /\ AppliedIsLanded /\ ContestsAreSeen /\ WriterHolds /\ EditsStand /\ VerifiedIsAble

(* ----------------------- the check, and what others do ------------------- *)

LEMMA TypesOfInv ==
  ASSUME CredentialInv
  PROVE  /\ change \in ChangeRecord /\ attempt \in AttemptRecord /\ cb \in [Callbacks -> CallbackRecord]
         /\ spent \in [Attempts -> Nat] /\ writes \in [Changes -> Nat] /\ contested \subseteq 0..MaxChanges
         /\ check \in CheckRecord /\ perms \subseteq Permissions /\ live \in [Permissions -> 0 .. MaxEdits]
         /\ started \in 0..MaxAttempts /\ edits \in 0..MaxEdits
         /\ wire \subseteq Changes /\ landed \subseteq Changes /\ relays \in [Attempts -> RelayRecord]
BY DEF CredentialInv, MoreTypes, TypeOK

(* A step that leaves the change, its approval and its callbacks alone.     *)
LEMMA RecordsRest ==
  ASSUME CredentialInv,
         UNCHANGED <<change, attempt, relays, cb, spent, writes, contested, perms, started>>,
         check' \in CheckRecord, live' \in [Permissions -> 0 .. MaxEdits], edits' \in 0..MaxEdits,
         wire' \subseteq Changes, landed \subseteq landed', landed' \subseteq Changes,
         EditsStand', VerifiedIsAble'
  PROVE  CredentialInv'
<1>1. MoreTypes'
  BY DEF CredentialInv, MoreTypes
<1>2. TypeOK'
  BY DEF CredentialInv, TypeOK, RecordedChange, RecordedAttempt
<1>3. CallbacksRun' /\ NothingSentYet' /\ OneWriteEach'
  BY DEF CredentialInv, CallbacksRun, NothingSentYet, OneWriteEach
<1>4. SucceededIsWritten' /\ AppliedIsLanded'
  BY DEF CredentialInv, SucceededIsWritten, AppliedIsLanded
<1>5. ContestsAreSeen' /\ WriterHolds'
  BY DEF CredentialInv, ContestsAreSeen, Asking, WriterHolds
<1> QED BY <1>1, <1>2, <1>3, <1>4, <1>5 DEF CredentialInv

LEMMA OthersStand ==
  ASSUME CredentialInv, OtherBegin \/ OtherEnd \/ \E i \in Changes : Land(i)
  PROVE  CredentialInv'
<1>1. /\ UNCHANGED <<change, attempt, relays, cb, spent, writes, contested, perms, started>>
      /\ UNCHANGED <<check, live, edits>>
      /\ wire' \subseteq wire /\ landed \subseteq landed' /\ landed' \subseteq Changes
  BY TypesOfInv DEF OtherBegin, OtherEnd, Land, counters
<1>2. EditsStand' /\ VerifiedIsAble'
  BY <1>1 DEF CredentialInv, EditsStand, VerifiedIsAble
<1> QED BY <1>1, <1>2, TypesOfInv, RecordsRest

LEMMA EditStands ==
  ASSUME CredentialInv, NEW r \in Permissions, Edit(r)
  PROVE  CredentialInv'
<1>1. /\ UNCHANGED <<change, attempt, relays, cb, spent, writes, contested, perms, started>>
      /\ UNCHANGED <<check, wire, landed>>
      /\ edits' = edits + 1 /\ edits < MaxEdits /\ live' = [live EXCEPT ![r] = edits + 1]
  BY DEF Edit
<1>2. edits' \in 0..MaxEdits /\ edits + 1 # 0
  BY <1>1, TypesOfInv, BoundsAssumption
<1>3. live' \in [Permissions -> 0 .. MaxEdits] /\ \A k \in Permissions : live[k] # 0 => live'[k] # 0
  BY <1>1, <1>2, TypesOfInv
<1>4. EditsStand' /\ VerifiedIsAble'
  BY <1>1, <1>3 DEF CredentialInv, EditsStand, VerifiedIsAble
<1> QED BY <1>1, <1>2, <1>3, <1>4, TypesOfInv, RecordsRest

(* A step of the check that reads, writes or gives up one resource.         *)
LEMMA CheckStands ==
  ASSUME CredentialInv, Checking
  PROVE  CredentialInv'
<1>1. /\ UNCHANGED <<change, attempt, relays, cb, spent, writes, contested, perms, started>>
      /\ UNCHANGED <<edits, wire, landed>>
  BY DEF Checking, CheckStart, CheckEnd, CheckRead, CheckWrite, CheckFails, counters
<1>2. /\ check \in CheckRecord /\ live \in [Permissions -> 0 .. MaxEdits] /\ MaxEdits \in Nat
      /\ NoCheck \in CheckRecord
  BY TypesOfInv, BoundsAssumption DEF NoCheck, CheckRecord, Words
<1>3. CASE CheckStart
  <2>1. /\ check' = [NoCheck EXCEPT !.pc = "running", !.saw = live] /\ live' = live
    BY <1>3 DEF CheckStart
  <2>2. /\ check'.read = [r \in Permissions |-> -1] /\ check'.word = [r \in Permissions |-> "none"]
        /\ check'.saw = live
    BY <2>1 DEF NoCheck
  <2>3. check' \in CheckRecord
    <3>1. live \in [Permissions -> Int] /\ "running" \in {"idle", "running"}
      BY <1>2
    <3> QED BY <1>2, <2>1, <3>1 DEF CheckRecord
  <2>4. EditsStand' /\ VerifiedIsAble'
    BY <1>1, <2>1, <2>2 DEF EditsStand, VerifiedIsAble
  <2> QED BY <1>1, <1>2, <2>1, <2>3, <2>4, TypesOfInv, RecordsRest
<1>4. CASE CheckEnd
  <2>1. check' = NoCheck /\ live' = live
    BY <1>4 DEF CheckEnd
  <2>2. EditsStand' /\ VerifiedIsAble'
    BY <1>2, <2>1 DEF NoCheck, EditsStand, VerifiedIsAble
  <2> QED BY <1>1, <1>2, <2>1, <2>2, TypesOfInv, RecordsRest
<1>5. ASSUME NEW r \in Permissions, CheckRead(r)
      PROVE  CredentialInv'
  <2>1. /\ check.pc = "running" /\ live' = live /\ check.read[r] = -1
    BY <1>5 DEF CheckRead
  <2>2. WordOfRead(r) \in {"none", "drift"} /\ (WordOfRead(r) = "none" => live[r] = 0)
    BY DEF WordOfRead
  <2> DEFINE read == [check.read EXCEPT ![r] = live[r]]
             word == [check.word EXCEPT ![r] = WordOfRead(r)]
  <2>3. check' = [check EXCEPT !.read = read, !.word = word]
    BY <1>2, <1>5 DEF CheckRead, CheckRecord
  <2>4. /\ check.read \in [Permissions -> Int] /\ live[r] \in 0..MaxEdits
        /\ check.word \in [Permissions -> Words]
    BY <1>2 DEF CheckRecord
  <2>a. read \in [Permissions -> Int] /\ word \in [Permissions -> Words]
    BY <2>2, <2>4 DEF Words
  <2>b. /\ read[r] = live[r] /\ word[r] = WordOfRead(r)
        /\ \A k \in Permissions : k # r => read[k] = check.read[k] /\ word[k] = check.word[k]
    BY <2>4
  <2> HIDE DEF read, word
  <2>c. /\ check' \in CheckRecord /\ check'.saw = check.saw /\ check'.pc = check.pc
        /\ check'.read = read /\ check'.word = word
    BY <1>2, <2>3, <2>a DEF CheckRecord
  <2>5. EditsStand'
    BY <2>1, <2>2, <2>4, <2>b, <2>c DEF CredentialInv, EditsStand
  <2>6. VerifiedIsAble'
    BY <1>1, <2>2, <2>b, <2>c DEF CredentialInv, VerifiedIsAble
  <2> QED BY <1>1, <1>2, <2>1, <2>c, <2>5, <2>6, TypesOfInv, RecordsRest
<1>6. ASSUME NEW r \in Permissions, CheckWrite(r)
      PROVE  CredentialInv'
  <2>1. /\ check.pc = "running" /\ check.read[r] # -1
        /\ live' = IF r \in perms THEN [live EXCEPT ![r] = Body(r)] ELSE live
        /\ check' = [check EXCEPT !.word = [check.word EXCEPT ![r] = WordOfWrite(r)]]
    BY <1>2, <1>6 DEF CheckWrite, CheckRecord
  <2>2. /\ WordOfWrite(r) \in {"verified", "permission_missing"}
        /\ WordOfWrite(r) = "verified" => r \in perms
    BY DEF WordOfWrite
  <2>3. /\ check' \in CheckRecord /\ check'.saw = check.saw /\ check'.pc = check.pc
        /\ check'.read = check.read
        /\ check'.word = [check.word EXCEPT ![r] = WordOfWrite(r)]
    BY <1>2, <2>1, <2>2 DEF CheckRecord, Words
  <2>4. /\ check.read \in [Permissions -> Int]
        /\ check.word \in [Permissions -> Words]
    BY <1>2 DEF CheckRecord
  <2>5. Body(r) \in 0..MaxEdits
    BY <1>2, <2>1 DEF CredentialInv, EditsStand, Body
  <2>6. live' \in [Permissions -> 0 .. MaxEdits] /\ \A k \in Permissions : k # r => live'[k] = live[k]
    BY <1>2, <2>1, <2>5
  <2>7. EditsStand'
    BY <2>1, <2>2, <2>3, <2>4, <2>6 DEF CredentialInv, EditsStand
  <2>8. VerifiedIsAble'
    BY <1>1, <2>2, <2>3, <2>4 DEF CredentialInv, VerifiedIsAble
  <2> QED BY <1>1, <1>2, <2>3, <2>6, <2>7, <2>8, TypesOfInv, RecordsRest
<1>7. ASSUME NEW r \in Permissions, CheckFails(r)
      PROVE  CredentialInv'
  <2>1. /\ check.pc = "running" /\ live' = live
        /\ check' = [check EXCEPT
                        !.read = [check.read EXCEPT ![r] = IF check.read[r] = -1 THEN 0 ELSE check.read[r]],
                        !.word = [check.word EXCEPT ![r] = "unconfirmed"]]
    BY <1>2, <1>7 DEF CheckFails, CheckRecord
  <2> DEFINE n == IF check.read[r] = -1 THEN 0 ELSE check.read[r]
  <2>2. n \in 0..MaxEdits /\ n # -1
    BY <1>2 DEF CredentialInv, EditsStand
  <2> DEFINE read == [check.read EXCEPT ![r] = n]
             word == [check.word EXCEPT ![r] = "unconfirmed"]
  <2>3. check' = [check EXCEPT !.read = read, !.word = word]
    BY <2>1
  <2> HIDE DEF n
  <2>5. /\ check.read \in [Permissions -> Int]
        /\ check.word \in [Permissions -> Words]
    BY <1>2 DEF CheckRecord
  <2>a. read \in [Permissions -> Int] /\ word \in [Permissions -> Words]
    BY <1>2, <2>2, <2>5 DEF Words
  <2>b. /\ read[r] = n /\ word[r] = "unconfirmed"
        /\ \A k \in Permissions : k # r => read[k] = check.read[k] /\ word[k] = check.word[k]
    BY <2>5
  <2> HIDE DEF read, word
  <2>4. /\ check' \in CheckRecord /\ check'.saw = check.saw /\ check'.pc = check.pc
        /\ check'.read = read /\ check'.word = word
    BY <1>2, <2>3, <2>a DEF CheckRecord
  <2>6. EditsStand'
    BY <2>1, <2>2, <2>4, <2>5, <2>b DEF CredentialInv, EditsStand
  <2>7. VerifiedIsAble'
    BY <1>1, <2>4, <2>b DEF CredentialInv, VerifiedIsAble
  <2> QED BY <1>1, <1>2, <2>1, <2>4, <2>6, <2>7, TypesOfInv, RecordsRest
<1> QED BY <1>3, <1>4, <1>5, <1>6, <1>7 DEF Checking

(* ------------------- the change, its approval and callbacks -------------- *)

LEMMA NoAttemptFits ==
  ASSUME CredentialInv, attempt' = NoAttempt, change'.id = change.id
  PROVE  attempt' \in AttemptRecord /\ RecordedAttempt' /\ attempt'.n = 0
<1>1. change.id \in Nat /\ MaxChanges \in Nat /\ MaxAttempts \in Nat
  BY TypesOfInv, BoundsAssumption DEF ChangeRecord
<1> QED BY <1>1 DEF NoAttempt, AttemptRecord, RecordedAttempt

(* A step that changes a record, while the check and the resources rest.    *)
LEMMA CheckRests ==
  ASSUME CredentialInv, UNCHANGED <<check, perms, live, edits>>
  PROVE  EditsStand' /\ VerifiedIsAble'
BY DEF CredentialInv, EditsStand, VerifiedIsAble

(* A change takes the number after every number a callback or a write has.  *)
LEMMA PrepareStands ==
  ASSUME CredentialInv, NEW a \in Admins, Prepare(a)
  PROVE  CredentialInv'
<1>1. /\ UNCHANGED <<attempt, relays, cb, spent, wire, landed, writes, contested, started>>
      /\ UNCHANGED <<check, perms, live, edits>>
      /\ change.id < MaxChanges /\ (Open => change.status = "authorization_required")
      /\ change' = [id |-> change.id + 1, actor |-> a, status |-> "authorization_required",
                    late |-> FALSE, over |-> FALSE]
  BY DEF Prepare, counters
<1>2. /\ change \in ChangeRecord /\ writes \in [Changes -> Nat] /\ MaxChanges \in Nat
      /\ change.id \in 0..MaxChanges /\ attempt.id \in 0..change.id
  BY TypesOfInv, BoundsAssumption DEF ChangeRecord, CredentialInv, TypeOK, RecordedAttempt
<1>3. /\ change'.id = change.id + 1 /\ change'.id \in Changes /\ change'.id # 0
      /\ change'.status = "authorization_required" /\ ~change'.over /\ ~change'.late
  BY <1>1, <1>2 DEF Changes
<1>4. change' \in ChangeRecord
  BY <1>1, <1>2, <1>3 DEF ChangeRecord, Status, Changes
<1>5. MoreTypes'
  BY <1>1, <1>4 DEF CredentialInv, MoreTypes
<1>6. RecordedChange' /\ RecordedAttempt'
  <2>1. RecordedChange'
    BY <1>3, <1>4 DEF RecordedChange, ChangeRecord
  <2>2. attempt'.id \in 0..change'.id
    BY <1>1, <1>2, <1>3
  <2>3. RecordedAttempt'
    BY <1>1, <2>2 DEF CredentialInv, TypeOK, RecordedAttempt
  <2> QED BY <2>1, <2>3
<1>7. TypeOK'
  BY <1>1, <1>6 DEF CredentialInv, TypeOK
<1>8. CallbacksRun'
  BY <1>1, <1>2, <1>3 DEF CredentialInv, CallbacksRun
<1>9. NothingSentYet' /\ OneWriteEach'
  BY <1>1, <1>2, <1>3 DEF CredentialInv, NothingSentYet, OneWriteEach, Changes
<1>10. SucceededIsWritten' /\ AppliedIsLanded' /\ ContestsAreSeen'
  BY <1>1, <1>3 DEF CredentialInv, SucceededIsWritten, AppliedIsLanded, ContestsAreSeen, Asking
<1>11. WriterHolds'
  BY <1>1 DEF CredentialInv, WriterHolds, Open
<1> QED BY <1>1, <1>5, <1>7, <1>8, <1>9, <1>10, <1>11, CheckRests DEF CredentialInv

(* The same change ends, or its time passes; its approval may change hands. *)
LEMMA ChangeStands ==
  ASSUME CredentialInv,
         UNCHANGED <<cb, spent, wire, landed, writes, check, perms, live, edits>>,
         relays' \in [Attempts -> RelayRecord], contested \subseteq contested', contested' \subseteq 0..MaxChanges,
         \A c \in Callbacks, n \in Attempts :
           cb[c].pc # "idle" /\ relays'[n].at \in {"asked", "failed"} /\ relays'[n].id = cb[c].id
             => cb[c].id \in contested',
         attempt' \in AttemptRecord, RecordedAttempt', attempt'.n # 0 => attempt'.id # 0, started' \in 0..MaxAttempts,
         change' \in ChangeRecord, change'.id = change.id,
         change'.status \in {change.status, "failed"},
         change.status = "none" => change'.status = "none",
         change'.status = "authorization_required" => ~change'.over,
         change.status = "applying" /\ change'.status # "applying" =>
           \A c \in Callbacks : cb[c].pc = "writing" /\ cb[c].id = change.id => change.id \in contested',
         change.status = "applying" /\ ~change.over /\ (\E c \in Callbacks : cb[c].pc = "writing" /\ cb[c].id = change.id)
           => ~change'.over
  PROVE  CredentialInv'
<1>1. MoreTypes'
  BY DEF CredentialInv, MoreTypes
<1>2. RecordedChange'
  BY DEF CredentialInv, TypeOK, RecordedChange, ChangeRecord
<1>3. TypeOK'
  BY <1>2 DEF CredentialInv, TypeOK, RelayRecord
<1>4. CallbacksRun' /\ NothingSentYet' /\ OneWriteEach'
  BY DEF CredentialInv, CallbacksRun, NothingSentYet, OneWriteEach
<1>5. SucceededIsWritten' /\ AppliedIsLanded' /\ ContestsAreSeen'
  BY DEF CredentialInv, SucceededIsWritten, AppliedIsLanded, ContestsAreSeen, Asking
<1>6. WriterHolds'
  BY DEF CredentialInv, WriterHolds
<1> QED BY <1>1, <1>3, <1>4, <1>5, <1>6, CheckRests DEF CredentialInv

LEMMA StartStands ==
  ASSUME CredentialInv, Start
  PROVE  CredentialInv'
<1>1. /\ UNCHANGED <<change, cb, spent, wire, landed, writes, check, perms, live, edits>>
      /\ change.status = "authorization_required" /\ started < MaxAttempts /\ started' = started + 1
      /\ attempt' = [n |-> started + 1, id |-> change.id, phase |-> "authorizing", late |-> FALSE]
      /\ relays' = [relays EXCEPT ![started + 1] = [at |-> "asked", id |-> change.id]]
      /\ contested' = IF CallbackFor(change.id) THEN contested \cup {change.id} ELSE contested
  BY DEF Start, Contested
<1>2. /\ change \in ChangeRecord /\ change.id \in 0..MaxChanges /\ change.id # 0 /\ ~change.over
      /\ started \in Nat /\ MaxAttempts \in Nat /\ MaxChanges \in Nat /\ contested \subseteq 0..MaxChanges
      /\ relays \in [Attempts -> RelayRecord]
  BY <1>1, TypesOfInv, BoundsAssumption DEF ChangeRecord, CredentialInv, NothingSentYet, TypeOK,
    RecordedChange
<1>3. started' \in 0..MaxAttempts /\ started + 1 \in Attempts /\ started + 1 \in 0..MaxAttempts /\ started + 1 # 0
  BY <1>1, <1>2 DEF Attempts
<1>4. attempt' \in AttemptRecord /\ RecordedAttempt' /\ attempt'.id # 0
  <2>1. change'.id = change.id /\ change.id \in 0..change.id
    BY <1>1, <1>2
  <2> QED BY <1>1, <1>2, <1>3, <2>1 DEF AttemptRecord, RecordedAttempt
<1>5. /\ relays' \in [Attempts -> RelayRecord] /\ relays'[started + 1].id = change.id
      /\ \A n \in Attempts : n # started + 1 => relays'[n] = relays[n]
  BY <1>1, <1>2, <1>3 DEF RelayRecord
<1>6. ASSUME NEW c \in Callbacks, NEW n \in Attempts, cb[c].pc # "idle",
             relays'[n].at \in {"asked", "failed"}, relays'[n].id = cb[c].id
      PROVE  cb[c].id \in contested'
  <2>1. CASE n = started + 1
    BY <1>1, <1>5, <1>6, <2>1 DEF CallbackFor
  <2>2. CASE n # started + 1
    BY <1>1, <1>5, <1>6, <2>2 DEF CredentialInv, ContestsAreSeen, Asking
  <2> QED BY <2>1, <2>2
<1> QED BY <1>1, <1>2, <1>3, <1>4, <1>5, <1>6, ChangeStands

(* The relay's answer; a refusal frees the slot, and then ends the change.  *)
LEMMA RelayStands ==
  ASSUME CredentialInv, NEW n \in Attempts, Relay(n) \/ Unreached(n)
  PROVE  CredentialInv'
<1>1. /\ UNCHANGED <<cb, spent, wire, landed, writes, contested, check, perms, live, edits, started>>
      /\ attempt' \in {attempt, NoAttempt} /\ Asking(n)
      /\ change' = change \/ change' = Failed(relays[n].id)
  BY DEF Relay, Unreached, counters, Asking
<1>2. PICK at \in {"none", "failed", "consent"} : relays' = [relays EXCEPT ![n].at = at]
  BY DEF Relay, Unreached
<1>3. /\ change \in ChangeRecord /\ started \in 0..MaxAttempts /\ attempt \in AttemptRecord
      /\ relays \in [Attempts -> RelayRecord] /\ contested \subseteq 0..MaxChanges
  BY TypesOfInv
<1>4. /\ relays' \in [Attempts -> RelayRecord] /\ \A k \in Attempts : relays'[k].id = relays[k].id
      /\ \A k \in Attempts : relays'[k].at \in {"asked", "failed"} => Asking(k)
  <2>1. relays[n] \in RelayRecord
    BY <1>3
  <2> QED BY <1>1, <1>2, <1>3, <2>1 DEF RelayRecord, Asking
<1>5. /\ change' \in ChangeRecord /\ change'.id = change.id /\ change'.over = change.over
      /\ change'.status \in {change.status, "failed"}
      /\ change'.status # change.status => change.id = relays[n].id /\ change.status # "none"
  BY <1>1, <1>3 DEF Failed, ChangeRecord, Status
<1>6. attempt' \in AttemptRecord /\ RecordedAttempt' /\ (attempt'.n # 0 => attempt'.id # 0)
  <2>1. CASE attempt' = attempt
    BY <1>3, <1>5, <2>1 DEF CredentialInv, TypeOK, RecordedAttempt, CallbacksRun
  <2>2. CASE attempt' = NoAttempt
    BY <1>5, <2>2, NoAttemptFits
  <2> QED BY <1>1, <2>1, <2>2
<1>7. \A c \in Callbacks, k \in Attempts :
        cb[c].pc # "idle" /\ relays'[k].at \in {"asked", "failed"} /\ relays'[k].id = cb[c].id
          => cb[c].id \in contested'
  BY <1>1, <1>4 DEF CredentialInv, ContestsAreSeen
<1>8. change'.status # change.status =>
        \A c \in Callbacks : cb[c].pc = "writing" /\ cb[c].id = change.id => change.id \in contested'
  BY <1>1, <1>5 DEF CredentialInv, ContestsAreSeen
<1>9. (change.status = "none" => change'.status = "none") /\ (change'.status = "authorization_required" => ~change'.over)
  BY <1>5 DEF CredentialInv, NothingSentYet
<1> QED BY <1>1, <1>3, <1>4, <1>5, <1>6, <1>7, <1>8, <1>9, ChangeStands

LEMMA TimeStands ==
  ASSUME CredentialInv, Time
  PROVE  CredentialInv'
<1>1. /\ UNCHANGED <<relays, cb, spent, wire, landed, writes, contested, check, perms, live, edits, started>>
  BY DEF Time, ApprovalExpires, WindowPasses, AttemptExpires, counters
<1>2. change \in ChangeRecord /\ attempt \in AttemptRecord /\ started \in 0..MaxAttempts
  BY TypesOfInv
<1>3. \/ attempt' = attempt
      \/ attempt' = [attempt EXCEPT !.late = TRUE]
  BY DEF Time, ApprovalExpires, WindowPasses, AttemptExpires
<1>4. \/ change' = change
      \/ change' = [change EXCEPT !.late = TRUE]
      \/ /\ change' = [change EXCEPT !.over = TRUE] /\ change.status = "applying"
         /\ \A c \in Callbacks : cb[c].pc = "writing" => cb[c].id # change.id
  BY DEF Time, ApprovalExpires, WindowPasses, AttemptExpires
<1>5. /\ change' \in ChangeRecord /\ change'.id = change.id /\ change'.status = change.status
      /\ change'.over # change.over =>
           /\ change.status = "applying"
           /\ \A c \in Callbacks : cb[c].pc = "writing" => cb[c].id # change.id
  BY <1>2, <1>4 DEF ChangeRecord
<1>6. /\ attempt' \in AttemptRecord /\ attempt'.n = attempt.n /\ attempt'.id = attempt.id
      /\ attempt'.phase = attempt.phase
  BY <1>2, <1>3 DEF AttemptRecord
<1>7. RecordedAttempt' /\ (attempt'.n # 0 => attempt'.id # 0)
  BY <1>5, <1>6 DEF CredentialInv, TypeOK, RecordedAttempt, CallbacksRun
<1>8. change'.status = "authorization_required" => ~change'.over
  BY <1>5 DEF CredentialInv, NothingSentYet
<1>9. /\ relays' \in [Attempts -> RelayRecord] /\ contested' \subseteq 0..MaxChanges
      /\ \A c \in Callbacks, n \in Attempts :
           cb[c].pc # "idle" /\ relays'[n].at \in {"asked", "failed"} /\ relays'[n].id = cb[c].id
             => cb[c].id \in contested'
  BY <1>1, TypesOfInv DEF CredentialInv, ContestsAreSeen, Asking
<1> QED BY <1>1, <1>2, <1>5, <1>6, <1>7, <1>8, <1>9, ChangeStands

(* A callback goes on, and writes nothing.                                  *)
LEMMA CallbackStands ==
  ASSUME CredentialInv, UNCHANGED <<change, relays, wire, landed, writes, check, perms, live, edits, started>>,
         NEW c \in Callbacks, NEW new \in CallbackRecord, cb' = [cb EXCEPT ![c] = new],
         new.pc \notin {"idle", "writing"}, new.id \in 1..change.id, new.n \in Attempts,
         new.result = "applied" => new.id \in landed,
         attempt' \in AttemptRecord, RecordedAttempt', attempt'.n # 0 => attempt'.id # 0, spent' \in [Attempts -> Nat],
         contested \subseteq contested', contested' \subseteq 0..MaxChanges,
         \/ cb[c].pc # "idle" /\ new.id = cb[c].id
         \/ /\ \A b \in Callbacks \ {c} : cb[b].pc # "idle" /\ cb[b].id = new.id => new.id \in contested'
            /\ \A n \in Attempts : Asking(n) /\ relays[n].id = new.id => new.id \in contested'
  PROVE  CredentialInv'
<1>1. /\ cb \in [Callbacks -> CallbackRecord] /\ cb'[c] = new
      /\ \A b \in Callbacks : b # c => cb'[b] = cb[b]
  BY TypesOfInv
<1>2. MoreTypes' /\ TypeOK'
  <2>1. cb' \in [Callbacks -> CallbackRecord]
    BY <1>1
  <2>2. \A b \in Callbacks :
          cb'[b].pc \in {"idle", "checked", "exchanging", "granted", "writing", "ending"}
    BY <2>1 DEF CallbackRecord
  <2>3. RecordedChange'
    BY DEF CredentialInv, TypeOK, RecordedChange
  <2>4. MoreTypes'
    BY <2>1 DEF CredentialInv, MoreTypes
  <2> QED BY <2>2, <2>3, <2>4 DEF CredentialInv, TypeOK
<1>3. CallbacksRun'
  BY <1>1 DEF CredentialInv, CallbacksRun
<1>4. NothingSentYet' /\ OneWriteEach' /\ SucceededIsWritten'
  BY DEF CredentialInv, NothingSentYet, OneWriteEach, SucceededIsWritten
<1>5. AppliedIsLanded'
  BY <1>1 DEF CredentialInv, AppliedIsLanded
<1>6. ContestsAreSeen'
  <2>1. /\ \A b \in Callbacks \ {c} : cb[b].pc # "idle" /\ cb[b].id = new.id => new.id \in contested'
        /\ \A n \in Attempts : Asking(n) /\ relays[n].id = new.id => new.id \in contested'
    BY <1>1 DEF CredentialInv, ContestsAreSeen
  <2>2. \A n \in Attempts : Asking(n)' => Asking(n)
    BY DEF Asking
  <2> SUFFICES ASSUME NEW x \in Callbacks, cb'[x].pc # "idle"
               PROVE  /\ \A y \in Callbacks \ {x} : cb'[y].pc # "idle" /\ cb'[y].id = cb'[x].id
                                                    => cb'[x].id \in contested'
                      /\ \A n \in Attempts : Asking(n)' /\ relays'[n].id = cb'[x].id => cb'[x].id \in contested'
    BY DEF ContestsAreSeen
  <2>3. CASE x = c
    BY <1>1, <2>1, <2>2, <2>3
  <2>4. CASE x # c
    <3>1. ASSUME NEW y \in Callbacks \ {x}, cb'[y].pc # "idle", cb'[y].id = cb'[x].id
          PROVE  cb'[x].id \in contested'
      BY <1>1, <2>1, <2>4, <3>1 DEF CredentialInv, ContestsAreSeen
    <3>2. \A n \in Attempts : Asking(n)' /\ relays'[n].id = cb'[x].id => cb'[x].id \in contested'
      BY <1>1, <2>2, <2>4 DEF CredentialInv, ContestsAreSeen
    <3> QED BY <3>1, <3>2
  <2> QED BY <2>3, <2>4
<1>7. WriterHolds'
  BY <1>1 DEF CredentialInv, WriterHolds
<1> QED BY <1>2, <1>3, <1>4, <1>5, <1>6, <1>7, CheckRests DEF CredentialInv

(* A callback arrives for the slot, or frees it.                            *)
LEMMA ArriveStands ==
  ASSUME CredentialInv, NEW c \in Callbacks, Arrive(c) \/ GiveUp(c)
  PROVE  CredentialInv'
<1>1. /\ UNCHANGED <<change, relays, wire, landed, writes, check, perms, live, edits, started, spent>>
      /\ attempt.n # 0 /\ cb[c].pc = "idle" /\ contested' = Contested(attempt.id, SharedSlot) /\ attempt' \in {attempt, NoAttempt}
  BY DEF Arrive, GiveUp, Usable, counters
<1>2. PICK step \in {"checked", "ending"}, result \in {"none", "failed"} :
        cb' = [cb EXCEPT ![c] = [pc |-> step, n |-> attempt.n, id |-> attempt.id, result |-> result]]
  BY DEF Arrive, GiveUp
<1>3. /\ attempt \in AttemptRecord /\ change \in ChangeRecord /\ attempt.n \in Attempts
      /\ contested \subseteq 0..MaxChanges /\ spent \in [Attempts -> Nat]
  BY <1>1, TypesOfInv, BoundsAssumption DEF AttemptRecord, Attempts
<1>r. PICK new : new = [pc |-> step, n |-> attempt.n, id |-> attempt.id, result |-> result]
  OBVIOUS
<1>4. /\ new \in CallbackRecord /\ new.pc = step /\ new.n = attempt.n /\ new.id = attempt.id
      /\ new.result = result /\ cb' = [cb EXCEPT ![c] = new]
  BY <1>2, <1>3, <1>r DEF AttemptRecord, CallbackRecord
<1>5. new.id \in 1..change.id
  <2>1. attempt.id # 0 /\ attempt.id \in 0..change.id /\ change.id \in Nat
    BY <1>1, <1>3 DEF ChangeRecord, CredentialInv, TypeOK, RecordedAttempt, CallbacksRun
  <2> QED BY <1>4, <2>1
<1>6. attempt' \in AttemptRecord /\ RecordedAttempt' /\ (attempt'.n # 0 => attempt'.id # 0)
  <2>1. CASE attempt' = attempt
    BY <1>1, <1>3, <2>1 DEF CredentialInv, TypeOK, RecordedAttempt, CallbacksRun
  <2>2. CASE attempt' = NoAttempt
    BY <1>1, <1>3, <2>2, NoAttemptFits
  <2> QED BY <1>1, <2>1, <2>2
<1>7. /\ contested \subseteq contested' /\ contested' \subseteq 0..MaxChanges
      /\ \A b \in Callbacks \ {c} : cb[b].pc # "idle" /\ cb[b].id = new.id => new.id \in contested'
      /\ \A n \in Attempts : Asking(n) /\ relays[n].id = new.id => new.id \in contested'
  BY <1>1, <1>3, <1>4 DEF Contested, SharedSlot, CallbackFor, StartFor, AttemptRecord
<1> QED BY <1>1, <1>2, <1>3, <1>4, <1>5, <1>6, <1>7, CallbackStands

(* A callback under way: spending the slot, exchanging, writing, refused.   *)
LEMMA ExchangeStands ==
  ASSUME CredentialInv, NEW c \in Callbacks,
         \/ Spend(c) \/ \E ok \in BOOLEAN : Exchange(c, ok) \/ WriteAnswered(c, ok)
         \/ Begin(c) /\ ~Begins(cb[c].id)
  PROVE  CredentialInv'
<1>1. /\ UNCHANGED <<change, relays, wire, landed, writes, check, perms, live, edits, started, contested>>
      /\ cb[c].pc \in {"checked", "exchanging", "granted", "writing"}
  BY DEF Spend, Exchange, WriteAnswered, Begin, counters
<1>2. /\ cb[c] \in CallbackRecord /\ cb[c].id \in 1..change.id /\ cb[c].n \in Attempts
      /\ spent \in [Attempts -> Nat] /\ attempt \in AttemptRecord /\ contested \subseteq 0..MaxChanges
      /\ change \in ChangeRecord
  BY <1>1, TypesOfInv DEF CredentialInv, CallbacksRun
<1>3. PICK step \in {"exchanging", "granted", "ending"}, result \in {"none", "failed", "applied"} :
        /\ cb' = [cb EXCEPT ![c] = [cb[c] EXCEPT !.pc = step, !.result = result]]
        /\ result = "applied" => cb[c].id \in landed
  <2>1. CASE Spend(c)
    <3>1. cb' = [cb EXCEPT ![c] = [cb[c] EXCEPT !.pc = "exchanging", !.result = cb[c].result]]
      BY <1>2, <2>1, TypesOfInv DEF Spend, CallbackRecord
    <3>2. cb[c].result \in {"none", "failed", "applied"} /\ (cb[c].result = "applied" => cb[c].id \in landed)
      BY <1>2 DEF CallbackRecord, CredentialInv, AppliedIsLanded
    <3> QED BY <3>1, <3>2
  <2>2. CASE \E ok \in BOOLEAN : Exchange(c, ok)
    BY <2>2 DEF Exchange
  <2>3. CASE \E ok \in BOOLEAN : WriteAnswered(c, ok)
    BY <2>3 DEF WriteAnswered, Written
  <2>4. CASE Begin(c) /\ ~Begins(cb[c].id)
    BY <2>4 DEF Begin
  <2> QED BY <2>1, <2>2, <2>3, <2>4
<1>r. PICK new : new = [cb[c] EXCEPT !.pc = step, !.result = result]
  OBVIOUS
<1>4. /\ new \in CallbackRecord /\ new.pc = step /\ new.n = cb[c].n /\ new.id = cb[c].id
      /\ new.result = result /\ cb' = [cb EXCEPT ![c] = new]
  BY <1>2, <1>3, <1>r DEF CallbackRecord
<1>5. attempt' \in AttemptRecord /\ RecordedAttempt' /\ (attempt'.n # 0 => attempt'.id # 0)
  <2>1. CASE attempt' = attempt
    BY <1>1, <1>2, <2>1 DEF CredentialInv, TypeOK, RecordedAttempt, CallbacksRun
  <2>2. CASE attempt' = [n |-> cb[c].n, id |-> cb[c].id, phase |-> "exchanging", late |-> FALSE]
    <3>1. /\ cb[c].n # 0 /\ cb[c].n \in 0..MaxAttempts /\ cb[c].id # 0 /\ cb[c].id \in 0..change.id
          /\ cb[c].id \in 0..MaxChanges
      BY <1>2 DEF Attempts, CallbackRecord
    <3> QED BY <1>1, <2>2, <3>1 DEF AttemptRecord, RecordedAttempt
  <2> QED BY <2>1, <2>2 DEF Spend, Exchange, WriteAnswered, Begin
<1>6. spent' \in [Attempts -> Nat]
  <2>1. spent' = spent \/ spent' = [spent EXCEPT ![cb[c].n] = @ + 1]
    BY DEF Spend, Exchange, WriteAnswered, Begin
  <2> QED BY <1>2, <2>1
<1> QED BY <1>1, <1>2, <1>3, <1>4, <1>5, <1>6, CallbackStands

(* The write is sent once: the change waited for its approval, and from now *)
(* on it applies.                                                           *)
LEMMA BeginStands ==
  ASSUME CredentialInv, NEW c \in Callbacks, Begin(c), Begins(cb[c].id)
  PROVE  CredentialInv'
<1>1. /\ UNCHANGED <<relays, spent, landed, contested, check, perms, live, edits, started>>
      /\ cb[c].pc = "granted" /\ change.id = cb[c].id /\ change.status = "authorization_required"
      /\ change' = [change EXCEPT !.status = "applying"] /\ attempt' = NoAttempt
      /\ wire' = wire \cup {cb[c].id} /\ writes' = [writes EXCEPT ![cb[c].id] = @ + 1]
      /\ cb' = [cb EXCEPT ![c].pc = "writing"]
  BY DEF Begin, Begins, counters
<1>2. /\ cb \in [Callbacks -> CallbackRecord] /\ cb[c].id \in 1..change.id /\ cb[c].n \in Attempts
      /\ change \in ChangeRecord /\ writes \in [Changes -> Nat] /\ cb[c].id \in Changes
      /\ writes[cb[c].id] = 0 /\ ~change.over /\ change.id # 0
  <2>1. cb[c].id \in 1..change.id /\ cb[c].n \in Attempts /\ change \in ChangeRecord
    BY <1>1, TypesOfInv DEF CredentialInv, CallbacksRun
  <2>2. cb[c].id \in Changes /\ change.id # 0
    BY <2>1, BoundsAssumption DEF ChangeRecord, Changes
  <2> QED BY <1>1, <2>1, <2>2, TypesOfInv DEF CredentialInv, NothingSentYet
<1>3. /\ change' \in ChangeRecord /\ change'.id = change.id /\ change'.status = "applying"
      /\ change'.over = change.over
  BY <1>1, <1>2 DEF ChangeRecord, Status
<1>4. /\ cb' \in [Callbacks -> CallbackRecord]
      /\ cb'[c].pc = "writing" /\ cb'[c].id = cb[c].id /\ cb'[c].n = cb[c].n /\ cb'[c].result = cb[c].result
      /\ \A b \in Callbacks : b # c => cb'[b] = cb[b]
  <2>1. cb[c] \in CallbackRecord
    BY <1>2
  <2> QED BY <1>1, <1>2, <2>1 DEF CallbackRecord
<1>5. attempt' \in AttemptRecord /\ RecordedAttempt' /\ attempt'.n = 0
  BY <1>1, <1>3, NoAttemptFits
<1>6. /\ writes' \in [Changes -> Nat] /\ writes'[change.id] = 1
      /\ \A i \in Changes : i # change.id => writes'[i] = writes[i]
  BY <1>1, <1>2
<1>7. MoreTypes'
  BY <1>1, <1>3, <1>4, <1>5, <1>6 DEF CredentialInv, MoreTypes
<1>8. TypeOK'
  <2>1. RecordedChange'
    BY <1>2, <1>3 DEF RecordedChange, ChangeRecord
  <2>2. \A b \in Callbacks :
          cb'[b].pc \in {"idle", "checked", "exchanging", "granted", "writing", "ending"}
    BY <1>4 DEF CallbackRecord
  <2>3. wire' \subseteq Changes
    BY <1>1, <1>2, TypesOfInv
  <2> QED BY <1>1, <1>5, <2>1, <2>2, <2>3 DEF CredentialInv, TypeOK
<1>9. CallbacksRun'
  BY <1>1, <1>2, <1>3, <1>4, <1>5 DEF CredentialInv, CallbacksRun
<1>10. NothingSentYet' /\ OneWriteEach'
  <2>1. change.id \in Nat /\ \A i \in Changes : i > change.id => i # change.id
    BY <1>2 DEF ChangeRecord, Changes
  <2> QED BY <1>3, <1>6, <2>1 DEF CredentialInv, NothingSentYet, OneWriteEach
<1>11. SucceededIsWritten' /\ AppliedIsLanded' /\ ContestsAreSeen'
  BY <1>1, <1>3, <1>4 DEF CredentialInv, SucceededIsWritten, AppliedIsLanded, ContestsAreSeen, Asking
<1>12. WriterHolds'
  BY <1>1, <1>2, <1>3, <1>4 DEF CredentialInv, WriterHolds
<1> QED BY <1>1, <1>7, <1>8, <1>9, <1>10, <1>11, <1>12, CheckRests DEF CredentialInv

(* A callback ends its change, unless the change ended or was replaced.     *)
LEMMA EndStands ==
  ASSUME CredentialInv, NEW c \in Callbacks, End(c)
  PROVE  CredentialInv'
<1>1. /\ UNCHANGED <<relays, spent, wire, landed, writes, contested, check, perms, live, edits, started>>
      /\ cb[c].pc = "ending" /\ attempt' = NoAttempt /\ cb' = [cb EXCEPT ![c] = Idle]
      /\ change' = IF cb[c].result = "applied" THEN Completed(cb[c].id) ELSE Failed(cb[c].id)
  BY DEF End, counters
<1>2. /\ cb \in [Callbacks -> CallbackRecord] /\ change \in ChangeRecord /\ Idle \in CallbackRecord
      /\ Idle.pc = "idle" /\ Idle.result = "none"
  BY TypesOfInv, BoundsAssumption DEF Idle, CallbackRecord
<1>3. /\ change' \in ChangeRecord /\ change'.id = change.id /\ change'.over = change.over
      /\ \/ change' = change
         \/ /\ change.id = cb[c].id /\ change.status \in {"authorization_required", "applying"}
            /\ change'.status \in {"succeeded", "failed"}
            /\ change'.status = "succeeded" => change.id \in landed
  BY <1>1, <1>2 DEF Completed, Failed, ChangeRecord, Status, CredentialInv, AppliedIsLanded
<1>4. /\ cb' \in [Callbacks -> CallbackRecord] /\ cb'[c] = Idle
      /\ \A b \in Callbacks : b # c => cb'[b] = cb[b]
  BY <1>1, <1>2
<1>5. attempt' \in AttemptRecord /\ RecordedAttempt' /\ attempt'.n = 0
  BY <1>1, <1>3, NoAttemptFits
<1>6. MoreTypes'
  BY <1>1, <1>3, <1>4, <1>5 DEF CredentialInv, MoreTypes
<1>7. TypeOK'
  <2>1. RecordedChange'
    BY <1>2, <1>3 DEF CredentialInv, TypeOK, RecordedChange, ChangeRecord
  <2>2. \A b \in Callbacks :
          cb'[b].pc \in {"idle", "checked", "exchanging", "granted", "writing", "ending"}
    BY <1>4 DEF CallbackRecord
  <2> QED BY <1>1, <1>5, <2>1, <2>2 DEF CredentialInv, TypeOK
<1>8. CallbacksRun' /\ NothingSentYet' /\ OneWriteEach'
  BY <1>1, <1>2, <1>3, <1>4, <1>5 DEF CredentialInv, CallbacksRun, NothingSentYet, OneWriteEach
<1>9. SucceededIsWritten' /\ AppliedIsLanded' /\ ContestsAreSeen'
  BY <1>1, <1>2, <1>3, <1>4 DEF CredentialInv, SucceededIsWritten, AppliedIsLanded, ContestsAreSeen, Asking
<1>10. WriterHolds'
  <2> SUFFICES ASSUME NEW b \in Callbacks, cb'[b].pc = "writing", cb'[b].id \notin contested
               PROVE  change'.id = cb'[b].id /\ change'.status = "applying" /\ ~change'.over
    BY <1>1 DEF WriterHolds
  <2>1. b # c /\ cb'[b] = cb[b]
    BY <1>2, <1>4
  <2>2. change.id = cb[b].id /\ change.status = "applying" /\ ~change.over
    BY <2>1 DEF CredentialInv, WriterHolds
  <2>3. cb[b].id # cb[c].id
    BY <1>1, <2>1 DEF CredentialInv, ContestsAreSeen
  <2> QED BY <1>3, <2>1, <2>2, <2>3
<1> QED BY <1>1, <1>6, <1>7, <1>8, <1>9, <1>10, CheckRests DEF CredentialInv

LEMMA RestartStands ==
  ASSUME CredentialInv, Restart
  PROVE  CredentialInv'
<1>1. /\ UNCHANGED <<change, attempt, spent, wire, landed, writes, contested, perms, live, edits, started>>
      /\ cb' = [c \in Callbacks |-> Idle] /\ check' = NoCheck
      /\ relays' = [n \in Attempts |-> IF Asking(n) THEN NoRelay ELSE relays[n]]
  BY DEF Restart, counters
<1>2. /\ Idle \in CallbackRecord /\ Idle.pc = "idle" /\ Idle.result = "none" /\ NoCheck \in CheckRecord
      /\ NoCheck.read = [r \in Permissions |-> -1] /\ NoCheck.word = [r \in Permissions |-> "none"]
      /\ NoCheck.pc = "idle"
  BY BoundsAssumption DEF Idle, CallbackRecord, NoCheck, CheckRecord, Words
<1>r. relays' \in [Attempts -> RelayRecord]
  BY <1>1, TypesOfInv, BoundsAssumption DEF NoRelay, RelayRecord
<1>3. MoreTypes'
  BY <1>1, <1>2, <1>r DEF CredentialInv, MoreTypes
<1>4. TypeOK'
  BY <1>1, <1>2, <1>r DEF CredentialInv, TypeOK, RecordedChange, RecordedAttempt, RelayRecord
<1>5. CallbacksRun' /\ NothingSentYet' /\ OneWriteEach' /\ SucceededIsWritten'
  BY <1>1, <1>2 DEF CredentialInv, CallbacksRun, NothingSentYet, OneWriteEach, SucceededIsWritten
<1>6. AppliedIsLanded' /\ ContestsAreSeen' /\ WriterHolds'
  BY <1>1, <1>2 DEF AppliedIsLanded, ContestsAreSeen, WriterHolds
<1>7. EditsStand' /\ VerifiedIsAble'
  BY <1>1, <1>2 DEF EditsStand, VerifiedIsAble
<1> QED BY <1>3, <1>4, <1>5, <1>6, <1>7 DEF CredentialInv

(* ------------------------------ the theorems ----------------------------- *)

LEMMA InitHolds == Init => CredentialInv
<1> SUFFICES ASSUME Init PROVE CredentialInv
  OBVIOUS
<1>1. /\ Idle \in CallbackRecord /\ Idle.pc = "idle" /\ Idle.result = "none" /\ NoCheck \in CheckRecord
      /\ NoCheck.read = [r \in Permissions |-> -1] /\ NoCheck.word = [r \in Permissions |-> "none"]
      /\ NoCheck.pc = "idle"
      /\ NoChange \in ChangeRecord /\ NoAttempt \in AttemptRecord
  BY BoundsAssumption DEF Idle, CallbackRecord, NoCheck, CheckRecord, Words, NoChange, NoAttempt, ChangeRecord,
                          AttemptRecord, Status
<1>2. /\ change.id = 0 /\ change.status = "none" /\ ~change.over /\ ~change.late
      /\ attempt.n = 0 /\ attempt.id = 0 /\ attempt.phase = "none"
      /\ \A c \in Callbacks : cb[c] = Idle
      /\ check = NoCheck /\ writes = [i \in Changes |-> 0]
  BY DEF Init, NoChange, NoAttempt
<1>3. perms \subseteq Permissions
  BY DEF Init
<1>r. relays \in [Attempts -> RelayRecord]
  BY BoundsAssumption DEF Init, NoRelay, RelayRecord
<1>4. MoreTypes
  BY <1>1, <1>3, <1>r, BoundsAssumption DEF Init, MoreTypes
<1>5. TypeOK
  <2>1. RecordedChange /\ RecordedAttempt
    BY <1>2, BoundsAssumption DEF Init, NoChange, NoAttempt, RecordedChange, RecordedAttempt, Status
  <2>2. live \in [Permissions -> 0 .. MaxEdits] /\ wire \subseteq Changes /\ landed \subseteq Changes
    BY BoundsAssumption DEF Init
  <2> QED BY <1>1, <1>2, <1>r, <2>1, <2>2 DEF TypeOK, RelayRecord
<1>6. CallbacksRun /\ NothingSentYet /\ OneWriteEach /\ SucceededIsWritten
  BY <1>1, <1>2 DEF CallbacksRun, NothingSentYet, OneWriteEach, SucceededIsWritten
<1>7. AppliedIsLanded /\ ContestsAreSeen /\ WriterHolds
  BY <1>1, <1>2 DEF AppliedIsLanded, ContestsAreSeen, WriterHolds
<1>8. EditsStand /\ VerifiedIsAble
  BY <1>1, <1>2 DEF EditsStand, VerifiedIsAble
<1> QED BY <1>4, <1>5, <1>6, <1>7, <1>8 DEF CredentialInv

LEMMA NextHolds == CredentialInv /\ [Next]_vars => CredentialInv'
<1> SUFFICES ASSUME CredentialInv, [Next]_vars PROVE CredentialInv'
  OBVIOUS
<1>1. CASE \E a \in Admins : Prepare(a)
  BY <1>1, PrepareStands
<1>2. CASE Start \/ \E n \in Attempts : Relay(n) \/ Unreached(n)
  BY <1>2, StartStands, RelayStands
<1>3. ASSUME NEW c \in Callbacks, Callback(c) PROVE CredentialInv'
  <2>1. CASE Begin(c)
    BY <2>1, BeginStands, ExchangeStands
  <2> QED BY <1>3, <2>1, ArriveStands, ExchangeStands, EndStands DEF Callback
<1>4. CASE OtherBegin \/ OtherEnd \/ \E i \in Changes : Land(i)
  BY <1>4, OthersStand
<1>5. CASE Restart
  BY <1>5, RestartStands
<1>6. CASE Time
  BY <1>6, TimeStands
<1>7. CASE Checking
  BY <1>7, CheckStands
<1>8. CASE \E r \in Permissions : Edit(r)
  BY <1>8, EditStands
<1>9. CASE UNCHANGED vars
  <2>1. /\ UNCHANGED <<change, attempt, relays, cb, spent, writes, contested, perms, started>>
        /\ UNCHANGED <<check, live, edits, wire, landed>>
    BY <1>9 DEF vars, counters
  <2>2. EditsStand' /\ VerifiedIsAble'
    BY <2>1, CheckRests
  <2> QED BY <2>1, <2>2, TypesOfInv, RecordsRest
<1> QED BY <1>1, <1>2, <1>3, <1>4, <1>5, <1>6, <1>7, <1>8, <1>9 DEF Next

LEMMA InvIsSafe == CredentialInv => CredentialIsSafe
<1> SUFFICES ASSUME CredentialInv PROVE LockCoversWrite
  BY DEF CredentialInv, CredentialIsSafe
<1> QED BY DEF CredentialInv, WriterHolds, LockCoversWrite, Open

(* The safety of a token change (the callback of customer-operation-router.ts *)
(* and openCredentialAction): however many callbacks run at once, one approval *)
(* writes one secret, success is said of a token that reached the Worker, and  *)
(* a write keeps the lock unless a second callback of its change ended it, or  *)
(* a start of it that the relay refused late.                                  *)
THEOREM CredentialSafety == Spec => []CredentialIsSafe
<1>1. Spec => []CredentialInv
  BY InitHolds, NextHolds, PTL DEF Spec
<1> QED BY <1>1, InvIsSafe, PTL

(* The check of the installed token (verifyCredentialPermissions) writes back *)
(* what it read and may interleave with edits: it never overwrites one that    *)
(* was there when it began.                                                    *)
THEOREM ChecksKeepEdits == Spec => CheckKeepsEdits
<1>1. Spec => []CredentialInv
  BY InitHolds, NextHolds, PTL DEF Spec
<1>2. CredentialInv /\ [Next]_vars => [KeepsEdits]_vars
  <2> SUFFICES ASSUME CredentialInv, [Next]_vars,
                      NEW r \in Permissions, check.pc = "running", check'.word[r] # check.word[r],
                      live'[r] # live[r]
               PROVE  check.saw[r] = 0
    BY DEF KeepsEdits
  <2>1. PICK k \in Permissions : CheckWrite(k)
    BY DEF Next, vars, counters, Prepare, Start, Relay, Unreached, Callback, Arrive, GiveUp, Spend, Begin, End, Exchange, WriteAnswered,
           Land, OtherBegin, OtherEnd, Restart, Time, ApprovalExpires, WindowPasses, AttemptExpires,
           Checking, CheckStart, CheckEnd, CheckRead, CheckFails, Edit
  <2>2. check.read[k] # -1 /\ check.word[k] = "none" /\ (k # r => live'[r] = live[r])
    BY <2>1, TypesOfInv DEF CheckWrite
  <2> QED BY <2>2 DEF CredentialInv, EditsStand
<1>3. Spec => [][KeepsEdits]_vars
  BY <1>1, <1>2, PTL DEF Spec
<1> QED BY <1>3 DEF CheckKeepsEdits

-----------------------------------------------------------------------------
(* The agent entrance.                                                      *)

EntranceStatus == {"off", "attach_armed", "attached", "detach_armed"}
EntranceOps ==
  [kind : {"none", "attach", "detach"},
   step : {"none", "look", "arm", "send", "read", "forget"}, domain : {None, "ours"}]
EntranceCounts == [faults : Nat, restarts : Nat, windows : Nat, changes : Nat]
(* A prefix is a label and a place among the sources of that label.         *)
Prefixes ==
  {EntranceLabel[s] : s \in EntranceSources} \X
  (Nat \cup {1 + Entrance!Cardinality(S) : S \in SUBSET EntranceSources})
EntranceTools == [name : Prefixes, source : EntranceSources, server : {1, 2}]
Underway == {"admitted", "listing", "calling", "streaming"}
EntranceRequestRecords ==
  [step : {"idle", "begun", "refused", "done"} \cup Underway, kind : {"list", "call"},
   name : Prefixes \cup {None}, tools : SUBSET EntranceTools, target : EntranceTools \cup {None},
   end : {None, "answered", "complete", "failed", "too_large", "cancelled"}, pulling : BOOLEAN,
   afterOff : BOOLEAN]

EntranceFits ==
  /\ entrance \in [status : EntranceStatus, domain : {None, "ours"}]
  /\ domain \in {None, "ours", "foreign"} /\ op \in EntranceOps
  /\ agent \in [on : BOOLEAN, pending : BOOLEAN \cup {None}]
  /\ source \in [EntranceSources -> [status : {"none", "draft", "installed"}, server : {1, 2},
                                     reached : BOOLEAN]]
  /\ rate \in [count : 0..EntranceLimit, admitted : Nat]
  /\ req \in [EntranceRequests -> EntranceRequestRecords] /\ lines \in [EntranceRequests -> Nat]
  /\ used \in EntranceCounts

(* The domain is sent for only after that was recorded, and the record is   *)
(* given up only where nothing of it stands.                                *)
DomainStands ==
  /\ domain = "ours" => entrance.status # "off"
  /\ op.step = "send" /\ op.kind = "attach" => entrance.status = "attach_armed"
  /\ op.step = "forget" => domain # "ours"
  /\ entrance.status = "attached" => entrance.domain # None

(* What the windows of lost counts admitted, and what is counted.           *)
RateStands == rate.admitted <= EntranceLimit * used.restarts + rate.count

(* What a prefix says of its source.                                        *)
Names(name, s) ==
  /\ s \in EntranceSources /\ name[1] = EntranceLabel[s]
  /\ ~Entrance!SharesLabel(s) => name = <<EntranceLabel[s], 1 + Entrance!Cardinality({})>>
NamesStand == \A k \in known : Names(k.name, k.source)

(* A request, and its audit lines.                                          *)
RequestStands(now, n) ==
  /\ now.afterOff => Entrance!SwitchedOff /\ now.step \notin Underway
  /\ \A t \in now.tools : Names(t.name, t.source)
  /\ now.target # None => now.target \in now.tools /\ now.target.name = now.name
  /\ now.step \in {"idle", "begun", "admitted"} => now.target = None
  /\ now.step = "refused" => n \in {0, 1} /\ (n = 1 => \A t \in now.tools : t.name # now.name)
  /\ now.step \in {"idle", "begun", "admitted", "listing", "calling"} => n = 0 /\ now.end = None
  /\ now.step = "streaming" => n = IF now.end = None THEN 0 ELSE 1
  /\ now.step \in {"calling", "streaming"} => now.kind = "call"
  /\ now.step = "listing" => now.kind = "list"
  /\ now.step = "done" => n = IF now.kind = "call" THEN 1 ELSE 0
AgentRequestsStand == \A r \in EntranceRequests : RequestStands(req[r], lines[r])

EntranceInv == EntranceFits /\ DomainStands /\ RateStands /\ NamesStand /\ AgentRequestsStand

\* The properties follow.
LEMMA EntranceInvIsSafe == EntranceInv => Entrance!Safe
<1> SUFFICES ASSUME EntranceInv PROVE Entrance!Safe
  OBVIOUS
<1>1. EntranceFits /\ DomainStands /\ RateStands /\ NamesStand /\ AgentRequestsStand
  BY DEF EntranceInv
<1>2. Entrance!TypeOK
  BY <1>1 DEF EntranceFits, Entrance!TypeOK, EntranceStatus, DomainStands
<1>3. Entrance!DomainIsRecorded
  BY <1>1 DEF Entrance!DomainIsRecorded, DomainStands
<1>4. Entrance!OffIsImmediate
  BY <1>1 DEF Entrance!OffIsImmediate, AgentRequestsStand, RequestStands, Underway
<1>5. Entrance!NameKeepsSource
  <2> SUFFICES ASSUME NEW r \in EntranceRequests, NEW k \in known,
                      ~Entrance!SharesLabel(k.source), k.name = req[r].name
               PROVE  /\ req[r].target # None => req[r].target.source = k.source
                      /\ req[r].step = "refused" /\ lines[r] > 0
                         => \A t \in req[r].tools : t.source # k.source
    BY DEF Entrance!NameKeepsSource, Entrance!MeansSource
  <2>1. Names(k.name, k.source) /\ RequestStands(req[r], lines[r]) /\ lines[r] \in Nat
    BY <1>1 DEF NamesStand, AgentRequestsStand, EntranceFits
  <2>2. ASSUME req[r].target # None
        PROVE  req[r].target.source = k.source
    BY <2>1, <2>2 DEF RequestStands, Names, Entrance!SharesLabel
  <2>3. ASSUME req[r].step = "refused", lines[r] > 0, NEW t \in req[r].tools
        PROVE  t.source # k.source
    BY <2>1, <2>3 DEF RequestStands, Names
  <2> QED BY <2>2, <2>3
<1>6. Entrance!OneLinePerCall
  <2> SUFFICES ASSUME NEW r \in EntranceRequests
               PROVE  /\ lines[r] <= 1
                      /\ req[r].step = "done" /\ req[r].kind = "call" => lines[r] = 1
    BY DEF Entrance!OneLinePerCall
  <2>1. RequestStands(req[r], lines[r]) /\ req[r] \in EntranceRequestRecords
    BY <1>1 DEF AgentRequestsStand, EntranceFits
  <2>2. req[r].step \in {"idle", "begun", "refused", "done"} \cup Underway
    BY <2>1 DEF EntranceRequestRecords
  <2> QED BY <2>1, <2>2 DEF RequestStands, Underway
<1>7. Entrance!RateHolds
  BY <1>1, EntranceNumbers DEF EntranceFits, EntranceCounts, RateStands, Entrance!RateHolds
<1> QED BY <1>2, <1>3, <1>4, <1>5, <1>6, <1>7 DEF Entrance!Safe

\* Nothing was attached, asked or admitted.
LEMMA EntranceInitHolds == Entrance!Init => EntranceInv
<1> SUFFICES ASSUME Entrance!Init PROVE EntranceInv
  OBVIOUS
<1>1. /\ entrance = [status |-> "off", domain |-> None] /\ domain = None
      /\ op = [kind |-> "none", step |-> "none", domain |-> None]
      /\ rate = [count |-> 0, admitted |-> 0] /\ known = {}
      /\ lines = [r \in EntranceRequests |-> 0]
      /\ used = [faults |-> 0, restarts |-> 0, windows |-> 0, changes |-> 0]
  BY DEF Entrance!Init, Entrance!Off, Entrance!NoOp
<1>2. agent \in [on : BOOLEAN, pending : BOOLEAN \cup {None}]
  BY DEF Entrance!Init
<1>3. source \in [EntranceSources -> [status : {"none", "draft", "installed"}, server : {1, 2},
                                      reached : BOOLEAN]]
  <2>1. /\ [status |-> "installed", server |-> 1, reached |-> TRUE]
             \in [status : {"none", "draft", "installed"}, server : {1, 2}, reached : BOOLEAN]
        /\ [status |-> "none", server |-> 1, reached |-> FALSE]
             \in [status : {"none", "draft", "installed"}, server : {1, 2}, reached : BOOLEAN]
    OBVIOUS
  <2> QED BY <2>1 DEF Entrance!Init
<1>4. req \in [EntranceRequests -> EntranceRequestRecords]
  BY DEF Entrance!Init, Entrance!IdleRequest, EntranceRequestRecords
<1>5. EntranceFits
  BY <1>1, <1>2, <1>3, <1>4, EntranceNumbers
  DEF EntranceFits, EntranceStatus, EntranceOps, EntranceCounts
<1>6. DomainStands
  BY <1>1, EntranceNone DEF DomainStands
<1>7. RateStands /\ NamesStand
  BY <1>1, EntranceNumbers DEF RateStands, NamesStand
<1>8. AgentRequestsStand
  BY <1>1 DEF Entrance!Init, AgentRequestsStand, RequestStands, Entrance!IdleRequest, Underway
<1> QED BY <1>5, <1>6, <1>7, <1>8 DEF EntranceInv

\* An administrator's operation, step by step, and the hostname under it.
LEMMA EntranceOperationHolds ==
  ASSUME EntranceInv,
         Entrance!Attach \/ Entrance!Detach \/ Entrance!Operation \/ Entrance!Elsewhere
  PROVE  EntranceInv'
<1>1. EntranceFits /\ DomainStands /\ RateStands /\ NamesStand /\ AgentRequestsStand
  BY DEF EntranceInv
<1>2. UNCHANGED <<agent, source, rate, req, known, lines>>
  BY DEF Entrance!Attach, Entrance!Detach, Entrance!Start, Entrance!Operation, Entrance!Look,
    Entrance!Arm, Entrance!SendAttach, Entrance!ReadAttached, Entrance!SendDetach, Entrance!Forget,
    Entrance!Elsewhere
<1>3. /\ entrance' \in [status : EntranceStatus, domain : {None, "ours"}]
      /\ domain' \in {None, "ours", "foreign"} /\ op' \in EntranceOps
      /\ used' \in EntranceCounts /\ used'.restarts = used.restarts /\ DomainStands'
  <2>1. /\ entrance \in [status : EntranceStatus, domain : {None, "ours"}]
        /\ domain \in {None, "ours", "foreign"} /\ op \in EntranceOps /\ used \in EntranceCounts
    BY <1>1 DEF EntranceFits
  <2>2. Entrance!NoOp \in EntranceOps /\ Entrance!NoOp.step = "none"
    BY DEF Entrance!NoOp, EntranceOps
  <2>3. CASE Entrance!Attach \/ Entrance!Detach
    <3>1. PICK kind \in {"attach", "detach"} : Entrance!Start(kind)
      BY <2>3 DEF Entrance!Attach, Entrance!Detach
    <3> QED BY <1>1, <2>1, <3>1 DEF Entrance!Start, EntranceOps, DomainStands
  <2>4. CASE Entrance!Look
    BY <2>4, <2>1, <2>2, <1>1, EntranceNone DEF Entrance!Look, EntranceOps, Entrance!Leave,
      DomainStands
  <2>5. CASE Entrance!Arm
    BY <1>1, <2>1, <2>5 DEF Entrance!Arm, EntranceOps, EntranceStatus, DomainStands
  <2>6. CASE Entrance!SendAttach
    <3>1. entrance.status = "attach_armed" /\ op.kind = "attach"
      BY <1>1, <2>6 DEF Entrance!SendAttach, DomainStands
    <3>2. CASE /\ domain' = "ours" /\ op' = [op EXCEPT !.domain = "ours", !.step = "read"]
               /\ UNCHANGED <<entrance, used>>
      BY <2>1, <3>2, <3>1 DEF EntranceOps, DomainStands
    <3>3. CASE /\ domain = "foreign" /\ entrance' = Entrance!Off /\ op' = Entrance!NoOp
               /\ UNCHANGED <<domain, used>>
      BY <2>1, <2>2, <3>3 DEF DomainStands, Entrance!Off, EntranceStatus
    <3>4. CASE /\ used' = [used EXCEPT !.faults = @ + 1] /\ op' = Entrance!NoOp
               /\ domain' \in {domain, IF domain = None THEN "ours" ELSE domain}
               /\ UNCHANGED entrance
      BY <2>1, <2>2, <3>1, <3>4 DEF DomainStands, EntranceCounts
    <3> QED BY <2>6, <3>2, <3>3, <3>4 DEF Entrance!SendAttach, Entrance!Leave
  <2>7. CASE Entrance!ReadAttached
    BY <1>1, <2>1, <2>2, <2>7, EntranceNone
    DEF Entrance!ReadAttached, Entrance!Leave, EntranceStatus, DomainStands
  <2>8. CASE Entrance!SendDetach
    BY <1>1, <2>1, <2>2, <2>8, EntranceNone
    DEF Entrance!SendDetach, Entrance!Leave, EntranceOps, EntranceCounts, DomainStands
  <2>9. CASE Entrance!Forget
    BY <1>1, <2>1, <2>2, <2>9 DEF Entrance!Forget, Entrance!Leave, Entrance!Off, EntranceStatus,
      DomainStands
  <2>10. CASE Entrance!Elsewhere
    BY <1>1, <2>1, <2>10, EntranceNone DEF Entrance!Elsewhere, EntranceCounts, DomainStands
  <2> QED BY <2>3, <2>4, <2>5, <2>6, <2>7, <2>8, <2>9, <2>10 DEF Entrance!Operation
<1>4. EntranceFits'
  BY <1>1, <1>2, <1>3 DEF EntranceFits
<1>5. RateStands' /\ NamesStand'
  BY <1>1, <1>2, <1>3 DEF RateStands, NamesStand, Names, Entrance!SharesLabel
<1>6. AgentRequestsStand'
  BY <1>1, <1>2
  DEF AgentRequestsStand, RequestStands, Names, Entrance!SharesLabel, Entrance!SwitchedOff
<1> QED BY <1>3, <1>4, <1>5, <1>6 DEF EntranceInv

\* Team saves, and other lifecycles.
LEMMA EntranceTeamHolds ==
  ASSUME EntranceInv,
         \/ Entrance!OtherLifecycle \/ Entrance!SaveTeam \/ Entrance!TeamSaved
         \/ Entrance!TeamCancelled
  PROVE  EntranceInv'
<1>1. EntranceFits /\ DomainStands /\ RateStands /\ NamesStand /\ AgentRequestsStand
  BY DEF EntranceInv
<1>2. UNCHANGED <<entrance, domain, op, source, rate, known, lines>>
  BY DEF Entrance!OtherLifecycle, Entrance!SaveTeam, Entrance!TeamSaved, Entrance!TeamCancelled
<1>3. used' \in EntranceCounts /\ used'.restarts = used.restarts
  BY <1>1 DEF Entrance!OtherLifecycle, Entrance!SaveTeam, Entrance!TeamSaved,
    Entrance!TeamCancelled, Entrance!Change, EntranceFits, EntranceCounts
<1>4. agent' \in [on : BOOLEAN, pending : BOOLEAN \cup {None}]
  BY <1>1 DEF EntranceFits, Entrance!OtherLifecycle, Entrance!SaveTeam, Entrance!TeamSaved,
    Entrance!TeamCancelled
<1>5. Entrance!SwitchedOff' \in BOOLEAN
  BY DEF Entrance!SwitchedOff
<1>6. (UNCHANGED <<agent, req>>) \/ Entrance!Remember
  BY DEF Entrance!OtherLifecycle, Entrance!SaveTeam, Entrance!TeamSaved, Entrance!TeamCancelled
<1>7. /\ req' \in [EntranceRequests -> EntranceRequestRecords]
      /\ \A r \in EntranceRequests :
           /\ \A f \in {"step", "kind", "name", "tools", "target", "end"} : req'[r][f] = req[r][f]
           /\ req'[r].afterOff => Entrance!SwitchedOff' /\ req'[r].step \notin Underway
  <2>1. CASE UNCHANGED <<agent, req>>
    BY <1>1, <2>1 DEF EntranceFits, AgentRequestsStand, RequestStands, Entrance!SwitchedOff
  <2>2. CASE Entrance!Remember
    <3>1. PICK off \in BOOLEAN : off = Entrance!SwitchedOff'
      BY <1>5
    <3>2. req' = [r \in EntranceRequests |-> [req[r] EXCEPT
                    !.afterOff = off /\ (req[r].afterOff \/ req[r].step = "idle")]]
      BY <2>2, <3>1 DEF Entrance!Remember
    <3>3. req \in [EntranceRequests -> EntranceRequestRecords]
      BY <1>1 DEF EntranceFits
    <3>4. \A r \in EntranceRequests : req[r].afterOff => req[r].step \notin Underway
      BY <1>1 DEF AgentRequestsStand, RequestStands
    <3>5. ASSUME NEW r \in EntranceRequests
          PROVE  /\ req'[r] \in EntranceRequestRecords
                 /\ \A f \in {"step", "kind", "name", "tools", "target", "end"} :
                      req'[r][f] = req[r][f]
                 /\ req'[r].afterOff => off /\ req'[r].step \notin Underway
      <4>1. PICK late \in BOOLEAN :
              late = (off /\ (req[r].afterOff \/ req[r].step = "idle"))
        OBVIOUS
      <4>2. req'[r] = [req[r] EXCEPT !.afterOff = late]
        BY <3>2, <4>1
      <4>3. req[r] \in EntranceRequestRecords
        BY <3>3
      <4>4. /\ req'[r] \in EntranceRequestRecords /\ req'[r].afterOff = late
            /\ req'[r].step = req[r].step /\ req'[r].kind = req[r].kind
            /\ req'[r].name = req[r].name /\ req'[r].tools = req[r].tools
            /\ req'[r].target = req[r].target /\ req'[r].end = req[r].end
        BY <4>2, <4>3 DEF EntranceRequestRecords
      <4> QED BY <3>4, <4>1, <4>4 DEF Underway
    <3>6. DOMAIN req' = EntranceRequests /\ req' = [r \in EntranceRequests |-> req'[r]]
      BY <3>2
    <3> QED BY <3>1, <3>5, <3>6
  <2> QED BY <1>6, <2>1, <2>2
<1>8. EntranceFits'
  BY <1>1, <1>2, <1>3, <1>4, <1>7 DEF EntranceFits
<1>9. DomainStands' /\ RateStands' /\ NamesStand'
  BY <1>1, <1>2, <1>3 DEF DomainStands, RateStands, NamesStand, Names, Entrance!SharesLabel
<1>10. AgentRequestsStand'
  BY <1>1, <1>2, <1>7
  DEF AgentRequestsStand, RequestStands, Names, Entrance!SharesLabel
<1> QED BY <1>8, <1>9, <1>10 DEF EntranceInv

\* Sources come and move.
LEMMA EntranceSourceHolds ==
  ASSUME EntranceInv, Entrance!ChangeSource
  PROVE  EntranceInv'
<1>1. EntranceFits /\ DomainStands /\ RateStands /\ NamesStand /\ AgentRequestsStand
  BY DEF EntranceInv
<1>2. UNCHANGED <<entrance, domain, op, agent, rate, req, known, lines>>
  BY DEF Entrance!ChangeSource
<1>3. used' \in EntranceCounts /\ used'.restarts = used.restarts
  BY <1>1 DEF Entrance!ChangeSource, Entrance!Change, EntranceFits, EntranceCounts
<1>4. source' \in [EntranceSources -> [status : {"none", "draft", "installed"}, server : {1, 2},
                                       reached : BOOLEAN]]
  <2>1. source \in [EntranceSources -> [status : {"none", "draft", "installed"}, server : {1, 2},
                                        reached : BOOLEAN]]
    BY <1>1 DEF EntranceFits
  <2>2. PICK s \in EntranceSources :
          \/ source' = [source EXCEPT ![s].status = "draft"]
          \/ source' = [source EXCEPT ![s].status = "installed", ![s].reached = TRUE]
          \/ source' = [source EXCEPT ![s].server = 3 - @]
    BY DEF Entrance!ChangeSource
  <2> QED BY <2>1, <2>2
<1>5. EntranceFits'
  BY <1>1, <1>2, <1>3, <1>4 DEF EntranceFits
<1>6. DomainStands' /\ RateStands' /\ NamesStand'
  BY <1>1, <1>2, <1>3 DEF DomainStands, RateStands, NamesStand, Names, Entrance!SharesLabel
<1>7. AgentRequestsStand'
  BY <1>1, <1>2
  DEF AgentRequestsStand, RequestStands, Names, Entrance!SharesLabel, Entrance!SwitchedOff
<1> QED BY <1>5, <1>6, <1>7 DEF EntranceInv

\* A window passes, or the object that counts restarts.
LEMMA EntranceWindowHolds ==
  ASSUME EntranceInv, Entrance!NewWindow \/ Entrance!Restart
  PROVE  EntranceInv'
<1>1. EntranceFits /\ DomainStands /\ RateStands /\ NamesStand /\ AgentRequestsStand
  BY DEF EntranceInv
<1>2. UNCHANGED <<entrance, domain, agent, source, req, known, lines>>
  BY DEF Entrance!NewWindow, Entrance!Restart
<1>3. used \in EntranceCounts /\ rate \in [count : 0..EntranceLimit, admitted : Nat]
  BY <1>1 DEF EntranceFits
<1>4. op' = op \/ op' = Entrance!NoOp
  BY DEF Entrance!NewWindow, Entrance!Restart
<1>5. op' \in EntranceOps /\ (op'.step \in {"send", "forget"} => op' = op)
  BY <1>1, <1>4 DEF Entrance!NoOp, EntranceOps, EntranceFits
<1>6. /\ used' \in EntranceCounts /\ rate' \in [count : 0..EntranceLimit, admitted : Nat]
      /\ RateStands'
  BY <1>3, EntranceNumbers, <1>1 DEF Entrance!NewWindow, EntranceCounts, RateStands,
    Entrance!Restart
<1>7. EntranceFits'
  BY <1>1, <1>2, <1>5, <1>6 DEF EntranceFits
<1>8. DomainStands' /\ NamesStand'
  BY <1>1, <1>2, <1>5 DEF DomainStands, NamesStand, Names, Entrance!SharesLabel
<1>9. AgentRequestsStand'
  BY <1>1, <1>2
  DEF AgentRequestsStand, RequestStands, Names, Entrance!SharesLabel, Entrance!SwitchedOff
<1> QED BY <1>6, <1>7, <1>8, <1>9 DEF EntranceInv

\* What is offered has its names.
LEMMA OfferedIsNamed ==
  ASSUME EntranceFits
  PROVE  Entrance!Offered \subseteq EntranceTools /\ \A t \in Entrance!Offered : Names(t.name, t.source)
<1> SUFFICES ASSUME NEW s \in EntranceSources
             PROVE  LET t == [name |-> Entrance!Slug(s), source |-> s, server |-> source[s].server]
                    IN  t \in EntranceTools /\ Names(t.name, t.source)
  BY DEF Entrance!Offered
<1> DEFINE S == {t \in Entrance!Present : EntranceLabel[t] = EntranceLabel[s] /\ t < s}
<1>1. Entrance!Slug(s) = <<EntranceLabel[s], 1 + Entrance!Cardinality(S)>>
  BY DEF Entrance!Slug
<1>2. S \in SUBSET EntranceSources
  BY DEF Entrance!Present
<1>3. source[s].server \in {1, 2}
  BY DEF EntranceFits
<1>4. ASSUME ~Entrance!SharesLabel(s)
      PROVE  S = {}
  <2> SUFFICES ASSUME NEW t \in S PROVE FALSE
    OBVIOUS
  <2>1. t \in EntranceSources /\ EntranceLabel[t] = EntranceLabel[s] /\ t < s
    BY <1>2
  <2>2. t # s
    BY <2>1, EntranceNumbers
  <2> QED BY <1>4, <2>1, <2>2 DEF Entrance!SharesLabel
<1> HIDE DEF S
<1>5. Entrance!Slug(s) \in Prefixes
  BY <1>1, <1>2 DEF Prefixes
<1> QED BY <1>1, <1>3, <1>4, <1>5 DEF EntranceTools, Names

\* One request moves, and stands as it moved.
LEMMA RequestMoves ==
  ASSUME EntranceInv, NEW r \in EntranceRequests, NEW now \in EntranceRequestRecords, NEW n \in Nat,
         req' = [req EXCEPT ![r] = now], lines' = [lines EXCEPT ![r] = n], RequestStands(now, n),
         UNCHANGED <<entrance, domain, op, agent, source, used>>,
         rate' \in [count : 0..EntranceLimit, admitted : Nat], RateStands', NamesStand'
  PROVE  EntranceInv'
BY DEF EntranceInv, EntranceFits, DomainStands, AgentRequestsStand, RequestStands, Names,
  Entrance!SharesLabel, Entrance!SwitchedOff

\* An admission.
LEMMA AdmitHolds ==
  ASSUME EntranceInv, NEW r \in EntranceRequests, Entrance!Admit(r)
  PROVE  EntranceInv'
<1>1. EntranceFits /\ RateStands /\ NamesStand /\ AgentRequestsStand
  BY DEF EntranceInv
<1>2. /\ req[r].step = "begun" /\ req[r] \in EntranceRequestRecords
      /\ RequestStands(req[r], lines[r]) /\ lines[r] = 0 /\ lines \in [EntranceRequests -> Nat]
      /\ UNCHANGED <<entrance, domain, op, agent, source, known, lines, used>>
  BY <1>1 DEF Entrance!Admit, EntranceFits, AgentRequestsStand, RequestStands
<1>3. NamesStand' /\ lines' = [lines EXCEPT ![r] = 0]
  BY <1>1, <1>2 DEF NamesStand, Names, Entrance!SharesLabel
<1>4. CASE Entrance!Admitted
  <2> DEFINE now == [req[r] EXCEPT !.step = "admitted", !.tools = Entrance!Offered]
  <2>1. ~req[r].afterOff
    BY <1>4, <1>2 DEF Entrance!Admitted, Entrance!Enabled, Entrance!SwitchedOff, RequestStands
  <2>2. Entrance!Offered \subseteq EntranceTools
    BY <1>1, OfferedIsNamed
  <2>3. /\ now \in EntranceRequestRecords /\ now.step = "admitted" /\ now.tools = Entrance!Offered
        /\ now.afterOff = req[r].afterOff /\ now.target = req[r].target /\ now.end = req[r].end
    BY <1>2, <2>2 DEF EntranceRequestRecords, Underway
  <2>4. req[r].target = None \/ req[r].target # None
    OBVIOUS
  <2>5. req' = [req EXCEPT ![r] = now]
    BY <1>4 DEF Entrance!Admit
  <2>6. /\ rate' = [count |-> rate.count + 1, admitted |-> rate.admitted + 1]
        /\ rate.count < EntranceLimit
    BY <1>4 DEF Entrance!Admit, Entrance!Admitted, Entrance!WithinRate
  <2>7. rate' \in [count : 0..EntranceLimit, admitted : Nat] /\ RateStands'
    BY <1>1, EntranceNumbers, <1>2, <2>6 DEF EntranceFits, EntranceCounts, RateStands
  <2>8. RequestStands(now, 0)
    BY <1>1, <1>2, <2>1, <2>3, OfferedIsNamed DEF RequestStands
  <2> QED BY <1>2, <1>3, <2>3, <2>5, <2>7, <2>8, RequestMoves
<1>5. CASE ~Entrance!Admitted
  <2> DEFINE now == [req[r] EXCEPT !.step = "refused"]
  <2>1. now \in EntranceRequestRecords /\ RequestStands(now, 0)
    BY <1>2 DEF EntranceRequestRecords, RequestStands, Underway
  <2>2. req' = [req EXCEPT ![r] = now] /\ rate' = rate
    BY <1>5 DEF Entrance!Admit
  <2>3. rate' \in [count : 0..EntranceLimit, admitted : Nat] /\ RateStands'
    BY <1>1, <1>2, <2>2 DEF EntranceFits, RateStands
  <2> HIDE DEF now
  <2> QED BY <1>2, <1>3, <2>1, <2>2, <2>3, RequestMoves
<1> QED BY <1>4, <1>5

\* The other steps of a request leave the rate.
LEMMA AnswerHolds ==
  ASSUME EntranceInv, NEW r \in EntranceRequests,
         \/ Entrance!Begin(r) \/ Entrance!Forward(r) \/ Entrance!ListAnswered(r)
         \/ Entrance!CallEnds(r) \/ Entrance!CallStreams(r) \/ Entrance!Pull(r)
         \/ Entrance!Pulled(r) \/ Entrance!Cancel(r) \/ Entrance!Again(r)
  PROVE  EntranceInv'
<1>1. EntranceFits /\ RateStands /\ NamesStand /\ AgentRequestsStand
  BY DEF EntranceInv
<1>2. UNCHANGED <<entrance, domain, op, agent, source, rate, used>>
  BY DEF Entrance!Begin, Entrance!Forward, Entrance!ListAnswered, Entrance!CallEnds,
    Entrance!CallStreams, Entrance!Pull, Entrance!Pulled, Entrance!Cancel, Entrance!Again
<1>3. rate' \in [count : 0..EntranceLimit, admitted : Nat] /\ RateStands'
  BY <1>1, <1>2 DEF EntranceFits, RateStands
<1>4. /\ req \in [EntranceRequests -> EntranceRequestRecords] /\ lines \in [EntranceRequests -> Nat]
      /\ req[r] \in EntranceRequestRecords /\ lines[r] \in Nat /\ RequestStands(req[r], lines[r])
  BY <1>1 DEF EntranceFits, AgentRequestsStand
<1>5. NamesStand'
  BY <1>1, <1>4 DEF NamesStand, Names, Entrance!SharesLabel, Entrance!ListAnswered, RequestStands,
    Entrance!Begin, Entrance!Forward, Entrance!CallEnds, Entrance!CallStreams, Entrance!Pull,
    Entrance!Pulled, Entrance!Cancel, Entrance!Again
<1>6. CASE Entrance!Begin(r)
  <2>1. req[r].step = "idle" /\ lines[r] = 0
    BY <1>4, <1>6 DEF Entrance!Begin, RequestStands
  <2>2. lines' = [lines EXCEPT ![r] = 0]
    BY <1>4, <1>6, <2>1 DEF Entrance!Begin
  <2>3. CASE req' = [req EXCEPT ![r].step = "begun", ![r].kind = "list"]
    <3> DEFINE now == [req[r] EXCEPT !.step = "begun", !.kind = "list"]
    <3>1. now \in EntranceRequestRecords /\ RequestStands(now, 0)
      BY <1>4, <2>1 DEF EntranceRequestRecords, RequestStands, Underway
    <3>2. req' = [req EXCEPT ![r] = now]
      BY <2>3
    <3> HIDE DEF now
    <3> QED BY <1>2, <1>3, <1>5, <2>2, <3>1, <3>2, RequestMoves
  <2>4. ASSUME NEW name \in Entrance!Names,
               req' = [req EXCEPT ![r].step = "begun", ![r].kind = "call", ![r].name = name]
        PROVE  EntranceInv'
    <3> DEFINE now == [req[r] EXCEPT !.step = "begun", !.kind = "call", !.name = name]
    <3>1. name \in Prefixes
      BY DEF Entrance!Names, Prefixes
    <3>2. now \in EntranceRequestRecords /\ RequestStands(now, 0)
      BY <1>4, <2>1, <3>1 DEF EntranceRequestRecords, RequestStands, Underway
    <3>3. req' = [req EXCEPT ![r] = now]
      BY <2>4
    <3> HIDE DEF now
    <3> QED BY <1>2, <1>3, <1>5, <2>2, <3>2, <3>3, RequestMoves
  <2> QED BY <1>6, <2>3, <2>4 DEF Entrance!Begin
<1>7. CASE Entrance!Forward(r)
  <2>1. req[r].step = "admitted" /\ lines[r] = 0 /\ req[r].target = None /\ req[r].end = None
    BY <1>4, <1>7 DEF Entrance!Forward, RequestStands
  <2>2. CASE req[r].kind = "list" /\ req' = [req EXCEPT ![r].step = "listing"] /\ lines' = lines
    <3> DEFINE now == [req[r] EXCEPT !.step = "listing"]
    <3>1. now \in EntranceRequestRecords /\ RequestStands(now, 0)
      BY <1>4, <2>1, <2>2 DEF EntranceRequestRecords, RequestStands, Underway
    <3>2. req' = [req EXCEPT ![r] = now] /\ lines' = [lines EXCEPT ![r] = 0]
      BY <1>4, <2>1, <2>2
    <3> HIDE DEF now
    <3> QED BY <1>2, <1>3, <1>5, <3>1, <3>2, RequestMoves
  <2>3. ASSUME NEW t \in req[r].tools, req[r].kind = "call", t.name = req[r].name,
               req' = [req EXCEPT ![r].step = "calling", ![r].target = t], lines' = lines
        PROVE  EntranceInv'
    <3> DEFINE now == [req[r] EXCEPT !.step = "calling", !.target = t]
    <3>1. t \in EntranceTools
      BY <1>4 DEF EntranceRequestRecords
    <3>2. now \in EntranceRequestRecords /\ RequestStands(now, 0)
      BY <1>4, <2>1, <2>3, <3>1 DEF EntranceRequestRecords, RequestStands, Underway
    <3>3. req' = [req EXCEPT ![r] = now] /\ lines' = [lines EXCEPT ![r] = 0]
      BY <1>4, <2>1, <2>3
    <3> HIDE DEF now
    <3> QED BY <1>2, <1>3, <1>5, <3>2, <3>3, RequestMoves
  <2>4. CASE /\ req[r].kind = "call" /\ \A t \in req[r].tools : t.name # req[r].name
             /\ req' = [req EXCEPT ![r].step = "refused"] /\ Entrance!Line(r)
    <3> DEFINE now == [req[r] EXCEPT !.step = "refused"]
    <3>1. now \in EntranceRequestRecords /\ RequestStands(now, 1)
      BY <1>4, <2>1, <2>4 DEF EntranceRequestRecords, RequestStands, Underway
    <3>2. req' = [req EXCEPT ![r] = now] /\ lines' = [lines EXCEPT ![r] = 1]
      BY <1>4, <2>1, <2>4 DEF Entrance!Line
    <3> HIDE DEF now
    <3> QED BY <1>2, <1>3, <1>5, <3>1, <3>2, RequestMoves
  <2> QED BY <1>7, <2>2, <2>3, <2>4 DEF Entrance!Forward
<1>8. CASE Entrance!ListAnswered(r)
  <2> DEFINE now == [req[r] EXCEPT !.step = "done"]
  <2>1. now \in EntranceRequestRecords /\ RequestStands(now, 0)
    BY <1>4, <1>8 DEF Entrance!ListAnswered, EntranceRequestRecords, RequestStands, Underway
  <2>2. req' = [req EXCEPT ![r] = now] /\ lines' = [lines EXCEPT ![r] = 0]
    BY <1>4, <1>8 DEF Entrance!ListAnswered, RequestStands
  <2> HIDE DEF now
  <2> QED BY <1>2, <1>3, <1>5, <2>1, <2>2, RequestMoves
<1>9. CASE Entrance!CallEnds(r)
  <2> DEFINE now == [req[r] EXCEPT !.step = "done", !.end = "answered"]
  <2>1. now \in EntranceRequestRecords /\ RequestStands(now, 1)
    BY <1>4, <1>9 DEF Entrance!CallEnds, EntranceRequestRecords, RequestStands, Underway
  <2>2. req' = [req EXCEPT ![r] = now]
    BY <1>9 DEF Entrance!CallEnds
  <2>3. lines' = [lines EXCEPT ![r] = 1]
    BY <1>4, <1>9 DEF Entrance!CallEnds, RequestStands, Entrance!Line
  <2> HIDE DEF now
  <2> QED BY <1>2, <1>3, <1>5, <2>1, <2>2, <2>3, RequestMoves
<1>10. CASE Entrance!CallStreams(r)
  <2> DEFINE now == [req[r] EXCEPT !.step = "streaming"]
  <2>1. now \in EntranceRequestRecords /\ RequestStands(now, 0)
    BY <1>4, <1>10 DEF Entrance!CallStreams, EntranceRequestRecords, RequestStands, Underway
  <2>2. req' = [req EXCEPT ![r] = now] /\ lines' = [lines EXCEPT ![r] = 0]
    BY <1>4, <1>10 DEF Entrance!CallStreams, RequestStands
  <2> HIDE DEF now
  <2> QED BY <1>2, <1>3, <1>5, <2>1, <2>2, RequestMoves
\* A pull begins, or one that brought a chunk ends.
<1>11. ASSUME req[r].step = "streaming", NEW ph \in BOOLEAN,
              req' = [req EXCEPT ![r].pulling = ph], lines' = lines
       PROVE  EntranceInv'
  <2> DEFINE now == [req[r] EXCEPT !.pulling = ph]
  <2>1. now \in EntranceRequestRecords /\ RequestStands(now, lines[r])
    BY <1>4, <1>11 DEF EntranceRequestRecords, RequestStands, Underway
  <2>2. req' = [req EXCEPT ![r] = now] /\ lines' = [lines EXCEPT ![r] = lines[r]]
    BY <1>4, <1>11
  <2> HIDE DEF now
  <2> QED BY <1>2, <1>3, <1>4, <1>5, <2>1, <2>2, RequestMoves
<1>12. CASE Entrance!Pull(r)
  BY <1>11, <1>12 DEF Entrance!Pull
<1>13. CASE Entrance!Pulled(r)
  <2>1. ASSUME NEW end \in {"complete", "failed", "too_large"}, Entrance!Finish(r),
               req' = [req EXCEPT ![r].pulling = FALSE, ![r].step = "done",
                        ![r].end = IF @ = None THEN end ELSE @]
        PROVE  EntranceInv'
    <3> DEFINE last == IF req[r].end = None THEN end ELSE req[r].end
               now    == [req[r] EXCEPT !.pulling = FALSE, !.step = "done", !.end = last]
    <3>1. req[r].step = "streaming"
      BY <1>13 DEF Entrance!Pulled
    <3>2. last \in {None, "answered", "complete", "failed", "too_large", "cancelled"}
      BY <1>4 DEF EntranceRequestRecords
    <3>3. now \in EntranceRequestRecords /\ RequestStands(now, 1)
      BY <1>4, <3>1, <3>2 DEF EntranceRequestRecords, RequestStands, Underway
    <3>4. req' = [req EXCEPT ![r] = now]
      BY <2>1
    <3>5. lines' = [lines EXCEPT ![r] = 1]
      BY <1>4, <2>1, <3>1 DEF Entrance!Finish, Entrance!Line, RequestStands
    <3> HIDE DEF now
    <3> QED BY <1>2, <1>3, <1>5, <3>3, <3>4, <3>5, RequestMoves
  <2> QED BY <1>11, <1>13, <2>1 DEF Entrance!Pulled
<1>14. CASE Entrance!Cancel(r)
  <2> DEFINE step == IF req[r].pulling THEN req[r].step ELSE "done"
             now    == [req[r] EXCEPT !.end = "cancelled", !.step = step]
  <2>1. req[r].step = "streaming" /\ req[r].end = None
    BY <1>14 DEF Entrance!Cancel
  <2>2. now \in EntranceRequestRecords /\ RequestStands(now, 1)
    BY <1>4, <2>1, EntranceNone DEF EntranceRequestRecords, RequestStands, Underway
  <2>3. req' = [req EXCEPT ![r] = now]
    BY <1>14 DEF Entrance!Cancel
  <2>4. lines' = [lines EXCEPT ![r] = 1]
    BY <1>4, <1>14, <2>1 DEF Entrance!Cancel, Entrance!Finish, Entrance!Line, RequestStands
  <2> HIDE DEF now
  <2> QED BY <1>2, <1>3, <1>5, <2>2, <2>3, <2>4, RequestMoves
<1>15. CASE Entrance!Again(r)
  <2>1. PICK off \in BOOLEAN : off = Entrance!SwitchedOff
    BY DEF Entrance!SwitchedOff
  <2> DEFINE now == [Entrance!IdleRequest EXCEPT !.afterOff = off]
  <2>2. now \in EntranceRequestRecords /\ RequestStands(now, 0)
    BY <2>1 DEF Entrance!IdleRequest, EntranceRequestRecords, RequestStands, Underway
  <2>3. req' = [req EXCEPT ![r] = now] /\ lines' = [lines EXCEPT ![r] = 0]
    BY <1>15, <2>1 DEF Entrance!Again
  <2> HIDE DEF now
  <2> QED BY <1>2, <1>3, <1>5, <2>2, <2>3, RequestMoves
<1> QED BY <1>6, <1>7, <1>8, <1>9, <1>10, <1>12, <1>13, <1>14, <1>15

\* Every step keeps the invariant.
LEMMA EntranceStepHolds == EntranceInv /\ [Entrance!Next]_(Entrance!vars) => EntranceInv'
<1> SUFFICES ASSUME EntranceInv, [Entrance!Next]_(Entrance!vars)
             PROVE  EntranceInv'
  OBVIOUS
<1>1. CASE Entrance!Attach \/ Entrance!Detach \/ Entrance!Operation \/ Entrance!Elsewhere
  BY <1>1, EntranceOperationHolds
<1>2. CASE \/ Entrance!OtherLifecycle \/ Entrance!SaveTeam \/ Entrance!TeamSaved
           \/ Entrance!TeamCancelled
  BY <1>2, EntranceTeamHolds
<1>3. CASE Entrance!ChangeSource
  BY <1>3, EntranceSourceHolds
<1>4. CASE Entrance!NewWindow \/ Entrance!Restart
  BY <1>4, EntranceWindowHolds
<1>5. ASSUME NEW r \in EntranceRequests,
             Entrance!Begin(r) \/ Entrance!Answer(r) \/ Entrance!Cancel(r) \/ Entrance!Again(r)
      PROVE  EntranceInv'
  BY <1>5, AdmitHolds, AnswerHolds DEF Entrance!Answer
<1>6. CASE UNCHANGED Entrance!vars
  BY <1>6 DEF Entrance!vars, EntranceInv, EntranceFits, DomainStands, RateStands, NamesStand, Names,
    AgentRequestsStand, RequestStands, Entrance!SharesLabel, Entrance!SwitchedOff
<1> QED BY <1>1, <1>2, <1>3, <1>4, <1>5, <1>6 DEF Entrance!Next

(* The agent entrance, for every number of sources, requests, faults, windows  *)
(* and changes: a domain this gateway attached stays recorded through lost     *)
(* answers and restarts; no request that began after the agent was switched    *)
(* off reaches the Portal; a name leads to the source it was given for, where  *)
(* that source shares its label with no other; every call writes one audit     *)
(* line; and the limit holds but for the counts that a restart lost.           *)
THEOREM EntranceSafety == Entrance!Spec => []Entrance!Safe
<1>1. Entrance!Spec => []EntranceInv
  BY EntranceInitHolds, EntranceStepHolds, PTL DEF Entrance!Spec
<1> QED BY <1>1, EntranceInvIsSafe, PTL

(* The same of the run: a behaviour of the part is one of the entrance.       *)
THEOREM EntranceInRun == AnySpec => []EntranceIsSafe
<1> DEFINE Inv == part = "entrance" => EntranceInv
<1>1. AnyInit => Inv
  BY EntranceInitHolds
  DEF AnyInit, TeamInit, DashboardInit, ChangeInit, CheckInit, EntranceInit
<1>2. Inv /\ [AnyNext]_allVars => Inv'
  <2> SUFFICES ASSUME Inv, [AnyNext]_allVars, part' = "entrance" PROVE EntranceInv'
    OBVIOUS
  <2>1. CASE EntranceNext
    BY <2>1, EntranceStepHolds DEF EntranceNext
  <2>2. CASE UNCHANGED allVars
    BY <2>2, EntranceStepHolds DEF allVars, Entrance!vars
  <2>3. CASE TeamNext \/ DashboardNext \/ ChangeNext \/ CheckNext
    BY <2>3 DEF TeamNext, DashboardNext, ChangeNext, CheckNext
  <2> QED BY <2>1, <2>2, <2>3 DEF AnyNext
<1>3. Inv => EntranceIsSafe
  BY EntranceInvIsSafe DEF EntranceIsSafe
<1> QED BY <1>1, <1>2, <1>3, PTL DEF AnySpec

-----------------------------------------------------------------------------
(* Team saves.                                                              *)

TeamPcs ==
  {"idle", "claim", "verify", "groups", "rebind", "portal", "source", "portal_agents",
   "source_agents", "delete", "final", "complete"}
TeamStates ==
  {"none", "authorization_required", "applying", "recovery_required", "succeeded", "failed"}
TeamPhases == {"none", "send_armed", "verified"}
TeamActions ==
  [st : TeamStates, want : Team!Requests, journal : [Team!Entries -> TeamPhases],
   gid : Team!Ids \cup {0}, aids : [Team!Apps -> Team!Ids \cup {0}]]
TeamFits ==
  /\ saved \in Team!Teams /\ act \in TeamActions
  /\ teamLive \in [Team!Apps -> Team!Selectors]
  /\ groups \subseteq Team!Groups /\ agents \in [Team!Apps -> SUBSET Team!AgentPolicies]
  /\ teamEdits \in Nat

Phase(e)   == act.journal[e]
Creating   == saved.gid = 0 /\ act.want.team # {}
Deleting   == saved.gid # 0 /\ act.want.team = {}
Updating   == saved.gid # 0 /\ act.want.team # {} /\ saved.team # act.want.team
AgentsMove == saved.tokens # act.want.tokens

(* What an attempt is through with, and what it found.                      *)
PastAgents   == {"source_agents", "delete", "final", "complete"}
PastPolicies == PastAgents \cup {"portal_agents"}
PastGroups   == PastPolicies \cup {"rebind", "portal", "source"}
AttemptStands ==
  /\ pc \in TeamPcs
  /\ ~Team!Unfinished => act = [Team!NoAction EXCEPT !.st = act.st] /\ pc = "idle"
  /\ pc \in PastGroups /\ (Creating \/ Updating) => Phase("group") = "verified"
  /\ pc \in PastAgents /\ AgentsMove => Phase("portal_agents") = "verified"
  /\ pc \in PastAgents \ {"source_agents"} /\ AgentsMove => Phase("source_agents") = "verified"
  /\ pc \in {"final", "complete"} /\ Deleting => Phase("group") = "verified"
  /\ pc = "complete" /\ act.want.team = {} => \A app \in Team!Apps : teamLive[app].groups = {}
  /\ teamEdits = 0 =>
       /\ pc \in PastPolicies \cup {"source"} => teamLive["portal"] = Team!After("portal")
       /\ pc \in PastPolicies => teamLive["source"] = Team!After("source")

(* The group: one at most, the saved one or the one being created.          *)
GroupStands ==
  /\ saved.team = {} <=> saved.gid = 0
  /\ \A g, h \in groups : g = h
  /\ \A g \in groups : g.members # {} /\ (saved.gid # 0 => g.id = saved.gid)
  /\ saved.gid # 0 /\ groups = {} => Deleting /\ Phase("group") # "none"
  /\ saved.gid = 0 /\ groups # {} => Creating /\ Phase("group") # "none"
  /\ Creating /\ Phase("group") = "verified" =>
       act.gid # 0 /\ groups # {} /\ \A g \in groups : g.id = act.gid
  /\ ~(Creating /\ Phase("group") = "verified") => act.gid = 0
  /\ Deleting /\ Phase("group") = "verified" => groups = {}
  /\ Phase("group") # "none" => Creating \/ Updating \/ Deleting
  /\ teamEdits = 0 => \A g \in groups :
       /\ Phase("group") = "none" => g.members = saved.team
       /\ Phase("group") = "send_armed" => g.members \in {saved.team, act.want.team}
       /\ Phase("group") = "verified" => g.members = act.want.team

(* Policies name the saved or the new group, and are as the journal says.   *)
PolicyIs(app) ==
  /\ Phase(app) = "none" => teamLive[app] = Team!Before(app)
  /\ Phase(app) = "send_armed" => teamLive[app] \in {Team!Before(app), Team!After(app)}
  /\ Phase(app) = "verified" => teamLive[app] = Team!After(app)
  /\ Phase(app) # "none" =>
       app \in Team!PolicyChanges /\ (Creating \/ Updating => Phase("group") = "verified")
PoliciesStand ==
  /\ \A app \in Team!Apps : teamLive[app].groups \subseteq {saved.gid, act.gid} \ {0}
  /\ teamEdits = 0 => \A app \in Team!Apps : PolicyIs(app)
  /\ teamEdits = 0 /\ Deleting /\ Phase("group") # "none" =>
       \A app \in Team!Apps : teamLive[app] = Team!After(app)

(* An application's agent policy: one at most, known, as saved or wanted.    *)
AgentStand(app) ==
  /\ saved.tokens = 0 <=> saved.aids[app] = 0
  /\ \A a, b \in agents[app] : a = b
  /\ saved.aids[app] # 0 =>
       act.aids[app] \in {0, saved.aids[app]} /\ \A a \in agents[app] : a.id = saved.aids[app]
  /\ \A a \in agents[app] :
       a.tokens = saved.tokens \/ (Team!AgentPhase(app) # "none" /\ a.tokens = act.want.tokens)
  /\ Team!AgentPhase(app) # "none" => AgentsMove
  /\ Team!AgentPhase(app) = "none" => act.aids[app] = 0
  /\ Team!AgentPhase(app) = "verified" =>
       /\ \A a \in agents[app] : a.tokens = act.want.tokens /\ a.id = Team!AgentId(app)
       /\ act.want.tokens # 0 => act.aids[app] # 0
  /\ teamEdits = 0 =>
       /\ Team!AgentPhase(app) = "none" => (agents[app] = {} <=> saved.tokens = 0)
       /\ Team!AgentPhase(app) = "verified" => (agents[app] = {} <=> act.want.tokens = 0)
AgentsStand == \A app \in Team!Apps : AgentStand(app)

TeamInv == TeamFits /\ AttemptStands /\ GroupStands /\ PoliciesStand /\ AgentsStand

\* The properties follow.
LEMMA TeamInvIsSafe == TeamInv => Team!Safe
<1> SUFFICES ASSUME TeamInv PROVE Team!Safe
  OBVIOUS
<1>1. TeamFits /\ AttemptStands /\ GroupStands /\ PoliciesStand /\ AgentsStand
  BY DEF TeamInv
<1>2. Team!TypeOK
  BY <1>1 DEF TeamFits, TeamActions, TeamStates, TeamPhases, Team!TypeOK
<1>3. \A S : (\A x, y \in S : x = y) => Team!Cardinality(S) <= 1
  <2>1. \A S : Team!Cardinality(S) = Cardinality(S)
    BY DEF Team!Cardinality, Cardinality, Team!IsFiniteSet, IsFiniteSet
  <2> SUFFICES ASSUME NEW S, \A x, y \in S : x = y PROVE Cardinality(S) <= 1
    BY <2>1
  <2>2. CASE S = {}
    BY <2>2, FS_EmptySet
  <2>3. ASSUME NEW x \in S PROVE Cardinality(S) <= 1
    <3>1. S = {x}
      BY <2>3
    <3> QED BY <3>1, FS_Singleton
  <2> QED BY <2>2, <2>3
<1>4. Team!NothingForgotten
  BY <1>1, <1>3 DEF GroupStands, AttemptStands, Creating, Team!NoAction, Team!NoRequest, Phase,
    AgentsStand, TeamFits, AgentStand, Team!AgentPolicies, Team!Clean, Team!AgentPhase,
    Team!AgentKey, Team!Entries, Team!Apps, Team!NothingForgotten
<1>5. Team!NamesExistingGroups
  <2> SUFFICES ASSUME teamEdits = 0, NEW app \in Team!Apps, NEW i \in teamLive[app].groups
               PROVE  \E g \in groups : g.id = i
    BY DEF Team!NamesExistingGroups
  <2>1. PolicyIs(app) /\ Phase(app) \in TeamPhases
    BY <1>1 DEF PoliciesStand, TeamFits, TeamActions, Phase, Team!Apps, Team!Entries
  <2>2. teamLive[app] \in {Team!Before(app), Team!After(app)}
    BY <2>1 DEF PolicyIs, TeamPhases
  <2>3. i # 0
    BY <1>1 DEF PoliciesStand
  <2>4. CASE teamLive[app] = Team!Before(app)
    <3>1. i = saved.gid /\ saved.gid # 0
      BY <2>3, <2>4 DEF Team!Before, Team!PolicyOf
    <3>2. groups # {}
      <4>1. CASE Deleting /\ Phase("group") # "none"
        BY <1>1, <4>1 DEF PoliciesStand, Deleting, Team!After, Team!PolicyOf
      <4> QED BY <1>1, <3>1, <4>1 DEF GroupStands
    <3> QED BY <1>1, <3>1, <3>2 DEF GroupStands
  <2>5. CASE teamLive[app] = Team!After(app)
    BY <2>5, <1>1, <2>3 DEF Team!After, Team!PolicyOf, GroupStands, Deleting, Team!Gid, Creating
  <2> QED BY <2>2, <2>4, <2>5
<1>6. Team!SettledIsLive
  <2> SUFFICES ASSUME ~Team!Unfinished, teamEdits = 0
               PROVE  /\ \A app \in Team!Apps : teamLive[app] = Team!Before(app)
                      /\ {g.members : g \in groups} = {saved.team} \ {{}}
                      /\ \A app \in Team!Apps :
                           {a.tokens : a \in agents[app]} = {saved.tokens} \ {0}
    BY DEF Team!SettledIsLive
  <2>1. /\ act.journal = Team!Clean /\ act.want.team = {}
    BY <1>1 DEF AttemptStands, Team!NoAction, Team!NoRequest
  <2>2. \A e \in Team!Entries : Phase(e) = "none"
    BY <2>1 DEF Team!Clean, Phase
  <2>3. \A app \in Team!Apps : teamLive[app] = Team!Before(app)
    BY <1>1, <2>2 DEF PoliciesStand, PolicyIs, Team!Apps, Team!Entries
  <2>4. {g.members : g \in groups} = {saved.team} \ {{}}
    BY <2>2, <1>1, <2>1 DEF Team!Entries, GroupStands, Creating
  <2>5. ASSUME NEW app \in Team!Apps
        PROVE  {a.tokens : a \in agents[app]} = {saved.tokens} \ {0}
    BY <1>1, <2>2 DEF AgentsStand, Team!AgentPhase, Phase, Team!AgentKey, Team!Entries, Team!Apps,
      AgentStand
  <2> QED BY <2>3, <2>4, <2>5
<1>7. Team!NoEarlyAccess
  <2> SUFFICES ASSUME teamEdits = 0, ~(Team!Unfinished /\ saved.grant /\ ~act.want.grant),
                      NEW x \in Team!Reach
               PROVE  x \in Team!Granted(saved) \/ (Team!Unfinished /\ x \in Team!Granted(act.want))
    BY DEF Team!NoEarlyAccess
  <2>1. PolicyIs("source") /\ Phase("source") \in TeamPhases /\ Phase("group") \in TeamPhases
    BY <1>1 DEF PoliciesStand, TeamFits, TeamActions, Phase, Team!Apps, Team!Entries
  <2>2. ~Team!Unfinished => Phase("source") = "none" /\ Phase("group") = "none"
    BY <1>1 DEF AttemptStands, Team!NoAction, Team!Clean, Team!Entries, Team!Apps, Phase
  <2>3. saved.grant \in BOOLEAN /\ act.want.grant \in BOOLEAN
    BY <1>1 DEF TeamFits, TeamActions, Team!Teams, Team!Requests
  <2>4. \/ x \in teamLive["source"].direct
        \/ \E h \in groups : h.id \in teamLive["source"].groups /\ x \in h.members
    BY DEF Team!Reach
  <2>5. \A h \in groups : h.members = saved.team \/ (h.members = act.want.team /\ Phase("group") # "none")
    BY <1>1, <2>1 DEF GroupStands, TeamPhases
  <2>6. CASE teamLive["source"] = Team!Before("source")
    BY <2>6, <2>2, <2>3, <2>5, <2>4 DEF Team!Before, Team!PolicyOf, Team!Granted
  <2>7. CASE teamLive["source"] = Team!After("source") /\ teamLive["source"] # Team!Before("source")
    <3>1. /\ Phase("source") # "none"
          /\ Creating \/ Updating => Phase("group") = "verified"
      BY <2>1, <2>7 DEF PolicyIs
    <3>2. Team!Unfinished
      BY <2>2, <3>1
    <3>3. teamLive["source"].direct = act.want.direct
      BY <2>7 DEF Team!After, Team!PolicyOf
    <3>4. \A i \in teamLive["source"].groups : act.want.grant /\ act.want.team # {}
      BY <2>7 DEF Team!After, Team!PolicyOf
    <3>5. CASE x \in act.want.direct
      BY <3>2, <3>5 DEF Team!Granted
    <3>6. CASE \E h \in groups : h.id \in teamLive["source"].groups /\ x \in h.members
      <4>1. PICK h \in groups : h.id \in teamLive["source"].groups /\ x \in h.members
        BY <3>6
      <4>2. act.want.grant /\ act.want.team # {}
        BY <3>4, <4>1
      <4>3. h.members = act.want.team
        BY <1>1, <3>1, <4>2, <2>5 DEF GroupStands, Creating, Updating
      <4> QED BY <3>2, <4>1, <4>2, <4>3 DEF Team!Granted
    <3> QED BY <2>4, <3>3, <3>5, <3>6
  <2> QED BY <2>1, <2>6, <2>7 DEF PolicyIs, TeamPhases
<1> QED BY <1>2, <1>4, <1>5, <1>6, <1>7 DEF Team!Safe

\* Nothing was saved.
LEMMA TeamInitHolds == Team!Init => TeamInv
<1> SUFFICES ASSUME Team!Init PROVE TeamInv
  OBVIOUS
<1>1. /\ saved.direct = {} /\ saved.team = {} /\ saved.grant = FALSE /\ saved.tokens = 0
      /\ saved.gid = 0 /\ \A app \in Team!Apps : saved.aids[app] = 0
      /\ saved \in Team!Teams
  BY DEF Team!Init, Team!Record, Team!NoRequest, Team!NoAids, Team!Teams, Team!Tokens
<1>2. /\ act \in TeamActions /\ act = [Team!NoAction EXCEPT !.st = act.st] /\ ~Team!Unfinished
      /\ act.gid = 0 /\ act.want = Team!NoRequest /\ \A app \in Team!Apps : act.aids[app] = 0
      /\ \A e \in Team!Entries : Phase(e) = "none"
  <2>1. act = Team!NoAction
    BY DEF Team!Init
  <2>2. Team!NoRequest \in Team!Requests
    BY DEF Team!NoRequest, Team!Requests, Team!Tokens
  <2> QED
    BY <2>1, <2>2 DEF Team!NoAction, TeamActions, Team!NoAids, Team!Clean, TeamPhases, TeamStates,
      Team!Unfinished, Phase
<1>3. /\ teamLive = [app \in Team!Apps |-> [direct |-> {}, groups |-> {}]]
      /\ groups = {} /\ agents = [app \in Team!Apps |-> {}] /\ pc = "idle" /\ teamEdits = 0
  BY DEF Team!Init
<1>4. TeamFits
  BY <1>1, <1>2, <1>3 DEF TeamFits, Team!Selectors
<1>5. AttemptStands
  BY <1>2, <1>3 DEF AttemptStands, TeamPcs, PastGroups, PastPolicies, PastAgents
<1>6. GroupStands
  BY <1>1, <1>2, <1>3 DEF GroupStands, Creating, Updating, Deleting, Team!NoRequest, Team!Entries
<1>7. PoliciesStand
  BY <1>1, <1>2, <1>3 DEF Team!Entries, PoliciesStand, PolicyIs, Team!Before, Team!PolicyOf,
    Deleting
<1>8. AgentsStand
  BY <1>1, <1>2, <1>3 DEF Team!AgentKey, Team!Entries, Team!Apps, AgentsStand, AgentStand,
    Team!AgentPhase, Phase, Team!NoRequest
<1> QED BY <1>4, <1>5, <1>6, <1>7, <1>8 DEF TeamInv

-----------------------------------------------------------------------------
(* What a step leaves as it was.                                            *)

\* The plan and its journal.
KeptAct == act'.want = act.want /\ act'.journal = act.journal /\ act'.gid = act.gid /\ act'.aids = act.aids

LEMMA GroupKept ==
  ASSUME GroupStands, UNCHANGED <<saved, groups, teamEdits>>, act'.want = act.want,
         act'.gid = act.gid, act'.journal["group"] = act.journal["group"]
  PROVE  GroupStands'
  BY DEF GroupStands, Phase, Creating, Updating, Deleting

LEMMA PoliciesKept ==
  ASSUME PoliciesStand, UNCHANGED <<saved, teamLive, teamEdits>>, act'.want = act.want,
         act'.gid = act.gid, act'.journal["group"] = act.journal["group"],
         \A app \in Team!Apps : act'.journal[app] = act.journal[app]
  PROVE  PoliciesStand'
BY DEF Team!After, Team!Before, Team!PolicyOf, Team!Gid, Team!PolicyChanges, PoliciesStand,
  PolicyIs, Phase, Creating, Updating, Deleting

LEMMA AgentKept ==
  ASSUME NEW app \in Team!Apps, AgentStand(app), UNCHANGED <<saved, teamEdits>>,
         agents'[app] = agents[app], act'.want = act.want, act'.aids[app] = act.aids[app],
         act'.journal[Team!AgentKey(app)] = act.journal[Team!AgentKey(app)]
  PROVE  AgentStand(app)'
  BY DEF AgentStand, Team!AgentPhase, Team!AgentId, AgentsMove, Team!AgentKey

\* An attempt that is over relies on nothing.
LEMMA IdleStands ==
  ASSUME pc' = "idle", ~Team!Unfinished' => act' = [Team!NoAction EXCEPT !.st = act'.st]
  PROVE  AttemptStands'
  BY DEF AttemptStands, TeamPcs, PastGroups, PastPolicies, PastAgents

\* A change of the status alone.
LEMMA StatusMoves ==
  ASSUME NEW a \in TeamActions, NEW s \in TeamStates
  PROVE  /\ [a EXCEPT !.st = s] \in TeamActions /\ [a EXCEPT !.st = s].st = s
         /\ [a EXCEPT !.st = s].want = a.want /\ [a EXCEPT !.st = s].journal = a.journal
         /\ [a EXCEPT !.st = s].gid = a.gid /\ [a EXCEPT !.st = s].aids = a.aids
  BY DEF TeamActions

\* An entry of the journal.
LEMMA EntryMoves ==
  ASSUME NEW a \in TeamActions, NEW e \in Team!Entries, NEW ph \in TeamPhases
  PROVE  LET b == Team!Enter(a, e, ph) IN
         /\ b \in TeamActions /\ b.st = a.st /\ b.want = a.want /\ b.gid = a.gid /\ b.aids = a.aids
         /\ b.journal[e] = ph /\ \A f \in Team!Entries \ {e} : b.journal[f] = a.journal[f]
  BY DEF Team!Enter, TeamActions

\* An attempt that ends without an answer keeps what it entered.
LEMMA FaultEnds ==
  ASSUME NEW a \in TeamActions, a.st = act.st, Team!Unfinished, Team!Fault(a)
  PROVE  /\ act' \in TeamActions /\ act'.want = a.want /\ act'.journal = a.journal
         /\ act'.gid = a.gid /\ act'.aids = a.aids /\ teamEdits' = teamEdits
         /\ AttemptStands'
<1>1. /\ act' \in {[a EXCEPT !.st = "recovery_required"], a} /\ pc' = "idle"
      /\ teamEdits' = teamEdits
  BY DEF Team!Fault
<1>2. /\ act' \in TeamActions /\ act'.want = a.want /\ act'.journal = a.journal
      /\ act'.gid = a.gid /\ act'.aids = a.aids /\ act'.st \in {"recovery_required", a.st}
  <2>1. CASE act' = [a EXCEPT !.st = "recovery_required"]
    BY <2>1, StatusMoves DEF TeamStates
  <2>2. CASE act' = a
    BY <2>2
  <2> QED BY <1>1, <2>1, <2>2
<1>3. Team!Unfinished'
  BY <1>2 DEF Team!Unfinished
<1> QED BY <1>1, <1>2, <1>3, IdleStands

\* A step that touches nothing but the status and the place of the attempt.
LEMMA DataKept ==
  ASSUME TeamInv, act' \in TeamActions, KeptAct,
         UNCHANGED <<saved, teamLive, groups, agents, teamEdits>>
  PROVE  TeamFits' /\ GroupStands' /\ PoliciesStand' /\ AgentsStand'
BY GroupKept, PoliciesKept, AgentKept DEF TeamInv, TeamFits, KeptAct, AgentsStand

LEMMA FailHolds ==
  ASSUME TeamInv, Team!Fail \/ Team!Refused \/ Team!Fault(act), Team!Unfinished,
         UNCHANGED <<saved, teamLive, groups, agents, teamEdits>>
  PROVE  TeamInv'
<1>1. act \in TeamActions
  BY DEF TeamInv, TeamFits
<1>2. CASE Team!Fault(act)
  BY <1>1, <1>2, FaultEnds, DataKept DEF KeptAct, TeamInv
<1>3. CASE Team!Fail \/ Team!Refused
  <2>1. act' = [act EXCEPT !.st = "recovery_required"] /\ pc' = "idle"
    BY <1>3 DEF Team!Fail, Team!Refused
  <2>2. act' \in TeamActions /\ KeptAct /\ act'.st = "recovery_required"
    BY <1>1, <2>1, StatusMoves DEF KeptAct, TeamStates
  <2>3. AttemptStands'
    BY <2>1, <2>2, IdleStands DEF Team!Unfinished
  <2> QED BY <2>2, <2>3, DataKept DEF TeamInv
<1> QED BY <1>2, <1>3

\* What the attempt relies on, where only its place changes.
LEMMA PlaceMoves ==
  ASSUME TeamInv, act' \in TeamActions, KeptAct, Team!Unfinished',
         UNCHANGED <<saved, teamLive, groups, agents, teamEdits>>,
         pc' \in {"claim", "verify", "groups"} \/ AttemptStands'
  PROVE  TeamInv'
BY DataKept DEF AttemptStands, TeamPcs, PastGroups, PastPolicies, PastAgents, TeamInv

-----------------------------------------------------------------------------
(* The steps.                                                               *)

LEMMA SaveHolds == ASSUME TeamInv, NEW r \in Team!Requests, Team!Save(r) PROVE TeamInv'
<1>1. TeamFits /\ AttemptStands /\ GroupStands /\ PoliciesStand /\ AgentsStand
  BY DEF TeamInv
<1>2. UNCHANGED <<saved, teamLive, groups, agents, teamEdits>> /\ pc' = "claim"
  BY DEF Team!Save, Team!provider, Team!bounds
<1>3. CASE Team!Unfinished
  BY <1>3, <1>1, StatusMoves, <1>2, PlaceMoves DEF Team!Save, KeptAct, TeamStates, TeamFits,
    Team!Unfinished
<1>4. CASE ~Team!Unfinished
  <2>1. act' = [Team!NoAction EXCEPT !.st = "authorization_required", !.want = r]
    BY <1>4 DEF Team!Save
  <2>2. /\ act' \in TeamActions /\ act'.st = "authorization_required" /\ act'.want = r
        /\ act'.gid = 0 /\ act'.journal = Team!Clean /\ \A app \in Team!Apps : act'.aids[app] = 0
    BY <2>1 DEF Team!NoAction, TeamActions, TeamStates, TeamPhases, Team!Clean, Team!NoAids
  <2>3. /\ act.gid = 0 /\ act.journal = Team!Clean /\ act.want.team = {}
        /\ \A app \in Team!Apps : act.aids[app] = 0
    BY <1>1, <1>4 DEF AttemptStands, Team!NoAction, Team!NoRequest, Team!NoAids
  <2>4. /\ \A e \in Team!Entries : act'.journal[e] = "none" /\ act.journal[e] = "none"
        /\ \A app \in Team!Apps : app \in Team!Entries /\ Team!AgentKey(app) \in Team!Entries
        /\ "group" \in Team!Entries
    BY <2>2, <2>3 DEF Team!Clean, Team!Entries, Team!AgentKey, Team!Apps
  <2>5. TeamFits'
    BY <1>1, <1>2, <2>2 DEF TeamFits
  <2>6. AttemptStands'
    BY <1>2, <2>2 DEF AttemptStands, TeamPcs, PastGroups, PastPolicies, PastAgents,
      Team!Unfinished
  <2>7. GroupStands'
    BY <1>1, <1>2, <2>2, <2>3, <2>4 DEF GroupStands, Phase, Creating, Updating, Deleting
  <2>8. PoliciesStand'
    BY <1>2, <1>1, <2>2, <2>3, <2>4 DEF Team!Before, Team!PolicyOf, PoliciesStand, PolicyIs, Phase
  <2>9. AgentsStand'
    BY <1>1, <1>2, <2>2, <2>3, <2>4 DEF AgentsStand, AgentStand, Team!AgentPhase, AgentsMove
  <2> QED BY <2>5, <2>6, <2>7, <2>8, <2>9 DEF TeamInv
<1> QED BY <1>3, <1>4

\* A save that wrote nothing is taken back.
LEMMA CancelHolds == ASSUME TeamInv, Team!Cancel PROVE TeamInv'
<1>1. TeamFits /\ AttemptStands /\ GroupStands /\ PoliciesStand /\ AgentsStand
  BY DEF TeamInv
<1>2. /\ UNCHANGED <<saved, teamLive, groups, agents, teamEdits>> /\ pc' = "idle"
      /\ act' = [Team!NoAction EXCEPT !.st = "failed"] /\ act.journal = Team!Clean
  BY DEF Team!Cancel, Team!provider, Team!bounds
<1>3. /\ act' \in TeamActions /\ act'.st = "failed" /\ act'.want = Team!NoRequest
      /\ act' = [Team!NoAction EXCEPT !.st = act'.st]
      /\ act'.gid = 0 /\ act'.journal = Team!Clean /\ \A app \in Team!Apps : act'.aids[app] = 0
  <2>1. Team!NoRequest \in Team!Requests
    BY DEF Team!NoRequest, Team!Requests, Team!Tokens
  <2> QED
    BY <1>2, <2>1 DEF Team!NoAction, TeamActions, TeamStates, TeamPhases, Team!Clean, Team!NoAids
<1>4. /\ \A e \in Team!Entries : act'.journal[e] = "none" /\ act.journal[e] = "none"
      /\ \A app \in Team!Apps : app \in Team!Entries /\ Team!AgentKey(app) \in Team!Entries
      /\ "group" \in Team!Entries
  BY <1>2, <1>3 DEF Team!Clean, Team!Entries, Team!AgentKey, Team!Apps
<1>5. TeamFits'
  BY <1>1, <1>2, <1>3 DEF TeamFits
<1>6. AttemptStands'
  BY <1>2, <1>3, IdleStands
<1>7. GroupStands'
  BY <1>1, <1>2, <1>3, <1>4 DEF GroupStands, Phase, Creating, Updating, Deleting, Team!NoRequest
<1>8. PoliciesStand'
  BY <1>2, <1>1, <1>4, <1>3 DEF Team!Before, Team!PolicyOf, GroupStands, Phase, PoliciesStand,
    PolicyIs
<1>9. AgentsStand'
  BY <1>1, <1>4, <1>2, <1>3 DEF AgentsStand, AgentStand, Team!AgentPhase, AgentsMove
<1> QED BY <1>5, <1>6, <1>7, <1>8, <1>9 DEF TeamInv

\* Claiming, verifying and going on.
LEMMA ClaimHolds == ASSUME TeamInv, Team!Claim PROVE TeamInv'
BY StatusMoves, PlaceMoves DEF TeamInv, Team!Claim, Team!provider, Team!bounds, KeptAct, TeamStates,
  TeamFits, Team!Unfinished

LEMMA UnfinishedRuns == ASSUME TeamInv, pc # "idle" PROVE Team!Unfinished
  BY DEF TeamInv, AttemptStands

LEMMA TeamVerifyHolds == ASSUME TeamInv, Team!Verify PROVE TeamInv'
BY UnfinishedRuns, FailHolds, PlaceMoves DEF Team!Verify, Team!provider, Team!bounds, TeamInv,
  TeamFits, KeptAct, Team!Unfinished

LEMMA InterruptHolds == ASSUME TeamInv, Team!Interrupt PROVE TeamInv'
BY UnfinishedRuns, FailHolds DEF Team!Interrupt, Team!provider, Team!Fault

\* The plan's change of the group.
LEMMA GroupChanges ==
  ASSUME TeamFits
  PROVE  /\ Team!GroupChange = "create" <=> Creating
         /\ Team!GroupChange = "update" <=> Updating
         /\ Team!GroupChange = "delete" <=> Deleting
  BY DEF Team!GroupChange, Creating, Updating, Deleting

\* The step enters the group in the journal, and may change it.
LEMMA GroupWritten ==
  ASSUME TeamInv, UNCHANGED <<saved, teamLive, agents, teamEdits>>, act' \in TeamActions,
         act'.want = act.want, act'.aids = act.aids, groups' \subseteq Team!Groups,
         \A f \in Team!Entries \ {"group"} : act'.journal[f] = act.journal[f],
         Phase("group") # "verified",
         Creating \/ Updating \/ (Deleting /\
           (teamEdits = 0 => \A app \in Team!Apps : teamLive[app] = Team!After(app)))
  PROVE  TeamFits' /\ PoliciesStand' /\ AgentsStand'
<1>1. TeamFits /\ GroupStands /\ PoliciesStand /\ AgentsStand
  BY DEF TeamInv
<1>2. \A app \in Team!Apps :
        /\ app \in Team!Entries \ {"group"} /\ Team!AgentKey(app) \in Team!Entries \ {"group"}
        /\ act'.journal[app] = act.journal[app]
        /\ act'.journal[Team!AgentKey(app)] = act.journal[Team!AgentKey(app)]
  BY DEF Team!Entries, Team!Apps, Team!AgentKey
<1>3. TeamFits'
  BY <1>1 DEF TeamFits
<1>4. AgentsStand'
  BY <1>1, <1>2, AgentKept DEF AgentsStand
<1>5. act.gid = 0
  BY <1>1 DEF GroupStands
<1>6. \A app \in Team!Apps : Team!Before(app)' = Team!Before(app)
  BY DEF Team!Before, Team!PolicyOf
<1>7. ASSUME act.want.team = {}, NEW app \in Team!Apps
      PROVE  Team!After(app)' = Team!After(app)
  BY <1>7 DEF Team!After, Team!PolicyOf
<1>8. ASSUME teamEdits' = 0 PROVE \A app \in Team!Apps : PolicyIs(app)'
  <2> SUFFICES ASSUME NEW app \in Team!Apps PROVE PolicyIs(app)'
    OBVIOUS
  <2>1. PolicyIs(app)
    BY <1>1, <1>8 DEF PoliciesStand
  <2>2. CASE Creating \/ Updating
    BY <1>2, <2>1, <2>2, <1>6 DEF PolicyIs, Phase
  <2>3. CASE Deleting
    BY <1>6, <1>7, <2>3, <1>2, <2>1 DEF Deleting, Team!PolicyChanges, Creating, Updating, Phase,
      PolicyIs
  <2> QED BY <2>2, <2>3
<1>9. ASSUME teamEdits' = 0, Deleting' PROVE \A app \in Team!Apps : (teamLive[app] = Team!After(app))'
  BY <1>7, <1>9 DEF Deleting, Creating, Updating
<1>10. PoliciesStand'
  BY <1>1, <1>5, <1>8, <1>9 DEF PoliciesStand
<1> QED BY <1>3, <1>4, <1>10

\* What stands once the group is entered.
LEMMA GroupEntered ==
  ASSUME TeamInv, act' \in TeamActions, act'.want = act.want, UNCHANGED <<saved, teamEdits>>,
         act'.journal["group"] = "verified", pc' = "rebind", act'.st = act.st, Team!Unfinished
  PROVE  AttemptStands'
  BY DEF AttemptStands, TeamPcs, PastGroups, PastPolicies, PastAgents, Phase, Team!Unfinished

LEMMA CreateGroupHolds == ASSUME TeamInv, Team!CreateGroup PROVE TeamInv'
<1> DEFINE id == Team!Fresh(Team!GroupIds)
<1>1. TeamFits /\ AttemptStands /\ GroupStands /\ PoliciesStand /\ AgentsStand /\ act \in TeamActions
  BY DEF TeamInv, TeamFits
<1>2. /\ UNCHANGED saved /\ pc = "groups" /\ Creating /\ Phase("group") # "verified"
      /\ Phase("group") = "send_armed" => groups = {}
  BY <1>1, GroupChanges DEF Team!CreateGroup, Phase
<1>3. /\ act.gid = 0 /\ saved.gid = 0 /\ act.want.team # {} /\ saved.team = {}
      /\ "group" \in Team!Entries /\ Phase("group") \in TeamPhases
  BY <1>1, <1>2 DEF GroupStands, Creating, Team!Entries, Phase, TeamActions
<1>4. groups = {}
  BY <1>1, <1>2, <1>3 DEF GroupStands, TeamPhases
<1>5. Team!Unfinished
  BY <1>2, UnfinishedRuns
<1>6. id \in Team!Ids /\ id # 0
  BY <1>1, <1>3, <1>4 DEF Team!GroupIds, PoliciesStand, Team!Ids, Team!Fresh
<1> DEFINE new == [id |-> id, members |-> act.want.team]
<1>7. new \in Team!Groups
  BY <1>1, <1>6 DEF Team!Groups, TeamActions, Team!Requests
<1>8. /\ new.id = id /\ new.members = act.want.team
  OBVIOUS
<1> HIDE DEF new, id
<1> DEFINE armed == Team!Enter(act, "group", "send_armed")
           entered == Team!Enter(act, "group", "verified")
           done  == [entered EXCEPT !.gid = id]
<1>9. /\ armed \in TeamActions /\ armed.st = act.st /\ armed.want = act.want /\ armed.gid = 0
      /\ armed.aids = act.aids /\ armed.journal["group"] = "send_armed"
      /\ \A f \in Team!Entries \ {"group"} : armed.journal[f] = act.journal[f]
  BY <1>1, <1>3, EntryMoves DEF TeamPhases
<1>10. /\ entered \in TeamActions /\ entered.st = act.st /\ entered.want = act.want
       /\ entered.aids = act.aids /\ entered.journal["group"] = "verified"
       /\ \A f \in Team!Entries \ {"group"} : entered.journal[f] = act.journal[f]
  BY <1>1, <1>3, EntryMoves DEF TeamPhases
<1> HIDE DEF armed, entered
<1>11. /\ done \in TeamActions /\ done.st = act.st /\ done.want = act.want /\ done.gid = id
       /\ done.aids = act.aids /\ done.journal["group"] = "verified"
       /\ \A f \in Team!Entries \ {"group"} : done.journal[f] = act.journal[f]
  BY <1>6, <1>10 DEF TeamActions
<1> HIDE DEF done
<1>12. \/ /\ groups' = groups \cup {new} /\ UNCHANGED <<teamLive, agents, teamEdits>>
          /\ act' = done /\ pc' = "rebind"
       \/ /\ groups' = groups \cup {new} \/ groups' = groups
          /\ UNCHANGED <<teamLive, agents>> /\ Team!Fault(armed)
       \/ Team!Refused /\ UNCHANGED <<teamLive, agents, groups, teamEdits>>
  BY DEF Team!CreateGroup, Team!Write, Team!provider, Team!bounds, done, entered, armed, new, id,
    Team!Refused
<1>13. groups' \subseteq Team!Groups /\ groups' \in {{}, {new}}
  BY <1>4, <1>7, <1>12
<1>14. ASSUME groups' = groups \cup {new}, UNCHANGED <<teamLive, agents, teamEdits>>, act' = done, pc' = "rebind"
       PROVE  TeamInv'
  BY <1>2, <1>11, <1>13, <1>14, GroupWritten, <1>5, GroupEntered, <1>4, <1>3, <1>6, <1>8 DEF
    GroupStands, Phase, Creating, Updating, Deleting, TeamInv
<1>15. ASSUME groups' = groups \cup {new} \/ groups' = groups, UNCHANGED <<teamLive, agents>>, Team!Fault(armed)
       PROVE  TeamInv'
  BY <1>5, <1>9, <1>15, FaultEnds, <1>2, <1>13, GroupWritten, <1>3, <1>8 DEF Phase, GroupStands,
    Creating, Updating, Deleting, TeamInv
<1>16. ASSUME Team!Refused, UNCHANGED <<teamLive, agents, groups, teamEdits>> PROVE TeamInv'
  BY <1>2, <1>5, <1>16, FailHolds
<1> QED BY <1>12, <1>14, <1>15, <1>16

LEMMA FindGroupHolds == ASSUME TeamInv, Team!FindGroup PROVE TeamInv'
<1>1. TeamFits /\ AttemptStands /\ GroupStands /\ PoliciesStand /\ AgentsStand /\ act \in TeamActions
  BY DEF TeamInv, TeamFits
<1>2. /\ UNCHANGED <<saved, teamLive, groups, agents, teamEdits>> /\ pc = "groups" /\ Creating
      /\ Phase("group") = "send_armed" /\ groups # {}
  BY <1>1, GroupChanges DEF Team!FindGroup, Phase, Team!provider, Team!bounds
<1>3. Team!Unfinished
  BY <1>2, UnfinishedRuns
<1>4. CASE Team!Fail
  BY <1>2, <1>3, <1>4, FailHolds
<1>5. ASSUME NEW g \in groups, groups = {g}, g.members = act.want.team, pc' = "rebind",
             act' = [Team!Enter(act, "group", "verified") EXCEPT !.gid = (CHOOSE h \in groups : TRUE).id]
      PROVE  TeamInv'
  <2>1. (CHOOSE h \in groups : TRUE) = g /\ g.id \in Team!Ids /\ g.id # 0
    BY <1>1, <1>5 DEF TeamFits, Team!Groups, Team!Ids
  <2> DEFINE entered == Team!Enter(act, "group", "verified")
  <2>2. /\ entered \in TeamActions /\ entered.st = act.st /\ entered.want = act.want
        /\ entered.aids = act.aids /\ entered.journal["group"] = "verified"
        /\ \A f \in Team!Entries \ {"group"} : entered.journal[f] = act.journal[f]
    BY <1>1, EntryMoves DEF TeamPhases, Team!Entries
  <2>3. act' = [entered EXCEPT !.gid = g.id]
    BY <1>5, <2>1
  <2> HIDE DEF entered
  <2>4. /\ act' \in TeamActions /\ act'.st = act.st /\ act'.want = act.want /\ act'.gid = g.id
        /\ act'.aids = act.aids /\ act'.journal["group"] = "verified"
        /\ \A f \in Team!Entries \ {"group"} : act'.journal[f] = act.journal[f]
    BY <2>1, <2>2, <2>3 DEF TeamActions
  <2>5. TeamFits' /\ PoliciesStand' /\ AgentsStand'
    BY <1>1, <1>2, <2>4, GroupWritten DEF TeamFits
  <2>6. AttemptStands'
    BY <1>2, <1>3, <1>5, <2>4, GroupEntered
  <2>7. GroupStands'
    BY <1>1, <1>2, <1>5, <2>1, <2>4 DEF GroupStands, Creating, Phase, Updating, Deleting
  <2> QED BY <2>5, <2>6, <2>7 DEF TeamInv
<1> QED BY <1>4, <1>5 DEF Team!FindGroup

LEMMA UpdateGroupHolds == ASSUME TeamInv, Team!UpdateGroup PROVE TeamInv'
<1>1. TeamFits /\ AttemptStands /\ GroupStands /\ PoliciesStand /\ AgentsStand /\ act \in TeamActions
  BY DEF TeamInv, TeamFits
<1>2. UNCHANGED saved /\ pc = "groups" /\ Updating /\ Phase("group") # "verified"
  BY <1>1, GroupChanges DEF Team!UpdateGroup, Phase
<1>3. /\ act.gid = 0 /\ saved.gid # 0 /\ act.want.team # {} /\ saved.team # {}
      /\ "group" \in Team!Entries /\ Phase("group") \in TeamPhases
  BY <1>1, <1>2 DEF GroupStands, Updating, Creating, Team!Entries, Phase, TeamActions
<1>4. Team!Unfinished
  BY <1>2, UnfinishedRuns
<1> DEFINE armed == Team!Enter(act, "group", "send_armed")
           done  == Team!Enter(act, "group", "verified")
           set   == {[g EXCEPT !.members = act.want.team] : g \in groups}
<1>5. /\ armed \in TeamActions /\ armed.st = act.st /\ armed.want = act.want /\ armed.gid = 0
      /\ armed.aids = act.aids /\ armed.journal["group"] = "send_armed"
      /\ \A f \in Team!Entries \ {"group"} : armed.journal[f] = act.journal[f]
  BY <1>1, <1>3, EntryMoves DEF TeamPhases
<1>6. /\ done \in TeamActions /\ done.st = act.st /\ done.want = act.want /\ done.gid = 0
      /\ done.aids = act.aids /\ done.journal["group"] = "verified"
      /\ \A f \in Team!Entries \ {"group"} : done.journal[f] = act.journal[f]
  BY <1>1, <1>3, EntryMoves DEF TeamPhases
<1>7. \/ /\ groups' = set \/ (groups' = groups /\ \E g \in groups : g.id = saved.gid /\ g.members = act.want.team)
         /\ UNCHANGED <<teamLive, agents, teamEdits>> /\ act' = done /\ pc' = "rebind"
      \/ /\ groups' = set \/ groups' = groups
         /\ UNCHANGED <<teamLive, agents>> /\ Team!Fault(armed)
      \/ Team!Refused /\ UNCHANGED <<teamLive, agents, groups, teamEdits>>
  BY DEF Team!UpdateGroup, Team!Write, Team!SetMembers, Team!provider, Team!bounds, Team!Refused
<1>8. /\ set \subseteq Team!Groups /\ (set = {} <=> groups = {}) /\ \A g, h \in set : g = h
      /\ \A g \in set : g.members = act.want.team /\ g.id = saved.gid
  <2>1. ASSUME NEW g \in groups, NEW h, h = [g EXCEPT !.members = act.want.team]
        PROVE  h \in Team!Groups /\ h.members = act.want.team /\ h.id = saved.gid
    BY <1>1, <1>3, <2>1 DEF TeamFits, GroupStands, TeamActions, Team!Requests, Team!Groups
  <2>2. \A g, h \in set : g = h
    BY <1>1 DEF GroupStands
  <2>3. set = {} <=> groups = {}
    OBVIOUS
  <2> QED BY <2>1, <2>2, <2>3
<1>9. groups \subseteq Team!Groups
  BY <1>1 DEF TeamFits
<1> HIDE DEF armed, done, set
<1>10. ASSUME groups' = set \/ (groups' = groups /\ \E g \in groups : g.id = saved.gid /\ g.members = act.want.team),
              UNCHANGED <<teamLive, agents, teamEdits>>, act' = done, pc' = "rebind"
       PROVE  TeamInv'
  BY <1>8, <1>9, <1>10, <1>2, <1>6, GroupWritten, <1>4, GroupEntered, <1>1, <1>3 DEF GroupStands,
    Deleting, Updating, Phase, Creating, TeamInv
<1>11. ASSUME groups' = set \/ groups' = groups, UNCHANGED <<teamLive, agents>>, Team!Fault(armed)
       PROVE  TeamInv'
  BY <1>4, <1>5, <1>11, FaultEnds, <1>8, <1>9, <1>2, GroupWritten, <1>1, <1>3 DEF Phase,
    GroupStands, Deleting, Updating, TeamPhases, Creating, TeamInv
<1>12. ASSUME Team!Refused, UNCHANGED <<teamLive, agents, groups, teamEdits>> PROVE TeamInv'
  BY <1>2, <1>4, <1>12, FailHolds
<1> QED BY <1>7, <1>10, <1>11, <1>12

LEMMA GroupsDoneHolds == ASSUME TeamInv, Team!GroupsDone PROVE TeamInv'
BY UnfinishedRuns, GroupChanges, PlaceMoves DEF Team!GroupsDone, Team!provider, Team!bounds,
  TeamInv, TeamFits, Phase, AttemptStands, TeamPcs, PastGroups, PastPolicies, PastAgents, Creating,
  Updating, Team!Unfinished, KeptAct

LEMMA RebindHolds == ASSUME TeamInv, Team!Rebind PROVE TeamInv'
<1>1. /\ TeamFits /\ AttemptStands /\ GroupStands /\ PoliciesStand /\ act \in TeamActions
      /\ UNCHANGED <<saved, teamLive, groups, agents, teamEdits>> /\ pc = "rebind"
  BY DEF Team!Rebind, Team!provider, Team!bounds, TeamInv, TeamFits
<1>2. Team!Unfinished
  BY <1>1, UnfinishedRuns
<1>3. CASE Team!Fail
  BY <1>1, <1>2, <1>3, FailHolds
<1>4. CASE pc' = "portal" /\ UNCHANGED act
  BY <1>1, <1>2, <1>4, PlaceMoves DEF AttemptStands, TeamPcs, PastGroups, PastPolicies, PastAgents,
    Phase, Creating, Updating, Team!Unfinished, KeptAct
<1>5. ASSUME Team!MembershipOnly, pc' = "complete", UNCHANGED act PROVE TeamInv'
  <2>1. Updating /\ ~AgentsMove /\ Team!PolicyChanges = {}
    BY <1>1, <1>5, GroupChanges DEF Team!MembershipOnly, Team!AgentChanges, AgentsMove, Team!Apps
  <2>2. \A app \in Team!Apps : Team!After(app)' = Team!After(app)
    BY <1>1, <1>5 DEF Team!After, Team!PolicyOf, Team!Gid
  <2>3. ASSUME teamEdits = 0, NEW app \in Team!Apps PROVE teamLive[app] = Team!After(app)
    BY <1>1, <2>1, <2>3 DEF PoliciesStand, PolicyIs, Team!PolicyChanges
  <2>4. AttemptStands'
    <3>1. pc' \in PastGroups /\ (Creating \/ Updating => Phase("group") = "verified")
      BY <1>1, <1>5 DEF AttemptStands, PastGroups, PastPolicies, PastAgents
    <3>2. ~AgentsMove' /\ ~Deleting' /\ act'.want.team # {}
      BY <1>1, <1>5, <2>1 DEF AgentsMove, Updating, Deleting
    <3>3. teamEdits' = 0 => teamLive'["portal"] = Team!After("portal")' /\ teamLive'["source"] = Team!After("source")'
      <4> SUFFICES ASSUME teamEdits' = 0
                   PROVE  teamLive'["portal"] = Team!After("portal")' /\ teamLive'["source"] = Team!After("source")'
        OBVIOUS
      <4>1. "portal" \in Team!Apps /\ "source" \in Team!Apps
        BY DEF Team!Apps
      <4> QED BY <1>1, <2>2, <2>3, <4>1
    <3>4. Team!Unfinished' /\ pc' \in TeamPcs
      BY <1>2, <1>5 DEF Team!Unfinished, TeamPcs
    <3>5. Creating' \/ Updating' => Phase("group")' = "verified"
      BY <1>1, <1>5, <3>1 DEF Creating, Updating, Phase
    <3> QED BY <3>2, <3>3, <3>4, <3>5 DEF AttemptStands
  <2>5. Team!Unfinished' /\ act' \in TeamActions /\ KeptAct
    BY <1>1, <1>2, <1>5 DEF Team!Unfinished, KeptAct
  <2> QED BY <1>1, <2>4, <2>5, PlaceMoves
<1> QED BY <1>3, <1>4, <1>5 DEF Team!Rebind

\* The plan's policy has the form of a policy and names a group that has an id.
LEMMA AfterFits ==
  ASSUME TeamInv, NEW app \in Team!Apps, pc \in PastGroups
  PROVE  /\ Team!After(app) \in Team!Selectors
         /\ Team!After(app).groups \subseteq {saved.gid, act.gid} \ {0}
BY DEF TeamInv, TeamFits, TeamActions, Team!Requests, Team!Teams, Team!Ids, AttemptStands,
  GroupStands, Team!Gid, Creating, Team!After, Team!PolicyOf, Team!Selectors

\* One policy and its entry change.
LEMMA PolicyWritten ==
  ASSUME TeamInv, NEW app \in Team!Apps, pc = app, app \in Team!PolicyChanges,
         UNCHANGED <<saved, groups, agents, teamEdits>>, act' \in TeamActions,
         act'.want = act.want, act'.aids = act.aids, act'.gid = act.gid,
         act'.journal[app] \in {"send_armed", "verified"},
         \A f \in Team!Entries \ {app} : act'.journal[f] = act.journal[f],
         teamLive' \in [Team!Apps -> Team!Selectors],
         \A o \in Team!Apps \ {app} : teamLive'[o] = teamLive[o],
         \/ teamLive'[app] = Team!After(app)
         \/ teamLive'[app] = teamLive[app] /\ act'.journal[app] = "send_armed"
  PROVE  TeamFits' /\ GroupStands' /\ PoliciesStand' /\ AgentsStand'
<1>1. TeamFits /\ AttemptStands /\ GroupStands /\ PoliciesStand /\ AgentsStand
  BY DEF TeamInv
<1>2. pc \in PastGroups
  BY DEF PastGroups, Team!Apps
<1>3. \A o \in Team!Apps :
        /\ o \in Team!Entries /\ Team!AgentKey(o) \in Team!Entries \ {app} /\ "group" \in Team!Entries \ {app}
  BY DEF Team!Entries, Team!Apps, Team!AgentKey
<1>4. TeamFits'
  BY <1>1 DEF TeamFits
<1>5. GroupStands'
  BY <1>1, <1>3, GroupKept
<1>6. AgentsStand'
  BY <1>1, <1>3, AgentKept DEF AgentsStand
<1>7. \A o \in Team!Apps : Team!After(o)' = Team!After(o) /\ Team!Before(o)' = Team!Before(o)
  BY DEF Team!After, Team!Before, Team!PolicyOf, Team!Gid
<1>8. Team!PolicyChanges' = Team!PolicyChanges
  BY <1>7 DEF Team!PolicyChanges
<1>9. Creating' = Creating /\ Updating' = Updating /\ Deleting' = Deleting /\ Phase("group")' = Phase("group")
  BY <1>3 DEF Creating, Updating, Deleting, Phase
<1>10. \A o \in Team!Apps : teamLive'[o].groups \subseteq {saved.gid, act.gid} \ {0}
  BY <1>1, <1>2, AfterFits DEF PoliciesStand
<1>11. ASSUME teamEdits' = 0, NEW o \in Team!Apps PROVE PolicyIs(o)'
  BY <1>1, <1>3, <1>11, <1>2, <1>7, <1>8, <1>9 DEF PoliciesStand, TeamFits, TeamActions, Phase,
    AttemptStands, PolicyIs, TeamPhases
<1>12. ASSUME teamEdits' = 0, Deleting', Phase("group")' # "none", NEW o \in Team!Apps
       PROVE  (teamLive[o] = Team!After(o))'
  BY <1>1, <1>9, <1>12, <1>7 DEF PoliciesStand
<1>13. PoliciesStand'
  BY <1>10, <1>11, <1>12 DEF PoliciesStand
<1> QED BY <1>4, <1>5, <1>6, <1>13

\* The attempt goes on after a policy that stands as planned.
LEMMA PolicyPassed ==
  ASSUME TeamInv, NEW app \in Team!Apps, pc = app, pc' = Team!Following[app],
         UNCHANGED <<saved, teamEdits>>, act'.want = act.want, act'.gid = act.gid, act'.st = act.st,
         act'.journal["group"] = act.journal["group"],
         \A o \in Team!Apps \ {app} : teamLive'[o] = teamLive[o],
         teamEdits = 0 => teamLive'[app] = Team!After(app)
  PROVE  AttemptStands'
<1>1. AttemptStands /\ pc \in PastGroups
  BY DEF TeamInv, PastGroups, Team!Apps
<1>2. \A o \in Team!Apps : Team!After(o)' = Team!After(o)
  BY DEF Team!After, Team!PolicyOf, Team!Gid
<1>3. Team!Unfinished'
  BY <1>1, UnfinishedRuns DEF Team!Unfinished, Team!Apps
<1>4. Creating' \/ Updating' => Phase("group")' = "verified"
  BY <1>1 DEF AttemptStands, Creating, Updating, Phase
<1>5. CASE app = "portal"
  BY <1>5, <1>2, <1>3, <1>4 DEF Team!Following, Team!Apps, AttemptStands, TeamPcs, PastPolicies,
    PastAgents
<1>6. CASE app = "source"
  BY <1>6, <1>1, <1>2, <1>3, <1>4 DEF Team!Following, Team!Apps, AttemptStands, TeamPcs,
    PastPolicies, PastAgents
<1> QED BY <1>5, <1>6 DEF Team!Apps

LEMMA PolicyStandsHolds ==
  ASSUME TeamInv, NEW app \in Team!Apps, Team!PolicyStands(app) PROVE TeamInv'
<1>1. /\ TeamFits /\ AttemptStands /\ PoliciesStand /\ act \in TeamActions
      /\ UNCHANGED <<saved, teamLive, groups, agents, teamEdits>> /\ pc = app
      /\ pc' = Team!Following[app]
  BY DEF Team!PolicyStands, Team!provider, Team!bounds, TeamInv, TeamFits
<1>2. Team!Unfinished
  BY <1>1, UnfinishedRuns DEF Team!Apps
<1>3. teamEdits = 0 /\ app \notin Team!PolicyChanges => teamLive[app] = Team!After(app)
  BY <1>1 DEF PoliciesStand, PolicyIs, Team!PolicyChanges
<1>4. teamEdits = 0 => teamLive'[app] = Team!After(app)
  BY <1>1, <1>3 DEF Team!PolicyStands
<1>5. CASE app \notin Team!PolicyChanges
  BY <1>5, <1>1, <1>4, PolicyPassed, <1>2, PlaceMoves DEF Team!PolicyStands, KeptAct,
    Team!Unfinished
<1>6. CASE app \in Team!PolicyChanges
  <2>1. act' = Team!Enter(act, app, "verified") /\ teamLive[app] = Team!After(app)
    BY <1>6 DEF Team!PolicyStands
  <2>2. "group" \in Team!Entries \ {app} /\ app \in Team!Entries
    BY DEF Team!Entries, Team!Apps
  <2> DEFINE done == Team!Enter(act, app, "verified")
  <2>2a. /\ done \in TeamActions /\ done.st = act.st /\ done.want = act.want /\ done.gid = act.gid
        /\ done.aids = act.aids /\ done.journal[app] = "verified"
        /\ \A f \in Team!Entries \ {app} : done.journal[f] = act.journal[f]
    BY <1>1, <2>2, EntryMoves DEF TeamPhases
  <2>2b. act' = done
    BY <2>1
  <2> HIDE DEF done
  <2>3. /\ act' \in TeamActions /\ act'.st = act.st /\ act'.want = act.want /\ act'.gid = act.gid
        /\ act'.aids = act.aids /\ act'.journal[app] = "verified"
        /\ \A f \in Team!Entries \ {app} : act'.journal[f] = act.journal[f]
    BY <2>2a, <2>2b
  <2>4. AttemptStands'
    BY <1>1, <1>4, <2>2, <2>3, PolicyPassed
  <2>5. teamLive' \in [Team!Apps -> Team!Selectors]
    BY <1>1 DEF TeamFits
  <2>6. TeamFits' /\ GroupStands' /\ PoliciesStand' /\ AgentsStand'
    BY <1>1, <1>6, <2>1, <2>3, <2>5, PolicyWritten
  <2> QED BY <2>4, <2>6 DEF TeamInv
<1> QED BY <1>5, <1>6

LEMMA WritePolicyHolds ==
  ASSUME TeamInv, NEW app \in Team!Apps, Team!WritePolicy(app) PROVE TeamInv'
<1>1. /\ TeamFits /\ AttemptStands /\ PoliciesStand /\ act \in TeamActions
      /\ UNCHANGED saved /\ pc = app /\ app \in Team!PolicyChanges /\ pc \in PastGroups
      /\ teamLive \in [Team!Apps -> Team!Selectors]
  BY DEF Team!WritePolicy, TeamInv, TeamFits, PastGroups, Team!Apps
<1>2. Team!Unfinished
  BY <1>1, UnfinishedRuns DEF Team!Apps
<1> DEFINE armed == Team!Enter(act, app, "send_armed")
           done  == Team!Enter(act, app, "verified")
           put   == [teamLive EXCEPT ![app] = Team!After(app)]
<1>3. "group" \in Team!Entries \ {app} /\ app \in Team!Entries
  BY DEF Team!Entries, Team!Apps
<1>4. /\ armed \in TeamActions /\ armed.st = act.st /\ armed.want = act.want /\ armed.gid = act.gid
      /\ armed.aids = act.aids /\ armed.journal[app] = "send_armed"
      /\ \A f \in Team!Entries \ {app} : armed.journal[f] = act.journal[f]
  BY <1>1, <1>3, EntryMoves DEF TeamPhases
<1>5. /\ done \in TeamActions /\ done.st = act.st /\ done.want = act.want /\ done.gid = act.gid
      /\ done.aids = act.aids /\ done.journal[app] = "verified"
      /\ \A f \in Team!Entries \ {app} : done.journal[f] = act.journal[f]
  BY <1>1, <1>3, EntryMoves DEF TeamPhases
<1>6. /\ put \in [Team!Apps -> Team!Selectors] /\ put[app] = Team!After(app)
      /\ \A o \in Team!Apps \ {app} : put[o] = teamLive[o]
  BY <1>1, AfterFits
<1>7. \/ /\ teamLive' = put /\ UNCHANGED <<groups, agents, teamEdits>>
         /\ act' = done /\ pc' = Team!Following[app]
      \/ /\ teamLive' = put \/ teamLive' = teamLive
         /\ UNCHANGED <<groups, agents>> /\ Team!Fault(armed)
      \/ Team!Fail /\ UNCHANGED <<teamLive, agents, groups, teamEdits>>
  BY DEF Team!WritePolicy, Team!Write, Team!provider, Team!bounds
<1> HIDE DEF armed, done, put
<1>8. ASSUME teamLive' = put, UNCHANGED <<groups, agents, teamEdits>>, act' = done, pc' = Team!Following[app]
      PROVE  TeamInv'
  BY <1>1, <1>5, <1>6, <1>8, PolicyWritten, <1>3, PolicyPassed DEF TeamInv
<1>9. ASSUME teamLive' = put \/ teamLive' = teamLive, UNCHANGED <<groups, agents>>, Team!Fault(armed)
      PROVE  TeamInv'
  BY <1>2, <1>4, <1>9, FaultEnds, <1>1, <1>6, PolicyWritten DEF TeamInv
<1>10. ASSUME Team!Fail, UNCHANGED <<teamLive, agents, groups, teamEdits>> PROVE TeamInv'
  BY <1>1, <1>2, <1>10, FailHolds
<1> QED BY <1>7, <1>8, <1>9, <1>10

\* One application's agents and their entry change.
LEMMA AgentsWritten ==
  ASSUME TeamInv, NEW app \in Team!Apps, UNCHANGED <<saved, groups, teamLive, teamEdits>>,
         act' \in TeamActions, act'.want = act.want, act'.gid = act.gid,
         agents' \in [Team!Apps -> SUBSET Team!AgentPolicies],
         \A f \in Team!Entries \ {Team!AgentKey(app)} : act'.journal[f] = act.journal[f],
         \A o \in Team!Apps \ {app} : agents'[o] = agents[o] /\ act'.aids[o] = act.aids[o],
         AgentStand(app)'
  PROVE  TeamFits' /\ GroupStands' /\ PoliciesStand' /\ AgentsStand'
BY GroupKept, PoliciesKept, AgentKept DEF TeamInv, Team!Entries, Team!Apps, Team!AgentKey, TeamFits,
  AgentsStand

\* The attempt goes on after agents that stand as planned.
LEMMA AgentsPassed ==
  ASSUME TeamInv, NEW app \in Team!Apps, pc = Team!AgentKey(app), pc' = Team!FollowingAgents[app],
         UNCHANGED <<saved, teamLive, teamEdits>>,
         act'.want = act.want, act'.gid = act.gid, act'.st = act.st,
         \A f \in Team!Entries \ {Team!AgentKey(app)} : act'.journal[f] = act.journal[f],
         AgentsMove => act'.journal[Team!AgentKey(app)] = "verified"
  PROVE  AttemptStands'
BY UnfinishedRuns DEF TeamInv, PastPolicies, PastAgents, Team!AgentKey, Team!Apps, Team!After,
  Team!PolicyOf, Team!Gid, Team!Unfinished, Team!Entries, AttemptStands, Creating, Updating, Phase,
  PastGroups, Team!FollowingAgents, AgentsMove, TeamPcs

\* An id among an application's agents' entries of the journal.
LEMMA IdMoves ==
  ASSUME NEW a \in TeamActions, NEW app \in Team!Apps, NEW i \in Team!Ids \cup {0}
  PROVE  LET b == [a EXCEPT !.aids[app] = i] IN
         /\ b \in TeamActions /\ b.st = a.st /\ b.want = a.want /\ b.gid = a.gid
         /\ b.journal = a.journal /\ b.aids[app] = i
         /\ \A o \in Team!Apps \ {app} : b.aids[o] = a.aids[o]
  BY DEF TeamActions

LEMMA AgentStandsHolds ==
  ASSUME TeamInv, NEW app \in Team!Apps, Team!AgentStands(app) PROVE TeamInv'
<1>k. PICK key \in Team!Entries : key = Team!AgentKey(app)
  BY DEF Team!AgentKey, Team!Apps, Team!Entries
<1>1. /\ TeamFits /\ AttemptStands /\ AgentStand(app) /\ act \in TeamActions
      /\ UNCHANGED <<saved, teamLive, groups, agents, teamEdits>> /\ pc = key
      /\ pc' = Team!FollowingAgents[app] /\ agents[app] \subseteq Team!AgentPolicies
      /\ agents \in [Team!Apps -> SUBSET Team!AgentPolicies]
  BY <1>k DEF Team!AgentStands, Team!provider, Team!bounds, TeamInv, TeamFits, AgentsStand
<1>2. Team!Unfinished
  BY <1>k, <1>1, UnfinishedRuns DEF Team!AgentKey, Team!Apps
<1>3. app \in Team!AgentChanges <=> AgentsMove
  BY DEF Team!AgentChanges, AgentsMove
<1>4. CASE ~AgentsMove
  BY <1>3, <1>4, <1>k, <1>1, AgentsPassed, <1>2, PlaceMoves DEF Team!AgentStands, KeptAct,
    Team!Unfinished
<1>5. CASE AgentsMove
  <2> DEFINE entered == Team!Enter(act, key, "verified")
             id == IF agents[app] = {} THEN 0 ELSE (CHOOSE a \in agents[app] : TRUE).id
             done == [entered EXCEPT !.aids[app] = id]
  <2>1. act' = done /\ {a.tokens : a \in agents[app]} = {act.want.tokens} \ {0}
    BY <1>k, <1>3, <1>5 DEF Team!AgentStands, Team!AgentIsAfter
  <2>2. /\ entered \in TeamActions /\ entered.st = act.st /\ entered.want = act.want
        /\ entered.gid = act.gid /\ entered.aids = act.aids /\ entered.journal[key] = "verified"
        /\ \A f \in Team!Entries \ {key} : entered.journal[f] = act.journal[f]
    BY <1>1, EntryMoves DEF TeamPhases
  <2>3. /\ id \in Team!Ids \cup {0} /\ (agents[app] # {} => id # 0)
        /\ \A a \in agents[app] : a.id = id
    BY <1>1 DEF AgentStand, Team!AgentPolicies, Team!Ids
  <2> HIDE DEF entered, id
  <2>4. /\ done \in TeamActions /\ done.st = act.st /\ done.want = act.want /\ done.gid = act.gid
        /\ done.journal = entered.journal /\ done.aids[app] = id
        /\ \A o \in Team!Apps \ {app} : done.aids[o] = act.aids[o]
    BY <2>2, <2>3, IdMoves
  <2> HIDE DEF done
  <2>5. AgentStand(app)'
    BY <1>k, <1>1, <2>1, <2>2, <2>4, <2>3, <1>5 DEF Team!AgentPhase, AgentStand, id, Team!AgentId,
      AgentsMove
  <2>6. TeamFits' /\ GroupStands' /\ PoliciesStand' /\ AgentsStand'
    BY <1>k, <1>1, <2>1, <2>2, <2>4, <2>5, AgentsWritten
  <2>7. AttemptStands'
    BY <1>k, <1>1, <2>1, <2>2, <2>4, AgentsPassed
  <2> QED BY <2>6, <2>7 DEF TeamInv
<1> QED BY <1>4, <1>5

\* A write leaves an application with the wanted agents only, under the id the write knows.
LEMMA AgentsPut ==
  ASSUME TeamInv, NEW app \in Team!Apps, AgentsMove, ~Team!AgentIsAfter(app)
  PROVE  LET N == Team!NewAgentId(app) IN
         /\ N \in Team!Ids /\ N # 0 /\ saved.aids[app] \in {0, N}
         /\ {a \in agents[app] : a.id # N} = {}
<1>1. /\ TeamFits /\ AgentStand(app) /\ agents[app] \subseteq Team!AgentPolicies /\ act \in TeamActions
      /\ saved.aids[app] \in Team!Ids \cup {0} /\ act.aids[app] \in Team!Ids \cup {0}
  BY DEF TeamInv, TeamFits, AgentsStand, TeamActions, Team!Teams
<1>2. CASE saved.aids[app] # 0
  BY <1>1, <1>2 DEF Team!NewAgentId, AgentStand, Team!Ids
<1>3. CASE saved.aids[app] = 0
  <2>1. saved.tokens = 0 /\ act.want.tokens # 0
    BY <1>1, <1>3 DEF AgentStand, AgentsMove
  <2>2. agents[app] = {}
    <3> SUFFICES ASSUME NEW a \in agents[app] PROVE FALSE
      OBVIOUS
    <3>1. a.tokens = act.want.tokens /\ agents[app] = {a}
      BY <1>1, <2>1 DEF AgentStand, Team!AgentPolicies
    <3> QED BY <2>1, <3>1 DEF Team!AgentIsAfter
  <2>3. {a.id : a \in agents[app]} \cup {act.aids[app]} = {act.aids[app]}
    BY <2>2
  <2>4. Team!NewAgentId(app) = Team!Fresh({act.aids[app]})
    BY <1>3, <2>3 DEF Team!NewAgentId
  <2>5. \E i \in Team!Ids \ {act.aids[app]} : \A j \in Team!Ids \ {act.aids[app]} : i <= j
    BY DEF Team!Ids
  <2>6. Team!NewAgentId(app) \in Team!Ids \ {act.aids[app]}
    BY <2>4, <2>5 DEF Team!Fresh
  <2> QED BY <1>3, <2>2, <2>6 DEF Team!Ids
<1> QED BY <1>2, <1>3

LEMMA WriteAgentsHolds ==
  ASSUME TeamInv, NEW app \in Team!Apps, Team!WriteAgents(app) PROVE TeamInv'
<1>1. PICK key \in Team!Entries : key = Team!AgentKey(app)
  BY DEF Team!AgentKey, Team!Apps, Team!Entries
<1>2. /\ TeamFits /\ AttemptStands /\ AgentStand(app) /\ act \in TeamActions
      /\ UNCHANGED saved /\ pc = key /\ app \in Team!AgentChanges /\ ~Team!AgentIsAfter(app)
      /\ agents \in [Team!Apps -> SUBSET Team!AgentPolicies]
      /\ act.want.tokens \in Team!Tokens
  BY <1>1 DEF Team!WriteAgents, TeamInv, TeamFits, AgentsStand, TeamActions, Team!Requests
<1>3. Team!Unfinished /\ AgentsMove
  BY <1>1, <1>2, UnfinishedRuns DEF Team!AgentKey, Team!Apps, Team!AgentChanges, AgentsMove
<1> DEFINE old(i) == {a \in agents[app] : a.id # i}
           new(i) == IF act.want.tokens = 0 THEN {} ELSE {[id |-> i, tokens |-> act.want.tokens]}
           put(i) == [agents EXCEPT ![app] = old(i) \cup new(i)]
           armed == Team!Enter(act, key, "send_armed")
           entered == Team!Enter(act, key, "verified")
           armedNone == [armed EXCEPT !.aids[app] = 0]
           armedId(i) == [armed EXCEPT !.aids[app] = i]
           done(i) == [entered EXCEPT !.aids[app] = i]
<1>4. PICK N \in Team!Ids : N = Team!NewAgentId(app) /\ N # 0 /\ saved.aids[app] \in {0, N} /\ old(N) = {}
  BY <1>2, <1>3, AgentsPut
<1>5. PICK id \in Team!Ids \cup {0} : id = (IF act.want.tokens = 0 THEN 0 ELSE N)
  BY <1>4
<1>6. /\ armed \in TeamActions /\ armed.st = act.st /\ armed.want = act.want
      /\ armed.gid = act.gid /\ armed.aids = act.aids /\ armed.journal[key] = "send_armed"
      /\ \A f \in Team!Entries \ {key} : armed.journal[f] = act.journal[f]
  BY <1>2, EntryMoves DEF TeamPhases
<1>7. /\ entered \in TeamActions /\ entered.st = act.st /\ entered.want = act.want
      /\ entered.gid = act.gid /\ entered.aids = act.aids /\ entered.journal[key] = "verified"
      /\ \A f \in Team!Entries \ {key} : entered.journal[f] = act.journal[f]
  BY <1>2, EntryMoves DEF TeamPhases
<1>8. \/ /\ agents' = put(N) /\ UNCHANGED <<groups, teamLive, teamEdits>>
         /\ act' = done(id) /\ pc' = Team!FollowingAgents[app]
      \/ /\ agents' = put(N) \/ agents' = agents
         /\ UNCHANGED <<groups, teamLive>>
         /\ Team!Fault(armedNone) \/ Team!Fault(armedId(id))
      \/ Team!Fail /\ UNCHANGED <<teamLive, agents, groups, teamEdits>>
  <2>1. Team!AgentPut(app) => agents' = put(N) /\ UNCHANGED <<teamLive, groups>>
    BY <1>2, <1>4 DEF Team!AgentPut
  <2>2. /\ Team!Enter(act, Team!AgentKey(app), "send_armed") = armed
        /\ Team!Enter(act, Team!AgentKey(app), "verified") = entered
    BY <1>1
  <2>3. CASE Team!Fail /\ UNCHANGED <<Team!provider, Team!bounds>>
    BY <2>3 DEF Team!provider, Team!bounds
  <2> DEFINE know(phase, i) == [Team!Enter(act, Team!AgentKey(app), phase) EXCEPT !.aids[app] = i]
  <2>4. /\ know("send_armed", 0) = armedNone /\ know("send_armed", id) = armedId(id)
        /\ know("verified", id) = done(id)
    BY <2>2
  <2>5. \/ Team!Fail /\ UNCHANGED <<Team!provider, Team!bounds>>
        \/ Team!Write(know("send_armed", 0), know("verified", id), Team!AgentPut(app), Team!FollowingAgents[app])
        \/ Team!AgentPut(app) /\ Team!Fault(know("send_armed", id))
    BY <1>4, <1>5 DEF Team!WriteAgents
  <2> HIDE DEF know, armed, entered, put
  <2>6. CASE Team!Write(know("send_armed", 0), know("verified", id), Team!AgentPut(app), Team!FollowingAgents[app])
    BY <2>1, <2>4, <2>6 DEF Team!Write, Team!provider, Team!bounds
  <2>7. CASE Team!AgentPut(app) /\ Team!Fault(know("send_armed", id))
    BY <2>1, <2>4, <2>7
  <2> QED BY <2>3, <2>5, <2>6, <2>7
<1> HIDE DEF armed, entered
<1>9. /\ armedNone \in TeamActions /\ armedNone.st = act.st /\ armedNone.want = act.want
      /\ armedNone.gid = act.gid /\ armedNone.journal = armed.journal /\ armedNone.aids[app] = 0
      /\ \A o \in Team!Apps \ {app} : armedNone.aids[o] = act.aids[o]
  BY <1>6, IdMoves
<1>10. /\ armedId(id) \in TeamActions /\ armedId(id).st = act.st /\ armedId(id).want = act.want
       /\ armedId(id).gid = act.gid /\ armedId(id).journal = armed.journal /\ armedId(id).aids[app] = id
       /\ \A o \in Team!Apps \ {app} : armedId(id).aids[o] = act.aids[o]
  BY <1>6, IdMoves
<1>11. /\ done(id) \in TeamActions /\ done(id).st = act.st /\ done(id).want = act.want
       /\ done(id).gid = act.gid /\ done(id).journal = entered.journal /\ done(id).aids[app] = id
       /\ \A o \in Team!Apps \ {app} : done(id).aids[o] = act.aids[o]
  BY <1>7, IdMoves
<1>12. /\ put(N) \in [Team!Apps -> SUBSET Team!AgentPolicies]
       /\ \A o \in Team!Apps \ {app} : put(N)[o] = agents[o]
       /\ put(N)[app] = new(N)
  <2>1. old(N) \cup new(N) = new(N)
    BY <1>4
  <2>2. new(N) \in SUBSET Team!AgentPolicies
    BY <1>2 DEF Team!AgentPolicies
  <2> HIDE DEF old, new
  <2> QED BY <1>2, <2>1, <2>2
<1>13. /\ \A a, b \in new(N) : a = b
       /\ \A a \in new(N) : a.tokens = act.want.tokens /\ a.id = N /\ id = N
       /\ new(N) = {} <=> act.want.tokens = 0
  <2>1. CASE act.want.tokens = 0
    BY <2>1
  <2>2. CASE act.want.tokens # 0
    <3>1. new(N) = {[id |-> N, tokens |-> act.want.tokens]} /\ id = N
      BY <1>5, <2>2
    <3> DEFINE one == [id |-> N, tokens |-> act.want.tokens]
    <3>2. one.id = N /\ one.tokens = act.want.tokens /\ new(N) = {one}
      BY <3>1
    <3> HIDE DEF new, one
    <3> QED BY <2>2, <3>1, <3>2
  <2> QED BY <2>1, <2>2
<1> HIDE DEF armedNone, armedId, done, put, new, old
<1>14. ASSUME agents' = put(N), UNCHANGED <<groups, teamLive, teamEdits>>,
              act' = done(id), pc' = Team!FollowingAgents[app]
       PROVE  TeamInv'
  <2>1. AgentStand(app)'
    BY <1>1, <1>2, <1>7, <1>11, <1>12, <1>14, <1>4, <1>13, <1>3, <1>5 DEF Team!AgentPhase,
      Team!AgentId, AgentsMove, AgentStand
  <2>2. TeamFits' /\ GroupStands' /\ PoliciesStand' /\ AgentsStand'
    BY <1>1, <1>2, <1>7, <1>11, <1>12, <1>14, <2>1, AgentsWritten
  <2>3. AttemptStands'
    BY <1>1, <1>2, <1>7, <1>11, <1>14, AgentsPassed
  <2> QED BY <2>2, <2>3 DEF TeamInv
<1>15. ASSUME agents' = put(N) \/ agents' = agents, UNCHANGED <<groups, teamLive>>,
              NEW i \in {0, id}, NEW a \in TeamActions, a.st = act.st, a.want = act.want,
              a.gid = act.gid, a.journal = armed.journal, a.aids[app] = i,
              \A o \in Team!Apps \ {app} : a.aids[o] = act.aids[o], Team!Fault(a)
       PROVE  TeamInv'
  BY <1>3, <1>15, FaultEnds, <1>1, <1>2, <1>6, <1>4, <1>5, <1>12, <1>13, AgentsWritten DEF
    Team!AgentPhase, AgentsMove, AgentStand, TeamInv
<1>16. ASSUME agents' = put(N) \/ agents' = agents, UNCHANGED <<groups, teamLive>>, Team!Fault(armedNone)
       PROVE  TeamInv'
  BY <1>9, <1>15, <1>16
<1>17. ASSUME agents' = put(N) \/ agents' = agents, UNCHANGED <<groups, teamLive>>, Team!Fault(armedId(id))
       PROVE  TeamInv'
  BY <1>10, <1>15, <1>17
<1>18. ASSUME Team!Fail, UNCHANGED <<teamLive, agents, groups, teamEdits>> PROVE TeamInv'
  BY <1>2, <1>3, <1>18, FailHolds
<1> QED BY <1>8, <1>14, <1>16, <1>17, <1>18

LEMMA DriftedAgentsHolds ==
  ASSUME TeamInv, NEW app \in Team!Apps, Team!DriftedAgents(app) PROVE TeamInv'
BY UnfinishedRuns, FailHolds DEF Team!DriftedAgents, Team!provider, Team!bounds, Team!AgentKey,
  Team!Apps

LEMMA DeleteGroupHolds == ASSUME TeamInv, Team!DeleteGroup PROVE TeamInv'
<1>1. TeamFits /\ AttemptStands /\ GroupStands /\ PoliciesStand /\ AgentsStand /\ act \in TeamActions
  BY DEF TeamInv, TeamFits
<1>2. UNCHANGED saved /\ pc = "delete" /\ Deleting /\ Phase("group") # "verified"
  BY <1>1, GroupChanges DEF Team!DeleteGroup, Phase
<1>3. /\ act.gid = 0 /\ saved.gid # 0 /\ act.want.team = {} /\ saved.team # {}
      /\ "group" \in Team!Entries /\ Phase("group") \in TeamPhases
  BY <1>1, <1>2 DEF GroupStands, Deleting, Creating, Team!Entries, Phase, TeamActions
<1>4. Team!Unfinished
  BY <1>2, UnfinishedRuns
<1>5. teamEdits = 0 => \A app \in Team!Apps : teamLive[app] = Team!After(app)
  BY <1>1, <1>2 DEF AttemptStands, PastPolicies, PastAgents, Team!Apps
<1> DEFINE armed == Team!Enter(act, "group", "send_armed")
           done  == Team!Enter(act, "group", "verified")
<1>6. /\ armed \in TeamActions /\ armed.st = act.st /\ armed.want = act.want /\ armed.gid = 0
      /\ armed.aids = act.aids /\ armed.journal["group"] = "send_armed"
      /\ \A f \in Team!Entries \ {"group"} : armed.journal[f] = act.journal[f]
  BY <1>1, <1>3, EntryMoves DEF TeamPhases
<1>7. /\ done \in TeamActions /\ done.st = act.st /\ done.want = act.want /\ done.gid = 0
      /\ done.aids = act.aids /\ done.journal["group"] = "verified"
      /\ \A f \in Team!Entries \ {"group"} : done.journal[f] = act.journal[f]
  BY <1>1, <1>3, EntryMoves DEF TeamPhases
<1>8. {g \in groups : g.id # saved.gid} = {}
  BY <1>1, <1>3 DEF GroupStands
<1>9. \/ groups' = {} /\ UNCHANGED <<teamLive, agents, teamEdits>> /\ act' = done /\ pc' = "final"
      \/ groups' \in {{}, groups} /\ UNCHANGED <<teamLive, agents>> /\ Team!Fault(armed)
      \/ Team!Refused /\ UNCHANGED <<teamLive, agents, groups, teamEdits>>
  BY <1>8 DEF Team!DeleteGroup, Team!Write, Team!provider, Team!bounds, Team!Refused
<1> HIDE DEF armed, done
<1>10. ASSUME groups' = {}, UNCHANGED <<teamLive, agents, teamEdits>>, act' = done, pc' = "final"
       PROVE  TeamInv'
  BY <1>2, <1>5, <1>7, <1>10, GroupWritten, <1>3, <1>4, <1>1 DEF GroupStands, Phase, Creating,
    Updating, Deleting, Team!Unfinished, TeamPcs, AttemptStands, PastAgents, AgentsMove,
    Team!Entries, Team!After, Team!PolicyOf, Team!Gid, Team!Apps, TeamInv
<1>11. ASSUME groups' \in {{}, groups}, UNCHANGED <<teamLive, agents>>, Team!Fault(armed)
       PROVE  TeamInv'
  BY <1>4, <1>6, <1>11, FaultEnds, <1>1, <1>2, <1>5, GroupWritten, <1>3 DEF TeamFits, Phase,
    GroupStands, TeamPhases, Creating, Updating, Deleting, TeamInv
<1>12. ASSUME Team!Refused, UNCHANGED <<teamLive, agents, groups, teamEdits>> PROVE TeamInv'
  BY <1>2, <1>4, <1>12, FailHolds
<1> QED BY <1>9, <1>10, <1>11, <1>12

\* From the last write to the last read.
LEMMA LastPlaces ==
  ASSUME TeamInv, pc \in {"delete", "final"}, pc' \in {"final", "complete"}, Team!Unfinished,
         UNCHANGED <<saved, act, teamLive, groups, agents, teamEdits>>,
         Deleting => Phase("group") = "verified",
         pc' = "complete" => \A app \in Team!Apps : teamLive[app] = Team!After(app)
  PROVE  TeamInv'
BY PlaceMoves DEF TeamInv, TeamFits, Team!After, Team!PolicyOf, Team!Gid, Creating, Updating,
  Deleting, AgentsMove, Phase, Team!Entries, Team!Apps, AttemptStands, PastGroups, PastPolicies,
  PastAgents, Team!Unfinished, TeamPcs, KeptAct

LEMMA NothingToDeleteHolds == ASSUME TeamInv, Team!NothingToDelete PROVE TeamInv'
BY GroupChanges, UnfinishedRuns, LastPlaces DEF Team!NothingToDelete, Team!provider, Team!bounds,
  TeamInv, Phase

LEMMA FinalVerifyHolds == ASSUME TeamInv, Team!FinalVerify PROVE TeamInv'
BY UnfinishedRuns, FailHolds, LastPlaces DEF Team!FinalVerify, Team!provider, Team!bounds, TeamInv,
  AttemptStands

\* The save that ends is what is saved.
LEMMA CompleteHolds == ASSUME TeamInv, Team!Complete PROVE TeamInv'
<1>1. TeamFits /\ AttemptStands /\ GroupStands /\ PoliciesStand /\ AgentsStand /\ act \in TeamActions
  BY DEF TeamInv, TeamFits
<1>2. /\ UNCHANGED <<teamLive, groups, agents, teamEdits>> /\ pc = "complete" /\ pc' = "idle"
      /\ act' = [Team!NoAction EXCEPT !.st = "succeeded"]
  BY DEF Team!Complete, Team!provider, Team!bounds
<1> DEFINE gid == IF act.want.team = {} THEN 0 ELSE Team!Gid
           aids == [app \in Team!Apps |-> IF act.want.tokens = 0 THEN 0 ELSE Team!AgentId(app)]
<1>3. /\ saved'.direct = act.want.direct /\ saved'.team = act.want.team /\ saved'.grant = act.want.grant
      /\ saved'.tokens = act.want.tokens /\ saved'.gid = gid /\ saved'.aids = aids
      /\ saved' = Team!Record(act.want, gid, aids)
  BY DEF Team!Complete, Team!Record
<1>4. /\ act' \in TeamActions /\ act'.st = "succeeded" /\ act'.want = Team!NoRequest
      /\ act' = [Team!NoAction EXCEPT !.st = act'.st]
      /\ act'.gid = 0 /\ act'.journal = Team!Clean /\ \A app \in Team!Apps : act'.aids[app] = 0
  <2>1. Team!NoRequest \in Team!Requests
    BY DEF Team!NoRequest, Team!Requests, Team!Tokens
  <2> QED
    BY <1>2, <2>1 DEF Team!NoAction, TeamActions, TeamStates, TeamPhases, Team!Clean, Team!NoAids
<1>5. /\ \A e \in Team!Entries : act'.journal[e] = "none"
      /\ \A app \in Team!Apps : app \in Team!Entries /\ Team!AgentKey(app) \in Team!Entries
      /\ "group" \in Team!Entries
  BY <1>4 DEF Team!Clean, Team!Entries, Team!AgentKey, Team!Apps
<1>6. /\ act.want \in Team!Requests /\ gid \in Team!Ids \cup {0}
      /\ \A app \in Team!Apps : Team!AgentId(app) \in Team!Ids \cup {0}
  BY <1>1 DEF TeamActions, TeamFits, Team!Teams, Team!Gid, Team!AgentId
<1>7. TeamFits'
  <2>1. aids \in [Team!Apps -> Team!Ids \cup {0}]
    BY <1>6
  <2> HIDE DEF gid, aids
  <2>2. saved' \in Team!Teams
    BY <1>3, <1>6, <2>1 DEF Team!Record, Team!Teams, Team!Requests
  <2> QED BY <1>1, <1>2, <1>4, <2>2 DEF TeamFits
<1>8. AttemptStands'
  BY <1>2, <1>4, IdleStands
<1>9. /\ Creating \/ Updating \/ Deleting => Phase("group") = "verified"
      /\ ~(Creating \/ Updating \/ Deleting) => Phase("group") = "none"
  BY <1>1, <1>2 DEF AttemptStands, GroupStands, PastGroups, PastPolicies, PastAgents, Phase,
    TeamActions, Team!Entries
<1>10. (act.want.team = {} <=> gid = 0) /\ (act.want.team = {} => groups = {})
       /\ (act.want.team # {} => groups # {} /\ \A g \in groups : g.id = gid)
       /\ (teamEdits = 0 => \A g \in groups : g.members = act.want.team)
  BY <1>1, <1>9 DEF GroupStands, Creating, Team!Gid, Deleting, Updating
<1>11. \A g, h \in groups : g = h
  BY <1>1 DEF GroupStands
<1>12. \A g \in groups : g.members # {}
  BY <1>1 DEF GroupStands
<1> HIDE DEF aids
<1>13. GroupStands'
  <2> HIDE DEF gid
  <2>1. Phase("group")' = "none" /\ ~Creating' /\ act'.gid = 0 /\ ~Updating'
    BY <1>4, <1>5 DEF Phase, Creating, Updating, Team!NoRequest
  <2> QED BY <1>2, <1>3, <1>10, <1>11, <1>12, <2>1 DEF GroupStands
<1>14. PoliciesStand'
  <2>1. \A app \in Team!Apps : teamLive[app].groups \subseteq {gid} \ {0}
    BY <1>1, <1>2 DEF PoliciesStand, AttemptStands, GroupStands, Team!Gid, Creating
  <2>2. \A app \in Team!Apps : Team!Before(app)' = Team!After(app)
    BY <1>3 DEF Team!Before, Team!After, Team!PolicyOf
  <2>3. teamEdits = 0 => \A app \in Team!Apps : teamLive[app] = Team!After(app)
    BY <1>1, <1>2 DEF AttemptStands, PastPolicies, PastAgents, Team!Apps
  <2>4. \A app \in Team!Apps : Phase(app)' = "none"
    BY <1>5 DEF Phase
  <2>5. Phase("group")' = "none"
    BY <1>5 DEF Phase
  <2> HIDE DEF gid
  <2> QED BY <1>2, <1>3, <1>4, <2>1, <2>2, <2>3, <2>4, <2>5 DEF PoliciesStand, PolicyIs
<1>15. ASSUME NEW app \in Team!Apps PROVE AgentStand(app)'
  <2>1. AgentStand(app) /\ agents[app] \subseteq Team!AgentPolicies
    BY <1>1 DEF AgentsStand, TeamFits
  <2>2. aids[app] = (IF act.want.tokens = 0 THEN 0 ELSE Team!AgentId(app))
    BY DEF aids
  <2>3. Team!AgentPhase(app) = IF AgentsMove THEN "verified" ELSE "none"
    BY <1>1, <1>2, <1>5, <2>1 DEF AttemptStands, PastAgents, Team!AgentPhase, Phase, Team!AgentKey,
      Team!Apps, TeamActions, AgentStand
  <2>4. /\ act.want.tokens = 0 <=> aids[app] = 0
        /\ \A a \in agents[app] : a.tokens = act.want.tokens /\ (act.want.tokens # 0 => a.id = aids[app])
        /\ teamEdits = 0 => (agents[app] = {} <=> act.want.tokens = 0)
    BY <2>1, <2>2, <2>3 DEF AgentStand, Team!AgentId, AgentsMove
  <2>5. Team!AgentPhase(app)' = "none" /\ act'.aids[app] = 0
    BY <1>4, <1>5 DEF Team!AgentPhase
  <2>6. /\ saved'.tokens = act.want.tokens /\ saved'.aids[app] = aids[app]
        /\ agents' = agents /\ teamEdits' = teamEdits
    BY <1>2, <1>3
  <2>7. \A a, b \in agents[app] : a = b
    BY <2>1 DEF AgentStand
  <2> QED BY <2>4, <2>5, <2>6, <2>7 DEF AgentStand
<1> QED BY <1>7, <1>8, <1>13, <1>14, <1>15 DEF TeamInv, AgentsStand

\* A saved team that is adopted from Cloudflare: nothing was changed there, and it is the saved one;
\* or something was.
LEMMA ReadTeamHolds == ASSUME TeamInv, Team!ReadTeam PROVE TeamInv'
<1>1. TeamFits /\ AttemptStands /\ GroupStands /\ PoliciesStand /\ AgentsStand /\ act \in TeamActions
  BY DEF TeamInv, TeamFits
<1>2. /\ UNCHANGED <<teamLive, groups, agents, pc, teamEdits>> /\ pc = "idle" /\ ~Team!Unfinished
      /\ act' = Team!NoAction
  BY DEF Team!ReadTeam, Team!provider, Team!bounds
<1> DEFINE team  == UNION {g.members : g \in groups}
           grant == IF saved.gid # 0 THEN teamLive["source"].groups # {} ELSE saved.grant
           r == [Team!Request(saved) EXCEPT !.direct = teamLive["source"].direct, !.team = team,
                   !.grant = grant]
<1>3. r # Team!Request(saved) /\ saved' = Team!Record(r, saved.gid, saved.aids)
  BY DEF Team!ReadTeam, Team!Request
<1>4. /\ act.gid = 0 /\ act.journal = Team!Clean /\ act.want.team = {}
      /\ \A app \in Team!Apps : act.aids[app] = 0
  BY <1>1, <1>2 DEF AttemptStands, Team!NoAction, Team!NoRequest, Team!NoAids
<1>5. /\ \A e \in Team!Entries : act.journal[e] = "none"
      /\ \A app \in Team!Apps : app \in Team!Entries /\ Team!AgentKey(app) \in Team!Entries
      /\ "group" \in Team!Entries
  BY <1>4 DEF Team!Clean, Team!Entries, Team!AgentKey, Team!Apps
<1>6. Phase("group") = "none" /\ ~Creating
  BY <1>4, <1>5 DEF Phase, Creating
<1>7. (saved.gid # 0 <=> groups # {}) /\ (saved.team = {} <=> saved.gid = 0)
  BY <1>1, <1>6 DEF GroupStands, Creating, Deleting
<1>8. team = {} <=> saved.gid = 0
  BY <1>7, <1>1 DEF GroupStands
<1>9. team \in SUBSET People /\ grant \in BOOLEAN /\ teamLive["source"].direct \in SUBSET Individuals
  <2>1. team \in SUBSET People
    BY <1>1 DEF TeamFits, Team!Groups
  <2>2. grant \in BOOLEAN
    BY <1>1 DEF TeamFits, Team!Teams
  <2>3. teamLive["source"].direct \in SUBSET Individuals
    BY <1>1 DEF TeamFits, Team!Selectors, Team!Apps
  <2> QED BY <2>1, <2>2, <2>3
<1>10. teamEdits # 0
  <2> SUFFICES ASSUME teamEdits = 0 PROVE FALSE
    OBVIOUS
  <2>1. \A app \in Team!Apps : teamLive[app] = Team!Before(app)
    BY <1>1, <1>5 DEF PoliciesStand, PolicyIs, Phase
  <2>2. teamLive["source"].direct = saved.direct
    BY <2>1 DEF Team!Before, Team!PolicyOf, Team!Apps
  <2>3. team = saved.team
    BY <1>7, <1>1, <1>6 DEF GroupStands
  <2>4. grant = saved.grant
    BY <1>1, <1>7, <2>1 DEF TeamFits, Team!Teams, Team!Before, Team!PolicyOf, Team!Apps
  <2> HIDE DEF team, grant
  <2> DEFINE was == Team!Request(saved)
  <2>4a. /\ was \in [direct : SUBSET Individuals, team : SUBSET People, grant : BOOLEAN, tokens : Team!Tokens]
         /\ was.direct = saved.direct /\ was.team = saved.team /\ was.grant = saved.grant
    BY <1>1 DEF Team!Request, TeamFits, Team!Teams
  <2> HIDE DEF was
  <2>5. PICK s \in [direct : SUBSET Individuals, team : SUBSET People, grant : BOOLEAN, tokens : Team!Tokens] :
          /\ s = was
          /\ s.direct = saved.direct /\ s.team = saved.team /\ s.grant = saved.grant
    BY <2>4a
  <2>6. r = Team!Request(saved)
    <3>1. r = [s EXCEPT !.direct = saved.direct, !.team = saved.team, !.grant = saved.grant]
      BY <2>2, <2>3, <2>4, <2>5 DEF was
    <3> HIDE DEF r
    <3> QED BY <2>5, <3>1 DEF was
  <2> QED BY <1>3, <2>6
<1> HIDE DEF team, grant
<1>11. /\ saved' \in Team!Teams /\ saved'.team = team /\ saved'.tokens = saved.tokens
       /\ saved'.gid = saved.gid /\ saved'.aids = saved.aids
  BY <1>1, <1>3, <1>9 DEF TeamFits, Team!Record, Team!Request, Team!Teams
<1>12. /\ act' \in TeamActions /\ act'.want = Team!NoRequest /\ act'.gid = 0 /\ act'.journal = Team!Clean
       /\ act' = [Team!NoAction EXCEPT !.st = act'.st] /\ \A app \in Team!Apps : act'.aids[app] = 0
  <2>1. Team!NoRequest \in Team!Requests
    BY DEF Team!NoRequest, Team!Requests, Team!Tokens
  <2> QED
    BY <1>2, <2>1 DEF Team!NoAction, TeamActions, TeamStates, TeamPhases, Team!Clean, Team!NoAids
<1>13. TeamFits'
  BY <1>1, <1>2, <1>11, <1>12 DEF TeamFits
<1>14. AttemptStands'
  BY <1>2, <1>12, IdleStands
<1>15. \A e \in Team!Entries : Phase(e)' = "none"
  BY <1>12 DEF Phase, Team!Clean
<1>16. GroupStands'
  BY <1>5, <1>12, <1>15, <1>1, <1>2, <1>7, <1>8, <1>10, <1>11 DEF Creating, Updating,
    Team!NoRequest, GroupStands
<1>17. PoliciesStand'
  BY <1>1, <1>2, <1>4, <1>10, <1>11, <1>12 DEF PoliciesStand
<1>18. ASSUME NEW app \in Team!Apps PROVE AgentStand(app)'
  BY <1>1, <1>5, <1>15, <1>2, <1>10, <1>11, <1>12 DEF AgentsStand, Team!AgentPhase, Phase,
    AgentStand
<1> QED BY <1>13, <1>14, <1>16, <1>17, <1>18 DEF TeamInv, AgentsStand

\* A change made in the dashboard.
LEMMA EditHolds == ASSUME TeamInv, Team!Edit PROVE TeamInv'
<1>1. TeamFits /\ AttemptStands /\ GroupStands /\ PoliciesStand /\ AgentsStand /\ act \in TeamActions
  BY DEF TeamInv, TeamFits
<1>2. UNCHANGED <<saved, act, pc>> /\ teamEdits' = teamEdits + 1
  BY DEF Team!Edit
<1>3. teamEdits' \in Nat /\ teamEdits' # 0
  BY <1>1, <1>2 DEF TeamFits
<1>4. CASE Team!EditGroup
  <2>1. PICK team \in (SUBSET People) \ {{}} :
          groups # {} /\ groups' = {[g EXCEPT !.members = team] : g \in groups} /\ UNCHANGED <<teamLive, agents>>
    BY <1>4 DEF Team!EditGroup, Team!SetMembers
  <2>2. ASSUME NEW h \in groups'
        PROVE  /\ h \in Team!Groups /\ h.members = team
               /\ \E g \in groups : h.id = g.id /\ h = [g EXCEPT !.members = team]
    <3>1. PICK g \in groups : h = [g EXCEPT !.members = team]
      BY <2>1, <2>2
    <3>2. g \in Team!Groups
      BY <1>1 DEF TeamFits
    <3> QED BY <3>1, <3>2 DEF Team!Groups
  <2>3. /\ groups' # {} /\ groups' \subseteq Team!Groups
        /\ \A g, h \in groups' : g = h
    <3>1. \A g, h \in groups : g = h
      BY <1>1 DEF GroupStands
    <3>2. \A g, h \in groups' : g = h
      BY <2>1, <3>1
    <3>3. groups' # {}
      BY <2>1
    <3>4. groups' \subseteq Team!Groups
      BY <2>2
    <3> QED BY <3>2, <3>3, <3>4
  <2>4. TeamFits'
    BY <1>1, <1>2, <1>3, <2>1, <2>3 DEF TeamFits
  <2>5. AttemptStands'
    BY <1>2, <1>1, <1>3, <2>1 DEF Team!Unfinished, AttemptStands, Phase, Creating, Updating,
      Deleting, AgentsMove
  <2>6. GroupStands'
    BY <1>1, <1>2, <1>3, <2>1, <2>2, <2>3 DEF GroupStands, Phase, Creating, Updating, Deleting
  <2>7. PoliciesStand'
    BY <1>1, <1>2, <1>3, <2>1 DEF PoliciesStand
  <2>8. AgentsStand'
    BY <1>1, <1>2, <1>3, <2>1 DEF AgentsStand, AgentStand, Team!AgentPhase, Team!AgentId, AgentsMove
  <2> QED BY <2>4, <2>5, <2>6, <2>7, <2>8 DEF TeamInv
<1>5. CASE Team!EditPolicy
  <2>1. UNCHANGED <<groups, agents>>
    BY <1>5 DEF Team!EditPolicy
  <2>2. /\ teamLive' \in [Team!Apps -> Team!Selectors]
        /\ \A app \in Team!Apps :
             teamLive'[app].groups \subseteq teamLive[app].groups \/ teamLive'[app].groups \subseteq teamLive["portal"].groups
    <3>1. teamLive \in [Team!Apps -> Team!Selectors] /\ "portal" \in Team!Apps
      BY <1>1 DEF TeamFits, Team!Apps
    <3>2. ASSUME NEW dd \in SUBSET Individuals,
                 teamLive' = [app \in Team!Apps |-> [teamLive[app] EXCEPT !.direct = dd]]
          PROVE  \A app \in Team!Apps :
                   teamLive'[app] \in Team!Selectors /\ teamLive'[app].groups = teamLive[app].groups
      <4> SUFFICES ASSUME NEW app \in Team!Apps
                   PROVE  teamLive'[app] \in Team!Selectors /\ teamLive'[app].groups = teamLive[app].groups
        OBVIOUS
      <4>1. teamLive'[app] = [teamLive[app] EXCEPT !.direct = dd] /\ teamLive[app] \in Team!Selectors
        BY <3>1, <3>2
      <4> QED BY <4>1 DEF Team!Selectors
    <3>3. ASSUME NEW gg \in SUBSET teamLive["portal"].groups,
                 teamLive' = [teamLive EXCEPT !["source"].groups = gg]
          PROVE  \A app \in Team!Apps :
                   /\ teamLive'[app] \in Team!Selectors
                   /\ teamLive'[app].groups = teamLive[app].groups \/ teamLive'[app].groups = gg
      <4> SUFFICES ASSUME NEW app \in Team!Apps
                   PROVE  /\ teamLive'[app] \in Team!Selectors
                          /\ teamLive'[app].groups = teamLive[app].groups \/ teamLive'[app].groups = gg
        OBVIOUS
      <4>1. teamLive'[app] = (IF app = "source" THEN [teamLive[app] EXCEPT !.groups = gg] ELSE teamLive[app])
        BY <3>1, <3>3
      <4>2. teamLive[app] \in Team!Selectors /\ gg \in SUBSET Team!Ids
        BY <3>1, <3>3 DEF Team!Selectors
      <4>3. CASE app = "source"
        BY <4>1, <4>2, <4>3 DEF Team!Selectors
      <4>4. CASE app # "source"
        BY <4>1, <4>2, <4>4
      <4> QED BY <4>3, <4>4
    <3>4. \/ \E dd \in SUBSET Individuals :
               teamLive' = [app \in Team!Apps |-> [teamLive[app] EXCEPT !.direct = dd]]
          \/ \E gg \in SUBSET teamLive["portal"].groups :
               teamLive' = [teamLive EXCEPT !["source"].groups = gg]
      BY <1>5 DEF Team!EditPolicy
    <3>5. teamLive' = [app \in Team!Apps |-> teamLive'[app]]
      BY <3>1, <3>4
    <3>6. CASE \E dd \in SUBSET Individuals :
                 teamLive' = [app \in Team!Apps |-> [teamLive[app] EXCEPT !.direct = dd]]
      BY <3>2, <3>6, <3>5
    <3>7. CASE \E gg \in SUBSET teamLive["portal"].groups :
                 teamLive' = [teamLive EXCEPT !["source"].groups = gg]
      <4>1. PICK gg \in SUBSET teamLive["portal"].groups :
              teamLive' = [teamLive EXCEPT !["source"].groups = gg]
        BY <3>7
      <4>2. \A app \in Team!Apps :
              /\ teamLive'[app] \in Team!Selectors
              /\ teamLive'[app].groups = teamLive[app].groups \/ teamLive'[app].groups = gg
        BY <3>3, <4>1
      <4> QED BY <3>5, <4>1, <4>2
    <3> QED BY <3>4, <3>6, <3>7
  <2>3. TeamFits'
    BY <1>1, <1>2, <1>3, <2>1, <2>2 DEF TeamFits
  <2>4. AttemptStands'
    BY <1>2, <1>1, <2>2, <1>3 DEF Team!Unfinished, Team!Apps, AttemptStands, Phase, Creating,
      Updating, Deleting, AgentsMove
  <2>5. GroupStands'
    BY <1>1, <1>2, <1>3, <2>1 DEF GroupStands, Phase, Creating, Updating, Deleting
  <2>6. PoliciesStand'
    BY <1>1, <1>2, <1>3, <2>2 DEF Team!Apps, PoliciesStand
  <2>7. AgentsStand'
    BY <1>1, <1>2, <1>3, <2>1 DEF AgentsStand, AgentStand, Team!AgentPhase, Team!AgentId, AgentsMove
  <2> QED BY <2>3, <2>4, <2>5, <2>6, <2>7 DEF TeamInv
<1>6. CASE Team!EditAgents
  <2>1. PICK app \in Team!Apps : agents' = [agents EXCEPT ![app] = {}] /\ UNCHANGED <<teamLive, groups>>
    BY <1>6 DEF Team!EditAgents
  <2>2. /\ agents' \in [Team!Apps -> SUBSET Team!AgentPolicies]
        /\ \A o \in Team!Apps : agents'[o] \in {agents[o], {}}
    BY <1>1, <2>1 DEF TeamFits
  <2>3. TeamFits'
    BY <1>1, <1>2, <1>3, <2>1, <2>2 DEF TeamFits
  <2>4. AttemptStands'
    BY <1>2, <1>1, <1>3, <2>1 DEF Team!Unfinished, AttemptStands, Phase, Creating, Updating,
      Deleting, AgentsMove
  <2>5. GroupStands'
    BY <1>1, <1>2, <1>3, <2>1 DEF GroupStands, Phase, Creating, Updating, Deleting
  <2>6. PoliciesStand'
    BY <1>1, <1>2, <1>3, <2>1 DEF PoliciesStand
  <2>7. ASSUME NEW o \in Team!Apps PROVE AgentStand(o)'
    BY <1>1, <2>2, <1>2, <1>3 DEF AgentsStand, AgentStand, Team!AgentPhase, Team!AgentId, AgentsMove
  <2> QED BY <2>3, <2>4, <2>5, <2>6, <2>7 DEF TeamInv, AgentsStand
<1> QED BY <1>4, <1>5, <1>6 DEF Team!Edit

\* Every step.
LEMMA TeamStepHolds == TeamInv /\ [Team!Next]_Team!vars => TeamInv'
<1> SUFFICES ASSUME TeamInv, [Team!Next]_Team!vars PROVE TeamInv'
  OBVIOUS
<1>1. CASE UNCHANGED Team!vars
  BY <1>1, DataKept DEF Team!vars, TeamInv, TeamFits, Team!Unfinished, Team!After, Team!PolicyOf,
    Team!Gid, AttemptStands, Phase, Creating, Updating, Deleting, AgentsMove, Team!Apps, KeptAct
<1>2. CASE Team!Step
  BY PolicyStandsHolds, WritePolicyHolds, AgentStandsHolds, WriteAgentsHolds, DriftedAgentsHolds,
    ClaimHolds, TeamVerifyHolds, CreateGroupHolds, FindGroupHolds, UpdateGroupHolds,
    GroupsDoneHolds, RebindHolds, DeleteGroupHolds, NothingToDeleteHolds, FinalVerifyHolds,
    CompleteHolds, <1>2 DEF Team!Step
<1>3. CASE (\E r \in Team!Requests : Team!Save(r)) \/ Team!Cancel \/ Team!Interrupt
  BY <1>3, SaveHolds, CancelHolds, InterruptHolds
<1>4. CASE Team!ReadTeam \/ Team!Edit
  BY <1>4, ReadTeamHolds, EditHolds
<1> QED BY <1>1, <1>2, <1>3, <1>4 DEF Team!Next

(* However a Team save is interrupted, refused, resumed or cancelled, by any  *)
(* people and after any number of changes in Cloudflare: the group and the    *)
(* agent policies are single and known, an ended save is live as it was       *)
(* saved, no policy names a group that is gone, and nobody enters before the  *)
(* members are set.                                                          *)
THEOREM TeamSafety == Team!Spec => []Team!Safe
<1>1. TeamInv /\ [Team!Next]_Team!vars => TeamInv'
  BY TeamStepHolds
<1>2. Team!Spec => []TeamInv
  BY <1>1, TeamInitHolds, PTL DEF Team!Spec
<1> QED BY <1>2, TeamInvIsSafe, PTL

(* The same of the run, of both its parts.                                    *)
THEOREM TeamInRun == AnySpec => []TeamIsSafe
<1> DEFINE Inv == part \in {"team", "dashboard"} => TeamInv
<1>1. AnyInit => Inv
  BY TeamInitHolds
  DEF AnyInit, TeamInit, DashboardInit, ChangeInit, CheckInit, EntranceInit
<1>2. Inv /\ [AnyNext]_allVars => Inv'
  <2> SUFFICES ASSUME Inv, [AnyNext]_allVars, part' \in {"team", "dashboard"} PROVE TeamInv'
    OBVIOUS
  <2>1. CASE TeamNext \/ DashboardNext
    BY <2>1, TeamStepHolds DEF TeamNext, DashboardNext
  <2>2. CASE UNCHANGED allVars
    BY <2>2, TeamStepHolds DEF allVars, Team!vars
  <2>3. CASE ChangeNext \/ CheckNext \/ EntranceNext
    BY <2>3 DEF ChangeNext, CheckNext, EntranceNext
  <2> QED BY <2>1, <2>2, <2>3 DEF AnyNext
<1>3. Inv => TeamIsSafe
  BY TeamInvIsSafe DEF TeamIsSafe
<1> QED BY <1>1, <1>2, <1>3, PTL DEF AnySpec
==============================================================================
