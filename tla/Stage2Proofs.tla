---------------------------- MODULE Stage2Proofs ----------------------------
(***************************************************************************)
(* Proofs about Stage2, for any set of attempts, any lease lifetime and    *)
(* any bound of the clock.                                                 *)
(*                                                                         *)
(* Discipline is about the journal alone: what the copies in memory, the   *)
(* stored phases and the sent writes have to do with each other.  World    *)
(* adds what is on the wire and what exists at the provider.               *)
(***************************************************************************)
EXTENDS Stage2, TLAPS

\* A copy is never ahead of the stored journal, and a copy of the stored
\* revision is the stored journal.
Copies ==
  /\ journal.rev = 0 => journal = NoJournal
  /\ \A r \in Attempts :
       /\ ctx[r].rev <= journal.rev
       /\ ctx[r].rev = journal.rev => ctx[r] = journal
       /\ \A a \in Names : ctx[r].phase[a] \in Armed => journal.phase[a] \in Armed

\* An action is armed only behind verified ones.
ArmedOrder ==
  \A a \in Names : journal.phase[a] \in Armed =>
    \A b \in Earlier(a) : journal.phase[b] = "verified"

\* A pass on its way to the provider and back works on an armed action.
PassArmed ==
  \A r \in Attempts : pc[r] \in {"send", "await", "submit"} =>
    ctx[r].phase[at[r]] = "send_armed"

\* What was sent is armed in the stored journal.
SentArmed == \A a \in Names : sent[a] > 0 => journal.phase[a] \in Armed

\* Whoever is about to send a creation is alone, and nobody did before.
SoleSender ==
  \A r \in Attempts : pc[r] = "send" /\ at[r] \in Creates =>
    /\ sent[at[r]] = 0
    /\ \A q \in Attempts : pc[q] = "send" /\ at[q] = at[r] => q = r

Discipline == TypeOK /\ Copies /\ ArmedOrder /\ PassArmed /\ SentArmed
              /\ SoleSender /\ CreateSentOnce

-----------------------------------------------------------------------------
\* Only a waiting or a dead pass has a write on the wire.
WireState ==
  \A r \in Attempts :
    /\ wire[r] = "sent" => pc[r] \in {"await", "failed"} /\ sent[at[r]] > 0
    /\ wire[r] = "applied" => pc[r] = "await"

\* A creation is on the wire at most once, and then it does not exist yet.
Flight ==
  \A r \in Attempts : wire[r] = "sent" /\ at[r] \in Creates =>
    /\ res[at[r]] = 0
    /\ \A q \in Attempts : wire[q] = "sent" /\ at[q] = at[r] => q = r

\* What exists was sent; a creation exists at most once.
Exists ==
  \A a \in Creates : res[a] <= 1 /\ (res[a] > 0 => sent[a] > 0)

\* The creation a was sent, took effect and is not under way any more.
Done(a) ==
  /\ sent[a] > 0
  /\ \A q \in Attempts : ~(wire[q] = "sent" /\ at[q] = a)
  /\ a # DnsRecord => res[a] = 1

\* A pass with an answer, and a journal with a locator, know the effect.
Effect ==
  /\ \A r \in Attempts :
       (pc[r] = "submit" \/ wire[r] = "applied") =>
         /\ at[r] \in Creates => Done(at[r])
         /\ at[r] = DnsRelease => res[DnsRecord] = 0
  /\ \A a \in Creates : journal.phase[a] \in Located => Done(a)
  /\ journal.phase[DnsRelease] \in Located => res[DnsRecord] = 0

World == WireState /\ Flight /\ Exists /\ Effect

-----------------------------------------------------------------------------
\* The writes that may be repeated, because once is as good as twice.
Repeatable == {Gateway, WorkersDev, FinalRuntime}

\* Such a write that has an answer or a locator took effect for good, and
\* nobody else brings its effect about.
Lasting ==
  /\ \A a \in Repeatable :
       /\ res[a] \in {0, 1} /\ (res[a] = 1 => sent[a] > 0)
       /\ journal.phase[a] \in Located => res[a] = 1
  /\ \A r \in Attempts : (pc[r] = "submit" \/ wire[r] = "applied") /\ at[r] \in Repeatable =>
       res[at[r]] = 1

\* The placeholder that has an answer or a locator is there until its release
\* is armed.
Placed ==
  /\ journal.phase[DnsRecord] \in Located =>
       res[DnsRecord] = 1 \/ journal.phase[DnsRelease] \in Armed
  /\ \A r \in Attempts : (pc[r] = "submit" \/ wire[r] = "applied") /\ at[r] = DnsRecord =>
       res[DnsRecord] = 1 \/ journal.phase[DnsRelease] \in Armed

\* A completed journal has every action verified and nobody's lease.
Closed ==
  journal.completed =>
    /\ \A a \in Names : journal.phase[a] = "verified"
    /\ journal.lease.holder = NoAttempt

Truth == Lasting /\ Placed /\ Closed
-----------------------------------------------------------------------------
(* Facts about the fixed order.                                             *)

\* Every action but the last has a successor in the sequence
\* (customerStage2ActionSequence).
LEMMA SuccessorInNames ==
  ASSUME NEW a \in Names, a # FinalRuntime
  PROVE  Successor(a) \in Names
<1> USE DEF Later, Names, Rank, DnsRecord, Application, AdminPolicy, SvcPolicy,
      Gateway, DnsRelease, CustomDomain, WorkersDev, Terminal, FinalRuntime
<1>1. \E b \in Later(a) : \A c \in Later(a) : Rank[b] <= Rank[c]
  <2>1. CASE a = DnsRecord     BY <2>1
  <2>2. CASE a = Application   BY <2>2
  <2>3. CASE a = AdminPolicy   BY <2>3
  <2>4. CASE a = SvcPolicy     BY <2>4
  <2>5. CASE a = Gateway       BY <2>5
  <2>6. CASE a = DnsRelease    BY <2>6
  <2>7. CASE a = CustomDomain  BY <2>7
  <2>8. CASE a = WorkersDev    BY <2>8
  <2>9. CASE a = Terminal      BY <2>9
  <2> QED BY <2>1, <2>2, <2>3, <2>4, <2>5, <2>6, <2>7, <2>8, <2>9
<1>2. Successor(a) \in Later(a)
  BY <1>1 DEF Successor
<1> QED BY <1>2

\* The actions the properties single out, and where they stand.
LEMMA OrderFacts ==
  /\ Creates \subseteq Names
  /\ {DnsRecord, DnsRelease, CustomDomain, Application, AdminPolicy} \subseteq Names
  /\ DnsRelease \notin Creates /\ DnsRecord # DnsRelease /\ DnsRecord # CustomDomain
  /\ DnsRecord \in Creates /\ CustomDomain \in Creates
  /\ DnsRecord \in Earlier(DnsRelease) /\ DnsRelease \in Earlier(CustomDomain)
  /\ {Application, AdminPolicy} \cup (Creates \cap {SvcPolicy})
       \subseteq (Earlier(CustomDomain) \cap Creates) \ {DnsRecord}
BY DEF Creates, Names, Earlier, Rank, DnsRecord, Application, AdminPolicy, SvcPolicy,
   Gateway, DnsRelease, CustomDomain, WorkersDev, Terminal, FinalRuntime
-----------------------------------------------------------------------------
(* Types.                                                                   *)

\* The journal's transitions yield journals.
LEMMA JournalTypes ==
  ASSUME NEW j \in Journals, NEW r \in Attempts, NEW a \in Names, now \in Nat
  PROVE  /\ NoJournal \in Journals
         /\ CreateJournal(r) \in Journals
         /\ TakeLease(j, r) \in Journals
         /\ ReleaseLease(j) \in Journals
         /\ CompleteJournal(j) \in Journals
         /\ \A p \in Phases : SetPhase(j, a, p) \in Journals
<1>1. NoJournal \in Journals
  BY DEF NoJournal, Journals, NoLease, Leases, Phases
<1>2. LeaseTo(r) \in Leases /\ NoLease \in Leases
  BY TimeAssumption DEF LeaseTo, NoLease, Leases
<1>3. CreateJournal(r) \in Journals
  BY <1>1, <1>2, TimeAssumption DEF CreateJournal, Journals
<1>4. NextRevision(j) \in Journals
  BY DEF NextRevision, Journals
<1>5. TakeLease(j, r) \in Journals /\ ReleaseLease(j) \in Journals
  BY <1>2, <1>4 DEF TakeLease, ReleaseLease, Journals
<1>6. CompleteJournal(j) \in Journals
  BY <1>5 DEF CompleteJournal, Journals
<1>7. \A p \in Phases : SetPhase(j, a, p) \in Journals
  BY <1>4 DEF SetPhase, Journals
<1> QED BY <1>1, <1>3, <1>5, <1>6, <1>7

\* A transition is stored and copied with its type.
LEMMA PersistTypes ==
  ASSUME TypeOK, NEW r \in Attempts, NEW next \in Journals, Persist(r, next)
  PROVE  journal' \in Journals /\ ctx' \in [Attempts -> Journals]
BY DEF TypeOK, Persist

\* Every step keeps the types.
LEMMA TypeStep ==
  ASSUME TypeOK, [Next]_vars
  PROVE  TypeOK'
<1>1. CASE UNCHANGED vars
  BY <1>1 DEF TypeOK, vars
<1>2. CASE Tick
  BY <1>2 DEF TypeOK, Tick
<1>3. ASSUME NEW r \in Attempts, Step(r) PROVE TypeOK'
  <2> USE DEF TypeOK, Goto, Active
  <2>0. NoJournal \in Journals /\ ctx[r] \in Journals /\ at[r] \in Names
    BY JournalTypes
  <2>1. CASE Open(r)
    BY <2>1, OrderFacts DEF Open
  <2>2. CASE Create(r)
    <3>1. CreateJournal(r) \in Journals
      BY <2>0, JournalTypes
    <3> QED BY <2>2, <3>1, PersistTypes DEF Create
  <2>3. CASE Acquire(r)
    <3>1. TakeLease(ctx[r], r) \in Journals
      BY <2>0, JournalTypes
    <3> QED BY <2>3, <3>1, PersistTypes DEF Acquire
  <2>4. CASE Continue(r)
    BY <2>4 DEF Continue
  <2>5. CASE ProveCompleted(r)
    BY <2>5 DEF ProveCompleted
  <2>6. CASE Renew(r)
    <3>1. TakeLease(ctx[r], r) \in Journals
      BY <2>0, JournalTypes
    <3> QED BY <2>6, <3>1, PersistTypes DEF Renew
  <2>7. CASE Prepare(r)
    <3>1. SetPhase(ctx[r], at[r], "prepared") \in Journals
      BY <2>0, JournalTypes DEF Phases
    <3> QED BY <2>7, <3>1, PersistTypes DEF Prepare
  <2>8. CASE Arm(r)
    <3>1. SetPhase(ctx[r], at[r], "send_armed") \in Journals
      BY <2>0, JournalTypes DEF Phases
    <3> QED BY <2>8, <3>1, PersistTypes DEF Arm
  <2>9. CASE Recover(r)
    BY <2>9 DEF Recover
  <2>10. CASE Resume(r)
    BY <2>10 DEF Resume
  <2>11. CASE Send(r)
    BY <2>11 DEF Send
  <2>12. CASE Land(r)
    BY <2>12, OrderFacts DEF Land, Applied
  <2>13. CASE Reply(r)
    BY <2>13 DEF Reply
  <2>14. CASE Submit(r)
    <3>1. SetPhase(ctx[r], at[r], "submitted") \in Journals
      BY <2>0, JournalTypes DEF Phases
    <3> QED BY <2>14, <3>1, PersistTypes DEF Submit
  <2>15. CASE Prove(r)
    BY <2>15 DEF Prove
  <2>16. CASE Verify(r)
    <3>1. SetPhase(ctx[r], at[r], "verified") \in Journals
      BY <2>0, JournalTypes DEF Phases
    <3> QED BY <2>16, <3>1, PersistTypes DEF Verify
  <2>17. CASE Advance(r)
    BY <2>17, SuccessorInNames DEF Advance
  <2>18. CASE Complete(r)
    <3>1. CompleteJournal(ctx[r]) \in Journals
      BY <2>0, JournalTypes
    <3> QED BY <2>18, <3>1, PersistTypes DEF Complete
  <2>19. CASE Fail(r)
    <3>1. ReleaseLease(ctx[r]) \in Journals
      BY <2>0, JournalTypes
    <3> QED BY <2>0, <2>19, <3>1 DEF Fail, Discard
  <2>20. CASE Crash(r)
    BY <2>0, <2>20 DEF Crash, Discard
  <2> QED BY <1>3, <2>1, <2>2, <2>3, <2>4, <2>5, <2>6, <2>7, <2>8, <2>9, <2>10, <2>11,
             <2>12, <2>13, <2>14, <2>15, <2>16, <2>17, <2>18, <2>19, <2>20 DEF Step
<1> QED BY <1>1, <1>2, <1>3 DEF Next

\* The types hold before the first pass.
LEMMA TypeInit == Init => TypeOK
<1>1. NoJournal \in Journals
  BY DEF NoJournal, Journals, NoLease, Leases, Phases
<1> QED BY <1>1, OrderFacts DEF Init, TypeOK, Active

\* The variables of the converger and the provider keep their types.
THEOREM TypeCorrect == Spec => []TypeOK
BY TypeInit, TypeStep, PTL DEF Spec
-----------------------------------------------------------------------------
(* The journal and what is sent.                                            *)

\* What the journal's transitions do to the revision and the phases.
LEMMA TransitionEffects ==
  ASSUME NEW j \in Journals, NEW r \in Attempts, NEW a \in Names, NEW p \in Phases
  PROVE  /\ CreateJournal(r).rev = 1 /\ CreateJournal(r).phase = NoJournal.phase
         /\ TakeLease(j, r).rev = j.rev + 1 /\ TakeLease(j, r).phase = j.phase
         /\ ReleaseLease(j).rev = j.rev + 1 /\ ReleaseLease(j).phase = j.phase
         /\ CompleteJournal(j).rev = j.rev + 1 /\ CompleteJournal(j).phase = j.phase
         /\ SetPhase(j, a, p).rev = j.rev + 1
         /\ SetPhase(j, a, p).phase = [j.phase EXCEPT ![a] = p]
<1>1. NextRevision(j) \in Journals /\ NextRevision(j).rev = j.rev + 1
      /\ NextRevision(j).phase = j.phase
  BY DEF NextRevision, Journals
<1>2. /\ TakeLease(j, r).rev = j.rev + 1 /\ TakeLease(j, r).phase = j.phase
      /\ ReleaseLease(j).rev = j.rev + 1 /\ ReleaseLease(j).phase = j.phase
  BY <1>1 DEF TakeLease, ReleaseLease, Journals
<1>3. ReleaseLease(j) \in Journals
  BY <1>1 DEF ReleaseLease, Journals, NoLease, Leases
<1>4. CompleteJournal(j).rev = j.rev + 1 /\ CompleteJournal(j).phase = j.phase
  BY <1>2, <1>3 DEF CompleteJournal, Journals
<1>5. /\ SetPhase(j, a, p).rev = j.rev + 1
      /\ SetPhase(j, a, p).phase = [j.phase EXCEPT ![a] = p]
  BY <1>1 DEF SetPhase, Journals
<1>6. CreateJournal(r).rev = 1 /\ CreateJournal(r).phase = NoJournal.phase
  BY DEF CreateJournal
<1> QED BY <1>2, <1>4, <1>5, <1>6

\* A compare-and-set that raises the revision keeps the copies in step.
LEMMA PersistCopies ==
  ASSUME TypeOK, TypeOK', Copies, NEW r \in Attempts, NEW next, Persist(r, next),
         next.rev = ctx[r].rev + 1,
         \A a \in Names : ctx[r].phase[a] \in Armed => next.phase[a] \in Armed
  PROVE  Copies' /\ ctx[r] = journal
<1>1. ctx[r] = journal
  BY DEF Copies, Persist, Current
<1>2. journal.rev \in Nat /\ \A q \in Attempts : ctx[q].rev \in Nat
  BY DEF TypeOK, Journals
<1>3. journal'.rev = journal.rev + 1
  BY <1>1 DEF Persist
<1>4. \A a \in Names : journal.phase[a] \in Armed => journal'.phase[a] \in Armed
  BY <1>1 DEF Persist
<1>5. ASSUME NEW q \in Attempts, q # r
      PROVE  ctx'[q] = ctx[q]
  BY <1>5 DEF Persist, TypeOK
<1>6. ctx'[r] = journal'
  BY DEF Persist, TypeOK
<1> QED BY <1>1, <1>2, <1>3, <1>4, <1>5, <1>6 DEF Copies

\* A transition of the journal that disarms nothing, arms only behind
\* verified actions, and lets the pass send only what it just armed.
LEMMA PersistStep ==
  ASSUME Discipline, TypeOK', NEW r \in Attempts, NEW next \in Journals,
         Persist(r, next), UNCHANGED <<at, sent>>,
         next.rev = ctx[r].rev + 1,
         \A a \in Names : ctx[r].phase[a] \in Armed => next.phase[a] \in Armed,
         \A a \in Names : ctx[r].phase[a] = "verified" => next.phase[a] = "verified",
         \A a \in Names : next.phase[a] \in Armed =>
           ctx[r].phase[a] \in Armed
             \/ \A b \in Earlier(a) : ctx[r].phase[b] = "verified",
         \A q \in Attempts : q # r => pc'[q] = pc[q],
         pc'[r] \in {"send", "await", "submit"} => next.phase[at[r]] = "send_armed",
         pc'[r] = "send" => ctx[r].phase[at[r]] \notin Armed
  PROVE  Discipline'
<1> USE DEF Discipline
<1>1. Copies' /\ ctx[r] = journal
  BY PersistCopies
<1>2. journal' = next /\ ctx'[r] = next
      /\ \A q \in Attempts : q # r => ctx'[q] = ctx[q]
  BY DEF Persist, TypeOK
<1>3. ArmedOrder'
  <2> SUFFICES ASSUME NEW a \in Names, next.phase[a] \in Armed, NEW b \in Earlier(a)
               PROVE  next.phase[b] = "verified"
    BY <1>2 DEF ArmedOrder, Earlier
  <2>1. b \in Names
    BY DEF Earlier
  <2>2. ctx[r].phase[b] = "verified"
    BY <1>1 DEF ArmedOrder
  <2> QED BY <2>1, <2>2
<1>4. SentArmed' /\ CreateSentOnce'
  BY <1>1, <1>2 DEF SentArmed, CreateSentOnce
<1>5. PassArmed'
  BY <1>2 DEF PassArmed
<1>6. SoleSender'
  <2>1. CASE pc'[r] # "send"
    BY <2>1 DEF SoleSender
  <2>2. CASE pc'[r] = "send"
    <3>1. journal.phase[at[r]] \notin Armed /\ at[r] \in Names
      BY <1>1, <2>2 DEF TypeOK
    <3>2. sent[at[r]] = 0
      BY <3>1 DEF SentArmed, TypeOK
    <3>3. \A q \in Attempts : pc[q] = "send" => at[q] # at[r]
      BY <3>1 DEF PassArmed, Copies, Armed
    <3> QED BY <3>2, <3>3 DEF SoleSender
  <2> QED BY <2>1, <2>2
<1> QED BY <1>1, <1>3, <1>4, <1>5, <1>6

\* A step of the pass that leaves the journal and its copies alone, does not
\* send, and enters the way to the provider only with an armed action.
LEMMA PassStep ==
  ASSUME Discipline, TypeOK', NEW r \in Attempts,
         UNCHANGED <<journal, ctx, sent>>,
         \A q \in Attempts : q # r => pc'[q] = pc[q] /\ at'[q] = at[q],
         pc'[r] \in {"send", "await", "submit"} =>
           at'[r] = at[r] /\ ctx[r].phase[at[r]] = "send_armed",
         pc'[r] = "send" => at[r] \notin Creates
  PROVE  Discipline'
<1> USE DEF Discipline
<1>1. Copies' /\ ArmedOrder' /\ SentArmed' /\ CreateSentOnce'
  BY DEF Copies, ArmedOrder, SentArmed, CreateSentOnce, Earlier
<1>2. PassArmed'
  BY DEF PassArmed
<1>3. SoleSender'
  BY DEF SoleSender
<1> QED BY <1>1, <1>2, <1>3

\* The next phase of the action at hand, recorded by the pass.
LEMMA PhaseStep ==
  ASSUME Discipline, TypeOK', NEW r \in Attempts, NEW p \in Phases,
         Persist(r, SetPhase(ctx[r], at[r], p)), UNCHANGED <<at, sent>>,
         ctx[r].phase[at[r]] # "verified",
         ctx[r].phase[at[r]] \in Armed => p \in Armed,
         p \in Armed => \/ ctx[r].phase[at[r]] \in Armed
                        \/ \A b \in Earlier(at[r]) : ctx[r].phase[b] = "verified",
         \A q \in Attempts : q # r => pc'[q] = pc[q],
         pc'[r] \in {"step", "paused", "send"},
         pc'[r] = "send" => p = "send_armed" /\ ctx[r].phase[at[r]] = "prepared"
  PROVE  Discipline'
<1> DEFINE next == SetPhase(ctx[r], at[r], p)
<1>1. ctx[r] \in Journals /\ at[r] \in Names /\ ctx[r].phase \in [Names -> Phases]
      /\ now \in Nat
  BY DEF Discipline, TypeOK, Journals
<1>2. /\ next \in Journals /\ next.rev = ctx[r].rev + 1
      /\ next.phase = [ctx[r].phase EXCEPT ![at[r]] = p]
  BY <1>1, JournalTypes, TransitionEffects
<1> HIDE DEF next
<1>3. \A a \in Names : ctx[r].phase[a] \in Armed => next.phase[a] \in Armed
  BY <1>1, <1>2
<1>4. \A a \in Names : ctx[r].phase[a] = "verified" => next.phase[a] = "verified"
  BY <1>1, <1>2
<1>5. \A a \in Names : next.phase[a] \in Armed =>
        ctx[r].phase[a] \in Armed \/ \A b \in Earlier(a) : ctx[r].phase[b] = "verified"
  BY <1>1, <1>2
<1>6. pc'[r] \in {"send", "await", "submit"} => next.phase[at[r]] = "send_armed"
  BY <1>1, <1>2
<1>7. pc'[r] = "send" => ctx[r].phase[at[r]] \notin Armed
  BY DEF Armed
<1>8. Persist(r, next)
  BY DEF next
<1> QED BY <1>2, <1>3, <1>4, <1>5, <1>6, <1>7, <1>8, PersistStep

\* A transition of the journal that changes no phase.
LEMMA SamePhaseStep ==
  ASSUME Discipline, TypeOK', NEW r \in Attempts, NEW next \in Journals,
         Persist(r, next), UNCHANGED <<at, sent>>,
         next.rev = ctx[r].rev + 1, next.phase = ctx[r].phase,
         \A q \in Attempts : q # r => pc'[q] = pc[q],
         pc'[r] # "send",
         pc'[r] \in {"await", "submit"} => pc'[r] = pc[r]
  PROVE  Discipline'
<1>1. pc'[r] \in {"send", "await", "submit"} => next.phase[at[r]] = "send_armed"
  BY DEF Discipline, PassArmed
<1> QED BY <1>1, PersistStep

\* Before the first pass nothing is armed and nothing is sent.
LEMMA DisciplineInit == Init => Discipline
BY TypeInit DEF Init, Discipline, Copies, ArmedOrder, PassArmed, SentArmed, SoleSender,
   CreateSentOnce, NoJournal, Armed, Creates, Names

\* Every step keeps the journal ahead of the provider: only the pass whose
\* compare-and-set armed an action may send it.
LEMMA DisciplineStep ==
  ASSUME Discipline, [Next]_vars
  PROVE  Discipline'
<1>0. TypeOK /\ TypeOK'
  BY TypeStep DEF Discipline
<1>1. CASE UNCHANGED <<journal, ctx, pc, at, sent>>
  BY <1>0, <1>1 DEF Discipline, Copies, ArmedOrder, PassArmed, SentArmed, SoleSender,
     CreateSentOnce, Earlier
<1>2. ASSUME NEW r \in Attempts, Step(r) PROVE Discipline'
  <2>0. /\ ctx[r] \in Journals /\ at[r] \in Names /\ now \in Nat
        /\ ctx[r].phase \in [Names -> Phases]
    BY <1>0 DEF TypeOK, Journals
  <2>1. CASE Open(r)
    <3>1. Copies'
      <4>1. /\ journal' = journal /\ ctx'[r] = journal
            /\ \A q \in Attempts : q # r => ctx'[q] = ctx[q]
        BY <1>0, <2>1 DEF Open, TypeOK
      <4>2. journal.rev \in Nat
        BY <1>0 DEF TypeOK, Journals
      <4> QED BY <4>1, <4>2 DEF Discipline, Copies
    <3>2. ArmedOrder' /\ SentArmed' /\ CreateSentOnce'
      BY <2>1 DEF Open, Discipline, ArmedOrder, SentArmed, CreateSentOnce, Earlier
    <3>3. PassArmed' /\ SoleSender'
      BY <1>0, <2>1 DEF Open, Goto, Discipline, PassArmed, SoleSender, TypeOK
    <3> QED BY <1>0, <3>1, <3>2, <3>3 DEF Discipline
  <2>2. CASE Create(r)
    <3>1. ctx[r] = NoJournal
      BY <2>2 DEF Create, Persist, Current, Discipline, Copies
    <3>2. CreateJournal(r).rev = ctx[r].rev + 1 /\ CreateJournal(r).phase = ctx[r].phase
      BY <3>1 DEF CreateJournal, NoJournal
    <3>3. CreateJournal(r) \in Journals
      BY <2>0, JournalTypes
    <3>4. Persist(r, CreateJournal(r)) /\ pc' = [pc EXCEPT ![r] = "step"]
          /\ UNCHANGED <<at, sent>>
      BY <2>2 DEF Create, Goto
    <3> QED BY <1>0, <3>2, <3>3, <3>4, SamePhaseStep DEF TypeOK
  <2>3. CASE Acquire(r) \/ Renew(r)
    <3>1. /\ TakeLease(ctx[r], r) \in Journals
          /\ TakeLease(ctx[r], r).rev = ctx[r].rev + 1
          /\ TakeLease(ctx[r], r).phase = ctx[r].phase
      BY <2>0, JournalTypes, TransitionEffects DEF Phases
    <3>2. /\ Persist(r, TakeLease(ctx[r], r)) /\ UNCHANGED <<at, sent>>
          /\ pc' = [pc EXCEPT ![r] = "step"] \/ (pc' = pc /\ pc[r] # "send")
      BY <2>3 DEF Acquire, Renew, Goto
    <3> QED BY <1>0, <3>1, <3>2, SamePhaseStep DEF TypeOK
  <2>4. CASE Continue(r) \/ ProveCompleted(r) \/ Prove(r)
    BY <1>0, <2>4, PassStep DEF Continue, ProveCompleted, Prove, Goto, TypeOK
  <2>5. CASE Prepare(r)
    <3>1. /\ Persist(r, SetPhase(ctx[r], at[r], "prepared")) /\ UNCHANGED <<at, sent>>
          /\ ctx[r].phase[at[r]] = "absent" /\ pc'[r] = "step"
          /\ \A q \in Attempts : q # r => pc'[q] = pc[q]
      BY <2>5 DEF Prepare
    <3>2. "prepared" \in Phases /\ "prepared" \notin Armed
          /\ ctx[r].phase[at[r]] \notin Armed /\ ctx[r].phase[at[r]] # "verified"
      BY <3>1 DEF Phases, Armed
    <3> QED BY <1>0, <3>1, <3>2, PhaseStep
  <2>6. CASE Arm(r)
    <3>1. /\ Persist(r, SetPhase(ctx[r], at[r], "send_armed")) /\ UNCHANGED <<at, sent>>
          /\ ctx[r].phase[at[r]] = "prepared"
          /\ \A b \in Earlier(at[r]) : ctx[r].phase[b] = "verified"
          /\ pc'[r] \in {"step", "send"} /\ \A q \in Attempts : q # r => pc'[q] = pc[q]
      BY <1>0, <2>6 DEF Arm, Goto, TypeOK
    <3>2. "send_armed" \in Phases /\ "send_armed" \in Armed
          /\ ctx[r].phase[at[r]] # "verified"
      BY <3>1 DEF Phases, Armed
    <3> QED BY <1>0, <3>1, <3>2, PhaseStep
  <2>7. CASE Submit(r)
    <3>1. /\ Persist(r, SetPhase(ctx[r], at[r], "submitted")) /\ UNCHANGED <<at, sent>>
          /\ ctx[r].phase[at[r]] = "send_armed"
          /\ pc'[r] \in {"step", "paused"} /\ \A q \in Attempts : q # r => pc'[q] = pc[q]
      BY <1>0, <2>7 DEF Submit, Goto, TypeOK
    <3>2. "submitted" \in Phases /\ "submitted" \in Armed
          /\ ctx[r].phase[at[r]] \in Armed /\ ctx[r].phase[at[r]] # "verified"
      BY <3>1 DEF Phases, Armed
    <3> QED BY <1>0, <3>1, <3>2, PhaseStep
  <2>8. CASE Verify(r)
    <3>1. /\ Persist(r, SetPhase(ctx[r], at[r], "verified")) /\ UNCHANGED <<at, sent>>
          /\ ctx[r].phase[at[r]] = "submitted"
          /\ pc'[r] \in {"step", "paused"} /\ \A q \in Attempts : q # r => pc'[q] = pc[q]
      BY <1>0, <2>8 DEF Verify, Goto, TypeOK
    <3>2. "verified" \in Phases /\ "verified" \in Armed
          /\ ctx[r].phase[at[r]] \in Armed /\ ctx[r].phase[at[r]] # "verified"
      BY <3>1 DEF Phases, Armed
    <3> QED BY <1>0, <3>1, <3>2, PhaseStep
  <2>9. CASE Complete(r)
    <3>1. /\ CompleteJournal(ctx[r]) \in Journals
          /\ CompleteJournal(ctx[r]).rev = ctx[r].rev + 1
          /\ CompleteJournal(ctx[r]).phase = ctx[r].phase
      BY <2>0, JournalTypes, TransitionEffects DEF Phases
    <3>2. Persist(r, CompleteJournal(ctx[r])) /\ pc' = [pc EXCEPT ![r] = "converged"]
          /\ UNCHANGED <<at, sent>>
      BY <2>9 DEF Complete, Goto
    <3> QED BY <1>0, <3>1, <3>2, SamePhaseStep DEF TypeOK
  <2>10. CASE Recover(r)
    BY <1>0, <2>10, PassStep DEF Recover, Goto, TypeOK
  <2>11. CASE Resume(r)
    BY <1>0, <2>11, PassStep DEF Resume, Goto, TypeOK
  <2>12. CASE Send(r)
    <3>1. ctx[r].phase[at[r]] = "send_armed" /\ journal.phase[at[r]] \in Armed
      BY <2>0, <2>12 DEF Send, Discipline, PassArmed, Copies, Armed
    <3>2. Copies' /\ ArmedOrder'
      BY <2>12 DEF Send, Discipline, Copies, ArmedOrder, Earlier
    <3>3. SentArmed'
      BY <1>0, <2>12, <3>1 DEF Send, Discipline, SentArmed, TypeOK
    <3>4. PassArmed'
      BY <1>0, <2>12, <3>1 DEF Send, Goto, Discipline, PassArmed, TypeOK
    <3>5. SoleSender'
      BY <1>0, <2>12 DEF Send, Goto, Discipline, SoleSender, TypeOK
    <3>6. CreateSentOnce'
      BY <1>0, <2>12, OrderFacts DEF Send, Discipline, SoleSender, CreateSentOnce, TypeOK
    <3> QED BY <1>0, <3>2, <3>3, <3>4, <3>5, <3>6 DEF Discipline
  <2>13. CASE Land(r)
    BY <1>1, <2>13 DEF Land
  <2>14. CASE Reply(r)
    BY <1>0, <2>14, PassStep DEF Reply, Goto, TypeOK, Discipline, PassArmed
  <2>15. CASE Advance(r)
    BY <1>0, <2>15, PassStep DEF Advance, TypeOK
  <2>16. CASE Fail(r) \/ Crash(r)
    <3>1. /\ ReleaseLease(ctx[r]).rev = ctx[r].rev + 1
          /\ ReleaseLease(ctx[r]).phase = ctx[r].phase
      BY <2>0, TransitionEffects DEF Phases
    <3>2. \/ journal' = journal
          \/ journal'.rev = journal.rev + 1 /\ journal'.phase = journal.phase
      BY <2>16, <3>1 DEF Fail, Crash, Current, Discipline, Copies
    <3>3. /\ ctx'[r] = NoJournal /\ pc'[r] = "failed"
          /\ \A q \in Attempts : q # r => ctx'[q] = ctx[q] /\ pc'[q] = pc[q]
          /\ UNCHANGED <<at, sent>>
      BY <1>0, <2>16 DEF Fail, Crash, Discard, Goto, TypeOK
    <3>4. /\ NoJournal.rev = 0 /\ \A a \in Names : NoJournal.phase[a] = "absent"
          /\ journal.rev \in Nat /\ \A q \in Attempts : ctx[q].rev \in Nat
      BY <1>0 DEF NoJournal, TypeOK, Journals
    <3>5. Copies'
      BY <3>2, <3>3, <3>4 DEF Discipline, Copies, Armed
    <3>6. ArmedOrder' /\ SentArmed' /\ CreateSentOnce'
      BY <3>2, <3>3 DEF Discipline, ArmedOrder, SentArmed, CreateSentOnce, Earlier
    <3>7. PassArmed' /\ SoleSender'
      BY <3>3 DEF Discipline, PassArmed, SoleSender
    <3> QED BY <1>0, <3>5, <3>6, <3>7 DEF Discipline
  <2> QED BY <1>2, <2>1, <2>2, <2>3, <2>4, <2>5, <2>6, <2>7, <2>8, <2>9, <2>10, <2>11,
             <2>12, <2>13, <2>14, <2>15, <2>16 DEF Step
<1> QED BY <1>1, <1>2 DEF Next, Tick, vars

\* The journal discipline is an invariant.
LEMMA DisciplineHolds == Spec => []Discipline
BY DisciplineInit, DisciplineStep, PTL DEF Spec

\* No creation is sent twice, for any number of overlapping attempts.
THEOREM CreationsSentOnce == Spec => []CreateSentOnce
<1>1. Discipline => CreateSentOnce
  BY DEF Discipline
<1> QED BY <1>1, DisciplineHolds, PTL

\* Whatever was sent is armed in the stored journal, behind verified actions.
THEOREM JournalPrecedesProvider == Spec => []JournaledBeforeSent
<1>1. Discipline => JournaledBeforeSent
  BY DEF Discipline, SentArmed, ArmedOrder, JournaledBeforeSent
<1> QED BY <1>1, DisciplineHolds, PTL

\* Two journals of one revision are the same: compareAndSet loses no write.
THEOREM RevisionsNameJournals == Spec => []RevisionNamesJournal
<1>1. Discipline => RevisionNamesJournal
  BY DEF Discipline, Copies, RevisionNamesJournal
<1> QED BY <1>1, DisciplineHolds, PTL
-----------------------------------------------------------------------------
(* The wire and the provider.                                               *)

\* A step that sends nothing and lands nothing, by a pass with nothing on the
\* wire: a locator is recorded only for an effect that is known.
LEMMA QuietStep ==
  ASSUME TypeOK, World, NEW r \in Attempts, UNCHANGED <<wire, res, sent>>,
         pc[r] \notin {"await", "failed"},
         \A q \in Attempts : q # r => pc'[q] = pc[q] /\ at'[q] = at[q],
         pc'[r] = "submit" =>
           /\ at'[r] = at[r]
           /\ at[r] \in Creates => Done(at[r])
           /\ at[r] = DnsRelease => res[DnsRecord] = 0,
         \A a \in Names : journal'.phase[a] \in Located =>
           journal.phase[a] \in Located \/ (pc[r] = "submit" /\ a = at[r])
  PROVE  World'
<1>1. wire[r] = "none"
  BY DEF World, WireState, TypeOK
<1>2. WireState' /\ Flight' /\ Exists'
  BY <1>1 DEF World, WireState, Flight, Exists
<1>3. \A a \in Names : Done(a) => Done(a)'
  BY <1>1 DEF Done
<1>4. Creates \subseteq Names /\ DnsRelease \in Names
  BY OrderFacts
<1>5. \A q \in Attempts : (pc'[q] = "submit" \/ wire'[q] = "applied") =>
         /\ at'[q] \in Creates => Done(at'[q])
         /\ at'[q] = DnsRelease => res[DnsRecord] = 0
  BY <1>1 DEF World, Effect
<1>6. \A a \in Creates : journal'.phase[a] \in Located => Done(a)
  BY <1>4 DEF World, Effect
<1>7. journal'.phase[DnsRelease] \in Located => res[DnsRecord] = 0
  BY <1>4 DEF World, Effect
<1>8. Effect'
  BY <1>3, <1>4, <1>5, <1>6, <1>7 DEF Effect
<1> QED BY <1>2, <1>8 DEF World

\* Sending: the pass is the only one with a creation of this name in flight.
LEMMA SendWorld ==
  ASSUME Discipline, Discipline', World, NEW r \in Attempts, Send(r)
  PROVE  World'
<1>1. /\ TypeOK /\ at[r] \in Names /\ sent' = [sent EXCEPT ![at[r]] = @ + 1]
      /\ wire' = [wire EXCEPT ![r] = "sent"] /\ pc' = [pc EXCEPT ![r] = "await"]
      /\ UNCHANGED <<journal, ctx, at, res>>
  BY DEF Send, Goto, Discipline, TypeOK
<1>2. at[r] \in Creates => sent[at[r]] = 0
  BY DEF Send, Discipline, SoleSender
<1>3. \A q \in Attempts : at[r] \in Creates /\ wire[q] = "sent" => at[q] # at[r]
  BY <1>1, <1>2 DEF World, WireState, TypeOK
<1>4. at[r] \in Creates => res[at[r]] = 0
  BY <1>1, <1>2 DEF World, Exists, TypeOK
<1>5. \A a \in Creates : Done(a) => a # at[r]
  BY <1>2 DEF Done
<1>6. \A a \in Names : sent[a] > 0 => sent'[a] > 0
  BY <1>1 DEF TypeOK
<1>7. sent'[at[r]] > 0
  BY <1>1 DEF TypeOK
<1>8. /\ wire'[r] = "sent" /\ pc'[r] = "await"
      /\ \A q \in Attempts : q # r => wire'[q] = wire[q] /\ pc'[q] = pc[q]
  BY <1>1 DEF TypeOK
<1>9. WireState'
  BY <1>1, <1>6, <1>7, <1>8 DEF World, WireState, TypeOK
<1>10. Flight'
  BY <1>1, <1>3, <1>4, <1>8 DEF World, Flight
<1>11. Exists'
  BY <1>1, <1>6, OrderFacts DEF World, Exists
<1>12. \A a \in Creates : Done(a) => Done(a)'
  BY <1>1, <1>5, <1>6, <1>8, OrderFacts DEF Done
<1>13. Effect'
  BY <1>1, <1>8, <1>12 DEF World, Effect
<1> QED BY <1>9, <1>10, <1>11, <1>13 DEF World

\* Once the release of the placeholder is armed, its creation is over.
LEMMA ReleaseAfterCreation ==
  ASSUME Discipline, World, journal.phase[DnsRelease] \in Armed
  PROVE  Done(DnsRecord)
<1>1. journal.phase[DnsRecord] = "verified"
  BY OrderFacts DEF Discipline, ArmedOrder
<1> QED BY <1>1, OrderFacts DEF World, Effect, Located

\* Landing: whatever the provider applies late, even after the sender failed,
\* yields no second object and no second owner of the hostname.
LEMMA LandWorld ==
  ASSUME Discipline, World, NEW r \in Attempts, Land(r)
  PROVE  World'
<1>1. /\ TypeOK /\ at[r] \in Names /\ UNCHANGED <<journal, ctx, pc, at, sent>>
      /\ wire[r] = "sent" /\ wire'[r] # "sent"
      /\ wire'[r] = "applied" => pc[r] = "await"
      /\ \A q \in Attempts : q # r => wire'[q] = wire[q]
      /\ res' = Applied(at[r])
  BY DEF Land, Discipline, TypeOK
<1>2. sent[at[r]] > 0
  BY <1>1 DEF World, WireState
<1>3. WireState'
  BY <1>1 DEF World, WireState
<1>4. \A q \in Attempts : pc[q] = "submit" \/ wire[q] = "applied" =>
        /\ at[q] \in Creates => Done(at[q])
        /\ at[q] = DnsRelease => res[DnsRecord] = 0 /\ journal.phase[DnsRelease] \in Armed
  <2> SUFFICES ASSUME NEW q \in Attempts, pc[q] = "submit" \/ wire[q] = "applied",
                      at[q] = DnsRelease
               PROVE  journal.phase[DnsRelease] \in Armed
    BY DEF World, Effect
  <2>1. pc[q] \in {"submit", "await"}
    BY DEF World, WireState
  <2>2. ctx[q].phase[DnsRelease] = "send_armed"
    BY <2>1 DEF Discipline, PassArmed
  <2> QED BY <2>2, OrderFacts DEF Discipline, Copies, Armed
<1>5. CASE at[r] \in Creates
  <2>1. res[at[r]] = 0
    BY <1>1, <1>5 DEF World, Flight
  <2>2. res'[at[r]] = 1 /\ \A a \in Names : a # at[r] => res'[a] = res[a]
    BY <1>1, <1>5, <2>1 DEF Applied, TypeOK
  <2>3. Flight' /\ Exists'
    BY <1>1, <1>2, <1>5, <2>2, OrderFacts DEF World, Flight, Exists
  <2>4. \A a \in Creates : Done(a) => a # at[r]
    BY <1>1 DEF Done
  <2>5. \A a \in Creates : Done(a) => Done(a)'
    BY <1>1, <2>2, <2>4, OrderFacts DEF Done
  <2>6. Done(at[r])'
    BY <1>1, <1>2, <1>5, <2>2 DEF World, Flight, Done
  <2>7. journal.phase[DnsRelease] \in Armed => res'[DnsRecord] = res[DnsRecord]
    BY <2>2, <2>4, OrderFacts, ReleaseAfterCreation
  <2>8. Effect'
    <3>1. \A q \in Attempts : (pc[q] = "submit" \/ wire'[q] = "applied") =>
            /\ at[q] \in Creates => Done(at[q])'
            /\ at[q] = DnsRelease => res'[DnsRecord] = 0
      BY <1>1, <1>4, <1>5, <2>5, <2>6, <2>7, OrderFacts
    <3>2. \A a \in Creates : journal.phase[a] \in Located => Done(a)'
      BY <2>5 DEF World, Effect
    <3>3. journal.phase[DnsRelease] \in Located => res'[DnsRecord] = 0
      BY <2>7 DEF World, Effect, Located, Armed
    <3> QED BY <1>1, <3>1, <3>2, <3>3 DEF Effect
  <2> QED BY <1>3, <2>3, <2>8 DEF World
<1>6. CASE at[r] \notin Creates
  <2>1. \A a \in Creates \ {DnsRecord} : res'[a] = res[a]
    BY <1>1, <1>6, OrderFacts DEF Applied, TypeOK
  <2>2. res'[DnsRecord] \in {0, res[DnsRecord]}
        /\ (at[r] = DnsRelease => res'[DnsRecord] = 0)
    BY <1>1, <1>6, OrderFacts DEF Applied, TypeOK
  <2>3. Flight' /\ Exists'
    BY <1>1, <1>6, <2>1, <2>2, OrderFacts DEF World, Flight, Exists
  <2>4. \A a \in Creates : Done(a) => Done(a)'
    BY <1>1, <2>1 DEF Done
  <2>5. Effect'
    <3>1. \A q \in Attempts : (pc[q] = "submit" \/ wire'[q] = "applied") =>
            /\ at[q] \in Creates => Done(at[q])'
            /\ at[q] = DnsRelease => res'[DnsRecord] = 0
      BY <1>1, <1>4, <1>6, <2>2, <2>4
    <3>2. \A a \in Creates : journal.phase[a] \in Located => Done(a)'
      BY <2>4 DEF World, Effect
    <3>3. journal.phase[DnsRelease] \in Located => res'[DnsRecord] = 0
      BY <2>2 DEF World, Effect
    <3> QED BY <1>1, <3>1, <3>2, <3>3 DEF Effect
  <2> QED BY <1>3, <2>3, <2>5 DEF World
<1> QED BY <1>5, <1>6

\* Before the first pass the provider holds nothing of the installation.
LEMMA WorldInit == Init => World
BY OrderFacts DEF Init, World, WireState, Flight, Exists, Effect, NoJournal, Located

\* Every step keeps the provider in step with what was sent and journaled.
LEMMA WorldStep ==
  ASSUME Discipline, Discipline', World, [Next]_vars
  PROVE  World'
<1>0. TypeOK
  BY DEF Discipline
<1>1. CASE UNCHANGED <<journal, pc, at, wire, res, sent>>
  BY <1>1 DEF World, WireState, Flight, Exists, Effect, Done
<1>2. ASSUME NEW r \in Attempts, Step(r) PROVE World'
  <2>0. /\ ctx[r] \in Journals /\ at[r] \in Names /\ now \in Nat
        /\ ctx[r].phase \in [Names -> Phases]
    BY <1>0 DEF TypeOK, Journals
  <2>1. CASE Open(r) \/ Continue(r) \/ ProveCompleted(r) \/ Prove(r) \/ Advance(r)
    <3>1. /\ UNCHANGED <<journal, wire, res, sent>>
          /\ pc[r] \notin {"await", "failed"} /\ pc'[r] # "submit"
          /\ \A q \in Attempts : q # r => pc'[q] = pc[q] /\ at'[q] = at[q]
      BY <1>0, <2>1 DEF Open, Continue, ProveCompleted, Prove, Advance, Goto, TypeOK
    <3> QED BY <1>0, <3>1, QuietStep
  <2>2. CASE Create(r)
    <3>1. journal'.phase = journal.phase
      <4>1. journal = NoJournal /\ journal' = CreateJournal(r)
        BY <2>2 DEF Create, Persist, Current, Discipline, Copies
      <4> QED BY <4>1 DEF CreateJournal, NoJournal
    <3>2. /\ UNCHANGED <<at, wire, res, sent>>
          /\ pc[r] \notin {"await", "failed"} /\ pc'[r] # "submit"
          /\ \A q \in Attempts : q # r => pc'[q] = pc[q]
      BY <1>0, <2>2 DEF Create, Goto, TypeOK
    <3> QED BY <1>0, <3>1, <3>2, QuietStep
  <2>3. CASE Acquire(r) \/ Renew(r)
    <3>1. journal'.phase = journal.phase
      <4>1. journal' = TakeLease(ctx[r], r) /\ ctx[r] = journal
        BY <2>3 DEF Acquire, Renew, Persist, Current, Discipline, Copies
      <4> QED BY <2>0, <4>1, TransitionEffects DEF Phases
    <3>2. /\ UNCHANGED <<at, wire, res, sent>>
          /\ pc[r] \notin {"await", "failed"} /\ (pc'[r] = "submit" => pc[r] = "submit")
          /\ \A q \in Attempts : q # r => pc'[q] = pc[q]
      BY <1>0, <2>3 DEF Acquire, Renew, Goto, TypeOK
    <3>3. pc[r] = "submit" => /\ at[r] \in Creates => Done(at[r])
                              /\ at[r] = DnsRelease => res[DnsRecord] = 0
      BY DEF World, Effect
    <3> QED BY <1>0, <3>1, <3>2, <3>3, QuietStep
  <2>4. CASE Prepare(r) \/ Arm(r)
    <3>1. /\ UNCHANGED <<at, wire, res, sent>>
          /\ pc[r] \notin {"await", "failed"} /\ pc'[r] # "submit"
          /\ \A q \in Attempts : q # r => pc'[q] = pc[q]
      BY <1>0, <2>4 DEF Prepare, Arm, Goto, TypeOK
    <3>2. PICK p \in {"prepared", "send_armed"} :
            journal' = SetPhase(ctx[r], at[r], p) /\ ctx[r] = journal
      BY <2>4 DEF Prepare, Arm, Persist, Current, Discipline, Copies
    <3>3. journal'.phase = [journal.phase EXCEPT ![at[r]] = p]
      <4>1. p \in Phases
        BY DEF Phases
      <4>2. SetPhase(ctx[r], at[r], p).phase = [ctx[r].phase EXCEPT ![at[r]] = p]
        BY <2>0, <4>1, TransitionEffects
      <4> QED BY <3>2, <4>2
    <3>4. \A a \in Names : journal'.phase[a] \in Located => journal.phase[a] \in Located
      BY <2>0, <3>2, <3>3 DEF Located
    <3> QED BY <1>0, <3>1, <3>4, QuietStep
  <2>5. CASE Submit(r)
    <3>1. /\ UNCHANGED <<at, wire, res, sent>>
          /\ pc[r] = "submit" /\ pc'[r] # "submit"
          /\ \A q \in Attempts : q # r => pc'[q] = pc[q]
      BY <1>0, <2>5 DEF Submit, Goto, TypeOK
    <3>2. journal' = SetPhase(ctx[r], at[r], "submitted") /\ ctx[r] = journal
      BY <2>5 DEF Submit, Persist, Current, Discipline, Copies
    <3>3. journal'.phase = [journal.phase EXCEPT ![at[r]] = "submitted"]
      BY <2>0, <3>2, TransitionEffects DEF Phases
    <3>4. \A a \in Names : journal'.phase[a] \in Located =>
            journal.phase[a] \in Located \/ a = at[r]
      BY <2>0, <3>2, <3>3 DEF Located
    <3> QED BY <1>0, <3>1, <3>4, QuietStep
  <2>6. CASE Verify(r)
    <3>1. /\ UNCHANGED <<at, wire, res, sent>>
          /\ pc[r] \notin {"await", "failed"} /\ pc'[r] # "submit"
          /\ \A q \in Attempts : q # r => pc'[q] = pc[q]
      BY <1>0, <2>6 DEF Verify, Goto, TypeOK
    <3>2. /\ journal' = SetPhase(ctx[r], at[r], "verified") /\ ctx[r] = journal
          /\ ctx[r].phase[at[r]] = "submitted"
      BY <2>6 DEF Verify, Persist, Current, Discipline, Copies
    <3>3. journal'.phase = [journal.phase EXCEPT ![at[r]] = "verified"]
      BY <2>0, <3>2, TransitionEffects DEF Phases
    <3>4. \A a \in Names : journal'.phase[a] \in Located => journal.phase[a] \in Located
      BY <2>0, <3>2, <3>3 DEF Located
    <3> QED BY <1>0, <3>1, <3>4, QuietStep
  <2>7. CASE Complete(r)
    <3>1. journal'.phase = journal.phase
      <4>1. journal' = CompleteJournal(ctx[r]) /\ ctx[r] = journal
        BY <2>7 DEF Complete, Persist, Current, Discipline, Copies
      <4> QED BY <2>0, <4>1, TransitionEffects DEF Phases
    <3>2. /\ UNCHANGED <<at, wire, res, sent>>
          /\ pc[r] \notin {"await", "failed"} /\ pc'[r] # "submit"
          /\ \A q \in Attempts : q # r => pc'[q] = pc[q]
      BY <1>0, <2>7 DEF Complete, Goto, TypeOK
    <3> QED BY <1>0, <3>1, <3>2, QuietStep
  <2>8. CASE Recover(r)
    <3>1. Done(at[r]) /\ at[r] # DnsRelease
      BY <2>8, OrderFacts DEF Recover, World, Flight, Exists, Done
    <3>2. /\ UNCHANGED <<journal, at, wire, res, sent>>
          /\ pc[r] \notin {"await", "failed"}
          /\ \A q \in Attempts : q # r => pc'[q] = pc[q]
      BY <1>0, <2>8 DEF Recover, Goto, TypeOK
    <3> QED BY <1>0, <3>1, <3>2, QuietStep
  <2>9. CASE Resume(r)
    <3>1. pc'[r] = "submit" =>
            at[r] \notin Creates /\ (at[r] = DnsRelease => res[DnsRecord] = 0)
      BY <1>0, <2>9 DEF Resume, Goto, Standing, TypeOK
    <3>2. /\ UNCHANGED <<journal, at, wire, res, sent>>
          /\ pc[r] \notin {"await", "failed"}
          /\ \A q \in Attempts : q # r => pc'[q] = pc[q]
      BY <1>0, <2>9 DEF Resume, Goto, TypeOK
    <3> QED BY <1>0, <3>1, <3>2, QuietStep
  <2>10. CASE Send(r)
    BY <2>10, SendWorld
  <2>11. CASE Land(r)
    BY <2>11, LandWorld
  <2>12. CASE Reply(r)
    <3>1. /\ UNCHANGED <<journal, at, res, sent>>
          /\ wire[r] = "applied" /\ wire'[r] = "none" /\ pc'[r] # "await"
          /\ \A q \in Attempts : q # r => pc'[q] = pc[q] /\ wire'[q] = wire[q]
      BY <1>0, <2>12 DEF Reply, Goto, TypeOK
    <3>2. WireState' /\ Flight' /\ Exists'
      BY <3>1 DEF World, WireState, Flight, Exists
    <3>3. \A a \in Names : Done(a) => Done(a)'
      BY <3>1 DEF Done
    <3>4. Effect'
      BY <3>1, <3>3, OrderFacts DEF World, Effect
    <3> QED BY <3>2, <3>4 DEF World
  <2>13. CASE Fail(r) \/ Crash(r)
    <3>1. /\ UNCHANGED <<at, res, sent>> /\ pc'[r] = "failed"
          /\ wire'[r] = (IF wire[r] = "sent" THEN "sent" ELSE "none")
          /\ \A q \in Attempts : q # r => pc'[q] = pc[q] /\ wire'[q] = wire[q]
      BY <1>0, <2>13 DEF Fail, Crash, Discard, Goto, TypeOK
    <3>2. journal'.phase = journal.phase
      <4>1. journal' = journal \/ (journal' = ReleaseLease(ctx[r]) /\ ctx[r] = journal)
        BY <2>13 DEF Fail, Crash, Current, Discipline, Copies
      <4>2. ReleaseLease(ctx[r]).phase = ctx[r].phase
        BY <2>0, TransitionEffects DEF Phases
      <4> QED BY <4>1, <4>2
    <3>3. WireState' /\ Flight' /\ Exists'
      BY <3>1 DEF World, WireState, Flight, Exists
    <3>4. \A a \in Names : Done(a) => Done(a)'
      BY <3>1 DEF Done
    <3>5. Effect'
      BY <3>1, <3>2, <3>4, OrderFacts DEF World, Effect
    <3> QED BY <3>3, <3>5 DEF World
  <2> QED BY <1>2, <2>1, <2>2, <2>3, <2>4, <2>5, <2>6, <2>7, <2>8, <2>9, <2>10, <2>11,
             <2>12, <2>13 DEF Step
<1> QED BY <1>1, <1>2 DEF Next, Tick, vars

\* The relation between the journal and the provider is an invariant.
LEMMA WorldHolds == Spec => [](Discipline /\ World)
BY DisciplineInit, DisciplineStep, WorldInit, WorldStep, PTL DEF Spec

\* Wherever the custom domain exists, what comes before it is at the provider.
LEMMA DomainComesLast ==
  ASSUME Discipline, World, res[CustomDomain] > 0
  PROVE  \A b \in Earlier(CustomDomain) : journal.phase[b] = "verified"
<1>1. sent[CustomDomain] > 0
  BY OrderFacts DEF World, Exists
<1> QED BY <1>1, OrderFacts DEF Discipline, SentArmed, ArmedOrder

\* The placeholder record and the custom domain never share the hostname.
THEOREM HostnameHasOneOwner == Spec => []OneHostnameOwner
<1>1. Discipline /\ World => OneHostnameOwner
  BY DomainComesLast, OrderFacts DEF OneHostnameOwner, World, Effect, Located
<1> QED BY <1>1, WorldHolds, PTL

\* The management hostname is never served without its Access policies.
THEOREM AccessBeforeHostname == Spec => []NeverPublicWithoutAccess
<1>1. Discipline /\ World => NeverPublicWithoutAccess
  BY DomainComesLast, OrderFacts DEF NeverPublicWithoutAccess, World, Effect, Done, Located
<1> QED BY <1>1, WorldHolds, PTL
-----------------------------------------------------------------------------
(* What the journal says is so.                                             *)

\* What the journal's transitions do to its completion and its lease.
LEMMA CompletionEffects ==
  ASSUME NEW j \in Journals, NEW r \in Attempts, NEW a \in Names, NEW p \in Phases, now \in Nat
  PROVE  /\ ~CreateJournal(r).completed
         /\ TakeLease(j, r).completed = j.completed
         /\ ReleaseLease(j).completed = j.completed
         /\ SetPhase(j, a, p).completed = j.completed
         /\ CompleteJournal(j).lease.holder = NoAttempt
<1>1. NextRevision(j) \in Journals /\ NextRevision(j).completed = j.completed
  BY DEF NextRevision, Journals
<1>2. ReleaseLease(j) \in Journals
  BY JournalTypes
<1>3. TakeLease(j, r).completed = j.completed /\ ReleaseLease(j).completed = j.completed
  BY <1>1 DEF TakeLease, ReleaseLease, Journals
<1>4. SetPhase(j, a, p).completed = j.completed
  BY <1>1 DEF SetPhase, Journals
<1>5. ReleaseLease(j).lease = NoLease
  BY <1>1 DEF ReleaseLease, Journals
<1>6. CompleteJournal(j).lease = NoLease
  BY <1>2, <1>5 DEF CompleteJournal, Journals
<1>7. NoLease.holder = NoAttempt
  BY DEF NoLease
<1> QED BY <1>3, <1>4, <1>6, <1>7 DEF CreateJournal

\* The successive phases of an action.
PhaseSteps == {<<"absent", "prepared">>, <<"prepared", "send_armed">>,
               <<"send_armed", "submitted">>, <<"submitted", "verified">>}

\* A pass that records the next phase of its action.
Records(r, step) ==
  /\ ctx[r] = journal /\ HoldsLease(journal, r)
  /\ ctx'[r] = journal' /\ ~journal'.completed
  /\ journal.phase[at[r]] = step[1]
  /\ journal'.phase = [journal.phase EXCEPT ![at[r]] = step[2]]
  /\ step[2] = "submitted" => pc[r] = "submit"

\* A pass that changes the lease or completes the journal.
Keeps ==
  /\ ~journal.completed /\ journal'.phase = journal.phase
  /\ journal'.completed =>
       /\ \A a \in Names : journal.phase[a] = "verified"
       /\ journal'.lease.holder = NoAttempt

\* A successful compare-and-set was made with the stored journal.
LEMMA PersistStored ==
  ASSUME Discipline, NEW r \in Attempts, NEW next, Persist(r, next)
  PROVE  ctx[r] = journal /\ journal' = next /\ ctx'[r] = journal'
BY DEF Discipline, Copies, TypeOK, Persist, Current

\* A pass records a phase, touches the lease only, or leaves the journal.
LEMMA JournalStep ==
  ASSUME Discipline, NEW r \in Attempts, Step(r)
  PROVE  \/ journal' = journal
         \/ Keeps
         \/ \E step \in PhaseSteps : Records(r, step)
<1>0. /\ ctx[r] \in Journals /\ at[r] \in Names /\ now \in Nat
      /\ ctx[r].phase \in [Names -> Phases]
  BY DEF Discipline, TypeOK, Journals
<1>1. CASE Create(r)
  <2>1. journal = NoJournal /\ journal' = CreateJournal(r)
    BY <1>1 DEF Create, Persist, Current, Discipline, Copies
  <2> QED BY <2>1 DEF CreateJournal, NoJournal, Keeps
<1>2. CASE Acquire(r) \/ Renew(r)
  <2>1. ctx[r] = journal /\ journal' = TakeLease(ctx[r], r) /\ ~ctx[r].completed
    BY <1>2, PersistStored DEF Acquire, Renew, HoldsLease
  <2>2. TakeLease(ctx[r], r).phase = ctx[r].phase
        /\ TakeLease(ctx[r], r).completed = ctx[r].completed
    BY <1>0, TransitionEffects, CompletionEffects DEF Phases
  <2> QED BY <2>1, <2>2 DEF Keeps
<1>3. CASE Complete(r)
  <2>1. /\ ctx[r] = journal /\ journal' = CompleteJournal(ctx[r]) /\ ~ctx[r].completed
        /\ \A a \in Names : ctx[r].phase[a] = "verified"
    BY <1>3, PersistStored DEF Complete, HoldsLease
  <2>2. CompleteJournal(ctx[r]).phase = ctx[r].phase
        /\ CompleteJournal(ctx[r]).lease.holder = NoAttempt
    BY <1>0, TransitionEffects, CompletionEffects DEF Phases
  <2> QED BY <2>1, <2>2 DEF Keeps
<1>4. CASE Fail(r)
  <2>1. CASE HoldsLease(ctx[r], r) /\ Current(r)
    <3>1. ctx[r] = journal /\ journal' = ReleaseLease(ctx[r]) /\ ~ctx[r].completed
      BY <1>4, <2>1 DEF Fail, Current, HoldsLease, Discipline, Copies
    <3>2. ReleaseLease(ctx[r]).phase = ctx[r].phase
          /\ ReleaseLease(ctx[r]).completed = ctx[r].completed
      BY <1>0, TransitionEffects, CompletionEffects DEF Phases
    <3> QED BY <3>1, <3>2 DEF Keeps
  <2>2. CASE ~(HoldsLease(ctx[r], r) /\ Current(r))
    BY <1>4, <2>2 DEF Fail
  <2> QED BY <2>1, <2>2
<1>5. ASSUME NEW step \in PhaseSteps, Leased(ctx[r], r), ctx[r].phase[at[r]] = step[1],
             Persist(r, SetPhase(ctx[r], at[r], step[2])),
             step[2] = "submitted" => pc[r] = "submit"
      PROVE  Records(r, step)
  <2>1. ctx[r] = journal /\ journal' = SetPhase(ctx[r], at[r], step[2]) /\ ctx'[r] = journal'
    BY <1>5, PersistStored
  <2>2. step[2] \in Phases
    BY DEF PhaseSteps, Phases
  <2>3. /\ SetPhase(ctx[r], at[r], step[2]).phase = [ctx[r].phase EXCEPT ![at[r]] = step[2]]
        /\ SetPhase(ctx[r], at[r], step[2]).completed = ctx[r].completed
    BY <1>0, <2>2, TransitionEffects, CompletionEffects
  <2>4. HoldsLease(ctx[r], r) /\ ~ctx[r].completed
    BY <1>5 DEF Leased, HoldsLease
  <2> QED BY <1>5, <2>1, <2>3, <2>4 DEF Records
<1>6. CASE Prepare(r)
  BY <1>6, <1>5 DEF Prepare, PhaseSteps
<1>7. CASE Arm(r)
  BY <1>7, <1>5 DEF Arm, PhaseSteps
<1>8. CASE Submit(r)
  BY <1>8, <1>5 DEF Submit, PhaseSteps
<1>9. CASE Verify(r)
  BY <1>9, <1>5 DEF Verify, PhaseSteps
<1>10. CASE \/ Open(r) \/ Continue(r) \/ ProveCompleted(r) \/ Recover(r) \/ Resume(r) \/ Send(r)
            \/ Land(r) \/ Reply(r) \/ Prove(r) \/ Advance(r) \/ Crash(r)
  BY <1>10 DEF Open, Continue, ProveCompleted, Recover, Resume, Send, Land, Reply, Prove,
     Advance, Crash
<1> QED BY <1>1, <1>2, <1>3, <1>4, <1>6, <1>7, <1>8, <1>9, <1>10 DEF Step

\* The writes that may be repeated are no creations and no release.
LEMMA RepeatableFacts ==
  /\ Repeatable \subseteq Names /\ Repeatable \cap Creates = {} /\ DnsRelease \notin Repeatable
  /\ Names \ {Terminal} \subseteq Repeatable \cup Creates \cup {DnsRelease}
  /\ CustomDomain \in Earlier(WorkersDev) /\ DnsRecord \notin Repeatable
  /\ WorkersDev \in Repeatable /\ Terminal \notin Creates
BY DEF Repeatable, Creates, Names, Earlier, Rank, DnsRecord, Application, AdminPolicy, SvcPolicy,
   Gateway, DnsRelease, CustomDomain, WorkersDev, Terminal, FinalRuntime

\* A pass knows the effect of its write.
Knows(q) == pc[q] = "submit" \/ wire[q] = "applied"

\* What a step does at the provider, and how a pass comes to know an effect.
LEMMA ProviderStep ==
  ASSUME Discipline, World, Lasting, NEW r \in Attempts, Step(r)
  PROVE  /\ \A a \in Names : sent[a] > 0 => sent'[a] > 0
         /\ \A a \in Repeatable : res'[a] = res[a] \/ (res'[a] = 1 /\ sent[a] > 0)
         /\ \/ res'[DnsRecord] \in {res[DnsRecord], 1}
            \/ journal.phase[DnsRelease] \in Armed
         /\ \A q \in Attempts : Knows(q)' =>
              /\ at'[q] = at[q]
              /\ \/ Knows(q)
                 \/ /\ at[q] \in Repeatable => res'[at[q]] = 1
                    /\ at[q] = DnsRecord => res'[DnsRecord] = 1
<1>0. TypeOK /\ at[r] \in Names
  BY DEF Discipline, TypeOK
<1> USE RepeatableFacts, OrderFacts
<1>1. CASE Land(r)
  <2>1. /\ UNCHANGED <<pc, at, sent>> /\ wire[r] = "sent" /\ res' = Applied(at[r])
        /\ \A q \in Attempts : q # r => wire'[q] = wire[q]
    BY <1>0, <1>1 DEF Land, TypeOK
  <2>2. sent[at[r]] > 0 /\ journal.phase[at[r]] \in Armed
    BY <1>0, <2>1 DEF World, WireState, Discipline, SentArmed
  <2>3. at[r] \in Creates => res[at[r]] = 0
    BY <2>1 DEF World, Flight
  <2>4. at[r] \in Creates =>
          res'[at[r]] = 1 /\ \A a \in Names : a # at[r] => res'[a] = res[a]
    BY <1>0, <2>1, <2>3 DEF Applied, TypeOK
  <2>5. at[r] = DnsRelease => res' = [res EXCEPT ![DnsRecord] = 0]
    BY <2>1 DEF Applied
  <2>6. at[r] \notin Creates /\ at[r] # DnsRelease => res' = [res EXCEPT ![at[r]] = 1]
    BY <2>1 DEF Applied
  <2>7. \A a \in Repeatable : res'[a] = res[a] \/ (res'[a] = 1 /\ sent[a] > 0)
    BY <1>0, <2>2, <2>4, <2>5, <2>6 DEF TypeOK
  <2>8. res'[DnsRecord] \in {res[DnsRecord], 1} \/ journal.phase[DnsRelease] \in Armed
    BY <1>0, <2>2, <2>4, <2>5, <2>6 DEF TypeOK
  <2>9. \A q \in Attempts : Knows(q)' => Knows(q) \/ q = r
    BY <2>1 DEF Knows
  <2>10. /\ at[r] \in Repeatable => res'[at[r]] = 1
         /\ at[r] = DnsRecord => res'[DnsRecord] = 1
    BY <1>0, <2>4, <2>6 DEF TypeOK
  <2> QED BY <2>1, <2>7, <2>8, <2>9, <2>10
<1>2. CASE Send(r)
  <2>1. /\ UNCHANGED <<at, res>> /\ sent' = [sent EXCEPT ![at[r]] = @ + 1]
        /\ \A q \in Attempts : Knows(q)' => Knows(q)
    BY <1>0, <1>2 DEF Send, Goto, TypeOK, Knows
  <2>2. \A a \in Names : sent[a] > 0 => sent'[a] > 0
    BY <1>0, <2>1 DEF TypeOK
  <2> QED BY <2>1, <2>2
<1>3. CASE Recover(r) \/ Resume(r)
  <2>1. /\ UNCHANGED <<at, res, sent>> /\ \A q \in Attempts : Knows(q)' => Knows(q) \/ q = r
    BY <1>0, <1>3 DEF Recover, Resume, Goto, TypeOK, Knows
  <2>2. wire[r] # "applied"
    BY <1>3 DEF Recover, Resume, World, WireState
  <2>3. pc'[r] = "submit" => Standing(at[r]) \/ (at[r] \in Creates /\ res[at[r]] = 1)
    BY <1>0, <1>3 DEF Recover, Resume, Goto, TypeOK
  <2>4. Knows(r)' => /\ at[r] \in Repeatable => res[at[r]] = 1
                     /\ at[r] = DnsRecord => res[DnsRecord] = 1
    <3>1. wire' = wire
      BY <1>3 DEF Recover, Resume
    <3>2. Terminal \notin Repeatable /\ Terminal # DnsRecord
      BY DEF Repeatable, Terminal, Gateway, WorkersDev, FinalRuntime, DnsRecord
    <3> QED BY <2>2, <2>3, <3>1, <3>2 DEF Knows, Standing
  <2> QED BY <2>1, <2>4
<1>4. CASE Reply(r)
  <2>1. /\ UNCHANGED <<at, res, sent>> /\ Knows(r)
        /\ \A q \in Attempts : Knows(q)' => Knows(q)
    BY <1>0, <1>4 DEF Reply, Goto, TypeOK, Knows
  <2> QED BY <2>1
<1>5. CASE Open(r) \/ Advance(r)
  <2>1. /\ UNCHANGED <<res, sent, wire>> /\ pc'[r] # "submit"
        /\ \A q \in Attempts : q # r => pc'[q] = pc[q] /\ at'[q] = at[q]
    BY <1>0, <1>5 DEF Open, Advance, Goto, TypeOK
  <2>2. wire[r] # "applied"
    BY <1>5 DEF Open, Advance, World, WireState
  <2> QED BY <2>1, <2>2 DEF Knows
<1>6. CASE Fail(r) \/ Crash(r)
  <2>1. /\ UNCHANGED <<at, res, sent>> /\ \A q \in Attempts : Knows(q)' => Knows(q)
    BY <1>0, <1>6 DEF Fail, Crash, Discard, Goto, TypeOK, Knows
  <2> QED BY <2>1
<1>7. CASE \/ Create(r) \/ Acquire(r) \/ Continue(r) \/ ProveCompleted(r) \/ Renew(r)
           \/ Prepare(r) \/ Arm(r) \/ Submit(r) \/ Prove(r) \/ Verify(r) \/ Complete(r)
  <2>1. /\ UNCHANGED <<at, res, sent, wire>>
        /\ \A q \in Attempts : pc'[q] = "submit" => pc[q] = "submit"
    BY <1>0, <1>7 DEF Create, Acquire, Continue, ProveCompleted, Renew, Prepare, Arm, Submit,
       Prove, Verify, Complete, Goto, TypeOK
  <2> QED BY <2>1 DEF Knows
<1> QED BY <1>1, <1>2, <1>3, <1>4, <1>5, <1>6, <1>7 DEF Step

\* A step locates at most the action whose effect its pass knows, and disarms
\* and unlocates nothing.
LEMMA LocatedStep ==
  ASSUME Discipline, NEW r \in Attempts, Step(r), NEW a \in Names
  PROVE  /\ journal'.phase[a] \in Located =>
              journal.phase[a] \in Located \/ (pc[r] = "submit" /\ at[r] = a)
         /\ journal.phase[a] \in Armed => journal'.phase[a] \in Armed
<1>1. journal.phase \in [Names -> Phases] /\ at[r] \in Names
  BY DEF Discipline, TypeOK, Journals
<1>2. CASE journal'.phase = journal.phase
  BY <1>2
<1>3. ASSUME NEW step \in PhaseSteps, Records(r, step)
      PROVE  /\ journal'.phase[a] \in Located =>
                  journal.phase[a] \in Located \/ (pc[r] = "submit" /\ at[r] = a)
             /\ journal.phase[a] \in Armed => journal'.phase[a] \in Armed
  BY <1>1, <1>3 DEF Records, PhaseSteps, Located, Armed
<1> QED BY <1>2, <1>3, JournalStep DEF Keeps

\* Before the first pass nothing is located and nothing exists.
LEMMA TruthInit == Init => Truth
BY RepeatableFacts, OrderFacts DEF Init, Truth, Lasting, Placed, Closed, NoJournal, Located

\* Every step keeps the journal true.
LEMMA TruthStep ==
  ASSUME Discipline, World, Truth, [Next]_vars
  PROVE  Truth'
<1>1. CASE UNCHANGED <<journal, pc, at, wire, res, sent>>
  BY <1>1 DEF Truth, Lasting, Placed, Closed
<1>2. ASSUME NEW r \in Attempts, Step(r) PROVE Truth'
  <2>0. /\ Lasting /\ Placed /\ Closed
        /\ Repeatable \subseteq Names /\ DnsRecord \in Names /\ DnsRelease \in Names
    BY RepeatableFacts, OrderFacts DEF Truth
  <2>1. /\ \A a \in Names : sent[a] > 0 => sent'[a] > 0
        /\ \A a \in Repeatable : res'[a] = res[a] \/ (res'[a] = 1 /\ sent[a] > 0)
        /\ \/ res'[DnsRecord] \in {res[DnsRecord], 1}
           \/ journal.phase[DnsRelease] \in Armed
        /\ \A q \in Attempts : Knows(q)' =>
             /\ at'[q] = at[q]
             /\ \/ Knows(q)
                \/ /\ at[q] \in Repeatable => res'[at[q]] = 1
                   /\ at[q] = DnsRecord => res'[DnsRecord] = 1
    BY <1>2, <2>0, ProviderStep
  <2>2. \A a \in Names :
          /\ journal'.phase[a] \in Located =>
               journal.phase[a] \in Located \/ (pc[r] = "submit" /\ at[r] = a)
          /\ journal.phase[a] \in Armed => journal'.phase[a] \in Armed
    BY <1>2, LocatedStep
  <2>3. \A a \in Repeatable : res[a] = 1 => res'[a] = 1
    BY <2>1
  <2>4. Lasting'
    <3>1. \A a \in Repeatable : res'[a] \in {0, 1} /\ (res'[a] = 1 => sent'[a] > 0)
      BY <2>0, <2>1 DEF Lasting
    <3>2. \A a \in Repeatable : journal'.phase[a] \in Located => res'[a] = 1
      BY <2>0, <2>2, <2>3 DEF Lasting
    <3>3. \A q \in Attempts : Knows(q)' /\ at'[q] \in Repeatable => res'[at'[q]] = 1
      BY <2>0, <2>1, <2>3 DEF Lasting, Knows
    <3> QED BY <3>1, <3>2, <3>3 DEF Lasting, Knows
  <2>5. Placed'
    <3>1. journal'.phase[DnsRecord] \in Located =>
            res[DnsRecord] = 1 \/ journal.phase[DnsRelease] \in Armed
      BY <2>0, <2>2 DEF Placed
    <3>2. res[DnsRecord] = 1 \/ journal.phase[DnsRelease] \in Armed =>
            res'[DnsRecord] = 1 \/ journal'.phase[DnsRelease] \in Armed
      BY <2>0, <2>1, <2>2
    <3>3. \A q \in Attempts : Knows(q)' /\ at'[q] = DnsRecord =>
            res'[DnsRecord] = 1 \/ journal'.phase[DnsRelease] \in Armed
      BY <2>0, <2>1, <3>2 DEF Placed, Knows
    <3> QED BY <3>1, <3>2, <3>3 DEF Placed, Knows
  <2>6. Closed'
    BY <1>2, <2>0, JournalStep DEF Closed, Keeps, Records
  <2> QED BY <2>4, <2>5, <2>6 DEF Truth
<1> QED BY <1>1, <1>2 DEF Next, Tick, vars

\* What the journal says of the provider is an invariant.
LEMMA TruthHolds == Spec => [](Discipline /\ World /\ Truth)
<1>1. Discipline /\ [Next]_vars => Discipline'
  BY DisciplineStep
<1>2. Discipline /\ Discipline' /\ World /\ [Next]_vars => World'
  BY WorldStep
<1>3. Discipline /\ World /\ Truth /\ [Next]_vars => Truth'
  BY TruthStep
<1> QED BY <1>1, <1>2, <1>3, DisciplineInit, WorldInit, TruthInit, PTL DEF Spec

\* The journal never claims more than the provider holds: what it has located
\* is there, what it has completed is the whole installation, and the
\* workers.dev entry closes only behind the custom domain.
THEOREM JournalsAreReal == Spec => []JournalIsReal
<1>1. ASSUME Discipline, World, Truth PROVE JournalIsReal
  <2> USE <1>1, RepeatableFacts, OrderFacts DEF Truth
  <2>0. TypeOK /\ \A a \in Names : sent[a] \in Nat /\ res[a] \in Nat
    BY DEF Discipline, TypeOK
  <2>1. JournalIsTrue
    <3> SUFFICES ASSUME NEW a \in Names \ {Terminal}, journal.phase[a] \in Located
                 PROVE  IF a = DnsRecord THEN res[a] = 1 \/ journal.phase[DnsRelease] \in Armed
                        ELSE IF a = DnsRelease THEN res[DnsRecord] = 0
                        ELSE res[a] = 1
      BY DEF JournalIsTrue
    <3>1. CASE a \in Repeatable
      BY <3>1 DEF Lasting
    <3>2. CASE a \in Creates
      BY <3>2 DEF World, Effect, Done, Placed
    <3>3. CASE a = DnsRelease
      BY <3>3 DEF World, Effect
    <3> QED BY <3>1, <3>2, <3>3
  <2>2. NeverUnreachable
    <3> SUFFICES ASSUME res[WorkersDev] = 1 PROVE res[CustomDomain] = 1
      BY DEF NeverUnreachable
    <3>1. journal.phase[WorkersDev] \in Armed
      BY DEF Lasting, Discipline, SentArmed
    <3>2. journal.phase[CustomDomain] = "verified"
      BY <3>1 DEF Discipline, ArmedOrder
    <3> QED BY <3>2 DEF World, Effect, Done, Located
  <2>3. CompletedIsConverged
    <3> SUFFICES ASSUME journal.completed
                 PROVE  /\ \A a \in Names \ {DnsRecord, DnsRelease, Terminal} : res[a] = 1
                        /\ res[DnsRecord] = 0 /\ journal.lease.holder = NoAttempt
      BY DEF CompletedIsConverged
    <3>1. \A a \in Names : journal.phase[a] \in Located
      BY DEF Closed, Located
    <3>2. res[DnsRecord] = 0
      BY <3>1 DEF World, Effect
    <3> QED BY <2>1, <3>1, <3>2 DEF JournalIsTrue, Closed
  <2> QED BY <2>0, <2>1, <2>2, <2>3 DEF JournalIsReal
<1> QED BY <1>1, TruthHolds, PTL

\* Only the holder of an unexpired lease advances an action, by one phase,
\* and a completed journal never changes again.
THEOREM LeaseIsGuard == Spec => LeaseGuardsJournal
<1> DEFINE Guarded ==
      /\ journal.completed => journal' = journal
      /\ journal'.phase # journal.phase =>
           /\ journal.lease.holder \in Attempts /\ journal.lease.expiresAt > now
           /\ ctx'[journal.lease.holder] = journal'
           /\ \E a \in Names, step \in {<<"absent", "prepared">>,
                  <<"prepared", "send_armed">>, <<"send_armed", "submitted">>,
                  <<"submitted", "verified">>} :
                /\ journal.phase[a] = step[1]
                /\ journal'.phase = [journal.phase EXCEPT ![a] = step[2]]
<1>1. ASSUME Discipline, [Next]_vars PROVE Guarded
  <2>1. CASE journal' = journal
    BY <2>1
  <2>2. ASSUME NEW r \in Attempts, Step(r) PROVE Guarded
    <3>1. CASE Keeps
      BY <3>1 DEF Keeps
    <3>2. ASSUME NEW step \in PhaseSteps, Records(r, step) PROVE Guarded
      <4>1. at[r] \in Names
        BY <1>1 DEF Discipline, TypeOK
      <4>2. /\ journal.lease.holder = r /\ journal.lease.expiresAt > now /\ ~journal.completed
            /\ ctx'[r] = journal'
            /\ journal.phase[at[r]] = step[1]
            /\ journal'.phase = [journal.phase EXCEPT ![at[r]] = step[2]]
        BY <3>2 DEF Records, HoldsLease
      <4>3. \E s \in PhaseSteps :
              /\ journal.phase[at[r]] = s[1]
              /\ journal'.phase = [journal.phase EXCEPT ![at[r]] = s[2]]
        BY <4>2
      <4>4. \E a \in Names, s \in PhaseSteps :
              /\ journal.phase[a] = s[1]
              /\ journal'.phase = [journal.phase EXCEPT ![a] = s[2]]
        BY <4>1, <4>3
      <4> QED BY <4>2, <4>4, Zenon DEF PhaseSteps
    <3> QED BY <1>1, <2>1, <2>2, <3>1, <3>2, JournalStep
  <2>3. CASE Tick \/ UNCHANGED vars
    BY <2>1, <2>3 DEF Tick, vars
  <2> QED BY <1>1, <2>2, <2>3 DEF Next
<1>2. Discipline /\ [Next]_vars => [Guarded]_vars
  BY <1>1
<1> HIDE DEF Guarded
<1>3. Spec => [][Guarded]_vars
  BY <1>2, DisciplineHolds, PTL DEF Spec
<1> QED BY <1>3 DEF LeaseGuardsJournal, Guarded
=============================================================================
