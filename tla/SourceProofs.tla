---------------------------- MODULE SourceProofs ----------------------------
(***************************************************************************)
(* Proofs about the sources of the management Worker.                      *)
(*                                                                         *)
(* TokenSwitch: its safety, and that it implements RecordSwap, for every   *)
(* number of faults and of changes made by hand.  The invariant says where *)
(* the saved source, the Portal and the application may stand in each      *)
(* phase of the journal (PhaseStands), and what a request has seen when it *)
(* is about to write (PlaceStands): a placement it read is still the       *)
(* placement when its write goes out, because only the request that holds  *)
(* the queue moves the Portal's record or the application.                 *)
(*                                                                         *)
(* SourceInstall: its safety, for every set of sources and every bound.    *)
(* The invariant is about each source on its own (Agrees): what its        *)
(* journal says of what Cloudflare holds and may still create for it, what *)
(* the Portal shows of it, how far its removal is, and what the request at *)
(* work on it relies on.  A step concerns one source, and what holds of    *)
(* the others stays (OneChanges).                                          *)
(*                                                                         *)
(* SourceOauth: its safety, for every set of sources, browsers and scope   *)
(* sets.  The invariant follows the newest attempt: what is stored, and    *)
(* what the queue works on, is the attempt with the highest number, and    *)
(* its consent is unused until its own callback uses it (StoredIsNewest,   *)
(* OperationIsNewest, Established).                                        *)
(*                                                                         *)
(* SourceEdits: its safety, for every set of sources, selections, labels   *)
(* and requests.  The requests stand in an order of arrival in which each  *)
(* mutation has a place of its own (Ordered), so that whatever works       *)
(* beside a mutation waits for it (Alone); the data follow the journal     *)
(* (DataStands); and a mutation relies, from the moment it was loaded, on  *)
(* its journal, on what it has written and on the floor (WorkStands).      *)
(***************************************************************************)
EXTENDS MCSources, Sequences, FiniteSetTheorems, TLAPS

OtherMode(m) == IF m = "oauth" THEN "token" ELSE "oauth"
StandsAt(m)  == saved = m /\ portal = m /\ app = m /\ m \in records

(* What each phase of the journal says about the rest of the state.         *)
PhaseStands ==
  /\ journal = NoSwitch => saved = portal /\ portal = app /\ records = {saved}
  /\ journal.phase = "create_armed" => StandsAt("oauth")
  /\ journal.phase = "credential" => StandsAt("oauth") /\ records = Modes
  /\ journal.phase \in {"moving", "returning"} =>
       /\ records = Modes
       /\ portal # "none" => app = portal
       /\ saved = IF journal.committed THEN "token" ELSE "oauth"
  /\ journal.phase = "retiring" => StandsAt(OtherMode(journal.retire))

(* The steps a request may be at in each phase.                             *)
StepsOf(phase) ==
  CASE phase = "none"         -> {"idle"}
    [] phase = "create_armed" -> {"idle", "look", "create"}
    [] phase = "credential"   -> {"idle", "await"}
    [] phase = "retiring"     -> {"idle", "check", "absent", "delete", "gone"}
    [] OTHER                  -> {"idle", "place", "unmap", "retarget", "map", "commit"}

(* The placement behind a write of a move.                                  *)
PlaceStands ==
  /\ pc \in StepsOf(journal.phase)
  /\ pc = "unmap"    => portal = From /\ app = From
  /\ pc = "retarget" => portal = "none" /\ app = From
  /\ pc = "map"      => portal = "none" /\ app = To
  /\ pc = "commit"   => portal = To /\ app = To

SwitchInv == TypeOK /\ PhaseStands /\ PlaceStands

-----------------------------------------------------------------------------
(* A journal that can be read has one of the five phases.                   *)
LEMMA SafeJournal ==
  ASSUME NEW j, SafeSwitch(j)
  PROVE  /\ j.phase \in Phases /\ j.phase # "none" /\ j # NoSwitch
         /\ j.committed \in BOOLEAN /\ j.retire \in Modes \cup {"none"}
         /\ j = [phase |-> j.phase, committed |-> j.committed, retire |-> j.retire]
  BY DEF SafeSwitch, Phases, NoSwitch

(* The journal of a switch under way can be read and says what it expects.  *)
LEMMA JournalFacts ==
  ASSUME TypeOK
  PROVE  /\ journal = NoSwitch => journal.phase = "none" /\ ~journal.committed /\ journal.retire = "none"
         /\ journal # NoSwitch => SafeSwitch(journal)
  BY DEF TypeOK, NoSwitch

(* The five journals that a request writes over the one it read.            *)
LEMMA WrittenJournals ==
  ASSUME TypeOK, SafeSwitch(journal)
  PROVE  /\ journal.phase = "create_armed" =>
              [journal EXCEPT !.phase = "credential"] =
                [phase |-> "credential", committed |-> FALSE, retire |-> "none"]
         /\ journal.phase = "credential" =>
              [journal EXCEPT !.phase = "moving"] =
                [phase |-> "moving", committed |-> FALSE, retire |-> "none"]
         /\ journal.phase \in {"create_armed", "credential"} =>
              RolledBack(journal) = [phase |-> "retiring", committed |-> FALSE, retire |-> "token"]
         /\ journal.phase = "moving" \/ journal.retire = "oauth" =>
              RolledBack(journal) =
                [phase |-> "returning", committed |-> journal.committed, retire |-> "none"]
         /\ journal.phase = "returning" \/ journal.retire = "token" => RolledBack(journal) = journal
  BY SafeJournal DEF RolledBack, SafeSwitch, Phases, Modes

LEMMA InitStands ==
  ASSUME Init
  PROVE  SwitchInv
<1>1. credential \in BOOLEAN /\ drift \in BOOLEAN
  BY DEF Init
<1>2. TypeOK
  BY <1>1, BoundsAreNat DEF Init, TypeOK, Modes, Steps
<1>3. PhaseStands /\ PlaceStands
  BY DEF Init, PhaseStands, PlaceStands, StepsOf, NoSwitch
<1> QED BY <1>2, <1>3 DEF SwitchInv

-----------------------------------------------------------------------------
(* Requests                                                                 *)

LEMMA StartStep == SwitchInv /\ Start => SwitchInv'
  BY DEF Start, SwitchInv, TypeOK, PhaseStands, PlaceStands, StepsOf, StandsAt, ContextHolds,
    Persist, Enter, Return, SafeSwitch, Phases, NoSwitch, Modes, Steps, provider, bounds, loop,
    From, To, Forward

LEMMA ContinueStep == SwitchInv /\ Continue => SwitchInv'
  BY JournalFacts, SafeJournal DEF Continue, SwitchInv, TypeOK, PhaseStands, PlaceStands, StepsOf,
    StandsAt, OtherMode, Enter, Phases, storage, provider, bounds, loop, From, To, Forward

LEMMA RollbackStep == SwitchInv /\ Rollback => SwitchInv'
  BY JournalFacts, SafeJournal, WrittenJournals DEF Rollback, SwitchInv, TypeOK, PhaseStands,
    PlaceStands, StepsOf, StandsAt, OtherMode, Enter, Phases, Persist, Return, SafeSwitch,
    NoSwitch, Modes, Steps, provider, bounds, loop, From, To, Forward

LEMMA LookForRecordStep == SwitchInv /\ LookForRecord => SwitchInv'
  BY JournalFacts, SafeJournal, WrittenJournals DEF LookForRecord, SwitchInv, TypeOK, PhaseStands,
    PlaceStands, StepsOf, StandsAt, OtherMode, Enter, Phases, Persist, Return, SafeSwitch,
    NoSwitch, Modes, Steps, provider, bounds, loop, From, To, Forward

LEMMA CreateRecordStep ==
  ASSUME SwitchInv, CreateRecord
  PROVE  SwitchInv'
<1> USE DEF SwitchInv
<1>1. TypeOK'
  <2>1. (journal = NoSwitch \/ SafeSwitch(journal))' /\ saved' \in Modes
    BY DEF CreateRecord, TypeOK, storage
  <2>2. records' \subseteq Modes /\ portal' \in Modes \cup {"none"} /\ app' \in Modes
    BY DEF CreateRecord, Write, TypeOK, Modes, To, provider
  <2>3. credential' \in BOOLEAN /\ drift' \in BOOLEAN
    BY DEF CreateRecord, Write, TypeOK, provider
  <2>4. pc' \in {"idle", "look", "place"} /\ step' \in 0..Steps
    BY DEF CreateRecord, Write, Return, TypeOK, Steps, loop
  <2>5. faults' \in 0..MaxFaults /\ edits' \in 0..MaxEdits
    BY BoundsAreNat DEF CreateRecord, Write, Fault, TypeOK, bounds
  <2> QED BY <2>1, <2>2, <2>3, <2>4, <2>5 DEF TypeOK
<1>2. PhaseStands'
  BY JournalFacts, SafeJournal DEF CreateRecord, Write, TypeOK, PhaseStands, PlaceStands, StepsOf,
    StandsAt, Phases, Modes, From, To, Forward, storage, provider
<1>3. PlaceStands'
  BY JournalFacts, SafeJournal DEF CreateRecord, Write, Return, PlaceStands, StepsOf, Phases, From,
    To, Forward, storage, provider
<1> QED BY <1>1, <1>2, <1>3

LEMMA AwaitCredentialStep == SwitchInv /\ AwaitCredential => SwitchInv'
  BY JournalFacts, SafeJournal, WrittenJournals DEF AwaitCredential, SwitchInv, TypeOK,
    PhaseStands, PlaceStands, StepsOf, StandsAt, OtherMode, Enter, Phases, Persist, Return,
    SafeSwitch, NoSwitch, Modes, Steps, provider, bounds, loop, From, To, Forward

LEMMA PlaceStep == SwitchInv /\ Place => SwitchInv'
  BY JournalFacts, SafeJournal DEF Place, SwitchInv, TypeOK, PhaseStands, PlaceStands,
    StepsOf, StandsAt, OtherMode, Phases, Return, NextWrite, At, NoSwitch, Modes, Steps,
    storage, provider, bounds, loop, From, To, Forward

LEMMA UnmapStep ==
  ASSUME SwitchInv, Unmap
  PROVE  SwitchInv'
<1> USE DEF SwitchInv
<1>1. TypeOK'
  <2>1. (journal = NoSwitch \/ SafeSwitch(journal))' /\ saved' \in Modes
    BY DEF Unmap, TypeOK, storage
  <2>2. records' \subseteq Modes /\ portal' \in Modes \cup {"none"} /\ app' \in Modes
    BY DEF Unmap, Write, TypeOK, Modes, To, provider
  <2>3. credential' \in BOOLEAN /\ drift' \in BOOLEAN
    BY DEF Unmap, Write, TypeOK, provider
  <2>4. pc' \in {"idle", "look", "place"} /\ step' \in 0..Steps
    BY DEF Unmap, Write, Return, TypeOK, Steps, loop
  <2>5. faults' \in 0..MaxFaults /\ edits' \in 0..MaxEdits
    BY BoundsAreNat DEF Unmap, Write, Fault, TypeOK, bounds
  <2> QED BY <2>1, <2>2, <2>3, <2>4, <2>5 DEF TypeOK
<1>2. PhaseStands'
  BY JournalFacts, SafeJournal DEF Unmap, Write, TypeOK, PhaseStands, PlaceStands, StepsOf,
    StandsAt, Phases, Modes, From, To, Forward, storage, provider
<1>3. PlaceStands'
  BY JournalFacts, SafeJournal DEF Unmap, Write, Return, PlaceStands, StepsOf, Phases, From, To,
    Forward, storage, provider
<1> QED BY <1>1, <1>2, <1>3

LEMMA RetargetStep == SwitchInv /\ Retarget => SwitchInv'
  BY BoundsAreNat, JournalFacts, SafeJournal DEF Retarget, SwitchInv, TypeOK, PhaseStands,
    PlaceStands, StepsOf, StandsAt, OtherMode, Write, Fault, Phases, Return, NoSwitch, Modes,
    Steps, storage, provider, bounds, loop, From, To, Forward

LEMMA MapStep ==
  ASSUME SwitchInv, Map
  PROVE  SwitchInv'
<1> USE DEF SwitchInv
<1>1. TypeOK'
  <2>1. (journal = NoSwitch \/ SafeSwitch(journal))' /\ saved' \in Modes
    BY DEF Map, TypeOK, storage
  <2>2. records' \subseteq Modes /\ portal' \in Modes \cup {"none"} /\ app' \in Modes
    BY DEF Map, Write, TypeOK, Modes, To, provider
  <2>3. credential' \in BOOLEAN /\ drift' \in BOOLEAN
    BY DEF Map, Write, TypeOK, provider
  <2>4. pc' \in {"idle", "look", "place"} /\ step' \in 0..Steps
    BY DEF Map, Write, Return, TypeOK, Steps, loop
  <2>5. faults' \in 0..MaxFaults /\ edits' \in 0..MaxEdits
    BY BoundsAreNat DEF Map, Write, Fault, TypeOK, bounds
  <2> QED BY <2>1, <2>2, <2>3, <2>4, <2>5 DEF TypeOK
<1>2. PhaseStands'
  BY JournalFacts, SafeJournal DEF Map, Write, TypeOK, PhaseStands, PlaceStands, StepsOf, StandsAt,
    Phases, Modes, From, To, Forward, storage, provider
<1>3. PlaceStands'
  <2>1. journal' = journal /\ pc' \in {"idle", "place"}
    BY DEF Map, Write, Return, storage
  <2>2. journal.phase \in {"moving", "returning"}
    BY JournalFacts, SafeJournal DEF Map, PlaceStands, StepsOf, Phases
  <2> QED BY <2>1, <2>2 DEF PlaceStands, StepsOf
<1> QED BY <1>1, <1>2, <1>3

LEMMA CommitStep ==
  ASSUME SwitchInv, Commit
  PROVE  SwitchInv'
<1> USE DEF SwitchInv
<1>1. TypeOK'
  <2>1. journal.phase \in {"moving", "returning"}
    BY JournalFacts, SafeJournal DEF Commit, PlaceStands, StepsOf, Phases
  <2>2. (journal = NoSwitch \/ SafeSwitch(journal))' /\ saved' \in Modes
    <3>1. CASE UNCHANGED storage
      BY <3>1 DEF TypeOK, storage
    <3>2. CASE journal.phase = "moving" /\ ~UNCHANGED storage
      <4>1. Forward = TRUE
        BY <3>2 DEF Forward
      <4>2. journal' = [phase |-> "retiring", committed |-> TRUE, retire |-> "oauth"] /\ saved' = "token"
        BY <3>2, <4>1 DEF Commit, From, To
      <4> QED BY <4>2 DEF SafeSwitch, Phases, Modes
    <3>3. CASE journal.phase = "returning" /\ ~UNCHANGED storage
      <4>1. Forward = FALSE
        BY <3>3 DEF Forward
      <4>2. journal' = [phase |-> "retiring", committed |-> FALSE, retire |-> "token"] /\ saved' = "oauth"
        BY <3>3, <4>1 DEF Commit, From, To
      <4> QED BY <4>2 DEF SafeSwitch, Phases, Modes
    <3> QED BY <2>1, <3>1, <3>2, <3>3
  <2>3. records' \subseteq Modes /\ portal' \in Modes \cup {"none"} /\ app' \in Modes
        /\ credential' \in BOOLEAN /\ drift' \in BOOLEAN
    BY DEF Commit, TypeOK, provider
  <2>4. pc' \in {"idle", "check"} /\ step' \in 0..Steps /\ faults' \in 0..MaxFaults /\ edits' \in 0..MaxEdits
    BY DEF Commit, Return, TypeOK, Steps, loop, bounds
  <2> QED BY <2>2, <2>3, <2>4 DEF TypeOK
<1>2. PhaseStands'
  BY JournalFacts, SafeJournal DEF Commit, TypeOK, PhaseStands, PlaceStands, StepsOf, StandsAt,
    OtherMode, Phases, Modes, NoSwitch, From, To, Forward, storage, provider
<1>3. PlaceStands'
  BY JournalFacts, SafeJournal DEF Commit, Return, PlaceStands, StepsOf, Phases, From, To, Forward,
    storage, provider
<1> QED BY <1>1, <1>2, <1>3

LEMMA CheckUnmappedStep == SwitchInv /\ CheckUnmapped => SwitchInv'
  BY JournalFacts, SafeJournal DEF CheckUnmapped, SwitchInv, TypeOK, PhaseStands, PlaceStands,
    StepsOf, StandsAt, OtherMode, Phases, Return, NoSwitch, Modes, Steps,
    storage, provider, bounds, loop, From, To, Forward

LEMMA CloseStep == SwitchInv /\ Close => SwitchInv'
  BY JournalFacts, SafeJournal DEF Close, SwitchInv, TypeOK, PhaseStands, PlaceStands,
    StepsOf, StandsAt, OtherMode, Phases, Return, SafeSwitch, NoSwitch, Modes, Steps,
    storage, provider, bounds, loop, From, To, Forward

LEMMA DeleteStep == SwitchInv /\ Delete => SwitchInv'
  BY BoundsAreNat, JournalFacts, SafeJournal DEF Delete, SwitchInv, TypeOK, PhaseStands,
    PlaceStands, StepsOf, StandsAt, OtherMode, Write, Fault, Phases, Return, SafeSwitch, NoSwitch,
    Modes, Steps, storage, provider, bounds, loop, From, To, Forward

(* An interruption, and what happens in Cloudflare's dashboard, leave every  *)
(* placement where it is.                                                    *)
LEMMA OthersStep ==
  ASSUME SwitchInv, Interrupt \/ GiveCredential \/ LoseCredential \/ Drift \/ Repair
  PROVE  SwitchInv'
<1> USE DEF SwitchInv
<1>1. /\ UNCHANGED <<journal, saved, records, portal, app>>
      /\ pc' \in {pc, "idle"} /\ (pc' = pc => UNCHANGED pc)
  BY DEF Interrupt, GiveCredential, LoseCredential, Drift, Repair, Edit, Return, storage, provider
<1>2. PhaseStands'
  BY <1>1 DEF PhaseStands, StandsAt
<1>3. PlaceStands'
  BY <1>1, JournalFacts, SafeJournal DEF PlaceStands, StepsOf, Phases, From, To, Forward
<1>4. credential' \in BOOLEAN /\ drift' \in BOOLEAN
  BY DEF Interrupt, GiveCredential, LoseCredential, Drift, Repair, Edit, TypeOK, provider
<1>5. step' \in 0..Steps
  BY DEF Interrupt, GiveCredential, LoseCredential, Drift, Repair, Edit, Return, TypeOK, Steps, loop
<1>6. faults' \in 0..MaxFaults /\ edits' \in 0..MaxEdits
  BY BoundsAreNat DEF Interrupt, GiveCredential, LoseCredential, Drift, Repair, Edit, Fault,
    TypeOK, bounds
<1>7. TypeOK'
  BY <1>1, <1>4, <1>5, <1>6 DEF TypeOK
<1> QED BY <1>2, <1>3, <1>7

-----------------------------------------------------------------------------
(* Every step keeps the invariant, and the invariant is enough.             *)
LEMMA NextStands == SwitchInv /\ [Next]_vars => SwitchInv'
<1> SUFFICES ASSUME SwitchInv, [Next]_vars PROVE SwitchInv'
  OBVIOUS
<1>1. CASE Step
  BY <1>1, LookForRecordStep, CreateRecordStep, AwaitCredentialStep, PlaceStep, UnmapStep,
    RetargetStep, MapStep, CommitStep, CheckUnmappedStep, CloseStep, DeleteStep DEF Step
<1>2. CASE UNCHANGED vars
  BY <1>2 DEF vars, SwitchInv, TypeOK, PhaseStands, StandsAt, PlaceStands, From, To, Forward
<1> QED BY <1>1, <1>2, StartStep, ContinueStep, RollbackStep, OthersStep DEF Next

LEMMA InvIsSafe == SwitchInv => SwitchIsSafe
<1> SUFFICES ASSUME SwitchInv PROVE SwitchIsSafe
  OBVIOUS
<1> USE DEF SwitchInv
<1>1. journal = NoSwitch \/ SafeSwitch(journal)
  BY DEF TypeOK
<1>2. MappedIsGoverned
  BY <1>1, SafeJournal DEF MappedIsGoverned, PhaseStands, StandsAt, Phases
<1>3. ClosedIsClean
  BY DEF ClosedIsClean, PhaseStands
<1>4. AlwaysResumable
  BY <1>1, SafeJournal DEF AlwaysResumable, ContextHolds, PhaseStands, StandsAt, OtherMode,
    SafeSwitch, Phases, Modes
<1> QED BY <1>2, <1>3, <1>4 DEF SwitchIsSafe

LEMMA SwitchStands == Spec => []SwitchInv
  BY InitStands, NextStands, PTL DEF Spec

(* Wherever a switch stops (a lost answer, an eviction, a change by hand), a *)
(* record the Portal maps is governed by the source's application, a closed  *)
(* switch left one record that everything names, and Continue is accepted.   *)
THEOREM SwitchSafety == Spec => []SwitchIsSafe
  BY SwitchStands, InvIsSafe, PTL

-----------------------------------------------------------------------------
(* A record that the Portal maps exists, so the record that serves is the    *)
(* one the Portal maps, and only five steps change what RecordSwap sees.     *)
LEMMA MappedServes == SwitchInv => Serving = portal
<1> SUFFICES ASSUME SwitchInv PROVE Serving = portal
  OBVIOUS
<1>1. portal # "none" => portal = app /\ portal \in records
  BY JournalFacts, SafeJournal DEF SwitchInv, TypeOK, PhaseStands, StandsAt, Phases
<1> QED BY <1>1 DEF Serving

LEMMA InitSwaps ==
  ASSUME Init
  PROVE  Swap!Init
  BY DEF Init, Swap!Init, Serving, Modes

LEMMA StepSwaps ==
  ASSUME SwitchInv, SwitchInv', Step
  PROVE  Swap!Next \/ UNCHANGED Swap!swap
<1>1. Serving = portal /\ Serving' = portal'
  <2>1. SwitchInv' => (Serving = portal)'
    BY MappedServes, PTL
  <2> QED BY <2>1, MappedServes
<1> USE <1>1
<1>2. CASE LookForRecord \/ AwaitCredential \/ Place \/ CheckUnmapped \/ Close
  BY <1>2 DEF LookForRecord, AwaitCredential, Place, CheckUnmapped, Close, Swap!swap, storage,
    provider
<1>3. CASE CreateRecord
  <2>1. records' \in {records, records \cup {"token"}} /\ UNCHANGED <<saved, portal>>
    BY <1>3 DEF CreateRecord, Write, storage, provider
  <2> QED BY <2>1 DEF Swap!Next, Swap!Create, Swap!swap, Modes
<1>4. CASE Unmap
  <2>1. portal' \in {portal, "none"} /\ UNCHANGED <<saved, records>>
    BY <1>4 DEF Unmap, Write, storage, provider
  <2> QED BY <2>1 DEF Swap!Next, Swap!Suspend, Swap!swap
<1>5. CASE Retarget
  BY <1>5 DEF Retarget, Write, Swap!swap, storage, provider
<1>6. CASE Map
  <2>1. portal = "none" /\ portal' \in {portal, To} /\ UNCHANGED <<saved, records>>
    BY <1>6 DEF Map, Write, SwitchInv, PlaceStands, storage, provider
  <2>2. To \in Modes /\ To \in records
    BY <1>6, JournalFacts, SafeJournal DEF Map, SwitchInv, PhaseStands, PlaceStands, StepsOf,
      Phases, To, Modes
  <2> QED BY <2>1, <2>2 DEF Swap!Next, Swap!Serve, Swap!swap
<1>7. CASE Commit
  <2>1. portal = To /\ To # "none" /\ saved' \in {saved, To} /\ UNCHANGED <<portal, records>>
    BY <1>7 DEF Commit, SwitchInv, PlaceStands, To, storage, provider
  <2> QED BY <2>1 DEF Swap!Next, Swap!Save, Swap!swap
<1>8. CASE Delete
  <2>1. records' \in {records, records \ {journal.retire}} /\ UNCHANGED <<saved, portal>>
    BY <1>8 DEF Delete, Write, storage, provider
  <2>2. journal.phase = "retiring" /\ journal.retire \in Modes
    BY <1>8, JournalFacts, SafeJournal DEF Delete, SwitchInv, PlaceStands, StepsOf, SafeSwitch,
      Phases
  <2>3. journal.retire \notin {portal, saved}
    BY <2>2 DEF SwitchInv, PhaseStands, StandsAt, OtherMode, Modes
  <2> QED BY <2>1, <2>2, <2>3 DEF Swap!Next, Swap!Retire, Swap!swap
<1> QED BY <1>2, <1>3, <1>4, <1>5, <1>6, <1>7, <1>8 DEF Step

(* Requests and everybody else change nothing that RecordSwap sees.         *)
LEMMA NextSwaps == SwitchInv /\ SwitchInv' /\ [Next]_vars => [Swap!Next]_Swap!swap
<1> SUFFICES ASSUME SwitchInv, SwitchInv', [Next]_vars, ~Step PROVE UNCHANGED Swap!swap
  BY StepSwaps
<1>1. UNCHANGED <<saved, records, portal, app>>
  BY DEF Next, Start, Continue, Rollback, Interrupt, GiveCredential, LoseCredential, Drift, Repair,
    Edit, storage, provider, vars
<1> QED BY <1>1 DEF Swap!swap, Serving

(* TokenSwitch implements RecordSwap: to the people who use the source,      *)
(* updateSourceTokenSwitch only suspends the record that serves, serves an   *)
(* existing one, saves the one that serves and removes one that is neither.  *)
THEOREM SwitchImplementsSwap == Spec => SwitchSwapsRecords
<1>1. Init => Swap!Init
  BY InitSwaps
<1> QED BY <1>1, SwitchStands, NextSwaps, PTL DEF Spec, SwitchSwapsRecords, Swap!Spec

-----------------------------------------------------------------------------
(* SourceInstall: what holds of each source.                                *)

InstallSteps == {"resume", "baseline", "create", "verify", "portal", "map", "widen", "finalize"}
RemovalSteps == {"detach", "delete"}
InstallRequests == {Install!Idle} \cup [pc : InstallSteps \cup RemovalSteps, src : InstallSources]

(* What the journal says of the source as it is recorded.                     *)
JournalAgrees(s) ==
  LET a == action[s] IN
  /\ a.st \in {"none", "failed"} => ~Install!Evidence(a)
  /\ status[s] = "absent" => a.st = "none"
  /\ status[s] = "installed" <=> a.st = "succeeded"
  /\ status[s] = "installed" <=> s \in owned
  /\ a.st = "succeeded" => a.have = 3 /\ a.portal = "none"
  /\ a.st = "authorization_required" => ~Install!Unlocated(a)

(* What the journal a expects of a kind; and that nothing of an approval that  *)
(* still counts is undecided.                                                *)
Expected(s, k, a) == <<s, k>> \in outlived \/ k <= a.have \/ (k = a.have + 1 /\ a.pend # "none")
NothingSent(s) == \A k \in Install!Kinds : <<s, k>> \in outlived \/ wire[s][k] = 0

(* What it says of what Cloudflare holds, and may still create, for the source.*)
ObjectsAgree(s) ==
  LET a == action[s] IN
  /\ \A k \in Install!Kinds :
       /\ objects[s][k] <= 1
       /\ objects[s][k] > 0 => Expected(s, k, a)
       /\ k <= a.have /\ ~Install!RemovalOf(s) => objects[s][k] = 1
       /\ k = a.have + 1 /\ a.pend = "submitted" => objects[s][k] = 1
       /\ wire[s][k] > 0 /\ <<s, k>> \notin outlived =>
            /\ k = a.have + 1 /\ a.pend = "armed" /\ wire[s][k] = 1 /\ objects[s][k] = 0
            /\ a.st \in {"applying", "recovery_required"}
  /\ <<s, 2>> \notin outlived
  /\ s \in extra => <<s, 3>> \in outlived

(* What the Portal and the policy show of the source.                         *)
PortalAgrees(s) ==
  LET a == action[s] IN
  /\ s \in sourcePortal => /\ a.have = 3 /\ content[s] = "tools"
                           /\ s \in owned \/ a.portal # "none"
                           /\ Install!RemovalOf(s) => removal.step = 0
  /\ status[s] = "installed" => Install!RemovalOf(s) \/ (s \in sourcePortal /\ s \in wide)

(* How far its removal is, in the order of Deletion.                          *)
RemovalAgrees(s) ==
  LET a == action[s] IN
  Install!RemovalOf(s) =>
    /\ a.have = 3 /\ a.st \in {"succeeded", "recovery_required"} /\ a.portal = "none"
    /\ \A i \in 1 .. 3 :
         /\ i < removal.step => objects[s][Install!Deletion[i]] = 0 \/ (i = 1 /\ <<s, 1>> \in outlived)
         /\ removal.step < i => objects[s][Install!Deletion[i]] = 1

(* What the request that works on it relies on at its next step.              *)
RequestAgrees(s) ==
  LET a == action[s]
      at == req.pc
  IN
  req.src = s =>
    /\ at \in InstallSteps => a.st = "applying" /\ removal = Install!NoRemoval
    /\ at = "resume"   => a.pend # "none" /\ ~Install!Unlocated(a) /\ NothingSent(s)
    /\ at = "baseline" => a.pend = "none" /\ a.have < 3
    /\ at = "create"   => /\ a.pend = "armed" /\ NothingSent(s)
                          /\ objects[s][a.have + 1] = 0 \/ <<s, a.have + 1>> \in outlived
    /\ at = "verify"   => a.pend = "submitted"
    /\ at \in {"portal", "map", "widen", "finalize"} => a.pend = "none" /\ a.have = 3
    /\ at = "map"      => a.portal = "armed" /\ content[s] = "tools"
    /\ at \in {"widen", "finalize"} => s \in sourcePortal
    /\ at = "finalize" => s \in wide
    /\ at \in RemovalSteps => Install!RemovalOf(s)
    /\ at = "detach"   => removal.step = 0
    /\ at = "delete"   => removal.step > 0

Agrees(s) ==
  JournalAgrees(s) /\ ObjectsAgree(s) /\ PortalAgrees(s) /\ RemovalAgrees(s) /\ RequestAgrees(s)

InstallInv ==
  /\ Install!TypeOK /\ req \in InstallRequests
  /\ removal.src = "none" => removal = Install!NoRemoval
  /\ \A s \in InstallSources : Agrees(s)

(* What leaves every source but s as it was.                                *)
OnlyOf(s) ==
  \A t \in InstallSources \ {s} :
    /\ status'[t] = status[t] /\ content'[t] = content[t] /\ objects'[t] = objects[t]
    /\ action'[t].st = action[t].st /\ action'[t].have = action[t].have
    /\ action'[t].pend = action[t].pend /\ action'[t].portal = action[t].portal
    /\ action'[t].open = action[t].open
    /\ t \in owned' <=> t \in owned
    /\ t \in sourcePortal' <=> t \in sourcePortal
    /\ t \in wide' <=> t \in wide
    /\ wire'[t] = wire[t] /\ (t \in extra' <=> t \in extra)
    /\ \A k \in Install!Kinds : <<t, k>> \in outlived' <=> <<t, k>> \in outlived
    /\ Install!RemovalOf(t) \/ removal'.src = t => removal' = removal
    /\ req'.src = t => req' = req /\ removal' = removal

\* A step that concerns one source leaves what holds of the others.
LEMMA OthersAgree ==
  ASSUME InstallInv, NEW s \in InstallSources, OnlyOf(s), NEW t \in InstallSources \ {s}
  PROVE  Agrees(t)'
<1>1. Agrees(t) /\ Install!TypeOK
  BY DEF InstallInv
<1>2. /\ status'[t] = status[t] /\ content'[t] = content[t] /\ objects'[t] = objects[t]
      /\ action'[t].st = action[t].st /\ action'[t].have = action[t].have
      /\ action'[t].pend = action[t].pend /\ action'[t].portal = action[t].portal
      /\ action'[t].open = action[t].open
      /\ t \in owned' <=> t \in owned
      /\ t \in sourcePortal' <=> t \in sourcePortal
      /\ t \in wide' <=> t \in wide
      /\ wire'[t] = wire[t] /\ (t \in extra' <=> t \in extra)
      /\ Install!RemovalOf(t) \/ removal'.src = t => removal' = removal
      /\ req'.src = t => req' = req /\ removal' = removal
  BY DEF OnlyOf
<1>3. \A k \in Install!Kinds : <<t, k>> \in outlived' <=> <<t, k>> \in outlived
  BY DEF OnlyOf
<1>4. Install!Kinds = {1, 2, 3}
  BY DEF Install!Kinds
<1>5. /\ <<t, 1>> \in outlived' <=> <<t, 1>> \in outlived
      /\ <<t, 2>> \in outlived' <=> <<t, 2>> \in outlived
      /\ <<t, 3>> \in outlived' <=> <<t, 3>> \in outlived
  BY <1>3, <1>4
<1>6. action[t].pend = "armed" => action[t].have + 1 \in Install!Kinds
  BY <1>1, <1>4 DEF Install!TypeOK, Install!ActionRecords
<1>7. JournalAgrees(t)'
  BY <1>1, <1>2 DEF Agrees, JournalAgrees, Install!Evidence, Install!Unlocated
<1>8. ObjectsAgree(t)'
  BY <1>2, <1>3, <1>1, <1>5 DEF Expected, Install!RemovalOf, Agrees, ObjectsAgree
<1>9. PortalAgrees(t)'
  BY <1>1, <1>2 DEF Agrees, PortalAgrees, Install!RemovalOf
<1>10. RemovalAgrees(t)'
  BY <1>1, <1>2, <1>5 DEF Agrees, RemovalAgrees, Install!RemovalOf
<1>11. RequestAgrees(t)'
  BY <1>2, <1>3, <1>6, <1>1 DEF NothingSent, Agrees, RequestAgrees, Install!RemovalOf,
    Install!Unlocated
<1> QED BY <1>7, <1>8, <1>9, <1>10, <1>11 DEF Agrees

(* The types of everything but the journals, and what a journal's fields say  *)
(* of each other.                                                            *)
DataFits ==
  /\ status \in [InstallSources -> Install!Statuses] /\ content \in [InstallSources -> Install!Contents]
  /\ revision \in Nat /\ sourceFaults \in 0 .. InstallFaults
  /\ owned \in Install!OwnershipRecords /\ sourcePortal \subseteq InstallSources
  /\ wide \subseteq InstallSources /\ connected \subseteq InstallSources
  /\ wire \in [InstallSources -> [Install!Kinds -> Nat]]
  /\ extra \subseteq InstallSources /\ outlived \subseteq InstallSources \X Install!Kinds
  /\ objects \in [InstallSources -> [Install!Kinds -> Nat]]
  /\ removal \in [src : InstallSources \cup {"none"}, step : 0 .. 4, pending : BOOLEAN]
  /\ removal.src = "none" => removal = Install!NoRemoval
  /\ req \in InstallRequests
JournalFits(s) ==
  /\ action[s].pend # "none" => action[s].have < 3
  /\ action[s].portal # "none" => action[s].have = 3

\* A journal that is started, and one that is bound again, can be read.
LEMMA Started ==
  ASSUME NEW n \in Nat, NEW h \in Install!Contents
  PROVE  [st |-> "authorization_required", rev |-> n, hash |-> h, have |-> 0, pend |-> "none",
          portal |-> "none", access |-> FALSE, open |-> TRUE, paused |-> FALSE] \in Install!ActionRecords
  BY DEF Install!ActionRecords
LEMMA Rebound ==
  ASSUME NEW a \in Install!ActionRecords, NEW n \in Nat, NEW h \in Install!Contents
  PROVE  [a EXCEPT !.rev = n, !.hash = h] \in Install!ActionRecords
  BY DEF Install!ActionRecords

\* A removal that gains a step can be read.
LEMMA Progressed ==
  ASSUME NEW r \in [src : InstallSources \cup {"none"}, step : 0 .. 4, pending : BOOLEAN],
         NEW n \in 0 .. 4
  PROVE  /\ [r EXCEPT !.step = n, !.pending = FALSE]
               \in [src : InstallSources \cup {"none"}, step : 0 .. 4, pending : BOOLEAN]
         /\ [r EXCEPT !.step = n, !.pending = FALSE].src = r.src
         /\ [r EXCEPT !.step = n, !.pending = FALSE].step = n
  OBVIOUS

\* What is left to show of a step that concerns one source.
LEMMA OneChanges ==
  ASSUME InstallInv, NEW s \in InstallSources, OnlyOf(s),
         action' \in [InstallSources -> Install!ActionRecords],
         DataFits', JournalFits(s)',
         JournalAgrees(s)', ObjectsAgree(s)', PortalAgrees(s)', RemovalAgrees(s)', RequestAgrees(s)'
  PROVE  InstallInv'
<1>1. \A t \in InstallSources : Agrees(t)'
  BY OthersAgree DEF Agrees
<1>2. \A t \in InstallSources : JournalFits(t)'
  <2>1. \A t \in InstallSources : JournalFits(t)
    BY DEF InstallInv, Install!TypeOK, JournalFits
  <2>2. ASSUME NEW t \in InstallSources \ {s} PROVE JournalFits(t)'
    BY <2>1 DEF OnlyOf, JournalFits
  <2> QED BY <2>2
<1> QED BY <1>1, <1>2 DEF InstallInv, Install!TypeOK, DataFits, JournalFits

\* Saving a draft: only a source without an unfinished action.
LEMMA SaveDraftHolds ==
  ASSUME InstallInv, NEW s \in InstallSources, NEW c \in Install!Contents, Install!SaveDraft(s, c)
  PROVE  InstallInv'
<1> USE DEF Install!SaveDraft, Install!Blocks, Install!Evidence, Install!Quiet, Install!Idle,
      Install!saved, Install!provider, Install!RemovalOf
<1>1. /\ Install!TypeOK /\ Agrees(s) /\ req \in InstallRequests /\ action[s] \in Install!ActionRecords
      /\ removal.src = "none" => removal = Install!NoRemoval
  BY DEF InstallInv, Install!TypeOK
<1>2. action' \in [InstallSources -> Install!ActionRecords]
  BY <1>1 DEF Install!TypeOK, Install!ActionRecords, Install!Contents
<1>3. DataFits'
  BY <1>1, SourceBounds, SourceNames DEF DataFits, Install!TypeOK, Install!Statuses,
    Install!Contents, Install!OwnershipRecords, InstallRequests, InstallSteps, RemovalSteps,
    Install!NoRemoval
<1>4. OnlyOf(s)
  BY <1>1 DEF OnlyOf, Install!TypeOK
<1>5. JournalFits(s)'
  BY <1>1 DEF JournalFits, Install!TypeOK
<1>6. JournalAgrees(s)'
  BY <1>1, SourceNames DEF Install!TypeOK, Install!ActionRecords, Install!NoRemoval, Install!Kinds,
    InstallRequests, Agrees, JournalAgrees, ObjectsAgree, Expected, PortalAgrees, RemovalAgrees,
    RequestAgrees, NothingSent
<1>7. ObjectsAgree(s)'
  BY <1>1, SourceNames DEF Install!TypeOK, Install!ActionRecords, Install!NoRemoval, Install!Kinds,
    InstallRequests, Agrees, JournalAgrees, ObjectsAgree, Expected, PortalAgrees, RemovalAgrees,
    RequestAgrees, NothingSent
<1>8. PortalAgrees(s)'
  BY <1>1, SourceNames DEF Install!TypeOK, Install!ActionRecords, Install!NoRemoval, Install!Kinds,
    InstallRequests, Agrees, JournalAgrees, ObjectsAgree, Expected, PortalAgrees, RemovalAgrees,
    RequestAgrees, NothingSent
<1>9. RemovalAgrees(s)'
  BY <1>1, SourceNames DEF Install!TypeOK, Install!ActionRecords, Install!NoRemoval, Install!Kinds,
    InstallRequests, Agrees, JournalAgrees, ObjectsAgree, Expected, PortalAgrees, RemovalAgrees,
    RequestAgrees, NothingSent
<1>10. RequestAgrees(s)'
  BY <1>1, SourceNames DEF Install!TypeOK, Install!ActionRecords, Install!NoRemoval, Install!Kinds,
    InstallRequests, Agrees, JournalAgrees, ObjectsAgree, Expected, PortalAgrees, RemovalAgrees,
    RequestAgrees, NothingSent
<1> QED BY <1>2, <1>3, <1>4, <1>5, <1>6, <1>7, <1>8, <1>9, <1>10, OneChanges

\* A first approval is of a journal without evidence.
LEMMA PrepareHolds ==
  ASSUME InstallInv, NEW s \in InstallSources, Install!Prepare(s)
  PROVE  InstallInv'
<1> USE DEF Install!Prepare, Install!Blocks, Install!Evidence, Install!Unlocated, Install!NoAction,
      Install!Quiet, Install!Idle, Install!saved, Install!provider, Install!RemovalOf
<1>1. /\ Install!TypeOK /\ Agrees(s) /\ req \in InstallRequests /\ action[s] \in Install!ActionRecords
      /\ removal.src = "none" => removal = Install!NoRemoval
  BY DEF InstallInv, Install!TypeOK
<1>2. action'[s] = [st |-> "authorization_required", rev |-> revision, hash |-> content[s],
       have |-> 0, pend |-> "none", portal |-> "none", access |-> FALSE, open |-> TRUE, paused |-> FALSE]
  BY <1>1 DEF Install!TypeOK, Install!ActionRecords
<1>3. action' \in [InstallSources -> Install!ActionRecords]
  <2>0. revision \in Nat /\ revision + 1 \in Nat /\ content[s] \in Install!Contents /\ "tools" \in Install!Contents
    BY <1>1 DEF Install!TypeOK, Install!Contents
  <2>1. action'[s] \in Install!ActionRecords
    BY <1>2, <2>0, Started
  <2>2. \A t \in InstallSources \ {s} : action'[t] = action[t]
    BY <1>1 DEF Install!TypeOK
  <2> QED BY <1>1, <2>1, <2>2 DEF Install!TypeOK
<1>4. DataFits'
  BY <1>1, <1>2, SourceBounds, SourceNames DEF DataFits, Install!TypeOK, Install!Statuses,
    Install!Contents, Install!OwnershipRecords, InstallRequests, InstallSteps, RemovalSteps,
    Install!NoRemoval
<1>5. OnlyOf(s)
  BY <1>1 DEF OnlyOf, Install!TypeOK
<1>6. JournalFits(s)'
  BY <1>1, <1>2 DEF JournalFits, Install!TypeOK
<1>7. JournalAgrees(s)'
  BY <1>1, <1>2, SourceNames DEF Install!TypeOK, Install!ActionRecords, Install!NoRemoval,
    Install!Kinds, InstallRequests, Agrees, JournalAgrees, ObjectsAgree, Expected, PortalAgrees,
    RemovalAgrees, RequestAgrees, NothingSent
<1>8. ObjectsAgree(s)'
  BY <1>1, <1>2, SourceNames DEF Install!TypeOK, Install!ActionRecords, Install!NoRemoval,
    Install!Kinds, InstallRequests, Agrees, JournalAgrees, ObjectsAgree, Expected, PortalAgrees,
    RemovalAgrees, RequestAgrees, NothingSent
<1>9. PortalAgrees(s)'
  BY <1>1, <1>2, SourceNames DEF Install!TypeOK, Install!ActionRecords, Install!NoRemoval,
    Install!Kinds, InstallRequests, Agrees, JournalAgrees, ObjectsAgree, Expected, PortalAgrees,
    RemovalAgrees, RequestAgrees, NothingSent
<1>10. RemovalAgrees(s)'
  BY <1>1, <1>2, SourceNames DEF Install!TypeOK, Install!ActionRecords, Install!NoRemoval,
    Install!Kinds, InstallRequests, Agrees, JournalAgrees, ObjectsAgree, Expected, PortalAgrees,
    RemovalAgrees, RequestAgrees, NothingSent
<1>11. RequestAgrees(s)'
  BY <1>1, <1>2, SourceNames DEF Install!TypeOK, Install!ActionRecords, Install!NoRemoval,
    Install!Kinds, InstallRequests, Agrees, JournalAgrees, ObjectsAgree, Expected, PortalAgrees,
    RemovalAgrees, RequestAgrees, NothingSent
<1> QED BY <1>3, <1>4, <1>5, <1>6, <1>7, <1>8, <1>9, <1>10, <1>11, OneChanges

\* Only a journal without evidence is cancelled.
LEMMA CancelHolds ==
  ASSUME InstallInv, NEW s \in InstallSources, Install!Cancel(s)
  PROVE  InstallInv'
<1> USE DEF Install!Cancel, Install!CanCancel, Install!Evidence, Install!Quiet, Install!Idle,
      Install!saved, Install!provider, Install!RemovalOf
<1>1. /\ Install!TypeOK /\ Agrees(s) /\ req \in InstallRequests /\ action[s] \in Install!ActionRecords
      /\ removal.src = "none" => removal = Install!NoRemoval
  BY DEF InstallInv, Install!TypeOK
<1>2. action' \in [InstallSources -> Install!ActionRecords]
  BY <1>1 DEF Install!TypeOK, Install!ActionRecords, Install!Contents
<1>3. DataFits'
  BY <1>1, SourceBounds, SourceNames DEF DataFits, Install!TypeOK, Install!Statuses,
    Install!Contents, Install!OwnershipRecords, InstallRequests, InstallSteps, RemovalSteps,
    Install!NoRemoval
<1>4. OnlyOf(s)
  BY <1>1 DEF OnlyOf, Install!TypeOK
<1>5. JournalFits(s)'
  BY <1>1 DEF JournalFits, Install!TypeOK
<1>6. JournalAgrees(s)'
  BY <1>1, SourceNames DEF Install!TypeOK, Install!ActionRecords, Install!NoRemoval, Install!Kinds,
    InstallRequests, Agrees, JournalAgrees, ObjectsAgree, Expected, PortalAgrees, RemovalAgrees,
    RequestAgrees, NothingSent
<1>7. ObjectsAgree(s)'
  BY <1>1, SourceNames DEF Install!TypeOK, Install!ActionRecords, Install!NoRemoval, Install!Kinds,
    InstallRequests, Agrees, JournalAgrees, ObjectsAgree, Expected, PortalAgrees, RemovalAgrees,
    RequestAgrees, NothingSent
<1>8. PortalAgrees(s)'
  BY <1>1, SourceNames DEF Install!TypeOK, Install!ActionRecords, Install!NoRemoval, Install!Kinds,
    InstallRequests, Agrees, JournalAgrees, ObjectsAgree, Expected, PortalAgrees, RemovalAgrees,
    RequestAgrees, NothingSent
<1>9. RemovalAgrees(s)'
  BY <1>1, SourceNames DEF Install!TypeOK, Install!ActionRecords, Install!NoRemoval, Install!Kinds,
    InstallRequests, Agrees, JournalAgrees, ObjectsAgree, Expected, PortalAgrees, RemovalAgrees,
    RequestAgrees, NothingSent
<1>10. RequestAgrees(s)'
  BY <1>1, SourceNames DEF Install!TypeOK, Install!ActionRecords, Install!NoRemoval, Install!Kinds,
    InstallRequests, Agrees, JournalAgrees, ObjectsAgree, Expected, PortalAgrees, RemovalAgrees,
    RequestAgrees, NothingSent
<1> QED BY <1>2, <1>3, <1>4, <1>5, <1>6, <1>7, <1>8, <1>9, <1>10, OneChanges

\* A renewal waits for what was sent.
LEMMA RenewHolds ==
  ASSUME InstallInv, NEW s \in InstallSources, Install!Renew(s)
  PROVE  InstallInv'
<1> USE DEF Install!Renew, Install!CanRenew, Install!Paused, Install!Unlocated, Install!Evidence,
      Install!Quiet, Install!Idle, Install!saved, Install!provider, Install!RemovalOf
<1>1. /\ Install!TypeOK /\ Agrees(s) /\ req \in InstallRequests /\ action[s] \in Install!ActionRecords
      /\ removal.src = "none" => removal = Install!NoRemoval
  BY DEF InstallInv, Install!TypeOK
<1>0. /\ outlived' \subseteq InstallSources \X Install!Kinds
      /\ \A t \in InstallSources, k \in Install!Kinds :
           <<t, k>> \in outlived' <=> <<t, k>> \in outlived \/ (t = s /\ wire[s][k] > 0)
      /\ wire[s][2] > 0 => <<s, 2>> \in outlived
  BY <1>1 DEF Install!TypeOK, Install!Kinds, Agrees, ObjectsAgree, JournalAgrees, Expected,
    Install!ActionRecords, Install!App
<1>2. action' \in [InstallSources -> Install!ActionRecords]
  BY <1>1, <1>0 DEF Install!TypeOK, Install!ActionRecords, Install!Contents
<1>3. DataFits'
  BY <1>1, <1>0, SourceBounds, SourceNames DEF DataFits, Install!TypeOK, Install!Statuses,
    Install!Contents, Install!OwnershipRecords, InstallRequests, InstallSteps, RemovalSteps,
    Install!NoRemoval
<1>4. OnlyOf(s)
  BY <1>1, <1>0 DEF OnlyOf, Install!TypeOK
<1>5. JournalFits(s)'
  BY <1>1, <1>0 DEF JournalFits, Install!TypeOK
<1>6. JournalAgrees(s)'
  BY <1>1 DEF Agrees, Install!TypeOK, Install!ActionRecords, Install!Recovers, JournalAgrees
<1>7. ObjectsAgree(s)'
  BY <1>1, <1>0, SourceNames DEF Install!TypeOK, Install!ActionRecords, Install!NoRemoval, Install!Kinds,
    InstallRequests, Agrees, JournalAgrees, ObjectsAgree, Expected, PortalAgrees, RemovalAgrees,
    RequestAgrees, NothingSent
<1>8. PortalAgrees(s)'
  BY <1>1, <1>0, SourceNames DEF Install!TypeOK, Install!ActionRecords, Install!NoRemoval, Install!Kinds,
    InstallRequests, Agrees, JournalAgrees, ObjectsAgree, Expected, PortalAgrees, RemovalAgrees,
    RequestAgrees, NothingSent
<1>9. RemovalAgrees(s)'
  BY <1>1, <1>0, SourceNames DEF Install!TypeOK, Install!ActionRecords, Install!NoRemoval, Install!Kinds,
    InstallRequests, Agrees, JournalAgrees, ObjectsAgree, Expected, PortalAgrees, RemovalAgrees,
    RequestAgrees, NothingSent
<1>10. RequestAgrees(s)'
  BY <1>1, <1>0, SourceNames DEF Install!TypeOK, Install!ActionRecords, Install!NoRemoval, Install!Kinds,
    InstallRequests, Agrees, JournalAgrees, ObjectsAgree, Expected, PortalAgrees, RemovalAgrees,
    RequestAgrees, NothingSent
<1> QED BY <1>2, <1>3, <1>4, <1>5, <1>6, <1>7, <1>8, <1>9, <1>10, OneChanges

\* An approval ends, whatever was sent under it.
LEMMA ExpireHolds ==
  ASSUME InstallInv, NEW s \in InstallSources, Install!Expire(s)
  PROVE  InstallInv'
<1> USE DEF Install!Expire, Install!Unlocated, Install!Evidence, Install!Quiet, Install!Idle,
      Install!saved, Install!provider, Install!RemovalOf
<1>1. /\ Install!TypeOK /\ Agrees(s) /\ req \in InstallRequests /\ action[s] \in Install!ActionRecords
      /\ removal.src = "none" => removal = Install!NoRemoval
  BY DEF InstallInv, Install!TypeOK
<1>2. action' \in [InstallSources -> Install!ActionRecords]
  BY <1>1 DEF Install!TypeOK, Install!ActionRecords, Install!Contents
<1>3. DataFits'
  BY <1>1, SourceBounds, SourceNames DEF DataFits, Install!TypeOK, Install!Statuses,
    Install!Contents, Install!OwnershipRecords, InstallRequests, InstallSteps, RemovalSteps,
    Install!NoRemoval
<1>4. OnlyOf(s)
  BY <1>1 DEF OnlyOf, Install!TypeOK
<1>5. JournalFits(s)'
  BY <1>1 DEF JournalFits, Install!TypeOK
<1>6. JournalAgrees(s)'
  BY <1>1, SourceNames DEF Install!TypeOK, Install!ActionRecords, Install!NoRemoval, Install!Kinds,
    InstallRequests, Agrees, JournalAgrees, ObjectsAgree, Expected, PortalAgrees, RemovalAgrees,
    RequestAgrees, NothingSent
<1>7. ObjectsAgree(s)'
  BY <1>1, SourceNames DEF Install!TypeOK, Install!ActionRecords, Install!NoRemoval, Install!Kinds,
    InstallRequests, Agrees, JournalAgrees, ObjectsAgree, Expected, PortalAgrees, RemovalAgrees,
    RequestAgrees, NothingSent
<1>8. PortalAgrees(s)'
  BY <1>1, SourceNames DEF Install!TypeOK, Install!ActionRecords, Install!NoRemoval, Install!Kinds,
    InstallRequests, Agrees, JournalAgrees, ObjectsAgree, Expected, PortalAgrees, RemovalAgrees,
    RequestAgrees, NothingSent
<1>9. RemovalAgrees(s)'
  BY <1>1, SourceNames DEF Install!TypeOK, Install!ActionRecords, Install!NoRemoval, Install!Kinds,
    InstallRequests, Agrees, JournalAgrees, ObjectsAgree, Expected, PortalAgrees, RemovalAgrees,
    RequestAgrees, NothingSent
<1>10. RequestAgrees(s)'
  BY <1>1, SourceNames DEF Install!TypeOK, Install!ActionRecords, Install!NoRemoval, Install!Kinds,
    InstallRequests, Agrees, JournalAgrees, ObjectsAgree, Expected, PortalAgrees, RemovalAgrees,
    RequestAgrees, NothingSent
<1> QED BY <1>2, <1>3, <1>4, <1>5, <1>6, <1>7, <1>8, <1>9, <1>10, OneChanges

\* Draft and journal are bound again together.
LEMMA ChooseToolsHolds ==
  ASSUME InstallInv, NEW s \in InstallSources, Install!ChooseTools(s)
  PROVE  InstallInv'
<1> USE DEF Install!ChooseTools, Install!Paused, Install!Unlocated, Install!Evidence,
      Install!Quiet, Install!Idle, Install!saved, Install!provider, Install!RemovalOf
<1>1. /\ Install!TypeOK /\ Agrees(s) /\ req \in InstallRequests /\ action[s] \in Install!ActionRecords
      /\ removal.src = "none" => removal = Install!NoRemoval
  BY DEF InstallInv, Install!TypeOK
<1>2. action'[s] = [action[s] EXCEPT !.rev = revision + 1, !.hash = "tools"]
  BY <1>1 DEF Install!TypeOK
<1>3. action' \in [InstallSources -> Install!ActionRecords]
  <2>0. revision \in Nat /\ revision + 1 \in Nat /\ content[s] \in Install!Contents /\ "tools" \in Install!Contents
    BY <1>1 DEF Install!TypeOK, Install!Contents
  <2>1. action'[s] \in Install!ActionRecords
    <3>1. action[s] \in Install!ActionRecords
      BY <1>1
    <3>2. [action[s] EXCEPT !.rev = revision + 1, !.hash = "tools"] \in Install!ActionRecords
      BY ONLY <3>1, <2>0, Rebound
    <3> QED BY ONLY <1>2, <3>2
  <2>2. \A t \in InstallSources \ {s} : action'[t] = action[t]
    BY <1>1 DEF Install!TypeOK
  <2> QED BY <1>1, <2>1, <2>2 DEF Install!TypeOK
<1>4. DataFits'
  BY <1>1, <1>2, SourceBounds, SourceNames DEF DataFits, Install!TypeOK, Install!Statuses,
    Install!Contents, Install!OwnershipRecords, InstallRequests, InstallSteps, RemovalSteps,
    Install!NoRemoval
<1>5. OnlyOf(s)
  BY <1>1 DEF OnlyOf, Install!TypeOK
<1>6. JournalFits(s)'
  BY <1>1, <1>2 DEF JournalFits, Install!TypeOK
<1>7. JournalAgrees(s)'
  BY <1>1, <1>2, SourceNames DEF Install!TypeOK, Install!ActionRecords, Install!NoRemoval,
    Install!Kinds, InstallRequests, Agrees, JournalAgrees, ObjectsAgree, Expected, PortalAgrees,
    RemovalAgrees, RequestAgrees, NothingSent
<1>8. ObjectsAgree(s)'
  BY <1>1, <1>2, SourceNames DEF Install!TypeOK, Install!ActionRecords, Install!NoRemoval,
    Install!Kinds, InstallRequests, Agrees, JournalAgrees, ObjectsAgree, Expected, PortalAgrees,
    RemovalAgrees, RequestAgrees, NothingSent
<1>9. PortalAgrees(s)'
  BY <1>1, <1>2, SourceNames DEF Install!TypeOK, Install!ActionRecords, Install!NoRemoval,
    Install!Kinds, InstallRequests, Agrees, JournalAgrees, ObjectsAgree, Expected, PortalAgrees,
    RemovalAgrees, RequestAgrees, NothingSent
<1>10. RemovalAgrees(s)'
  BY <1>1, <1>2, SourceNames DEF Install!TypeOK, Install!ActionRecords, Install!NoRemoval,
    Install!Kinds, InstallRequests, Agrees, JournalAgrees, ObjectsAgree, Expected, PortalAgrees,
    RemovalAgrees, RequestAgrees, NothingSent
<1>11. RequestAgrees(s)'
  BY <1>1, <1>2, SourceNames DEF Install!TypeOK, Install!ActionRecords, Install!NoRemoval,
    Install!Kinds, InstallRequests, Agrees, JournalAgrees, ObjectsAgree, Expected, PortalAgrees,
    RemovalAgrees, RequestAgrees, NothingSent
<1> QED BY <1>3, <1>4, <1>5, <1>6, <1>7, <1>8, <1>9, <1>10, <1>11, OneChanges

\* The customer's connections.
LEMMA ConnectHolds ==
  ASSUME InstallInv, NEW s \in InstallSources, Install!Connect(s)
  PROVE  InstallInv'
<1> USE DEF Install!Connect, Install!Lost, Install!Quiet, Install!Idle, Install!saved,
      Install!provider, Install!RemovalOf
<1>1. /\ Install!TypeOK /\ Agrees(s) /\ req \in InstallRequests /\ action[s] \in Install!ActionRecords
      /\ removal.src = "none" => removal = Install!NoRemoval
  BY DEF InstallInv, Install!TypeOK
<1>2. action' \in [InstallSources -> Install!ActionRecords]
  BY <1>1 DEF Install!TypeOK, Install!ActionRecords, Install!Contents
<1>3. DataFits'
  BY <1>1, SourceBounds, SourceNames DEF DataFits, Install!TypeOK, Install!Statuses,
    Install!Contents, Install!OwnershipRecords, InstallRequests, InstallSteps, RemovalSteps,
    Install!NoRemoval
<1>4. OnlyOf(s)
  BY <1>1 DEF OnlyOf, Install!TypeOK
<1>5. JournalFits(s)'
  BY <1>1 DEF JournalFits, Install!TypeOK
<1>6. JournalAgrees(s)'
  BY <1>1, SourceNames DEF Install!TypeOK, Install!ActionRecords, Install!NoRemoval, Install!Kinds,
    InstallRequests, Agrees, JournalAgrees, ObjectsAgree, Expected, PortalAgrees, RemovalAgrees,
    RequestAgrees, NothingSent
<1>7. ObjectsAgree(s)'
  BY <1>1, SourceNames DEF Install!TypeOK, Install!ActionRecords, Install!NoRemoval, Install!Kinds,
    InstallRequests, Agrees, JournalAgrees, ObjectsAgree, Expected, PortalAgrees, RemovalAgrees,
    RequestAgrees, NothingSent
<1>8. PortalAgrees(s)'
  BY <1>1, SourceNames DEF Install!TypeOK, Install!ActionRecords, Install!NoRemoval, Install!Kinds,
    InstallRequests, Agrees, JournalAgrees, ObjectsAgree, Expected, PortalAgrees, RemovalAgrees,
    RequestAgrees, NothingSent
<1>9. RemovalAgrees(s)'
  BY <1>1, SourceNames DEF Install!TypeOK, Install!ActionRecords, Install!NoRemoval, Install!Kinds,
    InstallRequests, Agrees, JournalAgrees, ObjectsAgree, Expected, PortalAgrees, RemovalAgrees,
    RequestAgrees, NothingSent
<1>10. RequestAgrees(s)'
  BY <1>1, SourceNames DEF Install!TypeOK, Install!ActionRecords, Install!NoRemoval, Install!Kinds,
    InstallRequests, Agrees, JournalAgrees, ObjectsAgree, Expected, PortalAgrees, RemovalAgrees,
    RequestAgrees, NothingSent
<1> QED BY <1>2, <1>3, <1>4, <1>5, <1>6, <1>7, <1>8, <1>9, <1>10, OneChanges

\* The same.
LEMMA DisconnectHolds ==
  ASSUME InstallInv, NEW s \in InstallSources, Install!Disconnect(s)
  PROVE  InstallInv'
<1> USE DEF Install!Disconnect, Install!Lost, Install!Quiet, Install!Idle, Install!saved,
      Install!provider, Install!RemovalOf
<1>1. /\ Install!TypeOK /\ Agrees(s) /\ req \in InstallRequests /\ action[s] \in Install!ActionRecords
      /\ removal.src = "none" => removal = Install!NoRemoval
  BY DEF InstallInv, Install!TypeOK
<1>2. action' \in [InstallSources -> Install!ActionRecords]
  BY <1>1 DEF Install!TypeOK, Install!ActionRecords, Install!Contents
<1>3. DataFits'
  BY <1>1, SourceBounds, SourceNames DEF DataFits, Install!TypeOK, Install!Statuses,
    Install!Contents, Install!OwnershipRecords, InstallRequests, InstallSteps, RemovalSteps,
    Install!NoRemoval
<1>4. OnlyOf(s)
  BY <1>1 DEF OnlyOf, Install!TypeOK
<1>5. JournalFits(s)'
  BY <1>1 DEF JournalFits, Install!TypeOK
<1>6. JournalAgrees(s)'
  BY <1>1, SourceNames DEF Install!TypeOK, Install!ActionRecords, Install!NoRemoval, Install!Kinds,
    InstallRequests, Agrees, JournalAgrees, ObjectsAgree, Expected, PortalAgrees, RemovalAgrees,
    RequestAgrees, NothingSent
<1>7. ObjectsAgree(s)'
  BY <1>1, SourceNames DEF Install!TypeOK, Install!ActionRecords, Install!NoRemoval, Install!Kinds,
    InstallRequests, Agrees, JournalAgrees, ObjectsAgree, Expected, PortalAgrees, RemovalAgrees,
    RequestAgrees, NothingSent
<1>8. PortalAgrees(s)'
  BY <1>1, SourceNames DEF Install!TypeOK, Install!ActionRecords, Install!NoRemoval, Install!Kinds,
    InstallRequests, Agrees, JournalAgrees, ObjectsAgree, Expected, PortalAgrees, RemovalAgrees,
    RequestAgrees, NothingSent
<1>9. RemovalAgrees(s)'
  BY <1>1, SourceNames DEF Install!TypeOK, Install!ActionRecords, Install!NoRemoval, Install!Kinds,
    InstallRequests, Agrees, JournalAgrees, ObjectsAgree, Expected, PortalAgrees, RemovalAgrees,
    RequestAgrees, NothingSent
<1>10. RequestAgrees(s)'
  BY <1>1, SourceNames DEF Install!TypeOK, Install!ActionRecords, Install!NoRemoval, Install!Kinds,
    InstallRequests, Agrees, JournalAgrees, ObjectsAgree, Expected, PortalAgrees, RemovalAgrees,
    RequestAgrees, NothingSent
<1> QED BY <1>2, <1>3, <1>4, <1>5, <1>6, <1>7, <1>8, <1>9, <1>10, OneChanges

\* A journal that agrees with what Cloudflare holds goes on to its next step.
LEMMA ProceedHolds ==
  ASSUME InstallInv, NEW s \in InstallSources, NEW b \in Install!ActionRecords,
         Install!Proceed(s, b), Install!Keep,
         removal = Install!NoRemoval, action[s].st \in {"authorization_required", "applying"},
         NothingSent(s),
         b.st = "applying", ~Install!Unlocated(b), b.pend # "none" => b.have < 3,
         b.portal # "none" => b.have = 3,
         \A k \in Install!Kinds : /\ objects[s][k] > 0 => Expected(s, k, b)
                                  /\ k <= b.have => objects[s][k] = 1
                                  /\ k = b.have + 1 /\ b.pend = "submitted" => objects[s][k] = 1,
         s \in sourcePortal => b.have = 3 /\ b.portal # "none"
  PROVE  InstallInv'
<1>1. /\ Install!TypeOK /\ Agrees(s) /\ req \in InstallRequests /\ action[s] \in Install!ActionRecords
      /\ removal.src = "none" => removal = Install!NoRemoval

  BY DEF InstallInv, Install!TypeOK
<1>2. /\ action'[s] \in Install!ActionRecords /\ action' \in [InstallSources -> Install!ActionRecords]
      /\ \A t \in InstallSources \ {s} : action'[t] = action[t]
      /\ action'[s] = b
      /\ req' = [pc |-> Install!Stage(b), src |-> s]
      /\ Install!Stage(b) = IF b.pend # "none" THEN "resume" ELSE IF b.have < 3 THEN "baseline" ELSE "portal"
      /\ UNCHANGED <<Install!saved, removal, Install!provider, sourceFaults>>
  BY <1>1 DEF Install!TypeOK, Install!ActionRecords, Install!Proceed, Install!Stage, Install!saved,
    Install!Busy, Install!Goto, Install!Keep, Install!Set, Install!Answered, Install!saved,
    Install!provider, Install!Lost
<1> USE <1>1, <1>2, SourceNames DEF Install!TypeOK, Install!ActionRecords, Install!NoRemoval,
      Install!Kinds, Install!RemovalOf, Install!Evidence, Install!Unlocated
<1>3. DataFits'
  BY SourceBounds DEF DataFits, Install!Statuses, Install!Contents, Install!OwnershipRecords,
    InstallRequests, InstallSteps, RemovalSteps, Install!Idle, Install!saved, Install!provider
<1>4. OnlyOf(s)
  BY DEF OnlyOf, Install!Idle, Install!saved, Install!provider
<1>5. JournalFits(s)'
  BY DEF JournalFits
<1>6. JournalAgrees(s)'
  BY DEF Agrees, Install!saved, Install!provider, Install!Idle, JournalAgrees
<1>7. ObjectsAgree(s)'
  <2>1. /\ objects' = objects /\ wire' = wire /\ removal' = removal /\ action'[s] = b
        /\ extra' = extra /\ outlived' = outlived
        /\ <<s, 2>> \notin outlived /\ (s \in extra => <<s, 3>> \in outlived)
    BY DEF Install!provider, Agrees, ObjectsAgree
  <2>2. \A k \in Install!Kinds : objects[s][k] <= 1 /\ objects[s][k] \in Nat
    BY DEF Agrees, ObjectsAgree, Expected
  <2>3. b.have \in 0 .. 3
    OBVIOUS
  <2>4. ~Install!RemovalOf(s)
    OBVIOUS
  <2>5. (b.pend = "submitted" => b.pend # "none") /\ NothingSent(s)
    OBVIOUS
  <2>6. \A k \in Install!Kinds :
          /\ objects[s][k] > 0 => Expected(s, k, b)
          /\ k <= b.have => objects[s][k] = 1
          /\ k = b.have + 1 /\ b.pend = "submitted" => objects[s][k] = 1
    OBVIOUS
  <2> QED BY ONLY <2>1, <2>2, <2>3, <2>5, <2>6 DEF ObjectsAgree, Expected, NothingSent
<1>8. PortalAgrees(s)'
  BY DEF Agrees, Install!saved, Install!provider, Install!Idle, PortalAgrees, JournalAgrees
<1>9. RemovalAgrees(s)'
  BY DEF Agrees, Install!saved, Install!provider, Install!Idle, RemovalAgrees, JournalAgrees
<1>10. RequestAgrees(s)'
  BY DEF Agrees, Install!saved, Install!provider, Install!Idle, RequestAgrees, NothingSent, InstallSteps,
    RemovalSteps
<1> QED BY <1>3, <1>4, <1>5, <1>6, <1>7, <1>8, <1>9, <1>10, OneChanges

\* A step that fails leaves the journal as it was, to be renewed.
LEMMA FailHolds ==
  ASSUME InstallInv, NEW s \in InstallSources, NEW pause \in BOOLEAN, Install!Failed(s, pause),
         UNCHANGED <<Install!saved, removal, objects, extra, wide, connected, wire, outlived>>,
         sourceFaults' \in 0 .. InstallFaults,
         removal = Install!NoRemoval, action[s].st \in {"authorization_required", "applying"},
         sourcePortal' \in {sourcePortal, sourcePortal \cup {s}},
         s \in sourcePortal' => s \in sourcePortal \/ (/\ action[s].have = 3 /\ action[s].portal # "none"
                                                       /\ content[s] = "tools")
  PROVE  InstallInv'
<1>1. /\ Install!TypeOK /\ Agrees(s) /\ req \in InstallRequests /\ action[s] \in Install!ActionRecords
      /\ removal.src = "none" => removal = Install!NoRemoval

  BY DEF InstallInv, Install!TypeOK
<1>2. /\ action'[s] \in Install!ActionRecords /\ action' \in [InstallSources -> Install!ActionRecords]
      /\ \A t \in InstallSources \ {s} : action'[t] = action[t]
      /\ action'[s].st = "recovery_required" /\ action'[s].have = action[s].have /\ action'[s].pend = action[s].pend
      /\ action'[s].portal = action[s].portal /\ action'[s].open = action[s].open
      /\ req' = Install!Idle
  BY <1>1 DEF Install!TypeOK, Install!ActionRecords, Install!Failed
<1> USE <1>1, <1>2, SourceNames DEF Install!TypeOK, Install!ActionRecords, Install!NoRemoval,
      Install!Kinds, Install!RemovalOf, Install!Evidence, Install!Unlocated
<1>3. DataFits'
  BY SourceBounds DEF DataFits, Install!Statuses, Install!Contents, Install!OwnershipRecords,
    InstallRequests, InstallSteps, RemovalSteps, Install!Idle, Install!saved, Install!provider
<1>4. OnlyOf(s)
  BY DEF OnlyOf, Install!Idle, Install!saved, Install!provider
<1>5. JournalFits(s)'
  BY DEF JournalFits
<1>6. JournalAgrees(s)'
  BY DEF Agrees, Install!saved, Install!provider, Install!Idle, JournalAgrees
<1>7. ObjectsAgree(s)'
  BY DEF Agrees, JournalAgrees, Install!saved, Install!provider, ObjectsAgree, Expected
<1>8. PortalAgrees(s)'
  BY DEF Agrees, Install!saved, Install!provider, Install!Idle, PortalAgrees, JournalAgrees
<1>9. RemovalAgrees(s)'
  BY DEF Agrees, Install!saved, Install!provider, Install!Idle, RemovalAgrees, JournalAgrees
<1>10. RequestAgrees(s)'
  BY DEF Agrees, Install!saved, Install!provider, Install!Idle, RequestAgrees, NothingSent, InstallSteps,
    RemovalSteps
<1> QED BY <1>3, <1>4, <1>5, <1>6, <1>7, <1>8, <1>9, <1>10, OneChanges

\* What a creation may do that takes place: it makes the only object of its kind, or the second
\* policy of an application whose first one outlived its approval.
LEMMA CreationFacts ==
  ASSUME InstallInv, NEW s \in InstallSources, NEW k \in Install!Kinds, Install!Created(s, k),
         ~Install!Taken(s, k),
         <<s, k>> \in outlived \/ (objects[s][k] = 0 /\ action[s].have + 1 = k)
  PROVE  /\ objects' \in [InstallSources -> [Install!Kinds -> Nat]]
         /\ \A t \in InstallSources \ {s} : objects'[t] = objects[t]
         /\ \A j \in Install!Kinds \ {k} : objects'[s][j] = objects[s][j]
         /\ \/ extra' = extra /\ objects[s][k] = 0 /\ objects'[s][k] = 1 /\ ~(k = 3 /\ action[s].have = 3)
            \/ /\ k = 3 /\ extra' = extra \cup {s} /\ objects' = objects /\ <<s, 3>> \in outlived
               /\ objects[s][3] = 1 \/ action[s].have = 3
<1>1. /\ objects \in [InstallSources -> [Install!Kinds -> Nat]] /\ action[s].have \in 0 .. 3
      /\ k \in 1 .. 3 /\ objects[s][k] \in {0, 1} /\ <<s, 2>> \notin outlived
  <2>1. Install!TypeOK /\ ObjectsAgree(s) /\ action[s] \in Install!ActionRecords
    BY DEF InstallInv, Install!TypeOK, Agrees
  <2>2. /\ objects \in [InstallSources -> [Install!Kinds -> Nat]] /\ action[s].have \in 0 .. 3
        /\ k \in 1 .. 3 /\ objects[s][k] \in Nat
    BY <2>1 DEF Install!TypeOK, Install!ActionRecords, Install!Kinds
  <2>3. objects[s][k] <= 1 /\ <<s, 2>> \notin outlived
    BY <2>1 DEF ObjectsAgree
  <2> QED BY <2>2, <2>3
<1>2. CASE k = 3 /\ (objects[s][3] > 0 \/ action[s].have = 3)
  BY <1>1, <1>2 DEF Install!Created, Install!Policy
<1>3. CASE ~(k = 3 /\ (objects[s][3] > 0 \/ action[s].have = 3))
  BY <1>1, <1>3 DEF Install!Taken, Install!Server, Install!Created, Install!Policy
<1> QED BY <1>2, <1>3

\* A creation that was acknowledged.
LEMMA CreatedHolds ==
  ASSUME InstallInv, NEW s \in InstallSources, Install!Busy("create", s),
         Install!Created(s, Install!NextKind(s)), ~Install!Taken(s, Install!NextKind(s)),
         Install!Set(s, [action[s] EXCEPT !.pend = "submitted"]), Install!Goto("verify"),
         UNCHANGED <<Install!saved, removal, sourcePortal, wide, connected, wire, sourceFaults, outlived>>
  PROVE  InstallInv'
<1>1. /\ Install!TypeOK /\ Agrees(s) /\ req \in InstallRequests /\ action[s] \in Install!ActionRecords
      /\ removal.src = "none" => removal = Install!NoRemoval
      /\ req = [pc |-> "create", src |-> s]
      /\ action[s].st = "applying" /\ removal = Install!NoRemoval /\ action[s].pend = "armed"
      /\ NothingSent(s) /\ action[s].have + 1 \in Install!Kinds
      /\ objects[s][action[s].have + 1] = 0 \/ <<s, action[s].have + 1>> \in outlived
  BY SourceNames DEF InstallInv, Install!TypeOK, Install!ActionRecords, Install!Kinds, Install!Busy,
    Agrees, RequestAgrees, InstallSteps
<1>2. /\ action'[s] \in Install!ActionRecords /\ action' \in [InstallSources -> Install!ActionRecords]
      /\ \A t \in InstallSources \ {s} : action'[t] = action[t]
      /\ action'[s].st = action[s].st /\ action'[s].have = action[s].have /\ action'[s].pend = "submitted"
      /\ action'[s].portal = action[s].portal /\ action'[s].open = action[s].open
      /\ req' = [pc |-> "verify", src |-> s]
      /\ objects' \in [InstallSources -> [Install!Kinds -> Nat]]
      /\ \A t \in InstallSources \ {s} : objects'[t] = objects[t]
      /\ \A j \in Install!Kinds \ {action[s].have + 1} : objects'[s][j] = objects[s][j]
      /\ objects'[s][action[s].have + 1] = 1
      /\ extra' = extra \/ (extra' = extra \cup {s} /\ <<s, 3>> \in outlived)
  <2>1. action'[s] \in Install!ActionRecords /\ action' \in [InstallSources -> Install!ActionRecords]
    BY <1>1 DEF Install!TypeOK, Install!ActionRecords, Install!Goto, Install!Set, Install!Created,
      Install!NextKind
  <2>2. \A t \in InstallSources \ {s} : action'[t] = action[t]
    BY <1>1 DEF Install!TypeOK, Install!Goto, Install!Set, Install!Created, Install!NextKind
  <2>3. /\ action'[s].st = action[s].st /\ action'[s].have = action[s].have /\ action'[s].pend = "submitted"
        /\ action'[s].portal = action[s].portal /\ action'[s].open = action[s].open
    BY <1>1 DEF Install!TypeOK, Install!ActionRecords, Install!Goto, Install!Set, Install!Created,
      Install!NextKind
  <2>4. req' = [pc |-> "verify", src |-> s]
    BY <1>1 DEF Install!Goto
  <2>5. action[s].have \in 0 .. 2
    BY <1>1 DEF Install!ActionRecords, Install!Kinds
  <2>6. /\ objects' \in [InstallSources -> [Install!Kinds -> Nat]]
        /\ \A t \in InstallSources \ {s} : objects'[t] = objects[t]
        /\ \A j \in Install!Kinds \ {action[s].have + 1} : objects'[s][j] = objects[s][j]
        /\ objects'[s][action[s].have + 1] = 1
        /\ extra' = extra \/ (extra' = extra \cup {s} /\ <<s, 3>> \in outlived)
    BY <1>1, <2>5, CreationFacts DEF Install!NextKind
  <2> QED BY <2>1, <2>2, <2>3, <2>4, <2>6
<1> USE <1>1, <1>2, SourceNames DEF Install!TypeOK, Install!ActionRecords, Install!NoRemoval,
      Install!Kinds, Install!RemovalOf, Install!Evidence, Install!Unlocated
<1>3. DataFits'
  BY SourceBounds DEF DataFits, Install!Statuses, Install!Contents, Install!OwnershipRecords,
    InstallRequests, InstallSteps, RemovalSteps, Install!Idle, Install!saved, Install!provider
<1>4. OnlyOf(s)
  BY DEF OnlyOf, Install!Idle, Install!saved, Install!provider
<1>5. JournalFits(s)'
  BY DEF JournalFits
<1>6. JournalAgrees(s)'
  BY DEF Agrees, Install!saved, Install!provider, Install!Idle, JournalAgrees
<1>7. ObjectsAgree(s)'
  BY DEF Agrees, ObjectsAgree, Expected, NothingSent
<1>8. PortalAgrees(s)'
  BY DEF Agrees, Install!saved, Install!provider, Install!Idle, PortalAgrees, JournalAgrees
<1>9. RemovalAgrees(s)'
  BY DEF Agrees, Install!saved, Install!provider, Install!Idle, RemovalAgrees, JournalAgrees
<1>10. RequestAgrees(s)'
  BY DEF Agrees, Install!saved, Install!provider, Install!Idle, RequestAgrees, NothingSent, InstallSteps,
    RemovalSteps
<1> QED BY <1>3, <1>4, <1>5, <1>6, <1>7, <1>8, <1>9, <1>10, OneChanges

\* A creation whose answer was lost.
LEMMA UnansweredHolds ==
  ASSUME InstallInv, NEW s \in InstallSources, Install!Busy("create", s), Install!Lost,
         Install!Sent(s), Install!Failed(s, FALSE),
         UNCHANGED <<Install!saved, removal, objects, extra, sourcePortal, wide, connected, outlived>>
  PROVE  InstallInv'
<1>1. /\ Install!TypeOK /\ Agrees(s) /\ req \in InstallRequests /\ action[s] \in Install!ActionRecords
      /\ removal.src = "none" => removal = Install!NoRemoval
      /\ req = [pc |-> "create", src |-> s]
      /\ action[s].st = "applying" /\ removal = Install!NoRemoval /\ action[s].pend = "armed"
      /\ NothingSent(s) /\ action[s].have + 1 \in Install!Kinds
      /\ objects[s][action[s].have + 1] = 0 \/ <<s, action[s].have + 1>> \in outlived
  BY SourceNames DEF InstallInv, Install!TypeOK, Install!ActionRecords, Install!Kinds, Install!Busy,
    Agrees, RequestAgrees, InstallSteps
<1>2. /\ action'[s] \in Install!ActionRecords /\ action' \in [InstallSources -> Install!ActionRecords]
      /\ \A t \in InstallSources \ {s} : action'[t] = action[t]
      /\ action'[s].st = "recovery_required" /\ action'[s].have = action[s].have /\ action'[s].pend = action[s].pend
      /\ action'[s].portal = action[s].portal /\ action'[s].open = action[s].open
      /\ req' = Install!Idle
      /\ wire' \in [InstallSources -> [Install!Kinds -> Nat]]
      /\ \A t \in InstallSources \ {s} : wire'[t] = wire[t]
      /\ \A j \in Install!Kinds \ {action[s].have + 1} : wire'[s][j] = wire[s][j]
      /\ wire'[s][action[s].have + 1] = wire[s][action[s].have + 1] + 1
      /\ sourceFaults' \in 0 .. InstallFaults
  <2>1. action'[s] \in Install!ActionRecords /\ action' \in [InstallSources -> Install!ActionRecords]
    BY <1>1 DEF Install!TypeOK, Install!ActionRecords, Install!Goto, Install!Set, Install!NextKind,
      Install!Failed, Install!Lost
  <2>2. \A t \in InstallSources \ {s} : action'[t] = action[t]
    BY <1>1 DEF Install!TypeOK, Install!Goto, Install!Set, Install!NextKind, Install!Failed,
      Install!Lost
  <2>3. /\ action'[s].st = "recovery_required" /\ action'[s].have = action[s].have
        /\ action'[s].pend = action[s].pend /\ action'[s].portal = action[s].portal /\ action'[s].open = action[s].open
    BY <1>1 DEF Install!TypeOK, Install!ActionRecords, Install!Goto, Install!Set, Install!NextKind,
      Install!Failed, Install!Lost
  <2>4. /\ req' = Install!Idle /\ sourceFaults' \in 0 .. InstallFaults
        /\ wire' \in [InstallSources -> [Install!Kinds -> Nat]]
        /\ \A t \in InstallSources \ {s} : wire'[t] = wire[t]
        /\ \A j \in Install!Kinds \ {action[s].have + 1} : wire'[s][j] = wire[s][j]
        /\ wire'[s][action[s].have + 1] = wire[s][action[s].have + 1] + 1
    BY <1>1, SourceBounds DEF Install!TypeOK, Install!Sent, Install!NextKind, Install!Failed,
      Install!Lost
  <2> QED BY <2>1, <2>2, <2>3, <2>4
<1> USE <1>1, <1>2, SourceNames DEF Install!TypeOK, Install!ActionRecords, Install!NoRemoval,
      Install!Kinds, Install!RemovalOf, Install!Evidence, Install!Unlocated
<1>3. DataFits'
  BY SourceBounds DEF DataFits, Install!Statuses, Install!Contents, Install!OwnershipRecords,
    InstallRequests, InstallSteps, RemovalSteps, Install!Idle, Install!saved, Install!provider
<1>4. OnlyOf(s)
  BY DEF OnlyOf, Install!Idle, Install!saved, Install!provider
<1>5. JournalFits(s)'
  BY DEF JournalFits
<1>6. JournalAgrees(s)'
  BY DEF Agrees, Install!saved, Install!provider, Install!Idle, JournalAgrees
<1>7. ObjectsAgree(s)'
  <2>1. ObjectsAgree(s) /\ NothingSent(s) /\ wire[s] \in [1 .. 3 -> Nat]
    BY DEF Agrees
  <2>2. /\ objects' = objects /\ extra' = extra /\ outlived' = outlived /\ removal' = removal
        /\ action[s].have \in 0 .. 2
    OBVIOUS
  <2>3. \A k \in Install!Kinds : wire'[s][k] > 0 /\ <<s, k>> \notin outlived =>
          k = action[s].have + 1 /\ wire'[s][k] = 1 /\ objects[s][k] = 0
    <3> SUFFICES ASSUME NEW k \in Install!Kinds, wire'[s][k] > 0, <<s, k>> \notin outlived
                 PROVE  k = action[s].have + 1 /\ wire'[s][k] = 1 /\ objects[s][k] = 0
      OBVIOUS
    <3>1. wire[s][k] = 0
      BY <2>1 DEF NothingSent
    <3>2. k = action[s].have + 1
      BY <3>1
    <3> QED BY <3>1, <3>2
  <2> QED BY <2>1, <2>2, <2>3 DEF ObjectsAgree, Expected
<1>8. PortalAgrees(s)'
  BY DEF Agrees, Install!saved, Install!provider, Install!Idle, PortalAgrees, JournalAgrees
<1>9. RemovalAgrees(s)'
  BY DEF Agrees, Install!saved, Install!provider, Install!Idle, RemovalAgrees, JournalAgrees
<1>10. RequestAgrees(s)'
  BY DEF Agrees, Install!saved, Install!provider, Install!Idle, RequestAgrees, NothingSent, InstallSteps,
    RemovalSteps
<1> QED BY <1>3, <1>4, <1>5, <1>6, <1>7, <1>8, <1>9, <1>10, OneChanges

\* The Portal maps the source.
LEMMA MappedHolds ==
  ASSUME InstallInv, NEW s \in InstallSources, Install!Busy("map", s),
         sourcePortal' = sourcePortal \cup {s},
         Install!Set(s, [action[s] EXCEPT !.portal = "submitted"]),
         Install!Goto("widen"),
         UNCHANGED <<Install!saved, removal, objects, extra, wide, connected, wire, sourceFaults, outlived>>
  PROVE  InstallInv'
<1>1. /\ Install!TypeOK /\ Agrees(s) /\ req \in InstallRequests /\ action[s] \in Install!ActionRecords
      /\ removal.src = "none" => removal = Install!NoRemoval
      /\ req = [pc |-> "map", src |-> s]
      /\ action[s].st = "applying" /\ removal = Install!NoRemoval /\ action[s].pend = "none"
      /\ action[s].have = 3 /\ content[s] = "tools"
  BY SourceNames DEF InstallInv, Install!TypeOK, Agrees, RequestAgrees, NothingSent, InstallSteps, RemovalSteps,
    Install!Busy
<1>2. /\ action'[s] \in Install!ActionRecords /\ action' \in [InstallSources -> Install!ActionRecords]
      /\ \A t \in InstallSources \ {s} : action'[t] = action[t]
      /\ action'[s].st = action[s].st /\ action'[s].have = action[s].have /\ action'[s].pend = action[s].pend
      /\ action'[s].portal = "submitted" /\ action'[s].open = action[s].open
      /\ req' = [pc |-> "widen", src |-> s]
  BY <1>1 DEF Install!TypeOK, Install!ActionRecords, Install!Goto, Install!Set
<1> USE <1>1, <1>2, SourceNames DEF Install!TypeOK, Install!ActionRecords, Install!NoRemoval,
      Install!Kinds, Install!RemovalOf, Install!Evidence, Install!Unlocated
<1>3. DataFits'
  BY SourceBounds DEF DataFits, Install!Statuses, Install!Contents, Install!OwnershipRecords,
    InstallRequests, InstallSteps, RemovalSteps, Install!Idle, Install!saved, Install!provider
<1>4. OnlyOf(s)
  BY DEF OnlyOf, Install!Idle, Install!saved, Install!provider
<1>5. JournalFits(s)'
  BY DEF JournalFits
<1>6. JournalAgrees(s)'
  BY DEF Agrees, Install!saved, Install!provider, Install!Idle, JournalAgrees
<1>7. ObjectsAgree(s)'
  BY DEF Agrees, Install!saved, Install!provider, Install!Idle, ObjectsAgree, Expected
<1>8. PortalAgrees(s)'
  BY DEF Agrees, Install!saved, Install!provider, Install!Idle, PortalAgrees, JournalAgrees
<1>9. RemovalAgrees(s)'
  BY DEF Agrees, Install!saved, Install!provider, Install!Idle, RemovalAgrees, JournalAgrees
<1>10. RequestAgrees(s)'
  BY DEF Agrees, Install!saved, Install!provider, Install!Idle, RequestAgrees, NothingSent, InstallSteps,
    RemovalSteps
<1> QED BY <1>3, <1>4, <1>5, <1>6, <1>7, <1>8, <1>9, <1>10, OneChanges

\* The Portal maps it already.
LEMMA AttachSkipsHolds ==
  ASSUME InstallInv, NEW s \in InstallSources, Install!Busy("portal", s), s \in sourcePortal,
         Install!Goto("widen"), UNCHANGED action, Install!Keep
  PROVE  InstallInv'
<1>1. /\ Install!TypeOK /\ Agrees(s) /\ req \in InstallRequests /\ action[s] \in Install!ActionRecords
      /\ removal.src = "none" => removal = Install!NoRemoval
      /\ req = [pc |-> "portal", src |-> s]
      /\ action[s].st = "applying" /\ removal = Install!NoRemoval /\ action[s].pend = "none"
      /\ action[s].have = 3
  BY SourceNames DEF InstallInv, Install!TypeOK, Agrees, RequestAgrees, NothingSent, InstallSteps, RemovalSteps,
    Install!Busy
<1>2. /\ action'[s] \in Install!ActionRecords /\ action' \in [InstallSources -> Install!ActionRecords]
      /\ \A t \in InstallSources \ {s} : action'[t] = action[t]
      /\ action'[s].st = action[s].st /\ action'[s].have = action[s].have /\ action'[s].pend = action[s].pend
      /\ action'[s].portal = action[s].portal /\ action'[s].open = action[s].open
      /\ req' = [pc |-> "widen", src |-> s]
      /\ UNCHANGED <<Install!saved, removal, Install!provider, sourceFaults>>
  BY <1>1 DEF Install!TypeOK, Install!ActionRecords, Install!Goto, Install!Set, Install!Keep,
    Install!Mappable, Install!provider
<1> USE <1>1, <1>2, SourceNames DEF Install!TypeOK, Install!ActionRecords, Install!NoRemoval,
      Install!Kinds, Install!RemovalOf, Install!Evidence, Install!Unlocated
<1>3. DataFits'
  BY SourceBounds DEF DataFits, Install!Statuses, Install!Contents, Install!OwnershipRecords,
    InstallRequests, InstallSteps, RemovalSteps, Install!Idle, Install!saved, Install!provider
<1>4. OnlyOf(s)
  BY DEF OnlyOf, Install!Idle, Install!saved, Install!provider
<1>5. JournalFits(s)'
  BY DEF JournalFits
<1>6. JournalAgrees(s)'
  BY DEF Agrees, Install!saved, Install!provider, Install!Idle, JournalAgrees
<1>7. ObjectsAgree(s)'
  BY DEF Agrees, Install!saved, Install!provider, Install!Idle, ObjectsAgree, Expected
<1>8. PortalAgrees(s)'
  BY DEF Agrees, Install!saved, Install!provider, Install!Idle, PortalAgrees, JournalAgrees
<1>9. RemovalAgrees(s)'
  BY DEF Agrees, Install!saved, Install!provider, Install!Idle, RemovalAgrees, JournalAgrees
<1>10. RequestAgrees(s)'
  BY DEF Agrees, Install!saved, Install!provider, Install!Idle, RequestAgrees, NothingSent, InstallSteps,
    RemovalSteps
<1> QED BY <1>3, <1>4, <1>5, <1>6, <1>7, <1>8, <1>9, <1>10, OneChanges

\* The installation pauses for the customer.
LEMMA AttachPausesHolds ==
  ASSUME InstallInv, NEW s \in InstallSources, Install!Busy("portal", s), s \notin sourcePortal,
         action' = [action EXCEPT ![s].st = "recovery_required", ![s].paused = TRUE, ![s].portal = "none"],
         req' = Install!Idle, Install!Keep
  PROVE  InstallInv'
<1>1. /\ Install!TypeOK /\ Agrees(s) /\ req \in InstallRequests /\ action[s] \in Install!ActionRecords
      /\ removal.src = "none" => removal = Install!NoRemoval
      /\ req = [pc |-> "portal", src |-> s]
      /\ action[s].st = "applying" /\ removal = Install!NoRemoval /\ action[s].pend = "none"
      /\ action[s].have = 3
  BY SourceNames DEF InstallInv, Install!TypeOK, Agrees, RequestAgrees, NothingSent, InstallSteps, RemovalSteps,
    Install!Busy
<1>2. /\ action'[s] \in Install!ActionRecords /\ action' \in [InstallSources -> Install!ActionRecords]
      /\ \A t \in InstallSources \ {s} : action'[t] = action[t]
      /\ action'[s].st = "recovery_required" /\ action'[s].have = action[s].have /\ action'[s].pend = action[s].pend
      /\ action'[s].portal = "none" /\ action'[s].open = action[s].open
      /\ req' = Install!Idle
      /\ UNCHANGED <<Install!saved, removal, Install!provider, sourceFaults>>
  BY <1>1 DEF Install!TypeOK, Install!ActionRecords, Install!Goto, Install!Set, Install!Keep,
    Install!Mappable, Install!provider
<1> USE <1>1, <1>2, SourceNames DEF Install!TypeOK, Install!ActionRecords, Install!NoRemoval,
      Install!Kinds, Install!RemovalOf, Install!Evidence, Install!Unlocated
<1>3. DataFits'
  BY SourceBounds DEF DataFits, Install!Statuses, Install!Contents, Install!OwnershipRecords,
    InstallRequests, InstallSteps, RemovalSteps, Install!Idle, Install!saved, Install!provider
<1>4. OnlyOf(s)
  BY DEF OnlyOf, Install!Idle, Install!saved, Install!provider
<1>5. JournalFits(s)'
  BY DEF JournalFits
<1>6. JournalAgrees(s)'
  BY DEF Agrees, Install!saved, Install!provider, Install!Idle, JournalAgrees
<1>7. ObjectsAgree(s)'
  BY DEF Agrees, Install!saved, Install!provider, Install!Idle, ObjectsAgree, Expected
<1>8. PortalAgrees(s)'
  BY DEF Agrees, Install!saved, Install!provider, Install!Idle, PortalAgrees, JournalAgrees
<1>9. RemovalAgrees(s)'
  BY DEF Agrees, Install!saved, Install!provider, Install!Idle, RemovalAgrees, JournalAgrees
<1>10. RequestAgrees(s)'
  BY DEF Agrees, Install!saved, Install!provider, Install!Idle, RequestAgrees, NothingSent, InstallSteps,
    RemovalSteps
<1> QED BY <1>3, <1>4, <1>5, <1>6, <1>7, <1>8, <1>9, <1>10, OneChanges

\* The mapping is armed.
LEMMA AttachArmsHolds ==
  ASSUME InstallInv, NEW s \in InstallSources, Install!Busy("portal", s), Install!Mappable(s),
         Install!Set(s, [action[s] EXCEPT !.portal = "armed"]), Install!Goto("map"), Install!Keep
  PROVE  InstallInv'
<1>1. /\ Install!TypeOK /\ Agrees(s) /\ req \in InstallRequests /\ action[s] \in Install!ActionRecords
      /\ removal.src = "none" => removal = Install!NoRemoval
      /\ req = [pc |-> "portal", src |-> s]
      /\ action[s].st = "applying" /\ removal = Install!NoRemoval /\ action[s].pend = "none"
      /\ action[s].have = 3
  BY SourceNames DEF InstallInv, Install!TypeOK, Agrees, RequestAgrees, NothingSent, InstallSteps, RemovalSteps,
    Install!Busy
<1>2. /\ action'[s] \in Install!ActionRecords /\ action' \in [InstallSources -> Install!ActionRecords]
      /\ \A t \in InstallSources \ {s} : action'[t] = action[t]
      /\ action'[s].st = action[s].st /\ action'[s].have = action[s].have /\ action'[s].pend = action[s].pend
      /\ action'[s].portal = "armed" /\ action'[s].open = action[s].open
      /\ req' = [pc |-> "map", src |-> s]
      /\ content[s] = "tools"
      /\ UNCHANGED <<Install!saved, removal, Install!provider, sourceFaults>>
  BY <1>1 DEF Install!TypeOK, Install!ActionRecords, Install!Goto, Install!Set, Install!Keep,
    Install!Mappable, Install!provider
<1> USE <1>1, <1>2, SourceNames DEF Install!TypeOK, Install!ActionRecords, Install!NoRemoval,
      Install!Kinds, Install!RemovalOf, Install!Evidence, Install!Unlocated
<1>3. DataFits'
  BY SourceBounds DEF DataFits, Install!Statuses, Install!Contents, Install!OwnershipRecords,
    InstallRequests, InstallSteps, RemovalSteps, Install!Idle, Install!saved, Install!provider
<1>4. OnlyOf(s)
  BY DEF OnlyOf, Install!Idle, Install!saved, Install!provider
<1>5. JournalFits(s)'
  BY DEF JournalFits
<1>6. JournalAgrees(s)'
  BY DEF Agrees, Install!saved, Install!provider, Install!Idle, JournalAgrees
<1>7. ObjectsAgree(s)'
  BY DEF Agrees, Install!saved, Install!provider, Install!Idle, ObjectsAgree, Expected
<1>8. PortalAgrees(s)'
  BY DEF Agrees, Install!saved, Install!provider, Install!Idle, PortalAgrees, JournalAgrees
<1>9. RemovalAgrees(s)'
  BY DEF Agrees, Install!saved, Install!provider, Install!Idle, RemovalAgrees, JournalAgrees
<1>10. RequestAgrees(s)'
  BY DEF Agrees, Install!saved, Install!provider, Install!Idle, RequestAgrees, NothingSent, InstallSteps,
    RemovalSteps
<1> QED BY <1>3, <1>4, <1>5, <1>6, <1>7, <1>8, <1>9, <1>10, OneChanges

\* A resource that is absent is armed.
LEMMA ArmHolds ==
  ASSUME InstallInv, NEW s \in InstallSources, Install!Busy("baseline", s),
         objects[s][Install!NextKind(s)] = 0, action[s].open,
         Install!Set(s, [action[s] EXCEPT !.pend = "armed"]), Install!Goto("create"), Install!Keep
  PROVE  InstallInv'
<1>1. /\ Install!TypeOK /\ Agrees(s) /\ req \in InstallRequests /\ action[s] \in Install!ActionRecords
      /\ removal.src = "none" => removal = Install!NoRemoval
      /\ req = [pc |-> "baseline", src |-> s]
      /\ action[s].st = "applying" /\ removal = Install!NoRemoval /\ action[s].pend = "none"
      /\ action[s].have < 3 /\ action[s].have + 1 \in Install!Kinds
      /\ NothingSent(s)
  BY SourceNames DEF InstallInv, Install!TypeOK, Agrees, RequestAgrees, NothingSent, InstallSteps, RemovalSteps,
    Install!Busy, Install!ActionRecords, Install!Kinds, ObjectsAgree, Expected
<1>2. /\ action'[s] \in Install!ActionRecords /\ action' \in [InstallSources -> Install!ActionRecords]
      /\ \A t \in InstallSources \ {s} : action'[t] = action[t]
      /\ action'[s].st = action[s].st /\ action'[s].have = action[s].have /\ action'[s].pend = "armed"
      /\ action'[s].portal = action[s].portal /\ action'[s].open = action[s].open
      /\ req' = [pc |-> "create", src |-> s]
      /\ objects[s][action[s].have + 1] = 0
      /\ UNCHANGED <<Install!saved, removal, Install!provider, sourceFaults>>
  BY <1>1 DEF Install!TypeOK, Install!ActionRecords, Install!Goto, Install!Set, Install!Keep,
    Install!NextKind, Install!provider
<1> USE <1>1, <1>2, SourceNames DEF Install!TypeOK, Install!ActionRecords, Install!NoRemoval,
      Install!Kinds, Install!RemovalOf, Install!Evidence, Install!Unlocated
<1>3. DataFits'
  BY SourceBounds DEF DataFits, Install!Statuses, Install!Contents, Install!OwnershipRecords,
    InstallRequests, InstallSteps, RemovalSteps, Install!Idle, Install!saved, Install!provider
<1>4. OnlyOf(s)
  BY DEF OnlyOf, Install!Idle, Install!saved, Install!provider
<1>5. JournalFits(s)'
  BY DEF JournalFits
<1>6. JournalAgrees(s)'
  BY DEF Agrees, Install!saved, Install!provider, Install!Idle, JournalAgrees
<1>7. ObjectsAgree(s)'
  BY DEF Agrees, Install!saved, Install!provider, Install!Idle, ObjectsAgree, Expected
<1>8. PortalAgrees(s)'
  BY DEF Agrees, Install!saved, Install!provider, Install!Idle, PortalAgrees, JournalAgrees
<1>9. RemovalAgrees(s)'
  BY DEF Agrees, Install!saved, Install!provider, Install!Idle, RemovalAgrees, JournalAgrees
<1>10. RequestAgrees(s)'
  BY DEF Agrees, Install!saved, Install!provider, Install!Idle, RequestAgrees, NothingSent, InstallSteps,
    RemovalSteps
<1> QED BY <1>3, <1>4, <1>5, <1>6, <1>7, <1>8, <1>9, <1>10, OneChanges

\* The policy is wide already.
LEMMA WidenSkipsHolds ==
  ASSUME InstallInv, NEW s \in InstallSources, Install!Busy("widen", s), s \in wide,
         Install!Goto("finalize"), UNCHANGED action, Install!Keep
  PROVE  InstallInv'
<1>1. /\ Install!TypeOK /\ Agrees(s) /\ req \in InstallRequests /\ action[s] \in Install!ActionRecords
      /\ removal.src = "none" => removal = Install!NoRemoval
      /\ req = [pc |-> "widen", src |-> s]
      /\ action[s].st = "applying" /\ removal = Install!NoRemoval /\ action[s].pend = "none"
      /\ action[s].have = 3 /\ s \in sourcePortal
  BY SourceNames DEF InstallInv, Install!TypeOK, Agrees, RequestAgrees, NothingSent, InstallSteps, RemovalSteps,
    Install!Busy
<1>2. /\ action'[s] \in Install!ActionRecords /\ action' \in [InstallSources -> Install!ActionRecords]
      /\ \A t \in InstallSources \ {s} : action'[t] = action[t]
      /\ action'[s].st = action[s].st /\ action'[s].have = action[s].have /\ action'[s].pend = action[s].pend
      /\ action'[s].portal = action[s].portal /\ action'[s].open = action[s].open
      /\ req' = [pc |-> "finalize", src |-> s]
      /\ UNCHANGED <<Install!saved, removal, Install!provider, sourceFaults>>
  BY <1>1, SourceBounds DEF Install!TypeOK, Install!ActionRecords, Install!Goto, Install!Set,
    Install!Keep, Install!provider
<1> USE <1>1, <1>2, SourceNames DEF Install!TypeOK, Install!ActionRecords, Install!NoRemoval,
      Install!Kinds, Install!RemovalOf, Install!Evidence, Install!Unlocated
<1>3. DataFits'
  BY SourceBounds DEF DataFits, Install!Statuses, Install!Contents, Install!OwnershipRecords,
    InstallRequests, InstallSteps, RemovalSteps, Install!Idle, Install!saved, Install!provider
<1>4. OnlyOf(s)
  BY DEF OnlyOf, Install!Idle, Install!saved, Install!provider
<1>5. JournalFits(s)'
  BY DEF JournalFits
<1>6. JournalAgrees(s)'
  BY DEF Agrees, Install!saved, Install!provider, Install!Idle, JournalAgrees
<1>7. ObjectsAgree(s)'
  BY DEF Agrees, Install!saved, Install!provider, Install!Idle, ObjectsAgree, Expected
<1>8. PortalAgrees(s)'
  BY DEF Agrees, Install!saved, Install!provider, Install!Idle, PortalAgrees, JournalAgrees
<1>9. RemovalAgrees(s)'
  BY DEF Agrees, Install!saved, Install!provider, Install!Idle, RemovalAgrees, JournalAgrees
<1>10. RequestAgrees(s)'
  BY DEF Agrees, Install!saved, Install!provider, Install!Idle, RequestAgrees, NothingSent, InstallSteps,
    RemovalSteps
<1> QED BY <1>3, <1>4, <1>5, <1>6, <1>7, <1>8, <1>9, <1>10, OneChanges

\* The policy is widened.
LEMMA WidenedHolds ==
  ASSUME InstallInv, NEW s \in InstallSources, Install!Busy("widen", s), wide' = wide \cup {s},
         Install!Set(s, [action[s] EXCEPT !.access = TRUE]), Install!Goto("finalize"),
         UNCHANGED <<Install!saved, removal, objects, extra, sourcePortal, connected, wire, sourceFaults, outlived>>
  PROVE  InstallInv'
<1>1. /\ Install!TypeOK /\ Agrees(s) /\ req \in InstallRequests /\ action[s] \in Install!ActionRecords
      /\ removal.src = "none" => removal = Install!NoRemoval
      /\ req = [pc |-> "widen", src |-> s]
      /\ action[s].st = "applying" /\ removal = Install!NoRemoval /\ action[s].pend = "none"
      /\ action[s].have = 3 /\ s \in sourcePortal
  BY SourceNames DEF InstallInv, Install!TypeOK, Agrees, RequestAgrees, NothingSent, InstallSteps, RemovalSteps,
    Install!Busy
<1>2. /\ action'[s] \in Install!ActionRecords /\ action' \in [InstallSources -> Install!ActionRecords]
      /\ \A t \in InstallSources \ {s} : action'[t] = action[t]
      /\ action'[s].st = action[s].st /\ action'[s].have = action[s].have /\ action'[s].pend = action[s].pend
      /\ action'[s].portal = action[s].portal /\ action'[s].open = action[s].open
      /\ req' = [pc |-> "finalize", src |-> s]
  BY <1>1, SourceBounds DEF Install!TypeOK, Install!ActionRecords, Install!Goto, Install!Set,
    Install!provider
<1> USE <1>1, <1>2, SourceNames DEF Install!TypeOK, Install!ActionRecords, Install!NoRemoval,
      Install!Kinds, Install!RemovalOf, Install!Evidence, Install!Unlocated
<1>3. DataFits'
  BY SourceBounds DEF DataFits, Install!Statuses, Install!Contents, Install!OwnershipRecords,
    InstallRequests, InstallSteps, RemovalSteps, Install!Idle, Install!saved, Install!provider
<1>4. OnlyOf(s)
  BY DEF OnlyOf, Install!Idle, Install!saved, Install!provider
<1>5. JournalFits(s)'
  BY DEF JournalFits
<1>6. JournalAgrees(s)'
  BY DEF Agrees, Install!saved, Install!provider, Install!Idle, JournalAgrees
<1>7. ObjectsAgree(s)'
  BY DEF Agrees, Install!saved, Install!provider, Install!Idle, ObjectsAgree, Expected
<1>8. PortalAgrees(s)'
  BY DEF Agrees, Install!saved, Install!provider, Install!Idle, PortalAgrees, JournalAgrees
<1>9. RemovalAgrees(s)'
  BY DEF Agrees, Install!saved, Install!provider, Install!Idle, RemovalAgrees, JournalAgrees
<1>10. RequestAgrees(s)'
  BY DEF Agrees, Install!saved, Install!provider, Install!Idle, RequestAgrees, NothingSent, InstallSteps,
    RemovalSteps
<1> QED BY <1>3, <1>4, <1>5, <1>6, <1>7, <1>8, <1>9, <1>10, OneChanges

\* The widening whose answer was lost.
LEMMA WidenLostHolds ==
  ASSUME InstallInv, NEW s \in InstallSources, Install!Busy("widen", s),
         wide' \in {wide, wide \cup {s}}, Install!Lost, req' = Install!Idle,
         Install!Set(s, [action[s] EXCEPT !.access = TRUE, !.st = "recovery_required"]),
         UNCHANGED <<Install!saved, removal, objects, extra, sourcePortal, connected, wire, outlived>>
  PROVE  InstallInv'
<1>1. /\ Install!TypeOK /\ Agrees(s) /\ req \in InstallRequests /\ action[s] \in Install!ActionRecords
      /\ removal.src = "none" => removal = Install!NoRemoval
      /\ req = [pc |-> "widen", src |-> s]
      /\ action[s].st = "applying" /\ removal = Install!NoRemoval /\ action[s].pend = "none"
      /\ action[s].have = 3 /\ s \in sourcePortal
  BY SourceNames DEF InstallInv, Install!TypeOK, Agrees, RequestAgrees, NothingSent, InstallSteps, RemovalSteps,
    Install!Busy
<1>2. /\ action'[s] \in Install!ActionRecords /\ action' \in [InstallSources -> Install!ActionRecords]
      /\ \A t \in InstallSources \ {s} : action'[t] = action[t]
      /\ action'[s].st = "recovery_required" /\ action'[s].have = action[s].have /\ action'[s].pend = action[s].pend
      /\ action'[s].portal = action[s].portal /\ action'[s].open = action[s].open
      /\ sourceFaults' \in 0 .. InstallFaults
      /\ s \in wide => s \in wide'
  <2>1. action'[s] \in Install!ActionRecords /\ action' \in [InstallSources -> Install!ActionRecords]
    BY <1>1 DEF Install!TypeOK, Install!ActionRecords, Install!Goto, Install!Set, Install!Lost
  <2>2. \A t \in InstallSources \ {s} : action'[t] = action[t]
    BY <1>1 DEF Install!TypeOK, Install!Goto, Install!Set, Install!Lost
  <2> QED
    BY <1>1, <2>1, <2>2, SourceBounds DEF Install!TypeOK, Install!ActionRecords, Install!Goto,
      Install!Set, Install!Lost
<1> USE <1>1, <1>2, SourceNames DEF Install!TypeOK, Install!ActionRecords, Install!NoRemoval,
      Install!Kinds, Install!RemovalOf, Install!Evidence, Install!Unlocated
<1>3. DataFits'
  BY SourceBounds DEF DataFits, Install!Statuses, Install!Contents, Install!OwnershipRecords,
    InstallRequests, InstallSteps, RemovalSteps, Install!Idle, Install!saved, Install!provider
<1>4. OnlyOf(s)
  BY DEF OnlyOf, Install!Idle, Install!saved, Install!provider
<1>5. JournalFits(s)'
  BY DEF JournalFits
<1>6. JournalAgrees(s)'
  BY DEF Agrees, Install!saved, Install!provider, Install!Idle, JournalAgrees
<1>7. ObjectsAgree(s)'
  BY DEF Agrees, Install!saved, Install!provider, Install!Idle, ObjectsAgree, Expected
<1>8. PortalAgrees(s)'
  BY DEF Agrees, Install!saved, Install!provider, Install!Idle, PortalAgrees, JournalAgrees
<1>9. RemovalAgrees(s)'
  BY DEF Agrees, Install!saved, Install!provider, Install!Idle, RemovalAgrees, JournalAgrees
<1>10. RequestAgrees(s)'
  BY DEF Agrees, Install!saved, Install!provider, Install!Idle, RequestAgrees, NothingSent, InstallSteps,
    RemovalSteps
<1> QED BY <1>3, <1>4, <1>5, <1>6, <1>7, <1>8, <1>9, <1>10, OneChanges

\* The source is entered as installed.
LEMMA FinalizeHolds ==
  ASSUME InstallInv, NEW s \in InstallSources, Install!Finalize(s)
  PROVE  InstallInv'
<1>1. /\ Install!TypeOK /\ Agrees(s) /\ req \in InstallRequests /\ action[s] \in Install!ActionRecords
      /\ removal.src = "none" => removal = Install!NoRemoval
      /\ req = [pc |-> "finalize", src |-> s]
      /\ action[s].st = "applying" /\ removal = Install!NoRemoval /\ action[s].pend = "none"
      /\ action[s].have = 3 /\ s \in sourcePortal /\ s \in wide
  BY SourceNames DEF InstallInv, Install!TypeOK, Agrees, RequestAgrees, NothingSent, InstallSteps, RemovalSteps,
    Install!Finalize, Install!Busy
<1>2. /\ action'[s] \in Install!ActionRecords /\ action' \in [InstallSources -> Install!ActionRecords]
      /\ \A t \in InstallSources \ {s} : action'[t] = action[t]
      /\ action'[s].st = "succeeded" /\ action'[s].have = action[s].have /\ action'[s].pend = "none"
      /\ action'[s].portal = "none" /\ action'[s].open = action[s].open
      /\ req' = Install!Idle
      /\ content[s] = "tools"
      /\ status' = [status EXCEPT ![s] = "installed"] /\ owned' = owned \cup {s}
      /\ revision' = revision + 1
      /\ UNCHANGED <<content, removal, Install!provider, sourceFaults>>
  BY <1>1 DEF Install!TypeOK, Install!ActionRecords, Install!Finalize, Install!Set, Install!Goto,
    Install!provider
<1> USE <1>1, <1>2, SourceNames DEF Install!TypeOK, Install!ActionRecords, Install!NoRemoval,
      Install!Kinds, Install!RemovalOf, Install!Evidence, Install!Unlocated
<1>3. DataFits'
  BY SourceBounds DEF DataFits, Install!Statuses, Install!Contents, Install!OwnershipRecords,
    InstallRequests, Install!Idle, Install!provider
<1>4. OnlyOf(s)
  BY DEF OnlyOf, Install!Idle, Install!provider
<1>5. JournalFits(s)'
  BY DEF JournalFits
<1>6. JournalAgrees(s)'
  BY DEF Agrees, JournalAgrees
<1>7. ObjectsAgree(s)'
  BY DEF Agrees, ObjectsAgree, Expected, Install!provider
<1>8. PortalAgrees(s)'
  BY DEF Agrees, PortalAgrees, Install!provider
<1>9. RemovalAgrees(s)'
  BY DEF Agrees, Install!saved, Install!provider, Install!Idle, RemovalAgrees, JournalAgrees
<1>10. RequestAgrees(s)'
  BY DEF Agrees, Install!saved, Install!provider, Install!Idle, RequestAgrees, NothingSent, InstallSteps,
    RemovalSteps
<1> QED BY <1>3, <1>4, <1>5, <1>6, <1>7, <1>8, <1>9, <1>10, OneChanges

\* A removal starts from a whole source, or from a paused one.
LEMMA RemoveManagedHolds ==
  ASSUME InstallInv, NEW s \in InstallSources, Install!RemoveManaged(s)
  PROVE  InstallInv'
<1>1. /\ Install!TypeOK /\ Agrees(s) /\ req \in InstallRequests /\ action[s] \in Install!ActionRecords
      /\ removal.src = "none" => removal = Install!NoRemoval
      /\ req = Install!Idle
      /\ action[s].have = 3 /\ action[s].pend = "none" /\ action[s].portal = "none"
      /\ action[s].st \in {"succeeded", "recovery_required"} /\ removal.src \in {"none", s}
  BY DEF InstallInv, Install!TypeOK, Install!RemoveManaged, Install!Quiet, Install!Removable,
    Agrees, JournalAgrees, Install!Paused
<1>2. /\ action'[s] \in Install!ActionRecords /\ action' \in [InstallSources -> Install!ActionRecords]
      /\ \A t \in InstallSources \ {s} : action'[t] = action[t]
      /\ action'[s].st = action[s].st /\ action'[s].have = action[s].have /\ action'[s].pend = action[s].pend
      /\ action'[s].portal = action[s].portal /\ action'[s].open = action[s].open
      /\ removal' = IF Install!RemovalOf(s) THEN removal ELSE [src |-> s, step |-> 0, pending |-> FALSE]
      /\ removal'.src = s /\ removal' \in [src : InstallSources \cup {"none"}, step : 0 .. 4, pending : BOOLEAN]
      /\ req' = [pc |-> IF removal'.step = 0 THEN "detach" ELSE "delete", src |-> s]
      /\ UNCHANGED <<Install!saved, action, Install!provider, sourceFaults>>
  BY <1>1 DEF Install!TypeOK, Install!ActionRecords, Install!RemoveManaged, Install!RemovalOf
<1> USE <1>1, <1>2, SourceNames DEF Install!TypeOK, Install!ActionRecords, Install!NoRemoval,
      Install!Kinds, Install!RemovalOf, Install!Evidence, Install!Unlocated
<1>3. DataFits'
  BY SourceBounds DEF DataFits, Install!Statuses, Install!Contents, Install!OwnershipRecords,
    InstallRequests, InstallSteps, RemovalSteps, Install!Idle, Install!saved, Install!provider
<1>4. OnlyOf(s)
  BY DEF OnlyOf, Install!Idle, Install!saved, Install!provider
<1>5. JournalFits(s)'
  BY DEF JournalFits
<1>6. JournalAgrees(s)'
  BY DEF Agrees, Install!saved, Install!provider, Install!Idle, JournalAgrees
<1>7. ObjectsAgree(s)'
  BY DEF Agrees, Install!saved, Install!provider, Install!Idle, ObjectsAgree, Expected
<1>8. PortalAgrees(s)'
  BY DEF Agrees, Install!saved, Install!provider, Install!Idle, PortalAgrees, JournalAgrees
<1>9. RemovalAgrees(s)'
  BY DEF Agrees, Install!saved, Install!provider, RemovalAgrees, ObjectsAgree, Expected, Install!Deletion,
    Install!Server, Install!App, Install!Policy
<1>10. RequestAgrees(s)'
  BY DEF Agrees, Install!saved, Install!provider, Install!Idle, RequestAgrees, NothingSent, InstallSteps,
    RemovalSteps
<1> QED BY <1>3, <1>4, <1>5, <1>6, <1>7, <1>8, <1>9, <1>10, OneChanges

\* The Portal forgets the source.
LEMMA DetachedHolds ==
  ASSUME InstallInv, NEW s \in InstallSources, Install!Busy("detach", s),
         sourcePortal' = sourcePortal \ {s}, Install!Progress(1), Install!Goto("delete"),
         UNCHANGED <<Install!saved, action, objects, extra, wide, connected, wire, sourceFaults, outlived>>
  PROVE  InstallInv'
<1>1. /\ Install!TypeOK /\ Agrees(s) /\ req \in InstallRequests /\ action[s] \in Install!ActionRecords
      /\ removal.src = "none" => removal = Install!NoRemoval
      /\ req = [pc |-> "detach", src |-> s] /\ removal.src = s
      /\ action[s].have = 3 /\ action[s].pend = "none" /\ action[s].portal = "none"
      /\ action[s].st \in {"succeeded", "recovery_required"}
      /\ removal.step = 0
  BY SourceNames DEF InstallInv, Install!TypeOK, Agrees, RequestAgrees, NothingSent, InstallSteps, RemovalSteps,
    Install!Busy, RemovalAgrees, Install!RemovalOf, ObjectsAgree, Expected, JournalAgrees,
    Install!ActionRecords, Install!Kinds
<1>2. /\ action'[s] \in Install!ActionRecords /\ action' \in [InstallSources -> Install!ActionRecords]
      /\ \A t \in InstallSources \ {s} : action'[t] = action[t]
      /\ action'[s].st = action[s].st /\ action'[s].have = action[s].have /\ action'[s].pend = action[s].pend
      /\ action'[s].portal = action[s].portal /\ action'[s].open = action[s].open
      /\ removal'.step = 1
      /\ removal' \in [src : InstallSources \cup {"none"}, step : 0 .. 4, pending : BOOLEAN] /\ removal'.src = s
      /\ req' = [pc |-> "delete", src |-> s]
  <2>1. removal \in [src : InstallSources \cup {"none"}, step : 0 .. 4, pending : BOOLEAN]
    BY <1>1 DEF Install!TypeOK
  <2>2. /\ removal' \in [src : InstallSources \cup {"none"}, step : 0 .. 4, pending : BOOLEAN] /\ removal'.src = s
        /\ removal'.step = 1
    <3>1. removal' = [removal EXCEPT !.step = 1, !.pending = FALSE] /\ 1 \in 0 .. 4
      BY <1>1 DEF Install!Progress
    <3>2. removal.src = s
      BY <1>1
    <3> QED BY <2>1, <3>1, <3>2, Progressed
  <2>3. action' = action
    OBVIOUS
  <2> QED BY <1>1, <2>2, <2>3, SourceBounds DEF Install!TypeOK, Install!Goto, Install!Lost
<1> USE <1>1, <1>2, SourceNames DEF Install!TypeOK, Install!ActionRecords, Install!NoRemoval,
      Install!Kinds, Install!RemovalOf, Install!Evidence, Install!Unlocated
<1>3. DataFits'
  BY SourceBounds DEF DataFits, Install!Statuses, Install!Contents, Install!OwnershipRecords,
    InstallRequests, InstallSteps, RemovalSteps, Install!Idle, Install!saved, Install!provider
<1>4. OnlyOf(s)
  BY DEF OnlyOf, Install!Idle, Install!saved, Install!provider
<1>5. JournalFits(s)'
  BY DEF JournalFits
<1>6. JournalAgrees(s)'
  BY DEF Agrees, Install!saved, Install!provider, Install!Idle, JournalAgrees
<1>7. ObjectsAgree(s)'
  BY DEF Agrees, Install!saved, Install!provider, Install!Idle, ObjectsAgree, Expected
<1>8. PortalAgrees(s)'
  BY DEF Agrees, Install!saved, Install!provider, Install!Idle, PortalAgrees, JournalAgrees
<1>9. RemovalAgrees(s)'
  BY DEF Agrees, Install!saved, Install!provider, Install!Idle, RemovalAgrees, JournalAgrees
<1>10. RequestAgrees(s)'
  BY DEF Agrees, Install!saved, Install!provider, Install!Idle, RequestAgrees, NothingSent, InstallSteps,
    RemovalSteps
<1> QED BY <1>3, <1>4, <1>5, <1>6, <1>7, <1>8, <1>9, <1>10, OneChanges

\* The same, with the answer lost.
LEMMA DetachLostHolds ==
  ASSUME InstallInv, NEW s \in InstallSources, Install!Busy("detach", s), Install!Lost,
         sourcePortal' \in {sourcePortal, sourcePortal \ {s}},
         removal' = [removal EXCEPT !.pending = TRUE], req' = Install!Idle,
         UNCHANGED <<Install!saved, action, objects, extra, wide, connected, wire, outlived>>
  PROVE  InstallInv'
<1>1. /\ Install!TypeOK /\ Agrees(s) /\ req \in InstallRequests /\ action[s] \in Install!ActionRecords
      /\ removal.src = "none" => removal = Install!NoRemoval
      /\ req = [pc |-> "detach", src |-> s] /\ removal.src = s
      /\ action[s].have = 3 /\ action[s].pend = "none" /\ action[s].portal = "none"
      /\ action[s].st \in {"succeeded", "recovery_required"}
      /\ removal.step = 0
  BY SourceNames DEF InstallInv, Install!TypeOK, Agrees, RequestAgrees, NothingSent, InstallSteps, RemovalSteps,
    Install!Busy, RemovalAgrees, Install!RemovalOf, ObjectsAgree, Expected, JournalAgrees,
    Install!ActionRecords, Install!Kinds
<1>2. /\ action'[s] \in Install!ActionRecords /\ action' \in [InstallSources -> Install!ActionRecords]
      /\ \A t \in InstallSources \ {s} : action'[t] = action[t]
      /\ action'[s].st = action[s].st /\ action'[s].have = action[s].have /\ action'[s].pend = action[s].pend
      /\ action'[s].portal = action[s].portal /\ action'[s].open = action[s].open
      /\ removal'.step = 0
      /\ removal' \in [src : InstallSources \cup {"none"}, step : 0 .. 4, pending : BOOLEAN] /\ removal'.src = s
      /\ sourceFaults' \in 0 .. InstallFaults
  <2>1. removal \in [src : InstallSources \cup {"none"}, step : 0 .. 4, pending : BOOLEAN]
    BY <1>1 DEF Install!TypeOK
  <2>2. /\ removal' \in [src : InstallSources \cup {"none"}, step : 0 .. 4, pending : BOOLEAN] /\ removal'.src = s
        /\ removal'.step = 0
    BY <1>1, <2>1 DEF Install!Progress
  <2>3. action' = action
    OBVIOUS
  <2> QED BY <1>1, <2>2, <2>3, SourceBounds DEF Install!TypeOK, Install!Goto, Install!Lost
<1> USE <1>1, <1>2, SourceNames DEF Install!TypeOK, Install!ActionRecords, Install!NoRemoval,
      Install!Kinds, Install!RemovalOf, Install!Evidence, Install!Unlocated
<1>3. DataFits'
  BY SourceBounds DEF DataFits, Install!Statuses, Install!Contents, Install!OwnershipRecords,
    InstallRequests, InstallSteps, RemovalSteps, Install!Idle, Install!saved, Install!provider
<1>4. OnlyOf(s)
  BY DEF OnlyOf, Install!Idle, Install!saved, Install!provider
<1>5. JournalFits(s)'
  BY DEF JournalFits
<1>6. JournalAgrees(s)'
  BY DEF Agrees, Install!saved, Install!provider, Install!Idle, JournalAgrees
<1>7. ObjectsAgree(s)'
  BY DEF Agrees, Install!saved, Install!provider, Install!Idle, ObjectsAgree, Expected
<1>8. PortalAgrees(s)'
  BY DEF Agrees, Install!saved, Install!provider, Install!Idle, PortalAgrees, JournalAgrees
<1>9. RemovalAgrees(s)'
  BY DEF Agrees, Install!saved, Install!provider, Install!Idle, RemovalAgrees, JournalAgrees
<1>10. RequestAgrees(s)'
  BY DEF Agrees, Install!saved, Install!provider, Install!Idle, RequestAgrees, NothingSent, InstallSteps,
    RemovalSteps
<1> QED BY <1>3, <1>4, <1>5, <1>6, <1>7, <1>8, <1>9, <1>10, OneChanges

\* A resource of the source is deleted.
LEMMA DeletedHolds ==
  ASSUME InstallInv, NEW s \in InstallSources, NEW k \in Install!Kinds, Install!Busy("delete", s),
         s \notin sourcePortal, removal.step \in 1 .. 3,
         k = Install!Deletion[removal.step],
         objects' = [objects EXCEPT ![s][k] = 0], Install!Progress(removal.step + 1),
         wire' \in {wire, [wire EXCEPT ![s][3] = 0]},
         UNCHANGED <<Install!saved, action, extra, sourcePortal, wide, connected, sourceFaults, outlived, req>>
  PROVE  InstallInv'
<1>1. /\ Install!TypeOK /\ Agrees(s) /\ req \in InstallRequests /\ action[s] \in Install!ActionRecords
      /\ removal.src = "none" => removal = Install!NoRemoval
      /\ req = [pc |-> "delete", src |-> s] /\ removal.src = s
      /\ action[s].have = 3 /\ action[s].pend = "none" /\ action[s].portal = "none"
      /\ action[s].st \in {"succeeded", "recovery_required"}
      /\ Install!Deletion[1] = 1 /\ Install!Deletion[2] = 3 /\ Install!Deletion[3] = 2
  BY SourceNames DEF InstallInv, Install!TypeOK, Agrees, RequestAgrees, NothingSent, InstallSteps, RemovalSteps,
    Install!Busy, RemovalAgrees, Install!RemovalOf, ObjectsAgree, Expected, JournalAgrees,
    Install!ActionRecords, Install!Kinds, Install!Deletion, Install!Server, Install!App,
    Install!Policy
<1>2. /\ action'[s] \in Install!ActionRecords /\ action' \in [InstallSources -> Install!ActionRecords]
      /\ \A t \in InstallSources \ {s} : action'[t] = action[t]
      /\ action'[s].st = action[s].st /\ action'[s].have = action[s].have /\ action'[s].pend = action[s].pend
      /\ action'[s].portal = action[s].portal /\ action'[s].open = action[s].open
      /\ removal'.step = removal.step + 1
      /\ removal' \in [src : InstallSources \cup {"none"}, step : 0 .. 4, pending : BOOLEAN] /\ removal'.src = s
      /\ wire' \in [InstallSources -> [Install!Kinds -> Nat]]
      /\ \A t \in InstallSources \ {s} : wire'[t] = wire[t]
      /\ \A j \in Install!Kinds : wire'[s][j] \in {wire[s][j], 0}
  <2>1. removal \in [src : InstallSources \cup {"none"}, step : 0 .. 4, pending : BOOLEAN]
    BY <1>1 DEF Install!TypeOK
  <2>2. /\ removal' \in [src : InstallSources \cup {"none"}, step : 0 .. 4, pending : BOOLEAN] /\ removal'.src = s
        /\ removal'.step = removal.step + 1
    <3>1. removal' = [removal EXCEPT !.step = removal.step + 1, !.pending = FALSE] /\ removal.step + 1 \in 0 .. 4
      BY <1>1 DEF Install!Progress
    <3>2. removal.src = s
      BY <1>1
    <3> QED BY <2>1, <3>1, <3>2, Progressed
  <2>3. action' = action
    OBVIOUS
  <2>4. /\ wire' \in [InstallSources -> [Install!Kinds -> Nat]]
        /\ \A t \in InstallSources \ {s} : wire'[t] = wire[t]
        /\ \A j \in Install!Kinds : wire'[s][j] \in {wire[s][j], 0}
    <3>1. wire \in [InstallSources -> [Install!Kinds -> Nat]]
      BY <1>1 DEF Install!TypeOK
    <3>2. CASE wire' = wire
      BY <3>1, <3>2
    <3>3. CASE wire' = [wire EXCEPT ![s][3] = 0]
      BY <3>1, <3>3 DEF Install!Kinds
    <3> QED BY <3>2, <3>3
  <2> QED BY <1>1, <2>2, <2>3, <2>4, SourceBounds DEF Install!TypeOK, Install!Goto, Install!Lost
<1> USE <1>1, <1>2, SourceNames DEF Install!TypeOK, Install!ActionRecords, Install!NoRemoval,
      Install!Kinds, Install!RemovalOf, Install!Evidence, Install!Unlocated
<1>3. DataFits'
  BY SourceBounds DEF DataFits, Install!Statuses, Install!Contents, Install!OwnershipRecords,
    InstallRequests, InstallSteps, RemovalSteps, Install!Idle, Install!saved, Install!provider
<1>4. OnlyOf(s)
  BY DEF OnlyOf, Install!Idle, Install!saved, Install!provider
<1>5. JournalFits(s)'
  BY DEF JournalFits
<1>6. JournalAgrees(s)'
  BY DEF Agrees, Install!saved, Install!provider, Install!Idle, JournalAgrees
<1>7. ObjectsAgree(s)'
  BY DEF Agrees, Install!saved, Install!provider, Install!Idle, ObjectsAgree, Expected
<1>8. PortalAgrees(s)'
  BY DEF Agrees, Install!saved, Install!provider, Install!Idle, PortalAgrees, JournalAgrees
<1>9. RemovalAgrees(s)'
  BY DEF Agrees, Install!saved, Install!provider, Install!Idle, RemovalAgrees, JournalAgrees
<1>10. RequestAgrees(s)'
  BY DEF Agrees, Install!saved, Install!provider, Install!Idle, RequestAgrees, NothingSent, InstallSteps,
    RemovalSteps
<1> QED BY <1>3, <1>4, <1>5, <1>6, <1>7, <1>8, <1>9, <1>10, OneChanges

\* The same, with the answer lost.
LEMMA DeleteLostHolds ==
  ASSUME InstallInv, NEW s \in InstallSources, NEW k \in Install!Kinds, Install!Busy("delete", s),
         s \notin sourcePortal, removal.step \in 1 .. 3,
         k = Install!Deletion[removal.step], Install!Lost,
         objects' \in {objects, [objects EXCEPT ![s][k] = 0]},
         removal' = [removal EXCEPT !.pending = TRUE], req' = Install!Idle,
         wire' \in {wire, [wire EXCEPT ![s][3] = 0]},
         UNCHANGED <<Install!saved, action, extra, sourcePortal, wide, connected, outlived>>
  PROVE  InstallInv'
<1>1. /\ Install!TypeOK /\ Agrees(s) /\ req \in InstallRequests /\ action[s] \in Install!ActionRecords
      /\ removal.src = "none" => removal = Install!NoRemoval
      /\ req = [pc |-> "delete", src |-> s] /\ removal.src = s
      /\ action[s].have = 3 /\ action[s].pend = "none" /\ action[s].portal = "none"
      /\ action[s].st \in {"succeeded", "recovery_required"}
      /\ Install!Deletion[1] = 1 /\ Install!Deletion[2] = 3 /\ Install!Deletion[3] = 2
  BY SourceNames DEF InstallInv, Install!TypeOK, Agrees, RequestAgrees, NothingSent, InstallSteps, RemovalSteps,
    Install!Busy, RemovalAgrees, Install!RemovalOf, ObjectsAgree, Expected, JournalAgrees,
    Install!ActionRecords, Install!Kinds, Install!Deletion, Install!Server, Install!App,
    Install!Policy
<1>2. /\ action'[s] \in Install!ActionRecords /\ action' \in [InstallSources -> Install!ActionRecords]
      /\ \A t \in InstallSources \ {s} : action'[t] = action[t]
      /\ action'[s].st = action[s].st /\ action'[s].have = action[s].have /\ action'[s].pend = action[s].pend
      /\ action'[s].portal = action[s].portal /\ action'[s].open = action[s].open
      /\ removal'.step = removal.step
      /\ removal' \in [src : InstallSources \cup {"none"}, step : 0 .. 4, pending : BOOLEAN] /\ removal'.src = s
      /\ sourceFaults' \in 0 .. InstallFaults
      /\ objects' \in [InstallSources -> [Install!Kinds -> Nat]]
      /\ \A t \in InstallSources \ {s} : objects'[t] = objects[t]
      /\ \A j \in Install!Kinds : objects'[s][j] \in {objects[s][j], 0} /\ (j # k => objects'[s][j] = objects[s][j])
      /\ wire' \in [InstallSources -> [Install!Kinds -> Nat]]
      /\ \A t \in InstallSources \ {s} : wire'[t] = wire[t]
      /\ \A j \in Install!Kinds : wire'[s][j] \in {wire[s][j], 0}
  <2>1. removal \in [src : InstallSources \cup {"none"}, step : 0 .. 4, pending : BOOLEAN]
    BY <1>1 DEF Install!TypeOK
  <2>2. /\ removal' \in [src : InstallSources \cup {"none"}, step : 0 .. 4, pending : BOOLEAN] /\ removal'.src = s
        /\ removal'.step = removal.step
    BY <1>1, <2>1 DEF Install!Progress
  <2>3. action' = action
    OBVIOUS
  <2>4. /\ objects' \in [InstallSources -> [Install!Kinds -> Nat]]
        /\ \A t \in InstallSources \ {s} : objects'[t] = objects[t]
        /\ \A j \in Install!Kinds : objects'[s][j] \in {objects[s][j], 0} /\ (j # k => objects'[s][j] = objects[s][j])
    <3>1. CASE objects' = objects
      BY <1>1, <3>1 DEF Install!TypeOK
    <3>2. CASE objects' = [objects EXCEPT ![s][k] = 0]
      BY <1>1, <3>2 DEF Install!TypeOK, Install!Kinds
    <3> QED BY <3>1, <3>2
  <2>5. /\ wire' \in [InstallSources -> [Install!Kinds -> Nat]]
        /\ \A t \in InstallSources \ {s} : wire'[t] = wire[t]
        /\ \A j \in Install!Kinds : wire'[s][j] \in {wire[s][j], 0}
    <3>1. wire \in [InstallSources -> [Install!Kinds -> Nat]]
      BY <1>1 DEF Install!TypeOK
    <3>2. CASE wire' = wire
      BY <3>1, <3>2
    <3>3. CASE wire' = [wire EXCEPT ![s][3] = 0]
      BY <3>1, <3>3 DEF Install!Kinds
    <3> QED BY <3>2, <3>3
  <2> QED
    BY <1>1, <2>4, <2>2, <2>3, <2>5, SourceBounds DEF Install!TypeOK, Install!Goto, Install!Lost
<1> USE <1>1, <1>2, SourceNames DEF Install!TypeOK, Install!ActionRecords, Install!NoRemoval,
      Install!Kinds, Install!RemovalOf, Install!Evidence, Install!Unlocated
<1>3. DataFits'
  BY SourceBounds DEF DataFits, Install!Statuses, Install!Contents, Install!OwnershipRecords,
    InstallRequests, InstallSteps, RemovalSteps, Install!Idle, Install!saved, Install!provider
<1>4. OnlyOf(s)
  BY DEF OnlyOf, Install!Idle, Install!saved, Install!provider
<1>5. JournalFits(s)'
  BY DEF JournalFits
<1>6. JournalAgrees(s)'
  BY DEF Agrees, Install!saved, Install!provider, Install!Idle, JournalAgrees
<1>7. ObjectsAgree(s)'
  BY DEF Agrees, Install!saved, Install!provider, Install!Idle, ObjectsAgree, Expected
<1>8. PortalAgrees(s)'
  BY DEF Agrees, Install!saved, Install!provider, Install!Idle, PortalAgrees, JournalAgrees
<1>9. RemovalAgrees(s)'
  BY DEF Agrees, Install!saved, Install!provider, Install!Idle, RemovalAgrees, JournalAgrees
<1>10. RequestAgrees(s)'
  BY DEF Agrees, Install!saved, Install!provider, Install!Idle, RequestAgrees, NothingSent, InstallSteps,
    RemovalSteps
<1> QED BY <1>3, <1>4, <1>5, <1>6, <1>7, <1>8, <1>9, <1>10, OneChanges

\* Nothing is left of the source.
LEMMA FinishHolds ==
  ASSUME InstallInv, NEW s \in InstallSources, Install!Finish(s)
  PROVE  InstallInv'
<1>1. /\ Install!TypeOK /\ Agrees(s) /\ req \in InstallRequests /\ action[s] \in Install!ActionRecords
      /\ removal.src = "none" => removal = Install!NoRemoval
      /\ req = [pc |-> "delete", src |-> s] /\ removal.src = s
      /\ \A k \in Install!Kinds : objects[s][k] = 0
      /\ NothingSent(s)
      /\ s \notin sourcePortal
  BY SourceNames DEF InstallInv, Install!TypeOK, Agrees, RequestAgrees, NothingSent, InstallSteps, RemovalSteps,
    Install!Finish, Install!AllAbsent, Install!Busy, RemovalAgrees, Install!RemovalOf, ObjectsAgree, Expected, JournalAgrees,
    Install!ActionRecords, Install!Kinds, PortalAgrees
<1>2. /\ action'[s] \in Install!ActionRecords /\ action' \in [InstallSources -> Install!ActionRecords]
      /\ \A t \in InstallSources \ {s} : action'[t] = action[t]
      /\ action'[s].st = "none" /\ action'[s].have = 0 /\ action'[s].pend = "none"
      /\ action'[s].portal = "none" /\ action'[s].open = FALSE
      /\ status' = [status EXCEPT ![s] = "absent"] /\ owned' = owned \ {s}
      /\ revision' = revision + 1
      /\ removal' = Install!NoRemoval /\ req' = Install!Idle
      /\ wide' = wide \ {s} /\ connected' = connected \ {s}
      /\ UNCHANGED <<content, objects, extra, sourcePortal, wire, sourceFaults, outlived>>
  BY <1>1 DEF Install!TypeOK, Install!ActionRecords, Install!Finish, Install!NoAction,
    Install!Contents
<1> USE <1>1, <1>2, SourceNames DEF Install!TypeOK, Install!ActionRecords, Install!NoRemoval,
      Install!Kinds, Install!RemovalOf, Install!Evidence, Install!Unlocated
<1>3. DataFits'
  BY SourceBounds DEF DataFits, Install!Statuses, Install!Contents, Install!OwnershipRecords,
    InstallRequests, InstallSteps, RemovalSteps, Install!Idle, Install!saved, Install!provider
<1>4. OnlyOf(s)
  BY DEF OnlyOf, Install!Idle, Install!saved, Install!provider
<1>5. JournalFits(s)'
  BY DEF JournalFits
<1>6. JournalAgrees(s)'
  BY DEF Agrees, Install!saved, Install!provider, Install!Idle, JournalAgrees
<1>7. ObjectsAgree(s)'
  BY DEF Agrees, ObjectsAgree, Expected, NothingSent
<1>8. PortalAgrees(s)'
  BY DEF Agrees, Install!saved, Install!provider, Install!Idle, PortalAgrees, JournalAgrees
<1>9. RemovalAgrees(s)'
  BY DEF Agrees, Install!saved, Install!provider, Install!Idle, RemovalAgrees, JournalAgrees
<1>10. RequestAgrees(s)'
  BY DEF Agrees, Install!saved, Install!provider, Install!Idle, RequestAgrees, NothingSent, InstallSteps,
    RemovalSteps
<1> QED BY <1>3, <1>4, <1>5, <1>6, <1>7, <1>8, <1>9, <1>10, OneChanges

\* A creation whose answer was lost takes place: the only one of its source.
LEMMA LandsHolds ==
  ASSUME InstallInv, NEW s \in InstallSources, NEW k \in Install!Kinds, Install!Decided(s, k),
         ~Install!Taken(s, k), Install!Created(s, k)
  PROVE  InstallInv'
<1>1. /\ Install!TypeOK /\ Agrees(s) /\ req \in InstallRequests /\ action[s] \in Install!ActionRecords
      /\ removal.src = "none" => removal = Install!NoRemoval
      /\ wire[s][k] \in Nat /\ wire[s][k] > 0
      /\ <<s, k>> \notin outlived =>
           /\ objects[s][k] = 0 /\ k = action[s].have + 1 /\ action[s].pend = "armed" /\ wire[s][k] = 1
           /\ action[s].st \in {"applying", "recovery_required"} /\ ~Install!RemovalOf(s)
           /\ req.src = s => req.pc \notin InstallSteps
  <2>1. /\ Install!TypeOK /\ Agrees(s) /\ req \in InstallRequests /\ action[s] \in Install!ActionRecords
        /\ removal.src = "none" => removal = Install!NoRemoval
    BY DEF InstallInv, Install!TypeOK
  <2>2. /\ action[s].have \in 0 .. 3 /\ objects[s] \in [1 .. 3 -> Nat] /\ wire[s] \in [1 .. 3 -> Nat]
        /\ action[s].pend # "none" => action[s].have < 3
    BY <2>1 DEF Install!TypeOK, Install!ActionRecords, Install!Kinds
  <2>3. wire[s][k] \in Nat /\ wire[s][k] > 0
    BY <2>2 DEF Install!Decided, Install!Kinds
  <2>4. ASSUME <<s, k>> \notin outlived
        PROVE  /\ objects[s][k] = 0 /\ k = action[s].have + 1 /\ action[s].pend = "armed" /\ wire[s][k] = 1
               /\ action[s].st \in {"applying", "recovery_required"}
    BY <2>1, <2>3, <2>4 DEF Agrees, ObjectsAgree
  <2>5. ASSUME <<s, k>> \notin outlived, Install!RemovalOf(s)
        PROVE  FALSE
    BY <2>1, <2>2, <2>4, <2>5 DEF Agrees, RemovalAgrees
  <2>6. ASSUME <<s, k>> \notin outlived, req.src = s
        PROVE  req.pc \notin InstallSteps
    BY <2>1, <2>2, <2>3, <2>4, <2>6 DEF Agrees, RequestAgrees, NothingSent, InstallSteps
  <2> QED BY <2>1, <2>3, <2>4, <2>5, <2>6
<1>2. /\ action'[s] \in Install!ActionRecords /\ action' \in [InstallSources -> Install!ActionRecords]
      /\ \A t \in InstallSources \ {s} : action'[t] = action[t]
      /\ action'[s].st = action[s].st /\ action'[s].have = action[s].have /\ action'[s].pend = action[s].pend
      /\ action'[s].portal = action[s].portal /\ action'[s].open = action[s].open
      /\ wire' \in [InstallSources -> [Install!Kinds -> Nat]]
      /\ \A t \in InstallSources \ {s} : wire'[t] = wire[t]
      /\ \A j \in Install!Kinds \ {k} : wire'[s][j] = wire[s][j]
      /\ wire'[s][k] = wire[s][k] - 1
      /\ objects' \in [InstallSources -> [Install!Kinds -> Nat]]
      /\ \A t \in InstallSources \ {s} : objects'[t] = objects[t]
      /\ \A j \in Install!Kinds \ {k} : objects'[s][j] = objects[s][j]
      /\ \/ extra' = extra /\ objects[s][k] = 0 /\ objects'[s][k] = 1 /\ ~(k = 3 /\ action[s].have = 3)
         \/ /\ k = 3 /\ extra' = extra \cup {s} /\ objects' = objects /\ <<s, 3>> \in outlived
            /\ objects[s][3] = 1 \/ action[s].have = 3
      /\ UNCHANGED <<Install!saved, action, removal, sourcePortal, wide, connected, req, sourceFaults, outlived>>
  BY <1>1, CreationFacts DEF Install!Decided, Install!TypeOK
<1> USE <1>1, <1>2, SourceNames DEF Install!TypeOK, Install!ActionRecords, Install!NoRemoval,
      Install!Kinds, Install!RemovalOf, Install!Evidence, Install!Unlocated
<1>3. DataFits'
  BY SourceBounds DEF DataFits, Install!Statuses, Install!Contents, Install!OwnershipRecords,
    InstallRequests, InstallSteps, RemovalSteps, Install!Idle, Install!saved, Install!provider
<1>4. OnlyOf(s)
  BY DEF OnlyOf, Install!Idle, Install!saved, Install!provider
<1>5. JournalFits(s)'
  BY DEF JournalFits
<1>6. JournalAgrees(s)'
  BY DEF Agrees, Install!saved, Install!provider, Install!Idle, JournalAgrees
<1>7. ObjectsAgree(s)'
  BY DEF Agrees, Install!saved, Install!provider, Install!Idle, ObjectsAgree, Expected
<1>8. PortalAgrees(s)'
  BY DEF Agrees, Install!saved, Install!provider, Install!Idle, PortalAgrees, JournalAgrees
<1>9. RemovalAgrees(s)'
  <2>1. CASE Install!RemovalOf(s)
    <3>1. <<s, k>> \in outlived /\ <<s, 2>> \notin outlived /\ RemovalAgrees(s)
      BY <2>1 DEF Agrees, ObjectsAgree
    <3>2. action[s].have = 3 /\ k # 2 /\ action' = action /\ removal' = removal /\ outlived' = outlived
      BY <2>1, <3>1 DEF RemovalAgrees
    <3>3. objects'[s][2] = objects[s][2] /\ objects'[s][3] = objects[s][3]
      BY <3>2
    <3>4. objects'[s][1] = objects[s][1] \/ (k = 1 /\ objects[s][1] = 0 /\ objects'[s][1] = 1)
      OBVIOUS
    <3>5. Install!Deletion[1] = 1 /\ Install!Deletion[2] = 3 /\ Install!Deletion[3] = 2 /\ removal.step \in 0 .. 4
      BY DEF Install!Deletion, Install!Server, Install!App, Install!Policy
    <3>6. \A i \in 1 .. 3 :
            /\ i < removal.step => objects'[s][Install!Deletion[i]] = 0 \/ (i = 1 /\ <<s, 1>> \in outlived)
            /\ removal.step < i => objects'[s][Install!Deletion[i]] = 1
      <4> SUFFICES ASSUME NEW i \in 1 .. 3
                   PROVE  /\ i < removal.step => objects'[s][Install!Deletion[i]] = 0 \/ (i = 1 /\ <<s, 1>> \in outlived)
                          /\ removal.step < i => objects'[s][Install!Deletion[i]] = 1
        OBVIOUS
      <4>1. /\ i < removal.step => objects[s][Install!Deletion[i]] = 0 \/ (i = 1 /\ <<s, 1>> \in outlived)
            /\ removal.step < i => objects[s][Install!Deletion[i]] = 1
        BY <2>1, <3>1 DEF RemovalAgrees
      <4>2. CASE i = 1
        BY ONLY <4>1, <4>2, <3>1, <3>4, <3>5
      <4>3. CASE i = 2
        BY ONLY <4>1, <4>3, <3>3, <3>5
      <4>4. CASE i = 3
        BY ONLY <4>1, <4>4, <3>3, <3>5
      <4> QED BY <4>2, <4>3, <4>4
    <3> QED BY ONLY <2>1, <3>1, <3>2, <3>6 DEF RemovalAgrees, Install!RemovalOf
  <2> QED BY <2>1 DEF RemovalAgrees
<1>10. RequestAgrees(s)'
  <2>1. RequestAgrees(s) /\ req' = req /\ action' = action /\ removal' = removal /\ outlived' = outlived
        /\ sourcePortal' = sourcePortal /\ wide' = wide /\ content' = content
    BY DEF Agrees, Install!saved
  <2>2. NothingSent(s) => NothingSent(s)'
    <3>1. \A j \in Install!Kinds : wire'[s][j] = wire[s][j] \/ (j = k /\ wire[s][j] > 0)
      OBVIOUS
    <3> QED BY ONLY <2>1, <3>1 DEF NothingSent
  <2>3. ASSUME req.src = s, req.pc = "create"
        PROVE  objects'[s][action[s].have + 1] = 0 \/ <<s, action[s].have + 1>> \in outlived
    <3>1. <<s, k>> \in outlived
      BY <2>3 DEF InstallSteps
    <3>2. objects[s][action[s].have + 1] = 0 \/ <<s, action[s].have + 1>> \in outlived
      BY <2>1, <2>3 DEF RequestAgrees
    <3>3. action[s].pend # "none" /\ action[s].have \in 0 .. 3
      BY <2>1, <2>3 DEF RequestAgrees
    <3>4. action[s].have \in 0 .. 2
      BY <3>3
    <3>5. CASE action[s].have + 1 = k
      BY <3>1, <3>5
    <3>6. CASE action[s].have + 1 # k
      <4>1. action[s].have + 1 \in Install!Kinds \ {k}
        BY <3>4, <3>6
      <4>2. objects'[s][action[s].have + 1] = objects[s][action[s].have + 1]
        BY <4>1
      <4> QED BY ONLY <3>2, <4>2
    <3> QED BY <3>5, <3>6
  <2> QED BY <2>1, <2>2, <2>3 DEF RequestAgrees
<1> QED BY <1>3, <1>4, <1>5, <1>6, <1>7, <1>8, <1>9, <1>10, OneChanges

\* Or it never does.
LEMMA DropsHolds ==
  ASSUME InstallInv, NEW s \in InstallSources, NEW k \in Install!Kinds, Install!Decided(s, k),
         UNCHANGED <<objects, extra>>
  PROVE  InstallInv'
<1>1. /\ Install!TypeOK /\ Agrees(s) /\ req \in InstallRequests /\ action[s] \in Install!ActionRecords
      /\ removal.src = "none" => removal = Install!NoRemoval
      /\ wire[s][k] \in Nat /\ wire[s][k] > 0
      /\ <<s, k>> \notin outlived =>
           /\ objects[s][k] = 0 /\ k = action[s].have + 1 /\ action[s].pend = "armed" /\ wire[s][k] = 1
           /\ action[s].st \in {"applying", "recovery_required"} /\ ~Install!RemovalOf(s)
           /\ req.src = s => req.pc \notin InstallSteps
  <2>1. /\ Install!TypeOK /\ Agrees(s) /\ req \in InstallRequests /\ action[s] \in Install!ActionRecords
        /\ removal.src = "none" => removal = Install!NoRemoval
    BY DEF InstallInv, Install!TypeOK
  <2>2. /\ action[s].have \in 0 .. 3 /\ objects[s] \in [1 .. 3 -> Nat] /\ wire[s] \in [1 .. 3 -> Nat]
        /\ action[s].pend # "none" => action[s].have < 3
    BY <2>1 DEF Install!TypeOK, Install!ActionRecords, Install!Kinds
  <2>3. wire[s][k] \in Nat /\ wire[s][k] > 0
    BY <2>2 DEF Install!Decided, Install!Kinds
  <2>4. ASSUME <<s, k>> \notin outlived
        PROVE  /\ objects[s][k] = 0 /\ k = action[s].have + 1 /\ action[s].pend = "armed" /\ wire[s][k] = 1
               /\ action[s].st \in {"applying", "recovery_required"}
    BY <2>1, <2>3, <2>4 DEF Agrees, ObjectsAgree
  <2>5. ASSUME <<s, k>> \notin outlived, Install!RemovalOf(s)
        PROVE  FALSE
    BY <2>1, <2>2, <2>4, <2>5 DEF Agrees, RemovalAgrees
  <2>6. ASSUME <<s, k>> \notin outlived, req.src = s
        PROVE  req.pc \notin InstallSteps
    BY <2>1, <2>2, <2>3, <2>4, <2>6 DEF Agrees, RequestAgrees, NothingSent, InstallSteps
  <2> QED BY <2>1, <2>3, <2>4, <2>5, <2>6
<1>2. /\ action'[s] \in Install!ActionRecords /\ action' \in [InstallSources -> Install!ActionRecords]
      /\ \A t \in InstallSources \ {s} : action'[t] = action[t]
      /\ action'[s].st = action[s].st /\ action'[s].have = action[s].have /\ action'[s].pend = action[s].pend
      /\ action'[s].portal = action[s].portal /\ action'[s].open = action[s].open
      /\ wire' \in [InstallSources -> [Install!Kinds -> Nat]]
      /\ \A t \in InstallSources \ {s} : wire'[t] = wire[t]
      /\ \A j \in Install!Kinds \ {k} : wire'[s][j] = wire[s][j]
      /\ wire'[s][k] = wire[s][k] - 1
      /\ UNCHANGED <<Install!saved, action, removal, objects, extra, sourcePortal, wide, connected, req, sourceFaults, outlived>>
  BY <1>1 DEF Install!TypeOK, Install!Decided
<1> USE <1>1, <1>2, SourceNames DEF Install!TypeOK, Install!ActionRecords, Install!NoRemoval,
      Install!Kinds, Install!RemovalOf, Install!Evidence, Install!Unlocated
<1>3. DataFits'
  BY SourceBounds DEF DataFits, Install!Statuses, Install!Contents, Install!OwnershipRecords,
    InstallRequests, InstallSteps, RemovalSteps, Install!Idle, Install!saved, Install!provider
<1>4. OnlyOf(s)
  BY DEF OnlyOf, Install!Idle, Install!saved, Install!provider
<1>5. JournalFits(s)'
  BY DEF JournalFits
<1>6. JournalAgrees(s)'
  BY DEF Agrees, Install!saved, Install!provider, Install!Idle, JournalAgrees
<1>7. ObjectsAgree(s)'
  BY DEF Agrees, Install!saved, Install!provider, Install!Idle, ObjectsAgree, Expected
<1>8. PortalAgrees(s)'
  BY DEF Agrees, Install!saved, Install!provider, Install!Idle, PortalAgrees, JournalAgrees
<1>9. RemovalAgrees(s)'
  BY DEF Agrees, Install!saved, Install!provider, Install!Idle, RemovalAgrees, JournalAgrees
<1>10. RequestAgrees(s)'
  BY DEF Agrees, Install!saved, Install!provider, Install!Idle, RequestAgrees, NothingSent, InstallSteps,
    RemovalSteps
<1> QED BY <1>3, <1>4, <1>5, <1>6, <1>7, <1>8, <1>9, <1>10, OneChanges

\* An eviction, before or after a creation went out.
LEMMA EvictedHolds ==
  ASSUME InstallInv, NEW s \in InstallSources, req.src = s, Install!Lost, req' = Install!Idle,
         wire' = wire \/ (req.pc = "create" /\ Install!Sent(s)),
         UNCHANGED <<Install!saved, action, removal, objects, extra, sourcePortal, wide, connected, outlived>>
  PROVE  InstallInv'
<1>1. /\ Install!TypeOK /\ Agrees(s) /\ req \in InstallRequests /\ action[s] \in Install!ActionRecords
      /\ removal.src = "none" => removal = Install!NoRemoval
      /\ req.pc = "create" => /\ action[s].pend = "armed" /\ action[s].st = "applying" /\ NothingSent(s)
                              /\ action[s].have + 1 \in Install!Kinds
                              /\ objects[s][action[s].have + 1] = 0 \/ <<s, action[s].have + 1>> \in outlived
  BY DEF InstallInv, Install!TypeOK, Install!ActionRecords, Install!Kinds, Agrees, RequestAgrees,
    InstallSteps
<1>2. /\ action'[s] \in Install!ActionRecords /\ action' \in [InstallSources -> Install!ActionRecords]
      /\ \A t \in InstallSources \ {s} : action'[t] = action[t]
      /\ action'[s].st = action[s].st /\ action'[s].have = action[s].have /\ action'[s].pend = action[s].pend
      /\ action'[s].portal = action[s].portal /\ action'[s].open = action[s].open
      /\ sourceFaults' \in 0 .. InstallFaults
      /\ wire' \in [InstallSources -> [Install!Kinds -> Nat]]
      /\ \A t \in InstallSources \ {s} : wire'[t] = wire[t]
      /\ \A j \in Install!Kinds :
           \/ wire'[s][j] = wire[s][j]
           \/ req.pc = "create" /\ j = action[s].have + 1 /\ wire'[s][j] = wire[s][j] + 1
  <2>1. action' = action /\ sourceFaults' \in 0 .. InstallFaults
    BY <1>1, SourceBounds DEF Install!TypeOK, Install!Lost
  <2>2. /\ wire' \in [InstallSources -> [Install!Kinds -> Nat]]
        /\ \A t \in InstallSources \ {s} : wire'[t] = wire[t]
        /\ \A j \in Install!Kinds :
             \/ wire'[s][j] = wire[s][j]
             \/ req.pc = "create" /\ j = action[s].have + 1 /\ wire'[s][j] = wire[s][j] + 1
    <3>1. wire \in [InstallSources -> [Install!Kinds -> Nat]]
      BY <1>1 DEF Install!TypeOK
    <3>2. CASE wire' = wire
      BY <3>1, <3>2
    <3>3. CASE req.pc = "create" /\ Install!Sent(s)
      <4>1. wire' = [wire EXCEPT ![s][action[s].have + 1] = @ + 1] /\ action[s].have + 1 \in Install!Kinds
        BY <1>1, <3>3 DEF Install!Sent, Install!NextKind
      <4> QED BY ONLY <3>1, <3>3, <4>1
    <3> QED BY <3>2, <3>3
  <2> QED BY <1>1, <2>1, <2>2 DEF Install!TypeOK
<1> USE <1>1, <1>2, SourceNames DEF Install!TypeOK, Install!ActionRecords, Install!NoRemoval,
      Install!Kinds, Install!RemovalOf, Install!Evidence, Install!Unlocated
<1>3. DataFits'
  BY SourceBounds DEF DataFits, Install!Statuses, Install!Contents, Install!OwnershipRecords,
    InstallRequests, InstallSteps, RemovalSteps, Install!Idle, Install!saved, Install!provider
<1>4. OnlyOf(s)
  BY DEF OnlyOf, Install!Idle, Install!saved, Install!provider
<1>5. JournalFits(s)'
  BY DEF JournalFits
<1>6. JournalAgrees(s)'
  BY DEF Agrees, Install!saved, Install!provider, Install!Idle, JournalAgrees
<1>7. ObjectsAgree(s)'
  <2>1. ObjectsAgree(s) /\ wire[s] \in [1 .. 3 -> Nat] /\ action[s].have \in 0 .. 3
    BY DEF Agrees
  <2>2. objects' = objects /\ extra' = extra /\ outlived' = outlived /\ removal' = removal
    OBVIOUS
  <2>3. \A k \in Install!Kinds : wire'[s][k] > 0 /\ <<s, k>> \notin outlived =>
          /\ k = action[s].have + 1 /\ wire'[s][k] = 1 /\ objects[s][k] = 0 /\ action[s].pend = "armed"
          /\ action[s].st \in {"applying", "recovery_required"}
    <3> SUFFICES ASSUME NEW k \in Install!Kinds, wire'[s][k] > 0, <<s, k>> \notin outlived
                 PROVE  /\ k = action[s].have + 1 /\ wire'[s][k] = 1 /\ objects[s][k] = 0
                        /\ action[s].pend = "armed" /\ action[s].st \in {"applying", "recovery_required"}
      OBVIOUS
    <3>1. CASE wire'[s][k] = wire[s][k]
      BY <2>1, <3>1 DEF ObjectsAgree
    <3>2. CASE req.pc = "create" /\ k = action[s].have + 1 /\ wire'[s][k] = wire[s][k] + 1
      <4>1. wire[s][k] = 0
        BY <3>2 DEF NothingSent
      <4> QED BY <3>2, <4>1
    <3> QED BY <3>1, <3>2
  <2> QED BY <2>1, <2>2, <2>3 DEF ObjectsAgree, Expected
<1>8. PortalAgrees(s)'
  BY DEF Agrees, Install!saved, Install!provider, Install!Idle, PortalAgrees, JournalAgrees
<1>9. RemovalAgrees(s)'
  BY DEF Agrees, Install!saved, Install!provider, Install!Idle, RemovalAgrees, JournalAgrees
<1>10. RequestAgrees(s)'
  BY DEF Agrees, Install!saved, Install!provider, Install!Idle, RequestAgrees, NothingSent, InstallSteps,
    RemovalSteps
<1> QED BY <1>3, <1>4, <1>5, <1>6, <1>7, <1>8, <1>9, <1>10, OneChanges

\* A draft whose journal shows no evidence leaves nothing behind.
LEMMA RemoveDraftHolds ==
  ASSUME InstallInv, NEW s \in InstallSources, Install!RemoveDraft(s)
  PROVE  InstallInv'
<1>1. /\ Install!TypeOK /\ Agrees(s) /\ req \in InstallRequests /\ action[s] \in Install!ActionRecords
      /\ removal.src = "none" => removal = Install!NoRemoval
      /\ req = Install!Idle /\ removal = Install!NoRemoval /\ status[s] = "draft" /\ ~Install!Evidence(action[s])
      /\ action[s].st \in {"none", "failed", "authorization_required"}
      /\ s \notin owned /\ s \notin sourcePortal /\ \A k \in Install!Kinds : objects[s][k] > 0 => <<s, k>> \in outlived
      /\ NothingSent(s)
  BY DEF InstallInv, Install!TypeOK, Install!ActionRecords, Install!Kinds, Install!RemoveDraft,
    Install!Quiet, Install!Discardable, Install!CanCancel, Install!Evidence, Agrees, JournalAgrees,
    PortalAgrees, ObjectsAgree, Expected, NothingSent
<1>2. /\ action'[s] \in Install!ActionRecords /\ action' \in [InstallSources -> Install!ActionRecords]
      /\ \A t \in InstallSources \ {s} :
           /\ action'[t].st = action[t].st /\ action'[t].have = action[t].have
           /\ action'[t].pend = action[t].pend /\ action'[t].portal = action[t].portal
           /\ action'[t].open = action[t].open
      /\ action'[s] = Install!NoAction
      /\ status' = [status EXCEPT ![s] = "absent"] /\ revision' = revision + 1
      /\ UNCHANGED <<content, owned, removal, Install!provider, req, sourceFaults>>
  <2>1. Install!NoAction \in Install!ActionRecords
    BY DEF Install!NoAction, Install!ActionRecords, Install!Contents
  <2>2. action'[s] = Install!NoAction
    BY <1>1 DEF Install!RemoveDraft, Install!TypeOK
  <2>3. \A t \in InstallSources \ {s} : action'[t] = action[t] \/ action'[t] = [action[t] EXCEPT !.rev = revision + 1]
    BY <1>1 DEF Install!RemoveDraft, Install!TypeOK
  <2>4. \A t \in InstallSources \ {s} : action[t] \in Install!ActionRecords /\ revision + 1 \in Nat
    BY <1>1 DEF Install!TypeOK
  <2>5. ASSUME NEW t \in InstallSources \ {s}
        PROVE  /\ action'[t] \in Install!ActionRecords
               /\ action'[t].st = action[t].st /\ action'[t].have = action[t].have
               /\ action'[t].pend = action[t].pend /\ action'[t].portal = action[t].portal
               /\ action'[t].open = action[t].open
    BY ONLY <2>3, <2>4, <2>5 DEF Install!ActionRecords
  <2>6. action' = [t \in InstallSources |-> action'[t]]
    BY DEF Install!RemoveDraft
  <2>7. action' \in [InstallSources -> Install!ActionRecords]
    <3>1. \A t \in InstallSources : action'[t] \in Install!ActionRecords
      BY <2>1, <2>2, <2>5
    <3> QED BY ONLY <2>6, <3>1
  <2> QED BY <1>1, <2>1, <2>2, <2>5, <2>7 DEF Install!RemoveDraft
<1> USE <1>1, <1>2, SourceNames DEF Install!TypeOK, Install!ActionRecords, Install!NoRemoval,
      Install!Kinds, Install!RemovalOf, Install!Evidence, Install!Unlocated
<1>3. DataFits'
  BY SourceBounds DEF DataFits, Install!Statuses, Install!Contents, Install!OwnershipRecords,
    InstallRequests, Install!Idle, Install!provider
<1>4. OnlyOf(s)
  BY DEF OnlyOf, Install!Idle, Install!provider
<1>5. JournalFits(s)'
  BY DEF JournalFits, Install!NoAction
<1>6. JournalAgrees(s)'
  BY DEF Agrees, JournalAgrees, Install!NoAction
<1>7. ObjectsAgree(s)'
  BY DEF Agrees, ObjectsAgree, Expected, Install!NoAction, Install!provider
<1>8. PortalAgrees(s)'
  BY DEF Agrees, Install!provider, Install!NoAction, PortalAgrees, JournalAgrees
<1>9. RemovalAgrees(s)'
  BY DEF Agrees, Install!saved, Install!provider, Install!Idle, RemovalAgrees, JournalAgrees
<1>10. RequestAgrees(s)'
  BY DEF Agrees, Install!saved, Install!provider, Install!Idle, RequestAgrees, NothingSent, InstallSteps,
    RemovalSteps
<1> QED BY <1>3, <1>4, <1>5, <1>6, <1>7, <1>8, <1>9, <1>10, OneChanges

LEMMA InstallInitHolds ==
  ASSUME Install!Init
  PROVE  InstallInv
<1> USE SourceNames, SourceBounds DEF Install!Init
<1>1. Install!TypeOK
  BY DEF Install!TypeOK, Install!Statuses, Install!Contents, Install!OwnershipRecords,
    Install!ActionRecords, Install!NoAction, Install!NoRemoval, Install!Kinds
<1>2. req \in InstallRequests /\ removal = Install!NoRemoval
  BY DEF InstallRequests
<1>3. ASSUME NEW s \in InstallSources
      PROVE  Agrees(s)
  BY <1>3 DEF Agrees, JournalAgrees, ObjectsAgree, Expected, PortalAgrees, RemovalAgrees, RequestAgrees, NothingSent,
    Install!NoAction, Install!NoRemoval, Install!Idle, Install!Evidence, Install!Unlocated,
    Install!RemovalOf, Install!Kinds
<1> QED BY <1>1, <1>2, <1>3 DEF InstallInv

LEMMA ProcessHolds ==
  ASSUME InstallInv, NEW s \in InstallSources, Install!Process(s)
  PROVE  InstallInv'
<1> DEFINE b == [action[s] EXCEPT !.st = "applying", !.paused = FALSE]
<1>1. Install!TypeOK /\ Agrees(s) /\ action[s] \in Install!ActionRecords
  BY DEF InstallInv, Install!TypeOK
<1>2. /\ removal = Install!NoRemoval /\ action[s].st = "authorization_required" /\ ~Install!RemovalOf(s)
      /\ Install!Keep /\ (Install!Proceed(s, b) \/ Install!Failed(s, FALSE))
  BY SourceNames DEF Install!Process, Install!Authorized, Install!RemovalOf, Install!NoRemoval
<1>3. CASE Install!Proceed(s, b)
  <2>1. /\ b \in Install!ActionRecords /\ b.st = "applying" /\ b.have = action[s].have
        /\ b.pend = action[s].pend /\ b.portal = action[s].portal
    BY <1>1 DEF Install!ActionRecords
  <2>2. NothingSent(s)
    BY <1>1, <1>2 DEF Agrees, ObjectsAgree, NothingSent, Install!TypeOK
  <2>3. /\ ~Install!Unlocated(b) /\ (b.pend # "none" => b.have < 3) /\ (b.portal # "none" => b.have = 3)
    BY <1>1, <1>2, <2>1 DEF Agrees, JournalAgrees, Install!TypeOK, Install!Unlocated
  <2>4. \A k \in Install!Kinds : /\ objects[s][k] > 0 => Expected(s, k, b)
                                 /\ k <= b.have => objects[s][k] = 1
                                 /\ k = b.have + 1 /\ b.pend = "submitted" => objects[s][k] = 1
    BY <1>1, <1>2, <2>1 DEF Agrees, ObjectsAgree, Expected
  <2>5. s \in sourcePortal => b.have = 3 /\ b.portal # "none"
    BY <1>1, <1>2, <2>1 DEF Agrees, PortalAgrees, JournalAgrees
  <2> HIDE DEF b
  <2> QED BY <1>2, <1>3, <2>1, <2>2, <2>3, <2>4, <2>5, ProceedHolds
<1>4. CASE Install!Failed(s, FALSE)
  BY <1>1, <1>2, <1>4, FailHolds DEF Install!Keep, Install!provider, Install!TypeOK
<1> QED BY <1>2, <1>3, <1>4

\* A request that installs s works on the journal it claimed, with nothing else under way.
LEMMA InstallFacts ==
  ASSUME InstallInv, NEW s \in InstallSources, NEW at \in InstallSteps, Install!Busy(at, s)
  PROVE  /\ Install!TypeOK /\ Agrees(s) /\ action[s] \in Install!ActionRecords /\ removal = Install!NoRemoval /\ ~Install!RemovalOf(s)
         /\ action[s].st = "applying" /\ status[s] # "installed" /\ s \notin owned
         /\ s \in sourcePortal => action[s].have = 3 /\ action[s].portal # "none"
  BY SourceNames DEF InstallInv, Install!TypeOK, Agrees, RequestAgrees, NothingSent, Install!Busy,
    JournalAgrees, PortalAgrees, Install!RemovalOf, Install!NoRemoval

LEMMA Received ==
  ASSUME NEW a \in Install!ActionRecords, a.have < 3
  PROVE  /\ [a EXCEPT !.have = @ + 1, !.pend = "none"] \in Install!ActionRecords
         /\ [a EXCEPT !.have = @ + 1, !.pend = "none"].have = a.have + 1
         /\ [a EXCEPT !.have = @ + 1, !.pend = "none"].pend = "none"
         /\ [a EXCEPT !.have = @ + 1, !.pend = "none"].st = a.st
         /\ [a EXCEPT !.have = @ + 1, !.pend = "none"].portal = a.portal
<1>1. a.have + 1 \in 0 .. 3
  BY DEF Install!ActionRecords
<1> QED BY <1>1 DEF Install!ActionRecords

\* A resource that is found, or was just created, is entered in the journal.
LEMMA ReceiptHolds ==
  ASSUME InstallInv, NEW s \in InstallSources, NEW at \in {"resume", "verify"}, Install!Busy(at, s),
         Install!Proceed(s, Install!Receipt(s)), Install!Keep, objects[s][Install!NextKind(s)] > 0
  PROVE  InstallInv'
<1> DEFINE b == Install!Receipt(s)
<1>1. at \in InstallSteps
  BY DEF InstallSteps
<1>2. /\ Install!TypeOK /\ Agrees(s) /\ action[s] \in Install!ActionRecords /\ removal = Install!NoRemoval /\ ~Install!RemovalOf(s)
      /\ action[s].st = "applying" /\ (s \in sourcePortal => action[s].have = 3)
  BY <1>1, InstallFacts
<1>3. action[s].pend # "none" /\ action[s].have < 3 /\ NothingSent(s)
  BY <1>2 DEF Agrees, RequestAgrees, NothingSent, Install!Busy, Install!TypeOK, ObjectsAgree, Expected
<1>4. /\ b \in Install!ActionRecords /\ b.st = "applying" /\ b.have = action[s].have + 1
      /\ b.pend = "none" /\ b.portal = action[s].portal
  BY <1>2, <1>3, Received DEF Install!Receipt
<1>5. /\ ~Install!Unlocated(b) /\ (b.pend # "none" => b.have < 3) /\ (b.portal # "none" => b.have = 3)
      /\ (s \in sourcePortal => b.have = 3 /\ b.portal # "none")
  BY <1>2, <1>3, <1>4 DEF Install!TypeOK, Install!Unlocated
<1>6. \A k \in Install!Kinds : /\ objects[s][k] > 0 => Expected(s, k, b)
                               /\ k <= b.have => objects[s][k] = 1
                               /\ k = b.have + 1 /\ b.pend = "submitted" => objects[s][k] = 1
  <2>1. ObjectsAgree(s) /\ objects[s] \in [1 .. 3 -> Nat] /\ action[s].have \in 0 .. 2
    BY <1>2, <1>3 DEF Agrees, Install!TypeOK, Install!ActionRecords, Install!Kinds
  <2>2. objects[s][action[s].have + 1] = 1
    BY <2>1 DEF ObjectsAgree, Install!NextKind, Install!Kinds
  <2> HIDE DEF b
  <2> QED BY <2>1, <2>2, <1>2, <1>3, <1>4 DEF ObjectsAgree, Expected, Install!Kinds
<1>7. Install!Proceed(s, b)
  OBVIOUS
<1> HIDE DEF b
<1> QED BY <1>2, <1>3, <1>4, <1>5, <1>6, <1>7, ProceedHolds

LEMMA ResumeHolds ==
  ASSUME InstallInv, NEW s \in InstallSources, Install!Resume(s)
  PROVE  InstallInv'
<1>1. Install!Busy("resume", s) /\ Install!Keep /\ "resume" \in InstallSteps
  BY DEF Install!Resume, InstallSteps
<1>2. /\ Install!TypeOK /\ Agrees(s) /\ action[s] \in Install!ActionRecords /\ removal = Install!NoRemoval /\ ~Install!RemovalOf(s)
      /\ action[s].st = "applying" /\ (s \in sourcePortal => action[s].have = 3)
  BY <1>1, InstallFacts
<1>3. action[s].pend # "none" /\ action[s].have < 3 /\ NothingSent(s)
  BY <1>1, <1>2 DEF Agrees, RequestAgrees, NothingSent, Install!Busy, Install!TypeOK
<1>4. ~Install!Unlocated(action[s]) /\ Install!NextKind(s) \in Install!Kinds /\ objects[s][Install!NextKind(s)] \in Nat
  BY <1>1, <1>2, <1>3 DEF Agrees, RequestAgrees, NothingSent, Install!Busy, Install!TypeOK, Install!NextKind,
    Install!Kinds, Install!ActionRecords
<1>5. PICK seen \in Install!Reading(s, Install!NextKind(s), action[s].pend = "submitted") :
        CASE seen = "absent"  -> Install!Proceed(s, [action[s] EXCEPT !.pend = "none"])
          [] seen = "present" -> Install!Proceed(s, Install!Receipt(s))
          [] OTHER            -> Install!Failed(s, FALSE)
  BY DEF Install!Resume
<1>6. /\ seen \in {"absent", "present", "ambiguous"}
      /\ seen = "absent" => objects[s][Install!NextKind(s)] = 0
      /\ seen = "present" => objects[s][Install!NextKind(s)] > 0
  BY <1>2, <1>3, <1>4, <1>5 DEF Install!Reading, Install!Unlocated, Install!NextKind, Install!App,
    Install!ActionRecords
<1>7. CASE seen = "absent"
  <2> DEFINE b == [action[s] EXCEPT !.pend = "none"]
  <2>1. /\ b \in Install!ActionRecords /\ b.st = "applying" /\ b.have = action[s].have
        /\ b.pend = "none" /\ b.portal = action[s].portal
    BY <1>2 DEF Install!ActionRecords
  <2>2. /\ ~Install!Unlocated(b) /\ (b.pend # "none" => b.have < 3) /\ (b.portal # "none" => b.have = 3)
        /\ (s \in sourcePortal => b.have = 3 /\ b.portal # "none")
    BY <1>2, <1>3, <2>1 DEF Install!TypeOK, Install!Unlocated
  <2>3. \A k \in Install!Kinds : /\ objects[s][k] > 0 => Expected(s, k, b)
                                 /\ k <= b.have => objects[s][k] = 1
                                 /\ k = b.have + 1 /\ b.pend = "submitted" => objects[s][k] = 1
    <3>1. objects[s][action[s].have + 1] = 0
      BY <1>6, <1>7 DEF Install!NextKind
    <3>2. ObjectsAgree(s) /\ ~Install!RemovalOf(s)
      BY <1>2 DEF Agrees
    <3>3. action[s].have \in 0 .. 3 /\ objects[s] \in [Install!Kinds -> Nat]
      BY <1>2 DEF Install!TypeOK, Install!ActionRecords
    <3> HIDE DEF b
    <3> QED BY <3>1, <3>2, <3>3, <2>1, <1>3 DEF ObjectsAgree, Expected, Install!Kinds
  <2>4. Install!Proceed(s, b)
    BY <1>5, <1>7
  <2> HIDE DEF b
  <2> QED BY <1>1, <1>2, <1>3, <2>1, <2>2, <2>3, <2>4, ProceedHolds
<1>8. CASE seen = "present"
  BY <1>1, <1>5, <1>6, <1>8, ReceiptHolds
<1>9. CASE seen = "ambiguous"
  BY <1>5, <1>9, <1>1, <1>2, FailHolds DEF Install!Keep, Install!provider, Install!TypeOK
<1> QED BY <1>6, <1>7, <1>8, <1>9

LEMMA VerifyHolds ==
  ASSUME InstallInv, NEW s \in InstallSources, Install!Verify(s)
  PROVE  InstallInv'
<1>1. Install!Busy("verify", s) /\ "verify" \in InstallSteps /\ Install!Keep
  BY DEF Install!Verify, InstallSteps
<1>2. /\ Install!TypeOK /\ Agrees(s) /\ action[s] \in Install!ActionRecords
      /\ removal = Install!NoRemoval /\ action[s].st = "applying"
  BY <1>1, InstallFacts
<1>3. CASE Install!Failed(s, FALSE)
  BY <1>1, <1>2, <1>3, FailHolds DEF Install!Keep, Install!provider, Install!TypeOK
<1>4. CASE Install!Reading(s, Install!NextKind(s), TRUE) = {"present"} /\ Install!Proceed(s, Install!Receipt(s))
  <2>1. action[s].pend = "submitted" /\ Install!NextKind(s) \in Install!Kinds
    BY <1>1, <1>2 DEF Agrees, RequestAgrees, Install!Busy, Install!TypeOK, Install!NextKind,
      Install!Kinds, Install!ActionRecords
  <2>2. objects[s][Install!NextKind(s)] > 0
    <3>1. ObjectsAgree(s)
      BY <1>2 DEF Agrees
    <3>2. objects[s][Install!NextKind(s)] = 1
      BY <2>1, <3>1 DEF ObjectsAgree, Install!NextKind
    <3> QED BY <3>2
  <2> QED BY <1>1, <1>4, <2>2, ReceiptHolds
<1> QED BY <1>3, <1>4 DEF Install!Verify

LEMMA BaselineHolds ==
  ASSUME InstallInv, NEW s \in InstallSources, Install!Baseline(s)
  PROVE  InstallInv'
<1>1. Install!Busy("baseline", s) /\ Install!Keep /\ "baseline" \in InstallSteps
  BY DEF Install!Baseline, InstallSteps
<1>2. /\ Install!TypeOK /\ Agrees(s) /\ action[s] \in Install!ActionRecords /\ removal = Install!NoRemoval
      /\ action[s].st = "applying" /\ status[s] # "installed" /\ s \notin owned
  BY <1>1, InstallFacts
<1>3. CASE Install!Failed(s, FALSE)
  BY <1>1, <1>2, <1>3, FailHolds DEF Install!Keep, Install!provider, Install!TypeOK
<1>4. CASE /\ "absent" \in Install!Reading(s, Install!NextKind(s), FALSE) /\ action[s].open
           /\ Install!Set(s, [action[s] EXCEPT !.pend = "armed"]) /\ Install!Goto("create")
  <2>1. action[s].pend = "none" /\ action[s].have \in 0 .. 2 /\ objects[s] \in [1 .. 3 -> Nat]
    BY <1>1, <1>2 DEF Agrees, RequestAgrees, Install!Busy, Install!TypeOK, Install!Kinds,
      Install!ActionRecords
  <2>2. ObjectsAgree(s)
    BY <1>2 DEF Agrees
  <2>3. Install!NextKind(s) # 2 => objects[s][Install!NextKind(s)] = 0
    BY <1>4, <2>1 DEF Install!NextKind, Install!Reading, Install!App
  <2>4. Install!NextKind(s) = 2 => objects[s][Install!NextKind(s)] = 0
    BY <2>1, <2>2 DEF ObjectsAgree, Expected, Install!NextKind, Install!Kinds
  <2> QED BY <1>1, <1>4, <2>3, <2>4, ArmHolds
<1> QED BY <1>3, <1>4 DEF Install!Baseline

LEMMA CreationHolds ==
  ASSUME InstallInv, NEW s \in InstallSources, Install!Create(s)
  PROVE  InstallInv'
BY InstallFacts, FailHolds, CreatedHolds, UnansweredHolds DEF Install!Create, InstallSteps,
  Install!TypeOK, Install!Answered

LEMMA AttachHolds ==
  ASSUME InstallInv, NEW s \in InstallSources, Install!Attach(s)
  PROVE  InstallInv'
BY InstallFacts, FailHolds, AttachSkipsHolds, AttachPausesHolds, AttachArmsHolds DEF Install!Attach,
  InstallSteps, Install!Keep, Install!provider, Install!TypeOK

LEMMA MapHolds ==
  ASSUME InstallInv, NEW s \in InstallSources, Install!Map(s)
  PROVE  InstallInv'
<1>1. Install!Busy("map", s) /\ "map" \in InstallSteps /\ UNCHANGED <<Install!saved, removal, objects, extra, wide, connected, wire, outlived>>
  BY DEF Install!Map, InstallSteps
<1>2. Install!TypeOK /\ Agrees(s) /\ removal = Install!NoRemoval /\ action[s].st = "applying"
  BY <1>1, InstallFacts
<1>3. CASE Install!Lost /\ sourcePortal' \in {sourcePortal, sourcePortal \cup {s}} /\ Install!Failed(s, FALSE)
  <2>1. action[s].have = 3 /\ action[s].portal # "none" /\ content[s] = "tools"
    BY <1>1, <1>2 DEF Agrees, RequestAgrees, NothingSent, Install!Busy
  <2>2. sourceFaults' \in 0 .. InstallFaults
    BY <1>2, <1>3, SourceBounds DEF Install!Lost, Install!TypeOK
  <2> QED BY <1>1, <1>2, <1>3, <2>1, <2>2, FailHolds
<1> QED BY <1>1, <1>3, MappedHolds DEF Install!Map, Install!Answered

LEMMA WidenHolds ==
  ASSUME InstallInv, NEW s \in InstallSources, Install!Widen(s)
  PROVE  InstallInv'
BY InstallFacts, FailHolds, WidenSkipsHolds, WidenedHolds, WidenLostHolds DEF Install!Widen,
  InstallSteps, Install!Keep, Install!provider, Install!TypeOK, Install!AdmitsEveryMember,
  Install!Answered

LEMMA DetachHolds ==
  ASSUME InstallInv, NEW s \in InstallSources, Install!Detach(s)
  PROVE  InstallInv'
  BY DetachedHolds, DetachLostHolds DEF Install!Detach, Install!Answered

LEMMA ConflictHolds ==
  ASSUME InstallInv, NEW s \in InstallSources, Install!Conflict(s)
  PROVE  InstallInv'
<1>1. /\ req' = Install!Idle
      /\ UNCHANGED <<status, content, revision, owned, action, removal, objects, extra, sourcePortal,
                     wide, connected, wire, outlived, sourceFaults>>
  BY DEF Install!Conflict, Install!saved, Install!provider
<1>2. Install!TypeOK'
  BY <1>1 DEF InstallInv, Install!TypeOK
<1>3. req' \in InstallRequests /\ (removal'.src = "none" => removal' = Install!NoRemoval)
  BY <1>1 DEF InstallInv, InstallRequests
<1>4. ASSUME NEW t \in InstallSources
      PROVE  Agrees(t)'
  <2>1. Agrees(t)
    BY DEF InstallInv
  <2>2. JournalAgrees(t)'
    BY <1>1, <2>1 DEF Agrees, JournalAgrees, Install!Evidence, Install!Unlocated
  <2>3. ObjectsAgree(t)'
    BY <1>1, <2>1 DEF Agrees, ObjectsAgree, Expected, Install!RemovalOf
  <2>4. PortalAgrees(t)' /\ RemovalAgrees(t)'
    BY <1>1, <2>1 DEF Agrees, PortalAgrees, RemovalAgrees, Install!RemovalOf
  <2>5. RequestAgrees(t)'
    BY <1>1, SourceNames DEF RequestAgrees, Install!Idle
  <2> QED BY <2>2, <2>3, <2>4, <2>5 DEF Agrees
<1> QED BY <1>2, <1>3, <1>4 DEF InstallInv

LEMMA DeleteHolds ==
  ASSUME InstallInv, NEW s \in InstallSources, Install!Delete(s)
  PROVE  InstallInv'
BY DeletedHolds, DeleteLostHolds DEF Install!Delete, Install!Deletion, Install!Kinds,
  Install!Server, Install!App, Install!Policy, Install!Answered

LEMMA EvictHolds ==
  ASSUME InstallInv, Install!Evict
  PROVE  InstallInv'
BY EvictedHolds DEF InstallInv, Install!Evict, InstallRequests

LEMMA LandHolds ==
  ASSUME InstallInv, Install!Land \/ Install!Drop
  PROVE  InstallInv'
  BY LandsHolds, DropsHolds DEF Install!Land, Install!Drop

LEMMA InstallStepHolds ==
  ASSUME InstallInv, [Install!Next]_(Install!vars)
  PROVE  InstallInv'
<1>1. CASE \E s \in InstallSources :
             \/ \E c \in Install!Contents : Install!SaveDraft(s, c)
             \/ Install!RemoveDraft(s) \/ Install!Prepare(s) \/ Install!Cancel(s) \/ Install!Renew(s) \/ Install!Expire(s) \/ Install!ChooseTools(s)
             \/ Install!Process(s) \/ Install!RemoveManaged(s) \/ Install!Connect(s) \/ Install!Disconnect(s)
  BY <1>1, SaveDraftHolds, RemoveDraftHolds, PrepareHolds, CancelHolds, RenewHolds, ExpireHolds,
    ChooseToolsHolds, ProcessHolds, RemoveManagedHolds, ConnectHolds, DisconnectHolds
<1>2. CASE \E s \in InstallSources : Install!Advance(s)
  BY <1>2, ResumeHolds, BaselineHolds, CreationHolds, VerifyHolds, AttachHolds, MapHolds,
    WidenHolds, FinalizeHolds, DetachHolds, DeleteHolds, ConflictHolds, FinishHolds DEF Install!Advance
<1>3. CASE UNCHANGED Install!vars
  <2>1. UNCHANGED <<status, content, revision, owned, action, removal, objects, extra, sourcePortal,
                    wide, connected, wire, outlived, req, sourceFaults>>
    BY <1>3 DEF Install!vars
  <2>2. Install!TypeOK'
    BY <2>1 DEF InstallInv, Install!TypeOK
  <2>3. ASSUME NEW t \in InstallSources
        PROVE  Agrees(t)'
    BY <2>1 DEF InstallInv, Agrees, JournalAgrees, ObjectsAgree, Expected, PortalAgrees,
      RemovalAgrees, RequestAgrees, NothingSent, Install!RemovalOf, Install!Evidence,
      Install!Unlocated
  <2> QED BY <2>1, <2>2, <2>3 DEF InstallInv
<1> QED BY <1>1, <1>2, <1>3, EvictHolds, LandHolds DEF Install!Next

LEMMA InstallInvIsSafe ==
  ASSUME InstallInv
  PROVE  Install!Safe
<1> USE DEF InstallInv
<1>1. Install!TypeOK
  OBVIOUS
<1>2. Install!OneObjectEach
  BY DEF Install!OneObjectEach, Agrees, ObjectsAgree, Install!Policy
<1>3. Install!NothingForgotten
  BY DEF Install!NothingForgotten, Agrees, ObjectsAgree, Expected, Install!App
<1>4. Install!MappedIsGuarded
  <2> SUFFICES ASSUME NEW s \in sourcePortal
               PROVE  /\ \A k \in Install!Kinds : objects[s][k] > 0
                      /\ content[s] = "tools" /\ (s \in owned \/ action[s].portal # "none")
    BY DEF Install!MappedIsGuarded
  <2>1. s \in InstallSources /\ Agrees(s)
    BY DEF Install!TypeOK
  <2>2. action[s].have = 3 /\ content[s] = "tools" /\ (s \in owned \/ action[s].portal # "none")
    BY <2>1 DEF Agrees, PortalAgrees
  <2>3. CASE ~Install!RemovalOf(s)
    BY <2>1, <2>2, <2>3 DEF Agrees, ObjectsAgree, Expected, Install!Kinds
  <2>4. CASE Install!RemovalOf(s)
    BY <2>1, <2>4, <2>2 DEF Agrees, PortalAgrees, Install!Deletion, Install!Server, Install!App,
      Install!Policy, RemovalAgrees, Install!Kinds
  <2> QED BY <2>2, <2>3, <2>4
<1>5. Install!InstalledIsWhole
  <2> SUFFICES ASSUME NEW s \in InstallSources, status[s] = "installed", ~Install!RemovalOf(s)
               PROVE  s \in sourcePortal /\ Install!AdmitsEveryMember(s) /\ objects[s] = Install!Desired
    BY DEF Install!InstalledIsWhole, Agrees, JournalAgrees
  <2>1. s \in sourcePortal /\ s \in wide /\ action[s].have = 3
    BY DEF Agrees, PortalAgrees, JournalAgrees
  <2>2. objects[s] \in [Install!Kinds -> Nat] /\ \A k \in Install!Kinds : objects[s][k] = 1
    <3>1. objects[s] \in [Install!Kinds -> Nat]
      BY DEF Install!TypeOK
    <3>2. ObjectsAgree(s)
      BY DEF Agrees
    <3> QED BY <2>1, <3>1, <3>2 DEF ObjectsAgree, Expected, Install!Kinds
  <2> QED BY <2>1, <2>2 DEF Install!AdmitsEveryMember, Install!Desired
<1>6. Install!RemovedBehindAccess
  <2> SUFFICES ASSUME NEW s \in InstallSources, Install!RemovalOf(s), objects[s][Install!Server] > 0
               PROVE  \/ objects[s][Install!App] > 0 /\ objects[s][Install!Policy] > 0
                      \/ <<s, Install!Server>> \in outlived
    BY DEF Install!RemovedBehindAccess
  <2>1. Install!Deletion[1] = 1 /\ Install!Deletion[2] = 3 /\ Install!Deletion[3] = 2 /\ removal.step \in 0 .. 4
    BY DEF Install!Deletion, Install!Server, Install!App, Install!Policy, Install!TypeOK
  <2>2. removal.step <= 1 \/ <<s, 1>> \in outlived
    BY <2>1 DEF Agrees, RemovalAgrees, Install!Server
  <2> QED BY <2>1, <2>2 DEF Agrees, RemovalAgrees, Install!App, Install!Policy, Install!Server
<1> QED BY <1>1, <1>2, <1>3, <1>4, <1>5, <1>6 DEF Install!Safe

\* SourceInstall: whenever approvals end and are renewed, and whenever what was sent takes place, a
\* source gets no second object but a policy that outlived its approval, nothing that was created is
\* forgotten but a server or policy that did, the Portal maps only what Access guards, an installed
\* source is whole, and a removal takes the server before its protection unless a late creation
\* brings the server back, for every set of sources and every number of faults.
THEOREM InstallSafety == Install!Spec => []Install!Safe
<1>1. Install!Init => InstallInv
  BY InstallInitHolds
<1>2. InstallInv /\ [Install!Next]_(Install!vars) => InstallInv'
  BY InstallStepHolds
<1>3. InstallInv => Install!Safe
  BY InstallInvIsSafe
<1> QED BY <1>1, <1>2, <1>3, PTL DEF Install!Spec

\* The same in the run: the behaviours of part "install" are those of SourceInstall.
THEOREM InstallInRun == AnySpec => []InstallIsSafe
<1> DEFINE Inv == part = "install" => InstallInv
<1>1. AnyInit => Inv
  BY InstallInitHolds DEF AnyInit, SwitchInit, InstallInit, EditsInit, QueueInit, OauthInit,
    ScopesInit
<1>2. Inv /\ [AnyNext]_allVars => Inv'
  <2> SUFFICES ASSUME Inv, [AnyNext]_allVars, part' = "install"
               PROVE  InstallInv'
    OBVIOUS
  <2>1. CASE InstallNext
    BY <2>1, InstallStepHolds DEF InstallNext
  <2>2. CASE UNCHANGED allVars
    BY <2>2, InstallStepHolds DEF allVars, vars, Install!vars
  <2>3. ~(SwitchNext \/ EditsNext \/ QueueNext \/ OauthNext \/ ScopesNext)
    BY DEF SwitchNext, EditsNext, QueueNext, OauthNext, ScopesNext
  <2> QED BY <2>1, <2>2, <2>3 DEF AnyNext
<1>3. Inv => InstallIsSafe
  BY InstallInvIsSafe DEF InstallIsSafe
<1> QED BY <1>1, <1>2, <1>3, PTL DEF AnySpec

\* Registered scopes, if any.
Registered == {None} \cup SUBSET Oauth!Scopes
AttemptRecords ==
  [source : OauthSources \cup {None}, browser : OauthBrowsers \cup {None}, revision : Nat,
    registered : Registered,
   requested : SUBSET Oauth!Scopes, open : BOOLEAN, late : BOOLEAN]
Granted == [actual : SUBSET Oauth!Scopes, declared : Registered]
Ops ==
  [kind : {"none", "start", "finish"},
   step : {"none", "discover", "register", "check", "exchange", "scope", "recheck", "import"},
   id : 0..MaxAttempts, browser : OauthBrowsers \cup {None}, answer : Granted \cup {None},
     drifted : BOOLEAN]
Imports == [id : Oauth!Attempts, browser : OauthBrowsers, revision : Nat,
  scope : SUBSET Oauth!Scopes, before : Registered, drifted : BOOLEAN]
Counts == [starts : 0..MaxAttempts, edits : Nat, drifts : Nat, restarts : Nat, arrivals : Nat]

Fits ==
  /\ stored \in 0..MaxAttempts /\ attempt \in [Oauth!Attempts -> AttemptRecords] /\ op \in Ops
  /\ revision \in Nat
  /\ installed \subseteq OauthSources /\ registered \in [OauthSources -> Registered]
  /\ cookie \in [OauthBrowsers -> 0..MaxAttempts]
  /\ grant \in [Oauth!Attempts -> {None, "code", "denied", "spent"}]
  /\ exchanges \in [Oauth!Attempts -> Nat] /\ imports \subseteq Imports /\ used \in Counts

Unused(a) == exchanges[a] = 0 /\ \A i \in imports : i.id # a
\* Nothing happened yet under a number that was not given, and each number that was given is of a source.
Numbered ==
  /\ \A a \in Oauth!Attempts : a > used.starts => Unused(a)
  /\ \A a \in Oauth!Attempts : a <= used.starts =>
       attempt[a].source \in OauthSources /\ attempt[a].browser \in OauthBrowsers
\* The stored attempt is the newest, and unused.
StoredIsNewest == stored # 0 => stored = used.starts /\ Unused(stored)
\* The operation works on the newest attempt.
OperationIsNewest ==
  /\ op.kind = "none" <=> op.step = "none"
  /\ op.kind = "none" => op = Oauth!NoOp
  /\ op.kind = "start" <=> op.step \in {"discover", "register"}
  /\ op.kind # "none" => op.id = used.starts /\ op.id \in Oauth!Attempts /\ stored = 0
  /\ op.kind = "start" => Unused(op.id)
  /\ op.kind = "finish" => op.browser = attempt[op.id].browser
  /\ op.step \in {"check", "exchange"} => Unused(op.id)
  /\ op.step \in {"scope", "recheck", "import"} =>
       exchanges[op.id] = 1 /\ \A i \in imports : i.id # op.id
Narrow(a, scope) ==
  /\ OauthKind[a.source] = "tickets" => scope \subseteq Oauth!TicketScopes
  /\ OauthKind[a.source] = "ads" => scope \subseteq Oauth!AdsGranted
  /\ OauthKind[a.source] = "plain" /\ a.source \in installed => scope \subseteq a.requested
\* What the callback has established by its step.
Established ==
  /\ op.step \in {"scope", "recheck", "import"} => op.answer \in Oauth!Answers(attempt[op.id])
  /\ op.step \in {"recheck", "import"} => Narrow(attempt[op.id], op.answer.actual)
  /\ op.step = "import" =>
       /\ revision = attempt[op.id].revision
       /\ registered[attempt[op.id].source] = attempt[op.id].registered \/ op.drifted
Imported ==
  /\ \A a \in Oauth!Attempts : exchanges[a] <= 1
  /\ \A i, j \in imports : i.id = j.id => i = j
  /\ \A i \in imports :
       /\ i.revision = attempt[i.id].revision /\ i.browser = attempt[i.id].browser
       /\ i.before = attempt[i.id].registered \/ i.drifted
       /\ Narrow(attempt[i.id], i.scope)

ConsentInv == Fits /\ Numbered /\ StoredIsNewest /\ OperationIsNewest /\ Established /\ Imported

\* What providers speak of.
LEMMA ScopesFit ==
  Advertised \subseteq SUBSET Oauth!Scopes /\ \A scopes \in SUBSET Oauth!Scopes : scopes # None
  BY OauthScopes DEF Oauth!Scopes

\* The records of operations and of attempts.
LEMMA OpMoves ==
  ASSUME NEW o \in Ops, NEW s \in {"none", "discover", "register", "check", "exchange", "scope",
    "recheck", "import"}
  PROVE  /\ [o EXCEPT !.step = s] \in Ops /\ [o EXCEPT !.step = s].step = s
         /\ [o EXCEPT !.step = s].kind = o.kind /\ [o EXCEPT !.step = s].id = o.id
         /\ [o EXCEPT !.step = s].browser = o.browser /\ [o EXCEPT !.step = s].answer = o.answer
         /\ [o EXCEPT !.step = s].drifted = o.drifted
  BY DEF Ops
LEMMA NoOpIsOp == Oauth!NoOp \in Ops /\ Oauth!NoOp.kind = "none" /\ Oauth!NoOp.step = "none"
  BY OauthBounds DEF Oauth!NoOp, Ops
LEMMA NoAttemptIsRecord ==
  /\ Oauth!NoAttempt \in AttemptRecords /\ Oauth!NoAttempt.requested = {}
  BY DEF Oauth!NoAttempt, AttemptRecords, Registered

\* Nothing was started.
LEMMA OauthInitHolds == Oauth!Init => ConsentInv
<1> SUFFICES ASSUME Oauth!Init
             PROVE  ConsentInv
  OBVIOUS
<1>1. /\ used = [starts |-> 0, edits |-> 0, drifts |-> 0, restarts |-> 0, arrivals |-> 0]
      /\ used \in Counts
  BY OauthBounds DEF Oauth!Init, Counts
<1>2. registered \in [OauthSources -> Registered]
  BY DEF Oauth!Init, Registered, Oauth!Scopes
<1>3. Fits
  BY <1>1, <1>2, NoOpIsOp, NoAttemptIsRecord, OauthBounds DEF Oauth!Init, Fits, Oauth!Attempts
<1>4. Numbered /\ StoredIsNewest /\ Imported
  BY <1>1, OauthBounds DEF Oauth!Init, Numbered, StoredIsNewest, Imported, Unused, Oauth!Attempts
<1>5. OperationIsNewest /\ Established
  BY NoOpIsOp DEF Oauth!Init, OperationIsNewest, Established
<1> QED BY <1>3, <1>4, <1>5 DEF ConsentInv

\* A start has the next number, and ends what was stored.
LEMMA OauthBeginStartHolds ==
  ASSUME ConsentInv, NEW s \in OauthSources, NEW b \in OauthBrowsers, Oauth!BeginStart(s, b)
  PROVE  ConsentInv'
<1>1. /\ Fits /\ Numbered /\ StoredIsNewest /\ OperationIsNewest /\ Established /\ Imported
  BY DEF ConsentInv
<1>2. UNCHANGED <<revision, installed, registered, cookie, grant, exchanges, imports>>
  BY DEF Oauth!BeginStart, Oauth!Count
<1>3. /\ op = Oauth!NoOp /\ used.starts < MaxAttempts /\ stored' = 0
      /\ used' \in Counts /\ used'.starts = used.starts + 1 /\ used'.starts \in Oauth!Attempts
      /\ op' \in Ops /\ op'.kind = "start" /\ op'.step = "discover" /\ op'.id = used'.starts
      /\ attempt' \in [Oauth!Attempts -> AttemptRecords]
      /\ \A a \in Oauth!Attempts : a # used'.starts => attempt'[a] = attempt[a]
      /\ attempt'[used'.starts].source = s /\ attempt'[used'.starts].browser = b
  <2>1. /\ op = Oauth!NoOp /\ used.starts < MaxAttempts /\ stored' = 0
        /\ used' = [used EXCEPT !.starts = @ + 1]
    BY DEF Oauth!BeginStart, Oauth!Count
  <2>2. used' \in Counts /\ used'.starts = used.starts + 1 /\ used'.starts \in Oauth!Attempts
    <3>1. used \in Counts /\ used.starts \in 0..MaxAttempts
      BY <1>1 DEF Fits, Counts
    <3>2. used.starts + 1 \in 1..MaxAttempts /\ used.starts + 1 \in 0..MaxAttempts
      BY <2>1, <3>1, OauthBounds
    <3>3. [used EXCEPT !.starts = used.starts + 1] \in Counts
      BY ONLY <3>1, <3>2 DEF Counts
    <3>4. [used EXCEPT !.starts = used.starts + 1].starts = used.starts + 1
      BY ONLY <3>1 DEF Counts
    <3> QED BY <2>1, <3>2, <3>3, <3>4 DEF Oauth!Attempts
  <2>3. op' \in Ops /\ op'.kind = "start" /\ op'.step = "discover" /\ op'.id = used'.starts
    <3>1. op' = [Oauth!NoOp EXCEPT !.kind = "start", !.step = "discover", !.id = used.starts + 1]
      BY DEF Oauth!BeginStart
    <3>2. used.starts + 1 \in 0..MaxAttempts
      BY <2>2, OauthBounds DEF Oauth!Attempts
    <3>3. LET n == [Oauth!NoOp EXCEPT !.kind = "start", !.step = "discover", !.id = used.starts + 1] IN
          n \in Ops /\ n.kind = "start" /\ n.step = "discover" /\ n.id = used.starts + 1
      BY ONLY <3>2, NoOpIsOp DEF Ops
    <3> QED BY <2>2, <3>1, <3>3
  <2> DEFINE new == [Oauth!NoAttempt EXCEPT !.source = s, !.browser = b, !.revision = revision,
                                            !.registered = registered[s]]
  <2>4. new \in AttemptRecords /\ new.source = s /\ new.browser = b
    BY <1>1, NoAttemptIsRecord DEF AttemptRecords, Fits
  <2>5. attempt' = [attempt EXCEPT ![used'.starts] = new]
    BY <2>2 DEF Oauth!BeginStart
  <2> HIDE DEF new
  <2>6. attempt' \in [Oauth!Attempts -> AttemptRecords]
    BY <1>1, <2>2, <2>4, <2>5 DEF Fits
  <2> QED BY <1>1, <2>1, <2>2, <2>3, <2>4, <2>5, <2>6 DEF Fits
<1>4. Fits'
  BY <1>1, <1>2, <1>3, OauthBounds
  DEF Fits
<1>5. Numbered'
  <2>1. used.starts \in Nat
    BY <1>1, OauthBounds DEF Fits, Counts
  <2>2. \A a \in Oauth!Attempts : a \in Nat /\ (a > used'.starts => a > used.starts)
    BY <1>3, <2>1 DEF Oauth!Attempts
  <2>3. \A a \in Oauth!Attempts : a <= used'.starts => a <= used.starts \/ a = used'.starts
    BY <1>3, <2>1 DEF Oauth!Attempts
  <2>4. \A a \in Oauth!Attempts : a <= used'.starts =>
          attempt'[a].source \in OauthSources /\ attempt'[a].browser \in OauthBrowsers
    BY <1>1, <1>3, <2>3 DEF Numbered
  <2> QED BY <1>1, <1>2, <2>2, <2>4 DEF Numbered, Unused
<1>6. StoredIsNewest'
  BY <1>1, <1>2, <1>3, OauthBounds
  DEF StoredIsNewest, Unused, Fits
<1>7. OperationIsNewest'
  BY <1>1, <1>2, <1>3, OauthBounds
  DEF OperationIsNewest, Unused, Numbered, Counts, Oauth!Attempts, Fits
<1>8. Established'
  BY <1>1, <1>2, <1>3, OauthBounds
  DEF Established, Narrow, Oauth!Attempts, Fits
<1>9. Imported'
  <2>1. \A i \in imports : i.id \in Oauth!Attempts /\ i.id # used.starts + 1
    BY <1>1, OauthBounds DEF Fits, Imports, Numbered, Unused, Counts, Oauth!Attempts
  <2>2. \A i \in imports : attempt'[i.id] = attempt[i.id]
    BY <1>3, <2>1
  <2> QED BY <1>1, <1>2, <2>2 DEF Imported, Narrow
<1> QED BY <1>4, <1>5, <1>6, <1>7, <1>8, <1>9 DEF ConsentInv

\* What is requested is a set of scopes.
LEMMA OauthDiscoverHolds ==
  ASSUME ConsentInv, Oauth!Discover
  PROVE  ConsentInv'
<1>1. /\ Fits /\ Numbered /\ StoredIsNewest /\ OperationIsNewest /\ Established /\ Imported
  BY DEF ConsentInv
<1>2. UNCHANGED <<stored, revision, installed, registered, cookie, grant, exchanges, imports,
                  used>>
  BY DEF Oauth!Discover
<1>3. /\ op.step = "discover" /\ op.kind = "start" /\ op.id \in Oauth!Attempts
      /\ op' \in Ops /\ op'.kind = "start" /\ op'.step = "register" /\ op'.id = op.id
      /\ attempt' \in [Oauth!Attempts -> AttemptRecords]
      /\ \A a \in Oauth!Attempts : a # op.id => attempt'[a] = attempt[a]
      /\ attempt'[op.id].source = attempt[op.id].source
      /\ attempt'[op.id].browser = attempt[op.id].browser
  <2>1. /\ op.step = "discover" /\ op.kind = "start" /\ op.id \in Oauth!Attempts
        /\ op' = [op EXCEPT !.step = "register"]
    BY <1>1 DEF Oauth!Discover, OperationIsNewest
  <2>2. op' \in Ops /\ op'.kind = "start" /\ op'.step = "register" /\ op'.id = op.id
    BY <1>1, <2>1, OpMoves DEF Fits
  <2>3. attempt[op.id] \in AttemptRecords /\ attempt[op.id].source \in OauthSources
    BY <1>1, <2>1 DEF Fits, Numbered, OperationIsNewest, Counts
  <2>4. PICK scopes \in SUBSET Oauth!Scopes : attempt' = [attempt EXCEPT ![op.id].requested = scopes]
    <3> DEFINE a == attempt[op.id]
               known == a.source \in installed /\ a.registered # None
    <3>1. PICK supported \in Advertised :
             LET scopes == IF known THEN a.registered ELSE Oauth!SourceScopes(a.source, supported) IN
             /\ Oauth!SourceScopes(a.source, supported) # None
             /\ attempt' = [attempt EXCEPT ![op.id].requested = scopes]
      BY DEF Oauth!Discover
    <3>2. supported \subseteq Oauth!Scopes
      BY ScopesFit
    <3>3. Oauth!SourceScopes(a.source, supported) \in SUBSET Oauth!Scopes
      BY <2>3, <3>1, <3>2, OauthKinds DEF Oauth!SourceScopes, Oauth!TicketScopes, Oauth!AdsScopes,
        Oauth!Scopes
    <3>4. known => a.registered \in SUBSET Oauth!Scopes
      BY <2>3 DEF AttemptRecords, Registered
    <3> QED BY <3>1, <3>3, <3>4
  <2>5. /\ attempt' \in [Oauth!Attempts -> AttemptRecords]
        /\ \A a \in Oauth!Attempts : a # op.id => attempt'[a] = attempt[a]
        /\ attempt'[op.id] = [attempt[op.id] EXCEPT !.requested = scopes]
    <3>1. [attempt[op.id] EXCEPT !.requested = scopes] \in AttemptRecords
      BY ONLY <2>3, <2>4 DEF AttemptRecords
    <3>2. attempt \in [Oauth!Attempts -> AttemptRecords]
      BY <1>1 DEF Fits
    <3> QED BY <2>1, <2>4, <3>1, <3>2
  <2>6. /\ attempt'[op.id].source = attempt[op.id].source
        /\ attempt'[op.id].browser = attempt[op.id].browser
    BY <2>3, <2>5 DEF AttemptRecords
  <2> QED BY <2>1, <2>2, <2>5, <2>6
<1>4. StoredIsNewest'
  BY <1>1, <1>2 DEF StoredIsNewest, Unused
<1>5. Fits'
  BY <1>1, <1>2, <1>3, OauthBounds
  DEF Fits
<1>6. Numbered'
  BY <1>1, <1>2, <1>3, OauthBounds
  DEF Numbered, Unused, Counts, Oauth!Attempts, Fits
<1>7. OperationIsNewest'
  BY <1>1, <1>2, <1>3, OauthBounds
  DEF OperationIsNewest, Unused, Counts, Oauth!Attempts, Fits
<1>8. Established'
  BY <1>1, <1>2, <1>3, OauthBounds
  DEF Established, Narrow, Oauth!Attempts, Fits
<1>9. Imported'
  BY <1>1, <1>3, <1>2 DEF Fits, Imports, OperationIsNewest, Unused, Imported, Narrow
<1> QED BY <1>4, <1>5, <1>6, <1>7, <1>8, <1>9 DEF ConsentInv

\* A start that fails leaves an attempt that is not stored.
LEMMA OauthStartFailsHolds ==
  ASSUME ConsentInv, Oauth!StartFails
  PROVE  ConsentInv'
BY OauthBounds, NoOpIsOp DEF ConsentInv, Oauth!StartFails, Fits, Numbered, StoredIsNewest, Imported,
  Imports, Narrow, Unused, OperationIsNewest, Established

\* The attempt is stored.
LEMMA OauthRegisterHolds ==
  ASSUME ConsentInv, Oauth!Register
  PROVE  ConsentInv'
<1>1. /\ Fits /\ Numbered /\ StoredIsNewest /\ OperationIsNewest /\ Established /\ Imported
  BY DEF ConsentInv
<1>2. UNCHANGED <<revision, installed, registered, grant, exchanges, imports, used>>
  BY DEF Oauth!Register
<1>3. /\ op.kind = "start" /\ op.id \in Oauth!Attempts /\ stored' = op.id /\ op' = Oauth!NoOp
      /\ cookie' \in [OauthBrowsers -> 0..MaxAttempts]
      /\ attempt' \in [Oauth!Attempts -> AttemptRecords]
      /\ \A a \in Oauth!Attempts : a # op.id => attempt'[a] = attempt[a]
      /\ attempt'[op.id].source = attempt[op.id].source
      /\ attempt'[op.id].browser = attempt[op.id].browser
  <2>1. /\ op.step = "register" /\ op.kind = "start" /\ op.id \in Oauth!Attempts /\ stored' = op.id
        /\ op' = Oauth!NoOp
        /\ attempt' = [attempt EXCEPT ![op.id].open = TRUE]
        /\ cookie' \in {cookie, [cookie EXCEPT ![attempt[op.id].browser] = op.id]}
    BY <1>1 DEF Oauth!Register, OperationIsNewest
  <2>2. attempt[op.id] \in AttemptRecords /\ attempt \in [Oauth!Attempts -> AttemptRecords]
    BY <1>1, <2>1 DEF Fits
  <2>3. /\ [attempt[op.id] EXCEPT !.open = TRUE] \in AttemptRecords
        /\ [attempt[op.id] EXCEPT !.open = TRUE].source = attempt[op.id].source
        /\ [attempt[op.id] EXCEPT !.open = TRUE].browser = attempt[op.id].browser
    BY ONLY <2>2 DEF AttemptRecords
  <2>4. attempt' \in [Oauth!Attempts -> AttemptRecords]
    BY <2>1, <2>2, <2>3
  <2>5. cookie' \in [OauthBrowsers -> 0..MaxAttempts]
    BY <1>1, <2>1 DEF Fits, Oauth!Attempts
  <2> QED BY <2>1, <2>2, <2>3, <2>4, <2>5
<1>4. Fits'
  BY <1>1, <1>2, <1>3, OauthBounds, NoOpIsOp
  DEF Fits, Oauth!Attempts
<1>5. Numbered'
  BY <1>1, <1>2, <1>3, OauthBounds
  DEF Numbered, Unused, Counts, Oauth!Attempts, Fits
<1>6. StoredIsNewest'
  BY <1>1, <1>2, <1>3, OauthBounds
  DEF StoredIsNewest, Unused, OperationIsNewest, Fits
<1>7. OperationIsNewest'
  BY <1>1, <1>2, <1>3, OauthBounds, NoOpIsOp
  DEF OperationIsNewest, Unused, Counts, Oauth!Attempts, Fits
<1>8. Established'
  BY <1>1, <1>2, <1>3, OauthBounds, NoOpIsOp
  DEF Established, Narrow, Oauth!Attempts, Fits
<1>9. Imported'
  BY <1>1, <1>3, <1>2 DEF Fits, Imports, OperationIsNewest, Unused, Imported, Narrow
<1> QED BY <1>4, <1>5, <1>6, <1>7, <1>8, <1>9 DEF ConsentInv

\* Consent is given at the provider.
LEMMA OauthConsentHolds ==
  ASSUME ConsentInv, NEW a \in Oauth!Attempts, Oauth!Consent(a)
  PROVE  ConsentInv'
BY OauthBounds DEF ConsentInv, Oauth!Consent, Fits, Numbered, StoredIsNewest, OperationIsNewest,
  Established, Imported, Imports, Narrow, Unused

\* Only the stored attempt expires, and only that changes of it.
LEMMA OauthExpireHolds ==
  ASSUME ConsentInv, NEW a \in Oauth!Attempts, Oauth!Expire(a)
  PROVE  ConsentInv'
<1>1. /\ Fits /\ Numbered /\ StoredIsNewest /\ OperationIsNewest /\ Established /\ Imported
  BY DEF ConsentInv
<1>2. UNCHANGED <<stored, op, revision, installed, registered, cookie, grant, exchanges, imports,
                  used>>
  BY DEF Oauth!Expire
<1>3. /\ attempt' \in [Oauth!Attempts -> AttemptRecords]
      /\ a # 0 /\ a = stored
      /\ \A x \in Oauth!Attempts : x # a => attempt'[x] = attempt[x]
      /\ attempt'[a] = [attempt[a] EXCEPT !.late = TRUE]
      /\ \A x \in Oauth!Attempts : attempt'[x].source = attempt[x].source
      /\ \A x \in Oauth!Attempts : attempt'[x].browser = attempt[x].browser
      /\ \A x \in Oauth!Attempts : attempt'[x].revision = attempt[x].revision
      /\ \A x \in Oauth!Attempts : attempt'[x].registered = attempt[x].registered
      /\ \A x \in Oauth!Attempts : attempt'[x].requested = attempt[x].requested
  <2>1. attempt' = [attempt EXCEPT ![a].late = TRUE] /\ a = stored
    BY DEF Oauth!Expire
  <2>2. attempt[a] \in AttemptRecords /\ attempt \in [Oauth!Attempts -> AttemptRecords]
    BY <1>1 DEF Fits
  <2>3. /\ [attempt[a] EXCEPT !.late = TRUE] \in AttemptRecords
        /\ [attempt[a] EXCEPT !.late = TRUE].source = attempt[a].source
        /\ [attempt[a] EXCEPT !.late = TRUE].browser = attempt[a].browser
        /\ [attempt[a] EXCEPT !.late = TRUE].revision = attempt[a].revision
        /\ [attempt[a] EXCEPT !.late = TRUE].registered = attempt[a].registered
        /\ [attempt[a] EXCEPT !.late = TRUE].requested = attempt[a].requested
    BY ONLY <2>2 DEF AttemptRecords
  <2>4. attempt' \in [Oauth!Attempts -> AttemptRecords]
    BY <2>1, <2>2, <2>3
  <2>5. a # 0
    BY DEF Oauth!Attempts
  <2> QED BY <2>1, <2>2, <2>3, <2>4, <2>5
<1>4. StoredIsNewest'
  BY <1>1, <1>2 DEF StoredIsNewest, Unused
<1>5. Fits'
  BY <1>1, <1>2, <1>3, OauthBounds
  DEF Fits
<1>6. Numbered'
  BY <1>1, <1>2, <1>3, OauthBounds
  DEF Numbered, Unused, Fits
<1>7. OperationIsNewest'
  BY <1>1, <1>2, <1>3, OauthBounds
  DEF OperationIsNewest, Unused, Fits
<1>8. Established'
  BY <1>1, <1>2, <1>3 DEF Established, OperationIsNewest, Fits
<1>9. Imported'
  BY <1>1, <1>2, <1>3 DEF Fits, Imports, Imported, Narrow
<1> QED BY <1>4, <1>5, <1>6, <1>7, <1>8, <1>9 DEF ConsentInv

\* The sources change only while nothing runs.
LEMMA OauthEditHolds ==
  ASSUME ConsentInv, Oauth!Edit
  PROVE  ConsentInv'
BY OauthBounds, NoOpIsOp DEF ConsentInv, Oauth!Edit, Oauth!Count, Fits, Counts, Imported, Imports,
  Narrow, Numbered, Unused, StoredIsNewest, OperationIsNewest, Established

\* A change by hand marks the callback that runs.
LEMMA OauthDriftHolds ==
  ASSUME ConsentInv, NEW s \in OauthSources, Oauth!Drift(s)
  PROVE  ConsentInv'
<1>1. /\ Fits /\ Numbered /\ StoredIsNewest /\ OperationIsNewest /\ Established /\ Imported
  BY DEF ConsentInv
<1>2. UNCHANGED <<stored, attempt, revision, installed, cookie, grant, exchanges, imports>>
  BY DEF Oauth!Drift, Oauth!Count
<1>3. /\ registered' \in [OauthSources -> Registered]
      /\ op' \in Ops /\ op'.drifted = (op.kind = "finish")
      /\ /\ op'.kind = op.kind /\ op'.step = op.step /\ op'.id = op.id
         /\ op'.browser = op.browser /\ op'.answer = op.answer
      /\ op = Oauth!NoOp => op' = Oauth!NoOp
      /\ used' \in Counts /\ used'.starts = used.starts
  <2>1. /\ registered' = [registered EXCEPT ![s] = {"read", "write"}]
        /\ op' = [op EXCEPT !.drifted = op.kind = "finish"]
        /\ used' = [used EXCEPT !.drifts = @ + 1]
    BY DEF Oauth!Drift, Oauth!Count
  <2>2. registered' \in [OauthSources -> Registered]
    BY <1>1, <2>1 DEF Fits, Registered, Oauth!Scopes
  <2>3. op \in Ops /\ (op.kind = "finish") \in BOOLEAN
    BY <1>1 DEF Fits
  <2>4. /\ op' \in Ops /\ op'.drifted = (op.kind = "finish")
        /\ op'.kind = op.kind /\ op'.step = op.step /\ op'.id = op.id
        /\ op'.browser = op.browser /\ op'.answer = op.answer
    BY <2>1, <2>3 DEF Ops
  <2>5. op = Oauth!NoOp => op' = Oauth!NoOp
    BY NoOpIsOp, <2>1 DEF Oauth!NoOp, Ops
  <2>6. used' \in Counts /\ used'.starts = used.starts
    BY <1>1, <2>1 DEF Fits, Counts
  <2> QED BY <2>2, <2>4, <2>5, <2>6
<1>4. Imported'
  BY <1>1, <1>2 DEF Imported, Imports, Narrow
<1>5. Fits'
  BY <1>1, <1>2, <1>3, OauthBounds
  DEF Fits
<1>6. Numbered'
  BY <1>1, <1>2, <1>3, OauthBounds
  DEF Numbered, Unused, Fits
<1>7. StoredIsNewest'
  BY <1>1, <1>2, <1>3, OauthBounds
  DEF StoredIsNewest, Unused, Fits
<1>8. OperationIsNewest'
  BY <1>1, <1>2, <1>3, OauthBounds
  DEF OperationIsNewest, Unused, Fits
<1>9. Established'
  BY <1>1, <1>3, <1>2 DEF OperationIsNewest, Ops, Fits, Established, Narrow
<1> QED BY <1>4, <1>5, <1>6, <1>7, <1>8, <1>9 DEF ConsentInv

\* The attempt is consumed by the callback that matches it.
LEMMA OauthCallbackHolds ==
  ASSUME ConsentInv, NEW a \in Oauth!Attempts, NEW b \in OauthBrowsers, Oauth!Callback(a, b)
  PROVE  ConsentInv'
<1>1. /\ Fits /\ Numbered /\ StoredIsNewest /\ OperationIsNewest /\ Established /\ Imported
  BY DEF ConsentInv
<1>2. UNCHANGED <<attempt, revision, installed, registered, grant, exchanges, imports>>
  BY DEF Oauth!Callback, Oauth!Count
<1>3. /\ op = Oauth!NoOp /\ cookie' \in [OauthBrowsers -> 0..MaxAttempts]
      /\ used' \in Counts /\ used'.starts = used.starts
      /\ \/ UNCHANGED <<stored, op>>
         \/ op' = Oauth!NoOp /\ stored' = 0
         \/ /\ stored = a /\ a # 0 /\ attempt[a].browser = b /\ stored' = 0 /\ op' \in Ops
            /\ op'.kind = "finish" /\ op'.step = "check" /\ op'.id = a /\ op'.browser = b
  <2>1. op = Oauth!NoOp /\ used' = [used EXCEPT !.arrivals = @ + 1]
    BY DEF Oauth!Callback, Oauth!Count
  <2>2. used' \in Counts /\ used'.starts = used.starts
    BY <1>1, <2>1 DEF Fits, Counts
  <2>3. cookie \in [OauthBrowsers -> 0..MaxAttempts] /\ a # 0
    BY <1>1 DEF Fits, Oauth!Attempts
  <2>4. [cookie EXCEPT ![b] = 0] \in [OauthBrowsers -> 0..MaxAttempts]
    BY <2>3, OauthBounds
  <2>5. CASE ~Oauth!Matches(a, b)
    BY <2>1, <2>2, <2>3, <2>4, <2>5 DEF Oauth!Callback
  <2>6. CASE Oauth!Matches(a, b) /\ (attempt[a].late \/ grant[a] = "denied")
    BY <2>1, <2>2, <2>3, <2>4, <2>6 DEF Oauth!Callback, Oauth!Consumed
  <2>7. CASE Oauth!Matches(a, b) /\ ~(attempt[a].late \/ grant[a] = "denied")
    <3>1. /\ stored' = 0 /\ UNCHANGED cookie /\ stored = a /\ attempt[a].browser = b
          /\ op' = [Oauth!NoOp EXCEPT !.kind = "finish", !.step = "check", !.id = a, !.browser = b]
      BY <2>7 DEF Oauth!Callback, Oauth!Consumed, Oauth!Matches
    <3>2. /\ op' \in Ops /\ op'.kind = "finish" /\ op'.step = "check" /\ op'.id = a
          /\ op'.browser = b
      <4>1. a \in 0..MaxAttempts
        BY OauthBounds DEF Oauth!Attempts
      <4>2. LET n == [Oauth!NoOp EXCEPT !.kind = "finish", !.step = "check", !.id = a, !.browser = b] IN
            n \in Ops /\ n.kind = "finish" /\ n.step = "check" /\ n.id = a /\ n.browser = b
        BY ONLY <4>1, NoOpIsOp, b \in OauthBrowsers DEF Ops
      <4> QED BY <3>1, <4>2
    <3> QED BY <2>1, <2>2, <2>3, <3>1, <3>2
  <2> QED BY <2>5, <2>6, <2>7
<1>4. Imported'
  BY <1>1, <1>2 DEF Imported, Imports, Narrow
<1>5. Fits'
  BY <1>1, <1>2, <1>3, OauthBounds, NoOpIsOp
  DEF Fits
<1>6. Numbered'
  BY <1>1, <1>2, <1>3, OauthBounds
  DEF Numbered, Unused, Fits
<1>7. StoredIsNewest'
  BY <1>1, <1>2, <1>3, OauthBounds
  DEF StoredIsNewest, Unused, Fits
<1>8. OperationIsNewest'
  BY <1>1, <1>2, <1>3, OauthBounds, NoOpIsOp
  DEF OperationIsNewest, Unused, StoredIsNewest, Fits
<1>9. Established'
  BY <1>1, <1>2, <1>3, OauthBounds, NoOpIsOp
  DEF Established, Narrow, Fits
<1> QED BY <1>4, <1>5, <1>6, <1>7, <1>8, <1>9 DEF ConsentInv

\* The callback goes on, or ends.
LEMMA OauthCheckHolds ==
  ASSUME ConsentInv, Oauth!Check
  PROVE  ConsentInv'
<1>1. /\ Fits /\ Numbered /\ StoredIsNewest /\ OperationIsNewest /\ Established /\ Imported
  BY DEF ConsentInv
<1>2. UNCHANGED <<stored, attempt, revision, installed, registered, grant, exchanges, imports,
                  used>>
  BY DEF Oauth!Check
<1>3. /\ op.step = "check" /\ op.kind = "finish" /\ cookie' \in [OauthBrowsers -> 0..MaxAttempts]
      /\ \/ op' = Oauth!NoOp
         \/ /\ op' \in Ops /\ op'.kind = op.kind /\ op'.step = "exchange" /\ op'.id = op.id
            /\ op'.browser = op.browser
  <2>9. Oauth!Leave => op' = Oauth!NoOp /\ cookie' \in [OauthBrowsers -> 0..MaxAttempts]
    <3>1. cookie \in [OauthBrowsers -> 0..MaxAttempts] /\ op \in Ops
      BY <1>1 DEF Fits
    <3>2. 0 \in 0..MaxAttempts
      BY OauthBounds
    <3>3. [cookie EXCEPT ![op.browser] = 0] \in [OauthBrowsers -> 0..MaxAttempts]
      BY ONLY <3>1, <3>2
    <3> QED BY <3>1, <3>3 DEF Oauth!Leave
  <2>1. op.step = "check" /\ op.kind = "finish" /\ op \in Ops
    BY <1>1 DEF Oauth!Check, OperationIsNewest, Fits, Ops
  <2>2. LET n == [op EXCEPT !.step = "exchange"] IN
        /\ n \in Ops /\ n.kind = op.kind /\ n.step = "exchange" /\ n.id = op.id
        /\ n.browser = op.browser
    BY <2>1 DEF Ops
  <2>3. cookie \in [OauthBrowsers -> 0..MaxAttempts]
    BY <1>1 DEF Fits
  <2>4. Oauth!Leave \/ (op' = [op EXCEPT !.step = "exchange"] /\ UNCHANGED cookie)
    BY DEF Oauth!Check
  <2> QED BY <2>1, <2>2, <2>3, <2>4, <2>9
<1>4. Numbered' /\ StoredIsNewest' /\ Imported'
  BY <1>1, <1>2 DEF Numbered, StoredIsNewest, Imported, Imports, Narrow, Unused
<1>5. Fits'
  BY <1>1, <1>2, <1>3, OauthBounds, NoOpIsOp
  DEF Fits
<1>6. OperationIsNewest'
  BY <1>1, <1>2, <1>3, OauthBounds, NoOpIsOp
  DEF OperationIsNewest, Unused, Fits
<1>7. Established'
  BY <1>1, <1>2, <1>3, OauthBounds, NoOpIsOp
  DEF Established, Narrow, Fits
<1> QED BY <1>4, <1>5, <1>6, <1>7 DEF ConsentInv

\* The code is spent once: the attempt was unused.
LEMMA OauthExchangeHolds ==
  ASSUME ConsentInv, Oauth!Exchange
  PROVE  ConsentInv'
<1>1. /\ Fits /\ Numbered /\ StoredIsNewest /\ OperationIsNewest /\ Established /\ Imported
  BY DEF ConsentInv
<1>2. UNCHANGED <<stored, attempt, revision, installed, registered, imports, used>>
  BY DEF Oauth!Exchange
<1>3. /\ op.step = "exchange" /\ op.kind = "finish" /\ op.id \in Oauth!Attempts
      /\ cookie' \in [OauthBrowsers -> 0..MaxAttempts]
      /\ grant' \in [Oauth!Attempts -> {None, "code", "denied", "spent"}]
      /\ exchanges' \in [Oauth!Attempts -> Nat] /\ exchanges'[op.id] = exchanges[op.id] + 1
      /\ \A x \in Oauth!Attempts : x # op.id => exchanges'[x] = exchanges[x]
      /\ \/ op' = Oauth!NoOp
         \/ /\ op' \in Ops /\ op'.kind = op.kind /\ op'.step = "scope" /\ op'.id = op.id
            /\ op'.browser = op.browser
            /\ op'.answer \in Oauth!Answers(attempt[op.id])
  <2>9. Oauth!Leave => op' = Oauth!NoOp /\ cookie' \in [OauthBrowsers -> 0..MaxAttempts]
    <3>1. cookie \in [OauthBrowsers -> 0..MaxAttempts] /\ op \in Ops
      BY <1>1 DEF Fits
    <3>2. 0 \in 0..MaxAttempts
      BY OauthBounds
    <3>3. [cookie EXCEPT ![op.browser] = 0] \in [OauthBrowsers -> 0..MaxAttempts]
      BY ONLY <3>1, <3>2
    <3> QED BY <3>1, <3>3 DEF Oauth!Leave
  <2>1. op.step = "exchange" /\ op.kind = "finish" /\ op \in Ops /\ op.id \in Oauth!Attempts
    BY <1>1 DEF Oauth!Exchange, OperationIsNewest, Fits, Ops
  <2>2. /\ exchanges' = [exchanges EXCEPT ![op.id] = @ + 1]
        /\ grant' = [grant EXCEPT ![op.id] = "spent"]
        /\ \/ /\ (\E g \in Oauth!Answers(attempt[op.id]) : op' = [op EXCEPT !.step = "scope",
                   !.answer = g])
              /\ UNCHANGED cookie
           \/ Oauth!Leave
    BY DEF Oauth!Exchange
  <2>3. ASSUME NEW g \in Oauth!Answers(attempt[op.id])
        PROVE  LET n == [op EXCEPT !.step = "scope", !.answer = g] IN
               /\ n \in Ops /\ n.kind = op.kind /\ n.step = "scope" /\ n.id = op.id
               /\ n.browser = op.browser /\ n.answer = g
    BY <2>1 DEF Oauth!Answers, Granted, Registered, Ops
  <2>4. cookie' \in [OauthBrowsers -> 0..MaxAttempts]
    BY <1>1, <2>2, <2>9 DEF Fits
  <2>5. grant' \in [Oauth!Attempts -> {None, "code", "denied", "spent"}]
    BY <1>1, <2>2 DEF Fits
  <2>6. /\ exchanges' \in [Oauth!Attempts -> Nat] /\ exchanges'[op.id] = exchanges[op.id] + 1
        /\ \A x \in Oauth!Attempts : x # op.id => exchanges'[x] = exchanges[x]
    <3>1. exchanges \in [Oauth!Attempts -> Nat] /\ exchanges[op.id] + 1 \in Nat
      BY <1>1, <2>1 DEF Fits
    <3>2. exchanges' = [exchanges EXCEPT ![op.id] = exchanges[op.id] + 1]
      BY <2>2
    <3> QED BY ONLY <2>1, <3>1, <3>2
  <2>7. CASE \E g \in Oauth!Answers(attempt[op.id]) : op' = [op EXCEPT !.step = "scope", !.answer = g]
    <3>1. PICK g \in Oauth!Answers(attempt[op.id]) : op' = [op EXCEPT !.step = "scope", !.answer = g]
      BY <2>7
    <3> QED BY <2>1, <2>3, <2>4, <2>5, <2>6, <3>1
  <2> QED BY <2>1, <2>2, <2>4, <2>5, <2>6, <2>7, <2>9
<1>4. Fits'
  BY <1>1, <1>2, <1>3, OauthBounds, NoOpIsOp
  DEF Fits
<1>5. Numbered'
  BY <1>1, <1>2, <1>3, OauthBounds
  DEF Numbered, Unused, OperationIsNewest, Oauth!Attempts, Counts, Fits
<1>6. StoredIsNewest'
  BY <1>1, <1>2, <1>3, OauthBounds
  DEF StoredIsNewest, Unused, OperationIsNewest, Oauth!Attempts, Fits
<1>7. OperationIsNewest'
  BY <1>1, <1>2, <1>3, OauthBounds, NoOpIsOp
  DEF OperationIsNewest, Unused, Oauth!Attempts, Fits
<1>8. Established'
  BY <1>1, <1>2, <1>3, OauthBounds, NoOpIsOp
  DEF Established, Narrow, Oauth!Attempts, Fits
<1>9. Imported'
  BY <1>1, <1>3, <1>2 DEF OperationIsNewest, Unused, Imported, Fits, Narrow
<1> QED BY <1>4, <1>5, <1>6, <1>7, <1>8, <1>9 DEF ConsentInv

\* What was granted is what may be granted.
LEMMA OauthVerifyScopeHolds ==
  ASSUME ConsentInv, Oauth!VerifyScope
  PROVE  ConsentInv'
<1>1. /\ Fits /\ Numbered /\ StoredIsNewest /\ OperationIsNewest /\ Established /\ Imported
  BY DEF ConsentInv
<1>2. UNCHANGED <<stored, attempt, revision, installed, registered, grant, exchanges, imports,
                  used>>
  BY DEF Oauth!VerifyScope
<1>3. /\ op.step = "scope" /\ op.kind = "finish" /\ op.id \in Oauth!Attempts
      /\ cookie' \in [OauthBrowsers -> 0..MaxAttempts]
      /\ \/ op' = Oauth!NoOp
         \/ /\ op' \in Ops /\ op'.kind = op.kind /\ op'.step = "recheck" /\ op'.id = op.id
            /\ op'.browser = op.browser
            /\ op'.answer = op.answer /\ Narrow(attempt[op.id], op.answer.actual)
  <2>9. Oauth!Leave => op' = Oauth!NoOp /\ cookie' \in [OauthBrowsers -> 0..MaxAttempts]
    <3>1. cookie \in [OauthBrowsers -> 0..MaxAttempts] /\ op \in Ops
      BY <1>1 DEF Fits
    <3>2. 0 \in 0..MaxAttempts
      BY OauthBounds
    <3>3. [cookie EXCEPT ![op.browser] = 0] \in [OauthBrowsers -> 0..MaxAttempts]
      BY ONLY <3>1, <3>2
    <3> QED BY <3>1, <3>3 DEF Oauth!Leave
  <2>1. op.step = "scope" /\ op.kind = "finish" /\ op \in Ops /\ op.id \in Oauth!Attempts
    BY <1>1 DEF Oauth!VerifyScope, OperationIsNewest, Fits, Ops
  <2>2. op.answer \in Oauth!Answers(attempt[op.id]) /\ attempt[op.id].source \in OauthSources
    BY <1>1, <2>1 DEF Established, Numbered, OperationIsNewest, Fits, Counts
  <2> DEFINE a == attempt[op.id]
             g == op.answer
             confirmed == Oauth!ConfirmedScope(a.source, g)
             Goes == /\ Oauth!ScopeVerified(a.source, confirmed, a.requested)
                     /\ a.source \in installed /\ confirmed # None
                          => Oauth!ReconnectVerified(a.source, confirmed, a.requested)
                     /\ op' = [op EXCEPT !.step = "recheck"] /\ UNCHANGED cookie
  <2>3. Goes \/ Oauth!Leave
    BY DEF Oauth!VerifyScope
  <2>4. CASE Goes
    BY <2>2, ScopesFit, <2>4, <1>1, <2>1, OpMoves DEF Oauth!Answers, Registered,
      Oauth!ScopeVerified, Oauth!ConfirmedScope, Oauth!ReconnectVerified, Narrow, Fits
  <2>5. CASE Oauth!Leave
    BY <2>1, <2>5, <2>9
  <2> QED BY <2>3, <2>4, <2>5
<1>4. Numbered' /\ StoredIsNewest' /\ Imported'
  BY <1>1, <1>2 DEF Numbered, StoredIsNewest, Imported, Imports, Narrow, Unused
<1>5. Fits'
  BY <1>1, <1>2, <1>3, OauthBounds, NoOpIsOp
  DEF Fits
<1>6. OperationIsNewest'
  BY <1>1, <1>2, <1>3, OauthBounds, NoOpIsOp
  DEF OperationIsNewest, Unused, Oauth!Attempts, Fits
<1>7. Established'
  BY <1>1, <1>2, <1>3, NoOpIsOp DEF Established, Narrow, Fits
<1> QED BY <1>4, <1>5, <1>6, <1>7 DEF ConsentInv

\* Nothing changed before the write.
LEMMA OauthRecheckHolds ==
  ASSUME ConsentInv, Oauth!Recheck
  PROVE  ConsentInv'
<1>1. /\ Fits /\ Numbered /\ StoredIsNewest /\ OperationIsNewest /\ Established /\ Imported
  BY DEF ConsentInv
<1>2. UNCHANGED <<stored, attempt, revision, installed, registered, grant, exchanges, imports,
                  used>>
  BY DEF Oauth!Recheck
<1>3. /\ op.step = "recheck" /\ op.kind = "finish" /\ op.id \in Oauth!Attempts
      /\ cookie' \in [OauthBrowsers -> 0..MaxAttempts]
      /\ \/ op' = Oauth!NoOp
         \/ /\ op' \in Ops /\ op'.kind = op.kind /\ op'.step = "import" /\ op'.id = op.id
            /\ op'.browser = op.browser
            /\ op'.answer = op.answer /\ revision = attempt[op.id].revision
            /\ registered[attempt[op.id].source] = attempt[op.id].registered
  <2>9. Oauth!Leave => op' = Oauth!NoOp /\ cookie' \in [OauthBrowsers -> 0..MaxAttempts]
    <3>1. cookie \in [OauthBrowsers -> 0..MaxAttempts] /\ op \in Ops
      BY <1>1 DEF Fits
    <3>2. 0 \in 0..MaxAttempts
      BY OauthBounds
    <3>3. [cookie EXCEPT ![op.browser] = 0] \in [OauthBrowsers -> 0..MaxAttempts]
      BY ONLY <3>1, <3>2
    <3> QED BY <3>1, <3>3 DEF Oauth!Leave
  <2>1. op.step = "recheck" /\ op.kind = "finish" /\ op \in Ops /\ op.id \in Oauth!Attempts
    BY <1>1 DEF Oauth!Recheck, OperationIsNewest, Fits, Ops
  <2>2. LET n == [op EXCEPT !.step = "import", !.drifted = FALSE] IN
        /\ n \in Ops /\ n.kind = op.kind /\ n.step = "import" /\ n.id = op.id
        /\ n.browser = op.browser /\ n.answer = op.answer
    BY <2>1 DEF Ops
  <2> QED BY <1>1, <2>1, <2>2, <2>9 DEF Oauth!Recheck, Oauth!Bound, Fits
<1>4. Numbered' /\ StoredIsNewest' /\ Imported'
  BY <1>1, <1>2 DEF Numbered, StoredIsNewest, Imported, Imports, Narrow, Unused
<1>5. Fits'
  BY <1>1, <1>2, <1>3, OauthBounds, NoOpIsOp
  DEF Fits
<1>6. OperationIsNewest'
  BY <1>1, <1>2, <1>3, OauthBounds, NoOpIsOp
  DEF OperationIsNewest, Unused, Oauth!Attempts, Fits
<1>7. Established'
  BY <1>1, <1>2, <1>3, OauthBounds, NoOpIsOp
  DEF Established, Narrow, Oauth!Attempts, Fits
<1> QED BY <1>4, <1>5, <1>6, <1>7 DEF ConsentInv

\* The tokens are imported once, for what was established.
LEMMA OauthImportHolds ==
  ASSUME ConsentInv, Oauth!Import
  PROVE  ConsentInv'
<1>1. /\ Fits /\ Numbered /\ StoredIsNewest /\ OperationIsNewest /\ Established /\ Imported
  BY DEF ConsentInv
<1>2. UNCHANGED <<attempt, revision, installed, grant, exchanges, used>>
  BY DEF Oauth!Import
<1>3. /\ op.step = "import" /\ op.kind = "finish" /\ op.id \in Oauth!Attempts
      /\ cookie' \in [OauthBrowsers -> 0..MaxAttempts]
      /\ op' = Oauth!NoOp /\ stored' = 0 /\ registered' \in [OauthSources -> Registered]
      /\ \/ UNCHANGED imports
         \/ \E i \in Imports :
              /\ imports' = imports \cup {i} /\ i.id = op.id /\ i.browser = attempt[op.id].browser
              /\ i.revision = attempt[op.id].revision /\ Narrow(attempt[op.id], i.scope)
              /\ (i.before = attempt[op.id].registered \/ i.drifted)
  <2>9. Oauth!Leave => op' = Oauth!NoOp /\ cookie' \in [OauthBrowsers -> 0..MaxAttempts]
    <3>1. cookie \in [OauthBrowsers -> 0..MaxAttempts] /\ op \in Ops
      BY <1>1 DEF Fits
    <3>2. 0 \in 0..MaxAttempts
      BY OauthBounds
    <3>3. [cookie EXCEPT ![op.browser] = 0] \in [OauthBrowsers -> 0..MaxAttempts]
      BY ONLY <3>1, <3>2
    <3> QED BY <3>1, <3>3 DEF Oauth!Leave
  <2>1. /\ op.step = "import" /\ op.kind = "finish" /\ op \in Ops /\ op.id \in Oauth!Attempts
        /\ stored = 0
        /\ op.browser = attempt[op.id].browser /\ attempt[op.id].browser \in OauthBrowsers
        /\ attempt[op.id].source \in OauthSources /\ attempt[op.id] \in AttemptRecords
    BY <1>1 DEF Oauth!Import, OperationIsNewest, Fits, Ops, Numbered, Counts
  <2>2. /\ op.answer \in Oauth!Answers(attempt[op.id]) /\ Narrow(attempt[op.id], op.answer.actual)
        /\ revision = attempt[op.id].revision
        /\ registered[attempt[op.id].source] = attempt[op.id].registered \/ op.drifted
    BY <1>1, <2>1 DEF Established
  <2> DEFINE i == [id |-> op.id, browser |-> op.browser, revision |-> revision,
                   scope |-> op.answer.actual, before |-> registered[attempt[op.id].source],
                   drifted |-> op.drifted]
  <2>3. i \in Imports
    BY <2>1, <2>2, <1>1 DEF Oauth!Answers, Ops, Fits, Imports
  <2>4. /\ i.id = op.id /\ i.browser = attempt[op.id].browser
        /\ i.revision = attempt[op.id].revision
        /\ i.scope = op.answer.actual /\ (i.before = attempt[op.id].registered \/ i.drifted)
    BY <2>1, <2>2
  <2>5. op' = Oauth!NoOp /\ stored' = 0 /\ cookie' \in [OauthBrowsers -> 0..MaxAttempts]
    BY <2>1, <2>9 DEF Oauth!Import
  <2>6. \/ /\ imports' = imports \cup {i}
           /\ registered' = [registered EXCEPT ![attempt[op.id].source] = attempt[op.id].requested]
        \/ UNCHANGED <<imports, registered>>
    BY DEF Oauth!Import
  <2>7. registered' \in [OauthSources -> Registered]
    BY <1>1, <2>1, <2>6 DEF Fits, Registered, AttemptRecords
  <2> HIDE DEF i
  <2> QED BY <2>1, <2>2, <2>3, <2>4, <2>5, <2>6, <2>7
<1>4. Fits'
  BY <1>1, <1>2, <1>3, OauthBounds, NoOpIsOp
  DEF Fits
<1>5. Numbered'
  BY <1>1, <1>2, <1>3, OauthBounds
  DEF Numbered, Unused, OperationIsNewest, Counts, Fits
<1>6. StoredIsNewest'
  BY <1>1, <1>2, <1>3, OauthBounds
  DEF StoredIsNewest, Unused, Fits
<1>7. OperationIsNewest'
  BY <1>1, <1>2, <1>3, OauthBounds, NoOpIsOp
  DEF OperationIsNewest, Unused, Oauth!Attempts, Fits
<1>8. Established'
  BY <1>1, <1>2, <1>3, OauthBounds, NoOpIsOp
  DEF Established, Narrow, Oauth!Attempts, Fits
<1>9. Imported'
  BY <1>1, <1>2, <1>3, OauthBounds
  DEF Imported, Narrow, Imports, OperationIsNewest, Fits
<1> QED BY <1>4, <1>5, <1>6, <1>7, <1>8, <1>9 DEF ConsentInv

\* The operation is lost, and what it consumed.
LEMMA OauthRestartHolds ==
  ASSUME ConsentInv, Oauth!Restart
  PROVE  ConsentInv'
BY OauthBounds, NoOpIsOp DEF ConsentInv, Oauth!Restart, Oauth!Count, Fits, Counts, Imported,
  Imports, Narrow, Numbered, Unused, StoredIsNewest, OperationIsNewest, Established

\* Every step keeps the invariant.
LEMMA OauthStepHolds == ConsentInv /\ [Oauth!Next]_(Oauth!vars) => ConsentInv'
<1> SUFFICES ASSUME ConsentInv, [Oauth!Next]_(Oauth!vars)
             PROVE  ConsentInv'
  OBVIOUS
<1>1. CASE UNCHANGED Oauth!vars
  BY <1>1 DEF Oauth!vars, ConsentInv, Fits, Numbered, StoredIsNewest, OperationIsNewest,
    Established, Imported, Unused, Narrow
<1>2. CASE Oauth!Next
  BY <1>2, OauthBeginStartHolds, OauthDiscoverHolds, OauthStartFailsHolds, OauthRegisterHolds,
    OauthConsentHolds, OauthExpireHolds, OauthCallbackHolds, OauthEditHolds, OauthDriftHolds,
    OauthCheckHolds, OauthExchangeHolds, OauthVerifyScopeHolds, OauthRecheckHolds,
    OauthImportHolds, OauthRestartHolds DEF Oauth!Next
<1> QED BY <1>1, <1>2

\* And it gives the properties.
LEMMA ConsentInvIsSafe == ConsentInv => Oauth!Safe
<1> SUFFICES ASSUME ConsentInv
             PROVE  Oauth!Safe
  OBVIOUS
<1>1. Oauth!TypeOK
  BY DEF ConsentInv, Fits, Oauth!TypeOK, OperationIsNewest, Numbered, Imports, Ops, Counts,
    Registered
<1>2. Oauth!ExchangedOnce /\ Oauth!NewestOnly /\ Oauth!ConsentIsCurrent /\ Oauth!DriftIsSeen
  BY DEF ConsentInv, Oauth!ExchangedOnce, Oauth!NewestOnly, Oauth!ConsentIsCurrent,
    Oauth!DriftIsSeen, Imported, OperationIsNewest
<1>3. Oauth!NarrowScope
  BY DEF ConsentInv, Oauth!NarrowScope, Imported, Narrow
<1> QED BY <1>1, <1>2, <1>3 DEF Oauth!Safe

THEOREM ConsentSafety == Oauth!Spec => []Oauth!Safe
<1> QED BY OauthInitHolds, OauthStepHolds, ConsentInvIsSafe, PTL DEF Oauth!Spec

\* The same in the run: the behaviours of the parts "oauth" and "scopes" are those of SourceOauth.
THEOREM ConsentInRun == AnySpec => []ConsentIsSafe
<1> DEFINE Inv == part \in {"oauth", "scopes"} => ConsentInv
<1>1. AnyInit => Inv
  BY OauthInitHolds DEF AnyInit, SwitchInit, InstallInit, EditsInit, QueueInit, OauthInit,
    ScopesInit
<1>2. Inv /\ [AnyNext]_allVars => Inv'
  <2> SUFFICES ASSUME Inv, [AnyNext]_allVars, part' \in {"oauth", "scopes"}
               PROVE  ConsentInv'
    OBVIOUS
  <2>1. CASE OauthNext \/ ScopesNext
    BY <2>1, OauthStepHolds DEF OauthNext, ScopesNext
  <2>2. CASE UNCHANGED allVars
    BY <2>2, OauthStepHolds DEF allVars, Oauth!vars
  <2>3. ~(SwitchNext \/ InstallNext \/ EditsNext \/ QueueNext)
    BY DEF SwitchNext, InstallNext, EditsNext, QueueNext
  <2> QED BY <2>1, <2>2, <2>3 DEF AnyNext
<1>3. Inv => ConsentIsSafe
  BY ConsentInvIsSafe DEF ConsentIsSafe
<1> QED BY <1>1, <1>2, <1>3, PTL DEF AnySpec

\* What a request asks for, and the stages it goes through.
Kinds == {"none", "tools", "label", "draft", "check"}
Operations ==
  [kind : Kinds, src : EditSources, sel : EditChoices, lab : EditLabels, rev : Nat,
   cat : [EditSources -> SUBSET EditTools]]
StagesOf(kind) ==
  CASE kind = "none"  -> {"idle"}
    [] kind = "tools" -> {"queued", "load", "read", "raise", "arm", "journal", "put", "verify",
      "commit"}
    [] kind = "label" -> {"queued", "load", "read", "raise", "arm", "journal", "server", "portal",
                          "policy", "commit"}
    [] kind = "draft" -> {"queued", "load"}
    [] kind = "check" -> {"queued", "slot", "load", "inspect", "sync"}

EditsOpen(r)      == stage[r] # "idle"
Checks(r)    == op[r].kind = "check"
Mutates(r)   == op[r].kind \in {"tools", "label", "draft"}
Working(r)   == stage[r] \notin {"idle", "queued"}
Begun(r)     == Working(r) /\ stage[r] # "load"
Holding(r)   == Checks(r) /\ stage[r] \in {"load", "inspect", "sync"}

(* The requests.                                                            *)
RequestsFit ==
  /\ stage \in [EditRequests -> Edits!Stages] /\ op \in [EditRequests -> Operations]
  /\ after \in [EditRequests -> SUBSET EditRequests] /\ tail \subseteq EditRequests
  /\ checksAfter \subseteq SUBSET EditRequests /\ active \in 0..CheckLimit
  /\ slots \in Seq(EditRequests)
  /\ \A r \in EditRequests : stage[r] \in StagesOf(op[r].kind)

\* The requests arrived in some order: each mutation has a place of its own, a check the place of the
\* mutation before it, and t is the last place.  Whoever has somebody ahead waits.
EditsAhead(n, q, r) == n[q] < n[r] \/ (n[q] = n[r] /\ ~Checks(q) /\ Checks(r))
WaitsFor(n, r) ==
  {q \in EditRequests : EditsOpen(q) /\ IF Checks(r)
    THEN n[q] = n[r] /\ ~Checks(q) ELSE n[q] + 1 = n[r]}
LastPlace(n, t)    == {q \in EditRequests : EditsOpen(q) /\ n[q] = t}
LastMutation(n, t) == {q \in EditRequests : EditsOpen(q) /\ n[q] = t /\ ~Checks(q)}
EditsOrdered(n, t) ==
  /\ \A q, r \in EditRequests :
       EditsOpen(q) /\ EditsOpen(r) /\ ~Checks(q) /\ ~Checks(r) /\ n[q] = n[r] => q = r
  /\ \A r \in EditRequests : EditsOpen(r) => n[r] <= t
  /\ \A r \in EditRequests : EditsOpen(r) => after[r] = WaitsFor(n, r)
  /\ \A q, r \in EditRequests : EditsOpen(q) /\ EditsOpen(r) /\ EditsAhead(n, q, r) => after[r] # {}
  /\ LastPlace(n, t) = {} => \A q \in EditRequests : ~EditsOpen(q)
  /\ tail = LastPlace(n, t)
  /\ checksAfter = {} => LastPlace(n, t) = LastMutation(n, t)
  /\ checksAfter # {} => checksAfter = {LastMutation(n, t)}
EditsQueued ==
  /\ \E n \in [EditRequests -> Nat], t \in Nat : EditsOrdered(n, t)
  /\ \A r \in EditRequests : Working(r) => after[r] = {}

\* The places of checks are counted, and who waits for one is in the list once.
Holders == {r \in EditRequests : Holding(r)}
EditsPlaces ==
  /\ active = Cardinality(Holders)
  /\ \A i \in 1..Len(slots) : stage[slots[i]] = "slot"
  /\ \A i, j \in 1..Len(slots) : slots[i] = slots[j] => i = j
RequestsStand == RequestsFit /\ EditsQueued /\ EditsPlaces

(* What is stored, and what Cloudflare has.                                 *)
EditsDataFits ==
  /\ sourceSaved \in [EditSources -> EditChoices] /\ label \in [EditSources -> EditLabels]
  /\ rev \in 1..EditRevision
  /\ floor \in BOOLEAN /\ toolEdit \subseteq Edits!ToolEdits /\ labelEdit \subseteq Edits!LabelEdits
  /\ sourcePortal \in [EditSources -> Edits!Mappings]
  /\ names \in [EditSources -> [Edits!Parts -> EditLabels]]
  /\ offered \in [EditSources -> Edits!Catalogues] /\ sourceDrift \subseteq EditSources
  /\ sourceFaults \in Nat /\ outside \in Nat
EditsStand ==
  /\ \A e \in toolEdit \cup labelEdit : e.from = rev
  /\ toolEdit = {} \/ labelEdit = {}
  /\ \A d, e \in toolEdit : d = e
  /\ \A d, e \in labelEdit : d = e
FloorStored ==
  /\ labelEdit # {} => floor
  /\ \A s \in EditSources : sourceSaved[s].all \/ label[s] # Edits!Idle.lab => floor
  /\ \A e \in toolEdit : e.sel.all => floor
EditsWithin(s, c) == sourcePortal[s].all = c.all /\ sourcePortal[s].tools \subseteq c.tools
MappingApproved ==
  \A s \in EditSources \ sourceDrift : EditsWithin(s,
    sourceSaved[s]) \/ \E e \in toolEdit : e.src = s /\ EditsWithin(s, e.sel)
NamesKnown ==
  \A s \in EditSources, p \in Edits!Parts :
    names[s][p] = label[s] \/ \E e \in labelEdit : e.src = s /\ names[s][p] = e.lab
DataStands == EditsDataFits /\ EditsStand /\ FloorStored /\ MappingApproved /\ NamesKnown

(* What a mutation relies on once it was loaded.                            *)
EditOf(r)   == [src |-> op[r].src, sel |-> op[r].sel, from |-> rev]
RenameOf(r) == [src |-> op[r].src, lab |-> op[r].lab, from |-> rev]
ToolsStand(r) ==
  op[r].kind = "tools" /\ Begun(r) =>
    /\ labelEdit = {} /\ toolEdit \subseteq {EditOf(r)} /\ rev < EditRevision
    /\ stage[r] \in {"put", "verify"} => toolEdit = {EditOf(r)}
    /\ stage[r] \in {"raise", "commit"} /\ op[r].src \notin sourceDrift =>
         EditsWithin(op[r].src, op[r].sel)
LabelStands(r) ==
  op[r].kind = "label" /\ Begun(r) =>
    /\ toolEdit = {} /\ labelEdit \subseteq {RenameOf(r)} /\ rev < EditRevision
    /\ stage[r] \in Edits!Parts => labelEdit = {RenameOf(r)}
    /\ stage[r] \in {"portal", "policy", "raise", "commit"} => names[op[r].src]["server"] = op[r].lab
    /\ stage[r] \in {"policy", "raise", "commit"} => names[op[r].src]["portal"] = op[r].lab
    /\ stage[r] \in {"raise", "commit"} => names[op[r].src]["policy"] = op[r].lab
FloorStands(r) ==
  stage[r] \in {"journal", "put", "verify", "commit"} \cup Edits!Parts /\ Edits!NeedsFloor(r) => floor
WorkStands == \A r \in EditRequests : ToolsStand(r) /\ LabelStands(r) /\ FloorStands(r)

EditsInv == RequestsStand /\ DataStands /\ WorkStands

\* An idle request.
LEMMA IdleFits ==
  Edits!Idle \in Operations /\
  Edits!Idle.kind = "none" /\ Edits!Idle.rev = 0 /\ Edits!First \in EditChoices /\ ~Edits!First.all
BY EditSubjects, EditSelections DEF Edits!First, Edits!Idle, Operations, Kinds

\* A mutation that works has the queue for itself: who is open beside it waits, and nobody works beside
\* it but what waits for it; and no mutation works beside a check.
LEMMA EditsAlone ==
  ASSUME RequestsStand, NEW q \in EditRequests, NEW r \in EditRequests, q # r, Working(q), Working(r)
  PROVE  Checks(q) /\ Checks(r)
<1>1. PICK n \in [EditRequests -> Nat], t \in Nat : EditsOrdered(n, t)
  BY DEF RequestsStand, EditsQueued
<1>2. after[q] = {} /\ after[r] = {} /\ EditsOpen(q) /\ EditsOpen(r)
  BY DEF RequestsStand, EditsQueued, Working, EditsOpen
<1>3. ~EditsAhead(n, q, r) /\ ~EditsAhead(n, r, q)
  BY <1>1, <1>2 DEF EditsOrdered
<1>4. n[q] \in Nat /\ n[r] \in Nat
  BY <1>1
<1>5. n[q] = n[r]
  BY <1>3, <1>4 DEF EditsAhead
<1>6. ~Checks(q) \/ ~Checks(r) => ~Checks(q) /\ ~Checks(r)
  BY <1>3, <1>5 DEF EditsAhead
<1> QED BY <1>1, <1>2, <1>5, <1>6 DEF EditsOrdered

\* The order depends on who is open and who checks.
LEMMA EditsOrderStays ==
  ASSUME NEW n, NEW t, EditsOrdered(n, t), UNCHANGED <<after, tail, checksAfter>>,
         \A q \in EditRequests : (EditsOpen(q)' <=> EditsOpen(q)) /\ (Checks(q)' <=> Checks(q))
  PROVE  EditsOrdered(n, t)'
BY DEF LastPlace, LastMutation, WaitsFor, EditsAhead, EditsOrdered

\* A request that nobody keeps waiting is answered.
LEMMA AnswerKeepsOrder ==
  ASSUME NEW n \in [EditRequests -> Nat], NEW t \in Nat, EditsOrdered(n, t),
    NEW x \in EditRequests, EditsOpen(x), after[x] = {},
         \A q \in EditRequests \ {x} : (EditsOpen(q)' <=> EditsOpen(q)) /\ (Checks(q)' <=> Checks(q)),
         ~EditsOpen(x)', after' = [q \in EditRequests |-> after[q] \ {x}], tail' = tail \ {x},
         checksAfter' = {q \ {x} : q \in checksAfter}
  PROVE  EditsOrdered(n, t)'
<1>1. LastPlace(n, t)' = LastPlace(n, t) \ {x} /\ LastMutation(n, t)' = LastMutation(n, t) \ {x}
  BY DEF LastPlace, LastMutation
<1>2. ASSUME NEW r \in EditRequests \ {x}
      PROVE  WaitsFor(n, r)' = WaitsFor(n, r) \ {x}
  BY DEF WaitsFor
<1>3. \A q \in EditRequests : EditsOpen(q) => ~EditsAhead(n, q, x)
  BY DEF EditsOrdered
<1>4. ASSUME NEW q \in EditRequests, NEW r \in EditRequests, EditsOpen(q)', EditsOpen(r)',
        EditsAhead(n, q, r)'
      PROVE  after'[r] # {}
  BY <1>4, <1>3 DEF EditsAhead, EditsOrdered, WaitsFor
<1>5. \A r \in EditRequests : EditsOpen(r)' => after'[r] = WaitsFor(n, r)'
  BY <1>2 DEF EditsOrdered
<1>6. /\ checksAfter' = {} => LastPlace(n, t)' = LastMutation(n, t)'
      /\ checksAfter' # {} => checksAfter' = {LastMutation(n, t)'}
  BY <1>1 DEF EditsOrdered
<1>7. \A q, r \in EditRequests :
        EditsOpen(q)' /\ EditsOpen(r)' /\ ~Checks(q)' /\ ~Checks(r)' /\ n[q] = n[r] => q = r
  BY DEF EditsOrdered
<1>8. \A r \in EditRequests : EditsOpen(r)' => n[r] <= t
  BY DEF EditsOrdered
<1>9. tail' = LastPlace(n, t)'
  BY <1>1 DEF EditsOrdered
<1>10. ASSUME LastPlace(n, t)' = {}, NEW q \in EditRequests, EditsOpen(q)'
       PROVE  FALSE
  BY <1>8, <1>10, <1>1, <1>3 DEF EditsOrdered, LastPlace, EditsAhead
<1> QED BY <1>4, <1>5, <1>6, <1>7, <1>8, <1>9, <1>10 DEF EditsOrdered


\* A stage says what kind of request it is.
LEMMA StageKinds ==
  ASSUME RequestsStand, NEW r \in EditRequests
  PROVE  /\ stage[r] \in {"slot", "inspect", "sync"} => Checks(r)
         /\ stage[r] = "idle" <=> op[r].kind = "none"
         /\ stage[r] \in {"put", "verify"} => op[r].kind = "tools"
         /\ stage[r] \in {"server", "portal", "policy"} => op[r].kind = "label"
         /\ stage[r] \in {"read", "raise", "arm", "journal", "commit"} =>
              op[r].kind \in {"tools", "label"}
         /\ op[r].kind \in Kinds /\ op[r] \in Operations
BY DEF RequestsStand, RequestsFit, Operations, Kinds, StagesOf, Checks

\* The holders are finitely many.
LEMMA HoldersFinite == IsFiniteSet(Holders)
BY FS_Subset, EditSubjects DEF Holders

\* A mutation is answered.
LEMMA MutationAnswers ==
  ASSUME RequestsStand, NEW r \in EditRequests, Mutates(r), Working(r), Edits!Answer(r)
  PROVE  RequestsStand' /\ WorkStands' /\ \A q \in EditRequests : stage'[q] \in {"idle",
           "queued"} \/ Checks(q)'
<1>1. /\ stage' = [stage EXCEPT ![r] = "idle"] /\ UNCHANGED <<active, slots>>
      /\ op' = [op EXCEPT ![r] = Edits!Idle] /\ after' = [q \in EditRequests |-> after[q] \ {r}]
      /\ tail' = tail \ {r} /\ checksAfter' = {q \ {r} : q \in checksAfter}
  BY DEF Edits!Answer, Mutates
<1>2. RequestsFit
  BY DEF RequestsStand
<1>3. \A q \in EditRequests \ {r} : stage'[q] = stage[q] /\ op'[q] = op[q]
  BY <1>1, <1>2 DEF RequestsFit
<1>4. /\ stage'[r] = "idle" /\ op'[r] = Edits!Idle /\ Edits!Idle \in Operations
      /\ Edits!Idle.kind = "none"
  BY <1>1, <1>2, IdleFits DEF RequestsFit
<1>5. RequestsFit'
  <2>1. stage' \in [EditRequests -> Edits!Stages] /\ op' \in [EditRequests -> Operations]
    BY <1>1, <1>2, <1>4 DEF RequestsFit, Edits!Stages
  <2>2. /\ after' \in [EditRequests -> SUBSET EditRequests] /\ tail' \subseteq EditRequests
        /\ checksAfter' \subseteq SUBSET EditRequests /\ active' \in 0..CheckLimit
        /\ slots' \in Seq(EditRequests)
    BY <1>1, <1>2 DEF RequestsFit
  <2>3. \A q \in EditRequests : stage'[q] \in StagesOf(op'[q].kind)
    BY <1>2, <1>3, <1>4 DEF RequestsFit, StagesOf
  <2> QED BY <2>1, <2>2, <2>3 DEF RequestsFit
<1>6. after[r] = {} /\ EditsOpen(r) /\ ~EditsOpen(r)' /\ ~Checks(r)
  BY <1>4 DEF RequestsStand, EditsQueued, Working, EditsOpen, Checks, Mutates
<1>7. EditsQueued'
  <2>1. PICK n \in [EditRequests -> Nat], t \in Nat : EditsOrdered(n, t)
    BY DEF RequestsStand, EditsQueued
  <2>2. EditsOrdered(n, t)'
    BY <1>1, <1>3, <1>6, <2>1, AnswerKeepsOrder DEF EditsOpen, Checks
  <2>3. \A q \in EditRequests : Working(q)' => after'[q] = {}
    BY <1>1, <1>3, <1>4 DEF RequestsStand, EditsQueued, Working
  <2> QED BY <2>1, <2>2, <2>3 DEF EditsQueued
<1>8. EditsPlaces'
  <2>1. Holders' = Holders
    BY <1>3, <1>4, <1>6 DEF Holders, Holding, Checks
  <2>2. \A i \in 1..Len(slots) : slots[i] \in EditRequests /\ stage[slots[i]] = "slot"
    BY <1>2 DEF RequestsFit, RequestsStand, EditsPlaces
  <2>3. stage[r] # "slot"
    BY <1>6, StageKinds DEF RequestsStand
  <2>4. \A i \in 1..Len(slots) : stage'[slots[i]] = "slot"
    BY <1>3, <2>2, <2>3
  <2> QED BY <1>1, <2>1, <2>4 DEF EditsPlaces, RequestsStand
<1>9. \A q \in EditRequests : stage'[q] \in {"idle", "queued"}
  BY <1>3, <1>4, <1>6, EditsAlone DEF Working
<1>10. WorkStands'
  BY <1>9 DEF WorkStands, ToolsStand, LabelStands, FloorStands, Begun, Working, Edits!Parts
<1> QED BY <1>5, <1>7, <1>8, <1>9, <1>10 DEF RequestsStand

\* A mutation goes on; what it relies on is all there is to show.
LEMMA MutationGoes ==
  ASSUME RequestsStand, NEW r \in EditRequests, Mutates(r), Working(r),
    NEW to \in StagesOf(op[r].kind) \ {"queued"},
         stage' = [stage EXCEPT ![r] = to], UNCHANGED Edits!queue,
         op' \in [EditRequests -> Operations], \A q \in EditRequests \ {r} : op'[q] = op[q],
           op'[r].kind = op[r].kind
  PROVE  /\ RequestsStand' /\ stage'[r] = to
         /\ (ToolsStand(r) /\ LabelStands(r) /\ FloorStands(r))' => WorkStands'
<1>2. RequestsFit /\ UNCHANGED <<after, tail, checksAfter, active, slots>>
  BY DEF RequestsStand, Edits!queue
<1>3. \A q \in EditRequests \ {r} : stage'[q] = stage[q] /\ op'[q] = op[q]
  BY <1>2 DEF RequestsFit
<1>4. stage'[r] = to /\ to \in Edits!Stages /\ to \notin {"idle", "queued", "slot"}
  BY <1>2 DEF RequestsFit, Edits!Stages, StagesOf, Edits!Parts, Mutates
<1>5. RequestsFit'
  BY <1>2, <1>3, <1>4 DEF RequestsFit
<1>6. after[r] = {} /\ EditsOpen(r) /\ EditsOpen(r)' /\ ~Checks(r) /\ ~Checks(r)'
  BY <1>4 DEF RequestsStand, EditsQueued, Working, EditsOpen, Checks, Mutates
<1>7. EditsQueued'
  <2>1. PICK n \in [EditRequests -> Nat], t \in Nat : EditsOrdered(n, t)
    BY DEF RequestsStand, EditsQueued
  <2>2. EditsOrdered(n, t)'
    BY <1>2, <1>3, <1>6, <2>1, EditsOrderStays DEF EditsOpen, Checks
  <2>3. \A q \in EditRequests : Working(q)' => after'[q] = {}
    BY <1>2, <1>3, <1>6 DEF RequestsStand, EditsQueued, Working
  <2> QED BY <2>1, <2>2, <2>3 DEF EditsQueued
<1>8. EditsPlaces'
  <2>1. Holders' = Holders
    BY <1>3, <1>4, <1>6 DEF Holders, Holding, Checks
  <2>2. \A i \in 1..Len(slots) : slots[i] \in EditRequests /\ stage[slots[i]] = "slot"
    BY <1>2 DEF RequestsFit, RequestsStand, EditsPlaces
  <2>3. stage[r] # "slot"
    BY <1>6, StageKinds DEF RequestsStand
  <2>4. \A i \in 1..Len(slots) : stage'[slots[i]] = "slot"
    BY <1>3, <2>2, <2>3
  <2> QED BY <1>2, <2>1, <2>4 DEF EditsPlaces, RequestsStand
<1>9. \A q \in EditRequests \ {r} : stage'[q] \in {"idle", "queued"}
  BY <1>3, <1>6, EditsAlone DEF Working
<1>10. ASSUME (ToolsStand(r) /\ LabelStands(r) /\ FloorStands(r))'
       PROVE  WorkStands'
  BY <1>9, <1>10 DEF WorkStands, ToolsStand, LabelStands, FloorStands, Begun, Working, Edits!Parts
<1> QED BY <1>4, <1>5, <1>7, <1>8, <1>10 DEF RequestsStand

\* While a check works no mutation does.
LEMMA NoMutationWorks ==
  ASSUME RequestsStand, NEW r \in EditRequests, Checks(r), Working(r), NEW q \in EditRequests,
    Mutates(q)
  PROVE  stage[q] \in {"idle", "queued"}
BY EditsAlone DEF Checks, Mutates, Working

\* Where no mutation works there is nothing to rely on.
LEMMA NobodyRelies ==
  ASSUME RequestsFit', \A q \in EditRequests : Mutates(q)' => stage'[q] \in {"idle", "queued"}
  PROVE  WorkStands'
<1> SUFFICES ASSUME NEW q \in EditRequests
             PROVE  ToolsStand(q)' /\ LabelStands(q)' /\ FloorStands(q)'
  BY DEF WorkStands
<1>1. op'[q].kind \in Kinds /\ stage'[q] \in StagesOf(op'[q].kind)
  BY DEF RequestsFit, Operations
<1>2. stage'[q] \in {"journal", "put", "verify", "commit"} \cup Edits!Parts => Mutates(q)'
  BY <1>1 DEF StagesOf, Edits!Parts, Mutates, Kinds
<1>3. FloorStands(q)'
  BY <1>2 DEF FloorStands, Edits!Parts
<1>4. ToolsStand(q)' /\ LabelStands(q)'
  BY DEF ToolsStand, LabelStands, Begun, Working, Mutates
<1> QED BY <1>3, <1>4

\* A check goes on.
LEMMA CheckGoes ==
  ASSUME RequestsStand, NEW r \in EditRequests, Holding(r), NEW to \in {"inspect", "sync"},
    Edits!Go(r, to)
  PROVE  RequestsStand' /\ WorkStands'
<1>1. /\ stage' = [stage EXCEPT ![r] = to] /\ op' = op
      /\ UNCHANGED <<after, tail, checksAfter, active, slots>>
  BY DEF Edits!Go, Edits!queue
<1>2. RequestsFit
  BY DEF RequestsStand
<1>3. \A q \in EditRequests \ {r} : stage'[q] = stage[q]
  BY <1>1, <1>2 DEF RequestsFit
<1>4. stage'[r] = to /\ to \in Edits!Stages /\ Checks(r) /\ Working(r) /\ stage[r] # "slot"
  BY <1>1, <1>2 DEF RequestsFit, Edits!Stages, Holding, Working
<1>5. RequestsFit'
  BY <1>1, <1>2, <1>3, <1>4 DEF RequestsFit, StagesOf, Checks
<1>7. EditsQueued'
  <2>1. PICK n \in [EditRequests -> Nat], t \in Nat : EditsOrdered(n, t)
    BY DEF RequestsStand, EditsQueued
  <2>2. EditsOrdered(n, t)'
    BY <1>1, <1>3, <1>4, <2>1, EditsOrderStays DEF EditsOpen, Checks, Working
  <2>3. \A q \in EditRequests : Working(q)' => after'[q] = {}
    BY <1>1, <1>3, <1>4 DEF RequestsStand, EditsQueued, Working
  <2> QED BY <2>1, <2>2, <2>3 DEF EditsQueued
<1>8. EditsPlaces'
  <2>1. Holders' = Holders
    BY <1>1, <1>3, <1>4 DEF Holders, Holding, Checks
  <2>2. \A i \in 1..Len(slots) : slots[i] \in EditRequests /\ stage[slots[i]] = "slot"
    BY <1>2 DEF RequestsFit, RequestsStand, EditsPlaces
  <2>4. \A i \in 1..Len(slots) : stage'[slots[i]] = "slot"
    BY <1>3, <1>4, <2>2
  <2> QED BY <1>1, <2>1, <2>4 DEF EditsPlaces, RequestsStand
<1>9. \A q \in EditRequests : Mutates(q) => stage'[q] \in {"idle", "queued"}
  BY <1>3, <1>4, NoMutationWorks DEF Checks, Mutates
<1>10. WorkStands'
  BY <1>1, <1>5, <1>9, NobodyRelies DEF Mutates
<1> QED BY <1>5, <1>7, <1>8, <1>10 DEF RequestsStand

\* A check is answered, and its place goes to the next one.
LEMMA CheckAnswers ==
  ASSUME RequestsStand, NEW r \in EditRequests, Holding(r), Edits!Answer(r)
  PROVE  RequestsStand' /\ WorkStands'
<1>1. /\ Edits!FreePlace(r)
      /\ op' = [op EXCEPT ![r] = Edits!Idle] /\ after' = [q \in EditRequests |-> after[q] \ {r}]
      /\ tail' = tail \ {r} /\ checksAfter' = {q \ {r} : q \in checksAfter}
  BY DEF Edits!Answer, Holding, Checks
<1>2. RequestsFit /\ Checks(r) /\ Working(r) /\ stage[r] # "slot"
  BY DEF RequestsStand, Holding, Working
<1>3. \A q \in EditRequests \ {r} : op'[q] = op[q]
  BY <1>1, <1>2 DEF RequestsFit
<1>4. op'[r] = Edits!Idle /\ Edits!Idle \in Operations /\ Edits!Idle.kind = "none"
  BY <1>1, <1>2, IdleFits DEF RequestsFit
<1>0. PICK h : h = Head(slots)
  OBVIOUS
<1>5. \A i \in 1..Len(slots) : slots[i] \in EditRequests /\ stage[slots[i]] = "slot"
  BY <1>2 DEF RequestsFit, RequestsStand, EditsPlaces
<1>6. slots # <<>> =>
        /\ h \in EditRequests \ {r} /\ stage[h] = "slot" /\ h = slots[1] /\ Checks(h)
        /\ Tail(slots) \in Seq(EditRequests) /\ Len(Tail(slots)) = Len(slots) - 1
        /\ \A i \in 1..Len(Tail(slots)) : Tail(slots)[i] = slots[i + 1] /\ i + 1 \in 1..Len(slots)
  BY <1>0, <1>2, <1>5, StageKinds DEF RequestsFit
<1>7. /\ stage'[r] = "idle" /\ stage' \in [EditRequests -> Edits!Stages]
      /\ \/ /\ slots # <<>> /\ slots' = Tail(slots) /\ active' = active
            /\ stage'[h] = "load" /\ \A q \in EditRequests \ {r, h} : stage'[q] = stage[q]
         \/ /\ slots = <<>> /\ slots' = slots /\ active' = active - 1
            /\ \A q \in EditRequests \ {r} : stage'[q] = stage[q]
  BY <1>2, <1>0, <1>1, <1>6 DEF RequestsFit, Edits!Stages, Edits!FreePlace
<1>8. \A q \in EditRequests \ {r} : /\ stage'[q] = "idle" <=> stage[q] = "idle"
                                    /\ stage'[q] = "queued" <=> stage[q] = "queued"
                                    /\ Checks(q)' <=> Checks(q)
                                    /\ stage'[q] = stage[q] \/ (stage'[q] = "load" /\
                                         Checks(q) /\ stage[q] = "slot" /\ slots # <<>> /\ q = h)
  BY <1>3, <1>6, <1>7 DEF Checks
<1>9. EditsPlaces' /\ active' \in 0..CheckLimit /\ slots' \in Seq(EditRequests)
  <2>1. /\ r \in Holders /\ IsFiniteSet(Holders) /\ active = Cardinality(Holders)
        /\ active \in 0..CheckLimit
    BY HoldersFinite DEF Holders, RequestsStand, EditsPlaces, RequestsFit
  <2>2. IsFiniteSet(Holders \ {r}) /\ Cardinality(Holders \ {r}) = active - 1
    BY <2>1, FS_RemoveElement
  <2>3. ~Holding(r)'
    BY <1>7 DEF Holding
  <2>4. CASE slots = <<>>
    <3>1. \A q \in EditRequests : Holding(q)' <=> Holding(q) /\ q # r
      BY <1>7, <1>8, <2>3, <2>4 DEF Holding
    <3>2. Holders' = Holders \ {r}
      BY <3>1 DEF Holders
    <3>3. active - 1 \in Nat
      BY <2>2, FS_CardinalityType
    <3>4. active' = active - 1 /\ slots' = slots /\ Len(slots) = 0
      BY <1>7, <2>4
    <3> QED BY <1>2, <2>1, <2>2, <3>2, <3>3, <3>4, EditLimits DEF EditsPlaces, RequestsFit
  <2>5. CASE slots # <<>>
    <3>1. \A q \in EditRequests : Holding(q)' <=> (Holding(q) /\ q # r) \/ q = h
      BY <1>6, <1>7, <2>5, <1>8, <2>3 DEF Holding
    <3>2. Holders' = (Holders \ {r}) \cup {h} /\ h \notin Holders \ {r}
      BY <1>6, <2>5, <3>1 DEF Holders, Holding
    <3>3. Cardinality(Holders') = active - 1 + 1
      BY <2>2, <3>2, FS_AddElement
    <3>4. active' = active /\ active' = Cardinality(Holders')
      BY <1>7, <2>1, <2>5, <3>3
    <3>5. slots' = Tail(slots) /\ slots' \in Seq(EditRequests)
      BY <1>6, <1>7, <2>5
    <3>6. ASSUME NEW i \in 1..Len(slots')
          PROVE  slots'[i] = slots[i + 1] /\ i + 1 \in 1..Len(slots) /\ stage'[slots'[i]] = "slot"
      <4>1. slots'[i] = slots[i + 1] /\ i + 1 \in 1..Len(slots) /\ i + 1 # 1 /\ 1 \in 1..Len(slots)
        BY <1>6, <1>2, <2>5, <3>5 DEF RequestsFit
      <4>2. slots[i + 1] # slots[1]
        BY <4>1 DEF RequestsStand, EditsPlaces
      <4>3. slots[i + 1] \in EditRequests \ {r, h} /\ stage[slots[i + 1]] = "slot"
        BY <1>2, <1>5, <1>6, <2>5, <4>1, <4>2
      <4> QED BY <1>7, <2>5, <4>1, <4>3
    <3>7. \A i, j \in 1..Len(slots') : slots'[i] = slots'[j] => i = j
      BY <3>6, <3>5 DEF RequestsStand, EditsPlaces
    <3> QED BY <2>1, <3>4, <3>5, <3>6, <3>7 DEF EditsPlaces
  <2> QED BY <2>4, <2>5
<1>10. RequestsFit'
  <2>1. op' \in [EditRequests -> Operations]
    BY <1>1, <1>2, <1>4 DEF RequestsFit
  <2>2. /\ after' \in [EditRequests -> SUBSET EditRequests] /\ tail' \subseteq EditRequests
        /\ checksAfter' \subseteq SUBSET EditRequests
    BY <1>1, <1>2 DEF RequestsFit
  <2>3. ASSUME NEW q \in EditRequests
        PROVE  stage'[q] \in StagesOf(op'[q].kind)
    BY <1>4, <1>7, <1>2, <1>3, <1>8 DEF StagesOf, RequestsFit, Checks
  <2> QED BY <1>7, <1>9, <2>1, <2>2, <2>3 DEF RequestsFit
<1>11. EditsQueued'
  <2>1. PICK n \in [EditRequests -> Nat], t \in Nat : EditsOrdered(n, t)
    BY DEF RequestsStand, EditsQueued
  <2>2. after[r] = {} /\ EditsOpen(r) /\ ~EditsOpen(r)'
    BY <1>2, <1>7 DEF RequestsStand, EditsQueued, Working, EditsOpen
  <2>3. EditsOrdered(n, t)'
    BY <1>1, <1>8, <2>1, <2>2, AnswerKeepsOrder DEF EditsOpen
  <2>4. \A q \in EditRequests : Working(q)' => after'[q] = {}
    BY <1>1, <1>7, <1>8 DEF RequestsStand, EditsQueued, Working
  <2> QED BY <2>1, <2>3, <2>4 DEF EditsQueued
<1>12. \A q \in EditRequests : Mutates(q)' => stage'[q] \in {"idle", "queued"}
  BY <1>2, <1>3, <1>4, <1>7, <1>8, NoMutationWorks DEF Checks, Mutates
<1>13. WorkStands'
  BY <1>10, <1>12, NobodyRelies
<1> QED BY <1>9, <1>10, <1>11, <1>13 DEF RequestsStand


\* Steps that leave the data alone.
LEMMA DataSame ==
  ASSUME DataStands, UNCHANGED <<Edits!store, Edits!remote>>, sourceFaults' \in Nat, outside' \in Nat
  PROVE  DataStands'
BY DEF Edits!store, Edits!remote, DataStands, EditsDataFits, EditsStand, FloorStored,
  MappingApproved, NamesKnown, EditsWithin

\* Steps that leave the requests alone.
LEMMA RequestsSame ==
  ASSUME RequestsStand, UNCHANGED <<stage, op, Edits!queue>>
  PROVE  RequestsStand'
<1>1. UNCHANGED <<stage, op, after, tail, checksAfter, active, slots>>
  BY DEF Edits!queue
<1>2. RequestsFit' /\ EditsPlaces'
  BY <1>1 DEF RequestsStand, RequestsFit, EditsPlaces, Holders, Holding, Checks
<1>3. EditsQueued'
  <2>1. PICK n \in [EditRequests -> Nat], t \in Nat : EditsOrdered(n, t)
    BY DEF RequestsStand, EditsQueued
  <2>2. EditsOrdered(n, t)'
    BY <1>1, <2>1, EditsOrderStays DEF EditsOpen, Checks
  <2>3. \A q \in EditRequests : Working(q)' => after'[q] = {}
    BY <1>1 DEF RequestsStand, EditsQueued, Working
  <2> QED BY <2>1, <2>2, <2>3 DEF EditsQueued
<1> QED BY <1>2, <1>3 DEF RequestsStand

\* What a mutation relies on stays as long as the data do and its request does.
LEMMA RelianceSame ==
  ASSUME NEW q \in EditRequests, ToolsStand(q), LabelStands(q), FloorStands(q),
    UNCHANGED <<Edits!store, Edits!remote>>,
         stage'[q] = stage[q], op'[q] = op[q]
  PROVE  ToolsStand(q)' /\ LabelStands(q)' /\ FloorStands(q)'
BY DEF Edits!store, Edits!remote, ToolsStand, Begun, Working, EditOf, EditsWithin, LabelStands,
  RenameOf, FloorStands, Edits!NeedsFloor

\* A mapping that lost tools, or was made by hand, breaks nothing.
LEMMA MappingNarrows ==
  ASSUME DataStands, UNCHANGED Edits!store, UNCHANGED names,
         offered' \in [EditSources -> Edits!Catalogues],
           sourcePortal' \in [EditSources -> Edits!Mappings], sourceDrift' \subseteq EditSources,
         sourceFaults' \in Nat, outside' \in Nat,
         \A s \in EditSources \ sourceDrift' :
           /\ s \notin sourceDrift /\ sourcePortal'[s].all = sourcePortal[s].all
           /\ sourcePortal'[s].tools \subseteq sourcePortal[s].tools
  PROVE  DataStands' /\ (RequestsFit /\ WorkStands /\ UNCHANGED <<stage, op>> => WorkStands')
<1>1. UNCHANGED <<sourceSaved, label, rev, toolEdit, labelEdit, floor>>
  BY DEF Edits!store
<1>2. \A s \in EditSources \ sourceDrift' : s \notin sourceDrift /\ \A c : EditsWithin(s, c) =>
        EditsWithin(s, c)'
  BY DEF EditsWithin
<1>3. EditsDataFits'
  BY <1>1 DEF DataStands, EditsDataFits
<1>4. EditsStand' /\ FloorStored' /\ NamesKnown'
  BY <1>1 DEF DataStands, EditsStand, FloorStored, NamesKnown
<1>5. MappingApproved'
  BY <1>1, <1>2 DEF DataStands, MappingApproved
<1>6. ASSUME RequestsFit, WorkStands, UNCHANGED <<stage, op>>, NEW q \in EditRequests
      PROVE  ToolsStand(q)' /\ LabelStands(q)' /\ FloorStands(q)'
  BY <1>6, <1>1, <1>2 DEF WorkStands, FloorStands, Edits!NeedsFloor, LabelStands, Begun, Working,
    RenameOf, RequestsFit, Operations, EditsWithin, ToolsStand, EditOf
<1> QED BY <1>3, <1>4, <1>5, <1>6 DEF DataStands, WorkStands


\* A mutation has the next place, a check the last one.
LEMMA ArrivalKeepsOrder ==
  ASSUME NEW n \in [EditRequests -> Nat], NEW t \in Nat, EditsOrdered(n, t),
    NEW r \in EditRequests, ~EditsOpen(r), EditsOpen(r)',
         \A q \in EditRequests \ {r} : (EditsOpen(q)' <=> EditsOpen(q)) /\ (Checks(q)' <=> Checks(q)),
         after \in [EditRequests -> SUBSET EditRequests],
         IF Checks(r)' THEN Edits!CheckArrives(r) ELSE Edits!MutationArrives(r)
  PROVE  \E m \in [EditRequests -> Nat], u \in Nat : EditsOrdered(m, u)'
<1>a. PICK u : u = IF Checks(r)' THEN t ELSE t + 1
  OBVIOUS
<1>b. PICK m : m = [n EXCEPT ![r] = u]
  OBVIOUS
<1>1. u \in Nat /\ m \in [EditRequests -> Nat] /\ m[r] = u /\ u >= t
      /\ (Checks(r)' => u = t) /\ (~Checks(r)' => u = t + 1)
      /\ \A q \in EditRequests \ {r} : m[q] = n[q]
  BY <1>a, <1>b
<1>2. \A q \in EditRequests : EditsOpen(q) => q # r /\ n[q] \in Nat /\ n[q] <= t /\ m[q] = n[q]
  BY <1>1 DEF EditsOrdered
<1>3. \A q \in EditRequests : EditsOpen(q)' <=> EditsOpen(q) \/ q = r
  OBVIOUS
<1>4. \A q \in EditRequests \ {r} : after'[q] = after[q]
  BY DEF Edits!CheckArrives, Edits!MutationArrives
<1>5. \A q, p \in EditRequests :
        EditsOpen(q)' /\ EditsOpen(p)' /\ ~Checks(q)' /\ ~Checks(p)' /\ m[q] = m[p] => q = p
  <2> SUFFICES ASSUME NEW q \in EditRequests, NEW p \in EditRequests,
                      EditsOpen(q)', EditsOpen(p)', ~Checks(q)', ~Checks(p)', m[q] = m[p]
               PROVE  q = p
    OBVIOUS
  <2>1. CASE q # r /\ p # r
    BY <1>1, <1>3, <2>1 DEF EditsOrdered
  <2>2. CASE q = r /\ p # r
    <3>1. u = t + 1 /\ m[p] = u
      BY <1>1, <2>2
    <3>2. n[p] <= t /\ m[p] = n[p] /\ n[p] \in Nat
      BY <1>2, <1>3, <2>2
    <3> QED BY <3>1, <3>2
  <2>3. CASE p = r /\ q # r
    BY <1>1, <1>2, <1>3, <2>3
  <2> QED BY <2>1, <2>2, <2>3
<1>6. \A q \in EditRequests : EditsOpen(q)' => m[q] <= u
  BY <1>1, <1>2, <1>3
\* What the newcomer waits for.
<1>7. CASE Checks(r)'
  <2> DEFINE start == IF checksAfter = {} THEN tail ELSE CHOOSE x \in checksAfter : TRUE
  <2>1. start = LastMutation(n, t)
    BY DEF EditsOrdered
  <2>2. after'[r] = start /\ tail' = tail \cup {r} /\ checksAfter' = {start}
    BY <1>7 DEF Edits!CheckArrives
  <2> HIDE DEF start
  <2>3. LastMutation(m, u)' = LastMutation(n, t) /\ LastPlace(m, u)' = LastPlace(n, t) \cup {r}
    BY <1>1, <1>2, <1>3, <1>7 DEF LastMutation, LastPlace
  <2>4. ASSUME NEW q \in EditRequests, EditsOpen(q)'
        PROVE  after'[q] = WaitsFor(m, q)'
    <3>1. CASE q = r
      <4>1. WaitsFor(m, r)' = LastMutation(m, u)'
        BY <1>1, <1>7 DEF WaitsFor, LastMutation
      <4> QED BY <2>1, <2>2, <2>3, <3>1, <4>1
    <3>2. CASE q # r
      <4>1. /\ EditsOpen(q) /\ n[q] <= t /\ m[q] = n[q] /\ m[r] = t /\ (Checks(q)' <=> Checks(q))
            /\ n[q] \in Nat
        BY <1>1, <1>2, <1>3, <1>7, <2>4, <3>2
      <4>2. \A p \in EditRequests : (EditsOpen(p)' /\ IF Checks(q)'
              THEN m[p] = m[q] /\ ~Checks(p)' ELSE m[p] + 1 = m[q])
                             <=> (EditsOpen(p) /\ IF Checks(q)
                               THEN n[p] = n[q] /\ ~Checks(p) ELSE n[p] + 1 = n[q])
        <5> SUFFICES ASSUME NEW p \in EditRequests
                     PROVE  (EditsOpen(p)' /\ IF Checks(q)'
                              THEN m[p] = m[q] /\ ~Checks(p)' ELSE m[p] + 1 = m[q])
                        <=> (EditsOpen(p) /\ IF Checks(q)
                          THEN n[p] = n[q] /\ ~Checks(p) ELSE n[p] + 1 = n[q])
          OBVIOUS
        <5>1. CASE p = r
          <6>1. m[p] = t /\ Checks(p)' /\ ~EditsOpen(p) /\ t + 1 # n[q]
            BY <1>7, <4>1, <5>1
          <6> QED BY <4>1, <6>1
        <5>2. CASE p # r
          <6>1. m[p] = n[p] /\ (EditsOpen(p)' <=> EditsOpen(p)) /\ (Checks(p)' <=> Checks(p))
            BY <1>1, <5>2
          <6> QED BY <4>1, <6>1
        <5> QED BY <5>1, <5>2
      <4>3. WaitsFor(m, q)' = WaitsFor(n, q)
        BY <4>2 DEF WaitsFor
      <4> QED BY <1>4, <3>2, <4>1, <4>3 DEF EditsOrdered
    <3> QED BY <3>1, <3>2
  <2>5. ASSUME NEW q \in EditRequests, NEW p \in EditRequests, EditsOpen(q)', EditsOpen(p)',
          EditsAhead(m, q, p)'
        PROVE  after'[p] # {}
    <3>1. CASE p # r /\ q # r
      BY <1>1, <1>3, <1>4, <2>5, <3>1 DEF EditsOrdered, EditsAhead
    <3>2. CASE p # r /\ q = r
      BY <1>1, <1>2, <1>3, <1>7, <2>5, <3>2 DEF EditsAhead
    <3>3. CASE p = r /\ q = r
      BY <1>1, <1>7, <2>5, <3>3 DEF EditsAhead
    <3>4. CASE p = r /\ q # r
      <4>1. EditsOpen(q) /\ (n[q] < t \/ (n[q] = t /\ ~Checks(q)))
        BY <1>1, <1>2, <1>3, <1>7, <2>5, <3>4 DEF EditsAhead
      <4>2. CASE n[q] = t /\ ~Checks(q)
        BY <2>1, <2>2, <3>4, <4>1, <4>2 DEF LastMutation
      <4>3. CASE n[q] < t
        <5>1. PICK p2 \in LastPlace(n, t) : TRUE
          BY <4>1 DEF EditsOrdered
        <5>2. /\ p2 \in EditRequests /\ EditsOpen(p2) /\ n[p2] = t /\ after[p2] # {}
              /\ after[p2] = WaitsFor(n, p2)
          BY <4>1, <4>3, <5>1 DEF LastPlace, EditsOrdered, EditsAhead
        <5>3. Checks(p2) => LastMutation(n, t) # {}
          BY <5>2 DEF WaitsFor, LastMutation
        <5>4. ~Checks(p2) => LastMutation(n, t) # {}
          BY <5>2 DEF LastMutation
        <5> QED BY <2>1, <2>2, <3>4, <5>3, <5>4
      <4> QED BY <4>1, <4>2, <4>3
    <3> QED BY <3>1, <3>2, <3>3, <3>4
  <2>6. /\ tail' = LastPlace(m, u)' /\ LastPlace(m, u)' # {} /\ checksAfter' = {LastMutation(m, u)'}
        /\ checksAfter' # {}
    BY <2>1, <2>2, <2>3 DEF EditsOrdered
  <2>7. EditsOrdered(m, u)'
    BY <1>5, <1>6, <2>4, <2>5, <2>6 DEF EditsOrdered
  <2> QED BY <1>1, <2>7
<1>8. CASE ~Checks(r)'
  <2>1. after'[r] = tail /\ tail = LastPlace(n, t) /\ tail' = {r} /\ checksAfter' = {}
    BY <1>8 DEF Edits!MutationArrives, EditsOrdered
  <2>2. LastMutation(m, u)' = {r} /\ LastPlace(m, u)' = {r}
    BY <1>1, <1>2, <1>3, <1>8 DEF LastMutation, LastPlace
  <2>4. ASSUME NEW q \in EditRequests, EditsOpen(q)'
        PROVE  after'[q] = WaitsFor(m, q)'
    <3>1. CASE q = r
      <4>1. ASSUME NEW p \in EditRequests
            PROVE  EditsOpen(p)' /\ m[p] + 1 = m[r] <=> EditsOpen(p) /\ n[p] = t
        <5>1. CASE p = r
          BY <1>1, <1>8, <5>1
        <5>2. CASE p # r
          BY <1>1, <1>2, <1>3, <1>8, <5>2
        <5> QED BY <5>1, <5>2
      <4>2. WaitsFor(m, r)' = LastPlace(n, t)
        BY <1>8, <4>1 DEF WaitsFor, LastPlace
      <4> QED BY <2>1, <3>1, <4>2
    <3>2. CASE q # r
      <4>1. /\ EditsOpen(q) /\ n[q] <= t /\ m[q] = n[q] /\ m[r] = t + 1
            /\ (Checks(q)' <=> Checks(q)) /\ n[q] \in Nat
        BY <1>1, <1>2, <1>3, <1>8, <2>4, <3>2
      <4>2. ASSUME NEW p \in EditRequests
            PROVE  (EditsOpen(p)' /\ IF Checks(q)' THEN m[p] = m[q] /\ ~Checks(p)' ELSE m[p] + 1 = m[q])
               <=> (EditsOpen(p) /\ IF Checks(q) THEN n[p] = n[q] /\ ~Checks(p) ELSE n[p] + 1 = n[q])
        <5>1. CASE p = r
          <6>1. m[p] # m[q] /\ m[p] + 1 # m[q] /\ ~EditsOpen(p)
            BY <4>1, <5>1
          <6> QED BY <6>1
        <5>2. CASE p # r
          <6>1. m[p] = n[p] /\ (EditsOpen(p)' <=> EditsOpen(p)) /\ (Checks(p)' <=> Checks(p))
            BY <1>1, <5>2
          <6> QED BY <4>1, <6>1
        <5> QED BY <5>1, <5>2
      <4>3. WaitsFor(m, q)' = WaitsFor(n, q)
        BY <4>2 DEF WaitsFor
      <4> QED BY <1>4, <3>2, <4>1, <4>3 DEF EditsOrdered
    <3> QED BY <3>1, <3>2
  <2>5. ASSUME NEW q \in EditRequests, NEW p \in EditRequests, EditsOpen(q)', EditsOpen(p)',
          EditsAhead(m, q, p)'
        PROVE  after'[p] # {}
    <3>1. CASE p # r /\ q # r
      BY <1>1, <1>3, <1>4, <2>5, <3>1 DEF EditsOrdered, EditsAhead
    <3>2. CASE p # r /\ q = r
      BY <1>1, <1>2, <1>3, <1>8, <2>5, <3>2 DEF EditsAhead
    <3>3. CASE p = r /\ q = r
      BY <1>1, <1>8, <2>5, <3>3 DEF EditsAhead
    <3>4. CASE p = r /\ q # r
      BY <1>3, <2>1, <2>5, <3>4 DEF EditsOrdered
    <3> QED BY <3>1, <3>2, <3>3, <3>4
  <2>6. EditsOrdered(m, u)'
    BY <1>5, <1>6, <2>1, <2>2, <2>4, <2>5 DEF EditsOrdered
  <2> QED BY <1>1, <2>6
<1> QED BY <1>7, <1>8

\* A request arrives.
LEMMA EditsArriveHolds ==
  ASSUME EditsInv, NEW r \in EditRequests, Edits!Arrive(r)
  PROVE  EditsInv'
<1>1. /\ RequestsStand /\ DataStands /\ WorkStands
      /\ UNCHANGED <<Edits!store, Edits!remote>> /\ UNCHANGED <<active, slots, Edits!bounds>>
      /\ stage[r] = "idle" /\ stage' = [stage EXCEPT ![r] = "queued"]
  BY DEF EditsInv, Edits!Arrive
<1>2. RequestsFit
  BY <1>1 DEF RequestsStand
<1>3. PICK k \in {"tools", "label", "draft", "check"}, s \in EditSources, c \in EditChoices,
        l \in EditLabels :
        /\ (k # "tools" => c = Edits!First) /\ (k # "label" => l = Edits!Idle.lab)
             /\ (k = "draft" => s = Edits!Idle.src)
        /\ op' = [op EXCEPT ![r] = [Edits!Idle EXCEPT !.kind = k, !.src = s, !.sel = c, !.lab = l,
             !.rev = rev]]
        /\ IF k = "check" THEN Edits!CheckArrives(r) ELSE Edits!MutationArrives(r)
  BY Zenon DEF Edits!Arrive
<1> DEFINE o == [Edits!Idle EXCEPT !.kind = k, !.src = s, !.sel = c, !.lab = l, !.rev = rev]
<1>4. o \in Operations /\ o.kind = k
  <2>1. rev \in Nat /\ k \in Kinds
    BY <1>1 DEF DataStands, EditsDataFits, Kinds
  <2> QED BY ONLY <2>1, IdleFits DEF Operations
<1>5. op' = [op EXCEPT ![r] = o]
  BY <1>3
<1> HIDE DEF o
<1>6. /\ op'[r] = o /\ stage'[r] = "queued" /\ op' \in [EditRequests -> Operations]
      /\ stage' \in [EditRequests -> Edits!Stages]
      /\ \A q \in EditRequests \ {r} : stage'[q] = stage[q] /\ op'[q] = op[q]
  BY <1>1, <1>2, <1>4, <1>5 DEF RequestsFit, Edits!Stages
<1>7. ~EditsOpen(r) /\ EditsOpen(r)' /\ (Checks(r)' <=> k = "check")
  BY <1>1, <1>4, <1>6 DEF EditsOpen, Checks
<1>8. \E m \in [EditRequests -> Nat], u \in Nat : EditsOrdered(m, u)'
  <2>1. PICK n \in [EditRequests -> Nat], t \in Nat : EditsOrdered(n, t)
    BY <1>1 DEF RequestsStand, EditsQueued
  <2>2. \A q \in EditRequests \ {r} : (EditsOpen(q)' <=> EditsOpen(q)) /\ (Checks(q)' <=> Checks(q))
    BY <1>6 DEF EditsOpen, Checks
  <2>3. IF Checks(r)' THEN Edits!CheckArrives(r) ELSE Edits!MutationArrives(r)
    BY <1>3, <1>7
  <2> QED BY <1>2, <1>7, <2>1, <2>2, <2>3, ArrivalKeepsOrder DEF RequestsFit
<1>9. /\ after' \in [EditRequests -> SUBSET EditRequests] /\ tail' \subseteq EditRequests
      /\ checksAfter' \subseteq SUBSET EditRequests
      /\ \A q \in EditRequests \ {r} : after'[q] = after[q]
  <2>1. CASE k = "check"
    <3> DEFINE start == IF checksAfter = {} THEN tail ELSE CHOOSE x \in checksAfter : TRUE
    <3>1. start \in SUBSET EditRequests
      BY <1>2 DEF RequestsFit
    <3>2. after' = [after EXCEPT ![r] = start] /\ tail' = tail \cup {r} /\ checksAfter' = {start}
      BY <1>3, <2>1 DEF Edits!CheckArrives
    <3> HIDE DEF start
    <3> QED BY <1>2, <3>1, <3>2 DEF RequestsFit
  <2>2. CASE k # "check"
    BY <1>2, <1>3, <2>2 DEF RequestsFit, Edits!MutationArrives
  <2> QED BY <2>1, <2>2
<1>10. RequestsFit'
  <2>1. \A q \in EditRequests : stage'[q] \in StagesOf(op'[q].kind)
    BY <1>2, <1>4, <1>6 DEF RequestsFit, StagesOf
  <2> QED BY <1>1, <1>2, <1>6, <1>9, <2>1 DEF RequestsFit
<1>11. EditsQueued'
  BY <1>1, <1>6, <1>9, <1>8 DEF RequestsStand, EditsQueued, Working
<1>12. EditsPlaces'
  <2>1. Holders' = Holders
    BY <1>1, <1>6 DEF Holders, Holding, Checks
  <2>2. \A i \in 1..Len(slots) : slots[i] \in EditRequests \ {r} /\ stage[slots[i]] = "slot"
    BY <1>1, <1>2 DEF RequestsFit, RequestsStand, EditsPlaces
  <2>3. \A i \in 1..Len(slots) : stage'[slots[i]] = "slot"
    BY <1>6, <2>2
  <2> QED BY <1>1, <2>1, <2>3 DEF EditsPlaces, RequestsStand
<1>13. DataStands'
  BY <1>1, DataSame DEF Edits!bounds, DataStands, EditsDataFits
<1>14. WorkStands'
  <2> SUFFICES ASSUME NEW q \in EditRequests
               PROVE  ToolsStand(q)' /\ LabelStands(q)' /\ FloorStands(q)'
    BY DEF WorkStands
  <2>1. CASE q = r
    BY <1>6, <2>1 DEF ToolsStand, LabelStands, FloorStands, Begun, Working, Edits!Parts
  <2>2. CASE q # r
    BY <1>1, <1>6, <2>2, RelianceSame DEF WorkStands
  <2> QED BY <2>1, <2>2
<1> QED BY <1>10, <1>11, <1>12, <1>13, <1>14 DEF EditsInv, RequestsStand

\* The object restarts, and every request is gone.
LEMMA EditsRestartHolds ==
  ASSUME EditsInv, Edits!Restart
  PROVE  EditsInv'
<1>1. /\ RequestsStand /\ DataStands /\ UNCHANGED <<Edits!store, Edits!remote>>
      /\ outside' = outside /\ sourceFaults' = sourceFaults + 1
      /\ stage' = [r \in EditRequests |-> "idle"] /\ op' = [r \in EditRequests |-> Edits!Idle]
      /\ after' = [r \in EditRequests |-> {}]
      /\ tail' = {} /\ checksAfter' = {} /\ active' = 0 /\ slots' = <<>>
  BY DEF EditsInv, Edits!Restart, Edits!Fault
<1>2. \A r \in EditRequests : ~EditsOpen(r)' /\ ~Working(r)' /\ ~Holding(r)' /\ ~Checks(r)'
  BY <1>1, IdleFits DEF EditsOpen, Working, Holding, Checks
<1>3. RequestsFit'
  BY <1>1, IdleFits, EditLimits DEF RequestsFit, StagesOf, Edits!Stages
<1>4. EditsQueued'
  <2> DEFINE n == [r \in EditRequests |-> 0]
  <2>1. LastPlace(n, 0)' = {} /\ LastMutation(n, 0)' = {}
    BY <1>2 DEF LastPlace, LastMutation
  <2>2. n \in [EditRequests -> Nat]
    OBVIOUS
  <2> HIDE DEF n
  <2>3. EditsOrdered(n, 0)'
    BY <1>1, <1>2, <2>1 DEF EditsOrdered
  <2> QED BY <1>2, <2>2, <2>3 DEF EditsQueued
<1>5. EditsPlaces'
  <2>1. Holders' = {}
    BY <1>2 DEF Holders
  <2> QED BY <1>1, <2>1, FS_EmptySet DEF EditsPlaces
<1>6. DataStands'
  BY <1>1, DataSame DEF DataStands, EditsDataFits
<1>7. WorkStands'
  BY <1>1, <1>3, NobodyRelies
<1> QED BY <1>3, <1>4, <1>5, <1>6, <1>7 DEF EditsInv, RequestsStand


\* A request begins, or a check gets in line for a place.
LEMMA EditsBeginHolds ==
  ASSUME EditsInv, NEW r \in EditRequests, Edits!Begin(r)
  PROVE  EditsInv'
<1>1. /\ RequestsStand /\ DataStands /\ WorkStands /\ RequestsFit /\ EditsPlaces
      /\ UNCHANGED <<Edits!store, Edits!remote>>
      /\ UNCHANGED <<op, after, tail, checksAfter, Edits!bounds>>
      /\ stage[r] = "queued" /\ after[r] = {} /\ op' = op
  BY DEF EditsInv, Edits!Begin, RequestsStand
<1>2. /\ op[r].kind \in {"tools", "label", "draft", "check"}
      /\ \A q \in EditRequests \ {r} : stage'[q] = stage[q]
  BY <1>1, StageKinds DEF Kinds, Edits!Begin, RequestsFit
<1>3. /\ stage'[r] \in {"load", "slot"} /\ stage' \in [EditRequests -> Edits!Stages]
      /\ (stage'[r] = "slot" => Checks(r))
  BY <1>1 DEF Edits!Begin, RequestsFit, Edits!Stages, Checks
<1>4. EditsQueued'
  <2>1. PICK n \in [EditRequests -> Nat], t \in Nat : EditsOrdered(n, t)
    BY <1>1 DEF RequestsStand, EditsQueued
  <2>2. EditsOrdered(n, t)'
    BY <1>1, <1>2, <1>3, <2>1, EditsOrderStays DEF EditsOpen, Checks
  <2>3. \A q \in EditRequests : Working(q)' => after'[q] = {}
    BY <1>1, <1>2 DEF RequestsStand, EditsQueued, Working
  <2> QED BY <2>1, <2>2, <2>3 DEF EditsQueued
<1>5. \A i \in 1..Len(slots) : slots[i] \in EditRequests \ {r} /\ stage'[slots[i]] = "slot"
  BY <1>1, <1>2 DEF RequestsFit, EditsPlaces
<1>6. EditsPlaces' /\ active' \in 0..CheckLimit /\ slots' \in Seq(EditRequests)
  <2>1. CASE ~Checks(r)
    <3>1. UNCHANGED <<active, slots>>
      BY <2>1 DEF Edits!Begin, Checks
    <3>2. Holders' = Holders
      BY <1>1, <1>2, <2>1 DEF Holders, Holding, Checks
    <3> QED BY <1>1, <1>5, <3>1, <3>2 DEF EditsPlaces, RequestsFit
  <2>2. CASE Checks(r) /\ stage'[r] = "load"
    <3>1. active < CheckLimit /\ active' = active + 1 /\ slots' = slots
      BY <1>1, <2>2 DEF Edits!Begin, Checks, RequestsFit
    <3>2. \A q \in EditRequests : Holding(q)' <=> Holding(q) \/ q = r
      BY <1>1, <1>2, <2>2 DEF Holding, Checks
    <3>3. Holders' = Holders \cup {r} /\ r \notin Holders
      BY <1>1, <3>2 DEF Holders, Holding
    <3>4. Cardinality(Holders') = Cardinality(Holders) + 1
      BY <3>3, HoldersFinite, FS_AddElement
    <3> QED BY <1>1, <1>5, <3>1, <3>4, EditLimits DEF EditsPlaces, RequestsFit
  <2>3. CASE Checks(r) /\ stage'[r] = "slot"
    <3>1. active' = active /\ slots' = Append(slots, r)
      BY <1>1, <2>3 DEF Edits!Begin, Checks, RequestsFit
    <3>2. Holders' = Holders
      BY <1>1, <1>2, <2>3 DEF Holders, Holding, Checks
    <3>3. /\ slots \in Seq(EditRequests) /\ slots' \in Seq(EditRequests)
          /\ Len(slots') = Len(slots) + 1 /\ Len(slots) \in Nat
          /\ slots'[Len(slots) + 1] = r /\ \A i \in 1..Len(slots) : slots'[i] = slots[i]
      BY <1>1, <3>1 DEF RequestsFit
    <3>4. \A i \in 1..Len(slots') : i \in 1..Len(slots) \/ i = Len(slots) + 1
      BY <3>3
    <3>5. \A i \in 1..Len(slots') : stage'[slots'[i]] = "slot"
      BY <1>5, <2>3, <3>3, <3>4
    <3>6. \A i, j \in 1..Len(slots') : slots'[i] = slots'[j] => i = j
      BY <1>1, <1>5, <3>3, <3>4 DEF EditsPlaces
    <3> QED BY <1>1, <3>1, <3>2, <3>3, <3>5, <3>6 DEF EditsPlaces, RequestsFit
  <2> QED BY <1>3, <2>1, <2>2, <2>3
<1>7. RequestsFit'
  BY <1>1, <1>2, <1>3, <1>6 DEF RequestsFit, StagesOf, Checks
<1>8. DataStands'
  BY <1>1, DataSame DEF Edits!bounds, DataStands, EditsDataFits
<1>9. WorkStands'
  <2> SUFFICES ASSUME NEW q \in EditRequests
               PROVE  ToolsStand(q)' /\ LabelStands(q)' /\ FloorStands(q)'
    BY DEF WorkStands
  <2>1. CASE q = r
    BY <1>1, <1>3, <2>1 DEF Begun, Checks, ToolsStand, LabelStands, FloorStands, Edits!Parts
  <2>2. CASE q # r
    BY <1>1, <1>2, <2>2, RelianceSame DEF WorkStands
  <2> QED BY <2>1, <2>2
<1> QED BY <1>4, <1>6, <1>7, <1>8, <1>9 DEF EditsInv, RequestsStand

\* A mutation is answered, and nothing was stored or written.
LEMMA EditsGivesUp ==
  ASSUME EditsInv, NEW r \in EditRequests, Mutates(r), Working(r), Edits!Answer(r),
    UNCHANGED <<Edits!store, Edits!remote, outside>>,
         sourceFaults' \in Nat
  PROVE  EditsInv'
BY MutationAnswers, DataSame DEF EditsInv, DataStands, EditsDataFits

\* A mutation goes on, and nothing was stored or written.
LEMMA EditsGoesOn ==
  ASSUME EditsInv, NEW r \in EditRequests, Mutates(r), Working(r),
    NEW to \in StagesOf(op[r].kind) \ {"queued"}, Edits!Go(r, to),
         UNCHANGED <<Edits!store, Edits!remote, outside>>, sourceFaults' \in Nat,
         stage'[r] = to => (ToolsStand(r) /\ LabelStands(r) /\ FloorStands(r))'
  PROVE  EditsInv'
BY MutationGoes, DataSame DEF Edits!Go, EditsInv, RequestsStand, RequestsFit, DataStands,
  EditsDataFits

\* A mutation notes the catalogue it has read, and goes on to its journal.
LEMMA NotesCatalogue ==
  ASSUME EditsInv, NEW r \in EditRequests, Mutates(r), Working(r), NEW to \in {"arm", "raise"},
    to \in StagesOf(op[r].kind),
         stage' = [stage EXCEPT ![r] = to], op' = [op EXCEPT ![r].cat = offered], UNCHANGED Edits!queue,
         UNCHANGED <<Edits!store, Edits!remote, outside>>, sourceFaults' \in Nat
  PROVE  /\ op'[r].kind = op[r].kind /\ op'[r].src = op[r].src /\ op'[r].sel = op[r].sel
         /\ op'[r].lab = op[r].lab
         /\ stage'[r] = to
         /\ (ToolsStand(r) /\ LabelStands(r))' => EditsInv'
<1>1. op \in [EditRequests -> Operations] /\ offered \in [EditSources -> SUBSET EditTools]
  BY DEF EditsInv, RequestsStand, RequestsFit, DataStands, EditsDataFits, Edits!Catalogues
<1> DEFINE o == [op[r] EXCEPT !.cat = offered]
<1>2. /\ o \in Operations /\ o.kind = op[r].kind /\ o.src = op[r].src /\ o.sel = op[r].sel
      /\ o.lab = op[r].lab
  BY <1>1 DEF Operations
<1>3. op' = [op EXCEPT ![r] = o]
  OBVIOUS
<1> HIDE DEF o
<1>4. /\ op'[r] = o /\ op' \in [EditRequests -> Operations]
      /\ \A q \in EditRequests \ {r} : op'[q] = op[q]
  BY <1>1, <1>2, <1>3
<1>5. /\ RequestsStand' /\ stage'[r] = to
      /\ (ToolsStand(r) /\ LabelStands(r) /\ FloorStands(r))' => WorkStands'
  BY <1>2, <1>4, MutationGoes DEF EditsInv
<1>6. FloorStands(r)'
  BY <1>5 DEF FloorStands, Edits!Parts
<1>7. DataStands'
  BY DataSame DEF EditsInv, DataStands, EditsDataFits
<1> QED BY <1>2, <1>4, <1>5, <1>6, <1>7 DEF EditsInv


\* What holds of a request and of the data beside it.
LEMMA EditsOfRequest ==
  ASSUME EditsInv, NEW r \in EditRequests
  PROVE  /\ op[r].src \in EditSources /\ op[r].sel \in EditChoices /\ op[r].lab \in EditLabels
         /\ op[r].rev \in Nat
         /\ op[r].cat \in [EditSources -> SUBSET EditTools]
         /\ ToolsStand(r) /\ LabelStands(r) /\ FloorStands(r) /\ RequestsStand
         /\ EditsDataFits /\ EditsStand /\ FloorStored /\ MappingApproved /\ NamesKnown
         /\ rev \in Nat /\ sourceFaults \in Nat /\ outside \in Nat
         /\ stage \in [EditRequests -> Edits!Stages] /\ op \in [EditRequests -> Operations]
BY DEF EditsInv, RequestsStand, RequestsFit, DataStands, WorkStands, EditsDataFits, Operations

\* The Portal with the selection applied shows no more than it.
LEMMA ExactIsWithin ==
  ASSUME EditsInv, NEW r \in EditRequests, Edits!PortalExact(Edits!Selected(r), label, {op[r].src})
  PROVE  EditsWithin(op[r].src, op[r].sel)
BY EditsOfRequest DEF EditsDataFits, Edits!PortalExact, Edits!Available, Edits!Selected, EditsWithin

\* updateInstalledSourceTools loads the source and looks for an edit of its own.
LEMMA EditsLoadToolsHolds ==
  ASSUME EditsInv, NEW r \in EditRequests, Edits!LoadTools(r)
  PROVE  EditsInv'
<1>1. /\ stage[r] = "load" /\ op[r].kind = "tools" /\ Mutates(r) /\ Working(r) /\ ~Begun(r)
      /\ UNCHANGED <<Edits!store, Edits!remote, outside>> /\ sourceFaults' \in Nat
  BY EditsOfRequest DEF Edits!LoadTools, Edits!Loading, Mutates, Working, Begun, Edits!bounds
<1>2. CASE Edits!Answer(r)
  BY <1>1, <1>2, EditsGivesUp
<1>3. CASE /\ labelEdit = {} /\ (Edits!Mine(r) \/ toolEdit = {}) /\ rev < EditRevision
           /\ Edits!Go(r, "read")
  <2>1. toolEdit \subseteq {EditOf(r)}
    BY EditsOfRequest, <1>3 DEF EditsDataFits, EditsStand, Edits!ToolEdits, EditOf, Edits!Mine
  <2>2. UNCHANGED <<op, labelEdit, toolEdit, rev>>
    BY <1>1, <1>3 DEF Edits!Go, Edits!store
  <2>3. stage'[r] = "read" => (ToolsStand(r) /\ LabelStands(r) /\ FloorStands(r))'
    BY <1>1, <1>3, <2>1, <2>2 DEF ToolsStand, LabelStands, FloorStands, EditOf, Edits!Parts
  <2> QED BY <1>1, <1>3, <2>3, EditsGoesOn DEF StagesOf
<1> QED BY <1>2, <1>3 DEF Edits!LoadTools

\* The catalogue and the Portal are read.
LEMMA EditsReadToolsHolds ==
  ASSUME EditsInv, NEW r \in EditRequests, Edits!ReadTools(r)
  PROVE  EditsInv'
<1>1. /\ stage[r] = "read" /\ op[r].kind = "tools" /\ Mutates(r) /\ Working(r) /\ Begun(r)
      /\ UNCHANGED <<Edits!store, Edits!remote, outside>>
  BY DEF Edits!ReadTools, Mutates, Working, Begun
<1>2. sourceFaults' \in Nat
  BY EditsOfRequest DEF Edits!ReadTools, Edits!Fault
<1>3. labelEdit = {} /\ toolEdit \subseteq {EditOf(r)} /\ rev < EditRevision
  BY <1>1, EditsOfRequest DEF ToolsStand
<1>4. /\ UNCHANGED <<labelEdit, toolEdit, rev, sourcePortal, sourceDrift>>
  BY <1>1 DEF Edits!store, Edits!remote
<1>5. CASE Edits!Answer(r)
  BY <1>1, <1>2, <1>5, EditsGivesUp
<1>6. CASE Edits!PortalExact(Edits!Selected(r), label, {op[r].src}) /\ Edits!Go(r, "raise")
  BY <1>6, ExactIsWithin, <1>1, <1>3, <1>4, <1>2, EditsGoesOn DEF Edits!Go, ToolsStand, LabelStands,
    FloorStands, EditOf, Edits!Parts, EditsWithin, StagesOf
<1>7. CASE /\ stage' = [stage EXCEPT ![r] = "arm"] /\ op' = [op EXCEPT ![r].cat = offered]
           /\ UNCHANGED Edits!queue
  BY <1>1, <1>2, <1>7, NotesCatalogue, <1>3, <1>4 DEF StagesOf, ToolsStand, LabelStands, EditOf
<1> QED BY <1>5, <1>6, <1>7 DEF Edits!ReadTools

\* Older runtimes are kept out before the journal is written, and before an edit that is done is saved.
LEMMA EditsRaiseFloorHolds ==
  ASSUME EditsInv, NEW r \in EditRequests, Edits!RaiseFloor(r)
  PROVE  EditsInv'
<1>1. /\ stage[r] \in {"arm", "raise"} /\ op[r].kind \in {"tools", "label"} /\ Mutates(r)
      /\ Working(r) /\ Begun(r)
      /\ UNCHANGED <<sourceSaved, label, rev, toolEdit, labelEdit, Edits!remote, Edits!bounds>>
      /\ floor' = (floor \/ Edits!NeedsFloor(r))
      /\ UNCHANGED <<sourcePortal, names, offered, sourceDrift, sourceFaults, outside>>
  BY EditsOfRequest, StageKinds DEF Edits!RaiseFloor, Mutates, Working, Begun, Edits!bounds,
    Edits!remote
<1> DEFINE to == IF stage[r] = "arm" THEN "journal" ELSE "commit"
<1>2. Edits!Go(r, to) /\ op' = op /\ to \in StagesOf(op[r].kind) \ {"queued"}
  BY <1>1 DEF Edits!RaiseFloor, Edits!Go, StagesOf
<1>3. /\ RequestsStand' /\ stage'[r] = to
      /\ (ToolsStand(r) /\ LabelStands(r) /\ FloorStands(r))' => WorkStands'
  <2> HIDE DEF to
  <2>1. stage' = [stage EXCEPT ![r] = to] /\ UNCHANGED Edits!queue
    BY <1>2 DEF Edits!Go
  <2> QED BY <1>1, <1>2, <2>1, MutationGoes, EditsOfRequest
<1>4. DataStands'
  <2>1. floor' \in BOOLEAN /\ (floor => floor')
    BY <1>1, EditsOfRequest DEF EditsDataFits, Edits!NeedsFloor
  <2>2. EditsDataFits'
    BY <1>1, <2>1, EditsOfRequest DEF EditsDataFits
  <2>3. EditsStand' /\ FloorStored'
    BY <1>1, <2>1, EditsOfRequest DEF EditsStand, FloorStored
  <2>4. MappingApproved' /\ NamesKnown'
    BY <1>1, EditsOfRequest DEF MappingApproved, NamesKnown, EditsWithin
  <2> QED BY <2>2, <2>3, <2>4 DEF DataStands
<1>5. ToolsStand(r)'
  BY <1>1, <1>2, <1>3, EditsOfRequest DEF ToolsStand, Begun, Working, EditOf, EditsWithin
<1>6. LabelStands(r)'
  BY <1>1, <1>2, <1>3, EditsOfRequest DEF LabelStands, Begun, Working, RenameOf, Edits!Parts
<1>7. FloorStands(r)'
  BY <1>1, <1>2 DEF FloorStands, Edits!NeedsFloor
<1> QED BY <1>3, <1>4, <1>5, <1>6, <1>7 DEF EditsInv

\* The journal of an edit is written.
LEMMA EditsArmToolsHolds ==
  ASSUME EditsInv, NEW r \in EditRequests, Edits!ArmTools(r)
  PROVE  EditsInv'
<1>1. /\ stage[r] = "journal" /\ op[r].kind = "tools" /\ Mutates(r) /\ Working(r) /\ Begun(r)
      /\ UNCHANGED <<sourceSaved, label, rev, labelEdit, floor, Edits!remote, Edits!bounds>>
      /\ toolEdit' = {EditOf(r)}
      /\ UNCHANGED <<sourcePortal, names, offered, sourceDrift, sourceFaults, outside>>
      /\ Edits!Go(r, "put") /\ op' = op
  BY DEF Edits!ArmTools, Mutates, Working, Begun, Edits!bounds, Edits!remote, EditOf, Edits!Go
<1>2. labelEdit = {} /\ toolEdit \subseteq {EditOf(r)} /\ rev < EditRevision
  BY <1>1, EditsOfRequest DEF ToolsStand
<1>3. /\ RequestsStand' /\ stage'[r] = "put"
      /\ (ToolsStand(r) /\ LabelStands(r) /\ FloorStands(r))' => WorkStands'
  BY <1>1, MutationGoes, EditsOfRequest DEF Edits!Go, StagesOf
<1>4. DataStands'
  BY EditsOfRequest, <1>1, <1>2 DEF EditOf, Edits!ToolEdits, EditsDataFits, EditsStand, FloorStands,
    Edits!NeedsFloor, FloorStored, MappingApproved, NamesKnown, EditsWithin, DataStands
<1>5. ToolsStand(r)' /\ LabelStands(r)' /\ FloorStands(r)'
  BY <1>1, <1>2, <1>3, EditsOfRequest DEF ToolsStand, LabelStands, FloorStands, EditOf,
    Edits!NeedsFloor
<1> QED BY <1>3, <1>4, <1>5 DEF EditsInv

\* What a PUT of the Portal leaves.
LEMMA PutIsApproved ==
  ASSUME EditsInv, NEW r \in EditRequests, op[r].kind \in {"tools", "label"}, Begun(r),
    UNCHANGED <<Edits!store, names, offered, outside>>,
         sourceFaults' \in Nat, sourceDrift' = {},
         op[r].kind = "tools" => toolEdit = {EditOf(r)},
         NEW required,
         sourcePortal' = [s \in EditSources |->
           Edits!Available(IF op[r].kind = "tools" THEN Edits!Selected(r)[s] ELSE sourceSaved[s],
                           s, op[r].cat, required)]
  PROVE  /\ EditsDataFits' /\ EditsStand' /\ FloorStored' /\ MappingApproved'
<1>1. UNCHANGED <<sourceSaved, label, rev, toolEdit, labelEdit, floor>>
  BY DEF Edits!store
<1>2. /\ sourceSaved \in [EditSources -> EditChoices] /\ EditChoices \subseteq Edits!Mappings
      /\ op[r].sel \in EditChoices /\ op[r].src \in EditSources
      /\ Edits!Selected(r) \in [EditSources -> EditChoices]
      /\ op[r].cat \in [EditSources -> SUBSET EditTools]
  BY EditsOfRequest, EditSelections DEF EditsDataFits, Edits!Mappings, Edits!Selected
<1>3. ASSUME NEW c \in Edits!Mappings, NEW s \in EditSources
      PROVE  /\ Edits!Available(c, s, op[r].cat, required) \in Edits!Mappings
             /\ Edits!Available(c, s, op[r].cat, required).all = c.all
             /\ Edits!Available(c, s, op[r].cat, required).tools \subseteq c.tools
  BY <1>2 DEF Edits!Available, Edits!Mappings
<1>4. ASSUME NEW s \in EditSources
      PROVE  /\ sourcePortal'[s] \in Edits!Mappings
             /\ op[r].kind = "tools" /\ s = op[r].src =>
                  /\ sourcePortal'[s].all = op[r].sel.all
                  /\ sourcePortal'[s].tools \subseteq op[r].sel.tools
             /\ op[r].kind # "tools" \/ s # op[r].src =>
                  /\ sourcePortal'[s].all = sourceSaved[s].all
                  /\ sourcePortal'[s].tools \subseteq sourceSaved[s].tools
  <2> DEFINE c == IF op[r].kind = "tools" THEN Edits!Selected(r)[s] ELSE sourceSaved[s]
  <2>1. c \in Edits!Mappings /\ sourcePortal'[s] = Edits!Available(c, s, op[r].cat, required)
    BY <1>2
  <2>2. op[r].kind = "tools" /\ s = op[r].src => c = op[r].sel
    BY <1>2 DEF Edits!Selected
  <2>3. op[r].kind # "tools" \/ s # op[r].src => c = sourceSaved[s]
    BY <1>2 DEF Edits!Selected
  <2> HIDE DEF c
  <2>4. /\ sourcePortal'[s] \in Edits!Mappings /\ sourcePortal'[s].all = c.all
        /\ sourcePortal'[s].tools \subseteq c.tools
    BY <1>3, <2>1
  <2>5. op[r].kind = "tools" /\ s = op[r].src =>
          sourcePortal'[s].all = op[r].sel.all /\ sourcePortal'[s].tools \subseteq op[r].sel.tools
    BY <2>2, <2>4
  <2> QED BY <2>3, <2>4, <2>5
<1>5. EditsDataFits'
  BY <1>1, <1>4, EditsOfRequest DEF EditsDataFits
<1>6. EditsStand' /\ FloorStored'
  BY <1>1, EditsOfRequest DEF EditsStand, FloorStored
<1>7. MappingApproved'
  <2> SUFFICES ASSUME NEW s \in EditSources
               PROVE  \/ /\ sourcePortal'[s].all = sourceSaved[s].all
                         /\ sourcePortal'[s].tools \subseteq sourceSaved[s].tools
                      \/ \E e \in toolEdit : /\ e.src = s
                                             /\ sourcePortal'[s].all = e.sel.all
                                             /\ sourcePortal'[s].tools \subseteq e.sel.tools
    BY <1>1 DEF MappingApproved, EditsWithin
  <2>1. CASE op[r].kind = "tools" /\ s = op[r].src
    <3>1. EditOf(r) \in toolEdit /\ EditOf(r).src = s /\ EditOf(r).sel = op[r].sel
      BY <2>1 DEF EditOf
    <3> QED BY <1>4, <2>1, <3>1
  <2>2. CASE op[r].kind # "tools" \/ s # op[r].src
    BY <1>4, <2>2
  <2> QED BY <2>1, <2>2
<1> QED BY <1>5, <1>6, <1>7


\* The Portal is written.
LEMMA EditsPutToolsHolds ==
  ASSUME EditsInv, NEW r \in EditRequests, Edits!PutTools(r)
  PROVE  EditsInv'
<1>1. /\ stage[r] = "put" /\ op[r].kind = "tools" /\ Mutates(r) /\ Working(r) /\ Begun(r)
      /\ UNCHANGED <<Edits!store, names, offered, outside>>
      /\ UNCHANGED <<sourceSaved, label, rev, toolEdit, labelEdit, floor>>
  BY DEF Edits!PutTools, Mutates, Working, Begun, Edits!store
<1>2. labelEdit = {} /\ toolEdit = {EditOf(r)} /\ rev < EditRevision
  BY <1>1, EditsOfRequest DEF ToolsStand
<1>3. sourceFaults' \in Nat
  BY EditsOfRequest DEF Edits!PutTools, Edits!Fault
<1> DEFINE Put == [s \in EditSources |-> Edits!Available(Edits!Selected(r)[s], s, op[r].cat,
  {op[r].src})]
           Written == sourcePortal' = Put /\ sourceDrift' = {}
<1>4. Written => DataStands'
  <2>1. Written => EditsDataFits' /\ EditsStand' /\ FloorStored' /\ MappingApproved'
    BY <1>1, <1>2, <1>3, PutIsApproved
  <2>2. NamesKnown'
    BY <1>1, EditsOfRequest DEF NamesKnown
  <2> QED BY <2>1, <2>2 DEF DataStands
<1>5. UNCHANGED <<sourcePortal, sourceDrift>> => DataStands'
  BY <1>1, <1>3, DataSame DEF EditsInv, Edits!remote, DataStands, EditsDataFits
<1>6. CASE Written /\ Edits!Go(r, "verify")
  BY <1>1, <1>6, MutationGoes, EditsOfRequest, <1>2, <1>4 DEF Edits!Go, StagesOf, ToolsStand,
    LabelStands, FloorStands, EditOf, Edits!NeedsFloor, EditsInv
<1>7. CASE Edits!Answer(r) /\ (Written \/ UNCHANGED <<sourcePortal, sourceDrift>>)
  BY <1>1, <1>4, <1>5, <1>7, MutationAnswers, EditsOfRequest DEF EditsInv
<1> QED BY <1>6, <1>7 DEF Edits!PutTools

\* The Portal is read back.
LEMMA EditsVerifyToolsHolds ==
  ASSUME EditsInv, NEW r \in EditRequests, Edits!VerifyTools(r)
  PROVE  EditsInv'
<1>1. /\ stage[r] = "verify" /\ op[r].kind = "tools" /\ Mutates(r) /\ Working(r) /\ Begun(r)
      /\ UNCHANGED <<Edits!store, Edits!remote, outside>>
      /\ UNCHANGED <<sourceSaved, label, rev, toolEdit, labelEdit, floor, sourcePortal, sourceDrift>>
  BY DEF Edits!VerifyTools, Mutates, Working, Begun, Edits!store, Edits!remote
<1>2. sourceFaults' \in Nat
  BY EditsOfRequest DEF Edits!VerifyTools, Edits!Fault
<1>3. CASE Edits!Answer(r)
  BY <1>1, <1>2, <1>3, EditsGivesUp
<1>4. CASE Edits!PortalExact(Edits!Selected(r), label, {op[r].src}) /\ Edits!Go(r, "commit")
  BY <1>4, ExactIsWithin, <1>1, EditsOfRequest, <1>2, EditsGoesOn DEF Edits!Go, ToolsStand,
    LabelStands, FloorStands, EditOf, Edits!NeedsFloor, EditsWithin, StagesOf
<1> QED BY <1>3, <1>4 DEF Edits!VerifyTools

\* Selection, revision and journal are written at once.
LEMMA EditsCommitToolsHolds ==
  ASSUME EditsInv, NEW r \in EditRequests, Edits!CommitTools(r)
  PROVE  EditsInv'
<1>1. /\ stage[r] = "commit" /\ op[r].kind = "tools" /\ Mutates(r) /\ Working(r) /\ Begun(r)
      /\ Edits!Answer(r)
      /\ sourceSaved' = Edits!Selected(r) /\ rev' = rev + 1 /\ toolEdit' = {}
      /\ UNCHANGED <<label, labelEdit, floor, sourcePortal, names, offered, sourceDrift,
           sourceFaults, outside>>
  BY DEF Edits!CommitTools, Mutates, Working, Begun, Edits!remote, Edits!bounds
<1>2. /\ labelEdit = {} /\ toolEdit \subseteq {EditOf(r)} /\ rev < EditRevision
      /\ op[r].src \notin sourceDrift => EditsWithin(op[r].src, op[r].sel)
  BY <1>1, EditsOfRequest DEF ToolsStand
<1>3. RequestsStand' /\ WorkStands'
  BY <1>1, MutationAnswers, EditsOfRequest
<1>4. /\ sourceSaved' \in [EditSources -> EditChoices] /\ sourceSaved'[op[r].src] = op[r].sel
      /\ op[r].src \in EditSources
      /\ \A s \in EditSources : s # op[r].src => sourceSaved'[s] = sourceSaved[s]
  BY <1>1, EditsOfRequest DEF Edits!Selected, EditsDataFits
<1>5. EditsDataFits'
  BY <1>1, <1>2, <1>4, EditsOfRequest, EditLimits DEF EditsDataFits
<1>6. EditsStand'
  BY <1>1, <1>2 DEF EditsStand
<1>7. FloorStored'
  BY <1>1, EditsOfRequest, <1>2, <1>4 DEF FloorStands, Edits!NeedsFloor, FloorStored
<1>8. MappingApproved' /\ NamesKnown'
  BY <1>1, <1>2, <1>4, EditsOfRequest DEF MappingApproved, EditsWithin, EditOf, NamesKnown
<1> QED BY <1>3, <1>5, <1>6, <1>7, <1>8 DEF EditsInv, DataStands

\* updateInstalledSourceLabel loads the source and looks for a rename of its own.
LEMMA EditsLoadLabelHolds ==
  ASSUME EditsInv, NEW r \in EditRequests, Edits!LoadLabel(r)
  PROVE  EditsInv'
<1>1. /\ stage[r] = "load" /\ op[r].kind = "label" /\ Mutates(r) /\ Working(r) /\ ~Begun(r)
      /\ UNCHANGED <<Edits!store, Edits!remote, outside>> /\ sourceFaults' \in Nat
  BY EditsOfRequest DEF Edits!LoadLabel, Edits!Loading, Mutates, Working, Begun, Edits!bounds
<1>2. CASE Edits!Answer(r)
  BY <1>1, <1>2, EditsGivesUp
<1>3. CASE Edits!LabelOpen(r) /\ rev < EditRevision /\ Edits!Go(r, "read")
  <2>1. toolEdit = {} /\ labelEdit \subseteq {RenameOf(r)}
    BY EditsOfRequest, <1>3 DEF EditsDataFits, EditsStand, Edits!LabelEdits, RenameOf,
      Edits!LabelOpen
  <2>2. UNCHANGED <<op, labelEdit, toolEdit, rev>>
    BY <1>1, <1>3 DEF Edits!Go, Edits!store
  <2>3. stage'[r] = "read" => (ToolsStand(r) /\ LabelStands(r) /\ FloorStands(r))'
    BY <1>1, <1>3, <2>1, <2>2 DEF ToolsStand, LabelStands, FloorStands, RenameOf, Edits!Parts
  <2> QED BY <1>1, <1>3, <2>3, EditsGoesOn DEF StagesOf
<1> QED BY <1>2, <1>3 DEF Edits!LoadLabel

\* The server, the Portal and the policies are read.
LEMMA EditsReadLabelHolds ==
  ASSUME EditsInv, NEW r \in EditRequests, Edits!ReadLabel(r)
  PROVE  EditsInv'
<1>1. /\ stage[r] = "read" /\ op[r].kind = "label" /\ Mutates(r) /\ Working(r) /\ Begun(r)
      /\ UNCHANGED <<Edits!store, Edits!remote, outside>>
  BY DEF Edits!ReadLabel, Mutates, Working, Begun
<1>2. sourceFaults' \in Nat
  BY EditsOfRequest DEF Edits!ReadLabel, Edits!Fault
<1>3. toolEdit = {} /\ labelEdit \subseteq {RenameOf(r)} /\ rev < EditRevision
  BY <1>1, EditsOfRequest DEF LabelStands
<1>4. /\ UNCHANGED <<labelEdit, toolEdit, rev, names>>
  BY <1>1 DEF Edits!store, Edits!remote
<1>5. CASE Edits!Answer(r)
  BY <1>1, <1>2, <1>5, EditsGivesUp
<1>6. CASE ~Edits!Answer(r)
  <2>1. PICK to \in {"arm", "raise"} :
          /\ stage' = [stage EXCEPT ![r] = to] /\ op' = [op EXCEPT ![r].cat = offered]
          /\ UNCHANGED Edits!queue
          /\ to = "raise" => \A p \in Edits!Parts : names[op[r].src][p] = op[r].lab
    BY <1>6 DEF Edits!ReadLabel
  <2>2. /\ op'[r].kind = op[r].kind /\ op'[r].src = op[r].src /\ op'[r].lab = op[r].lab
        /\ stage'[r] = to
        /\ (ToolsStand(r) /\ LabelStands(r))' => EditsInv'
    BY <1>1, <1>2, <2>1, NotesCatalogue DEF StagesOf
  <2>3. (ToolsStand(r) /\ LabelStands(r))'
    BY <1>1, <1>3, <1>4, <2>1, <2>2 DEF ToolsStand, LabelStands, RenameOf, Edits!Parts
  <2> QED BY <2>2, <2>3
<1> QED BY <1>5, <1>6

\* The journal of a rename is written.
LEMMA EditsArmLabelHolds ==
  ASSUME EditsInv, NEW r \in EditRequests, Edits!ArmLabel(r)
  PROVE  EditsInv'
<1>1. /\ stage[r] = "journal" /\ op[r].kind = "label" /\ Mutates(r) /\ Working(r) /\ Begun(r)
      /\ UNCHANGED <<sourceSaved, label, rev, toolEdit, floor, Edits!remote, Edits!bounds>>
      /\ labelEdit' = {RenameOf(r)}
      /\ UNCHANGED <<sourcePortal, names, offered, sourceDrift, sourceFaults, outside>>
      /\ Edits!Go(r, "server") /\ op' = op
  BY DEF Edits!ArmLabel, Mutates, Working, Begun, Edits!bounds, Edits!remote, RenameOf, Edits!Go
<1>2. toolEdit = {} /\ labelEdit \subseteq {RenameOf(r)} /\ rev < EditRevision
  BY <1>1, EditsOfRequest DEF LabelStands
<1>3. /\ RequestsStand' /\ stage'[r] = "server"
      /\ (ToolsStand(r) /\ LabelStands(r) /\ FloorStands(r))' => WorkStands'
  BY <1>1, MutationGoes, EditsOfRequest DEF Edits!Go, StagesOf
<1>4. DataStands'
  BY EditsOfRequest, <1>1, <1>2 DEF RenameOf, Edits!LabelEdits, EditsDataFits, EditsStand,
    FloorStands, Edits!NeedsFloor, FloorStored, MappingApproved, NamesKnown, EditsWithin, DataStands
<1>5. ToolsStand(r)' /\ LabelStands(r)' /\ FloorStands(r)'
  BY <1>1, <1>2, <1>3, EditsOfRequest DEF ToolsStand, LabelStands, FloorStands, RenameOf,
    Edits!NeedsFloor, Edits!Parts
<1> QED BY <1>3, <1>4, <1>5 DEF EditsInv


\* A part gets its new name, or has it already.
LEMMA EditsPutNameHolds ==
  ASSUME EditsInv, NEW r \in EditRequests, NEW p \in Edits!Parts, Edits!PutName(r, p)
  PROVE  EditsInv'
<1>1. /\ stage[r] = p /\ op[r].kind = "label" /\ Mutates(r) /\ Working(r) /\ Begun(r)
      /\ UNCHANGED <<Edits!store, offered, outside>>
      /\ UNCHANGED <<sourceSaved, label, rev, toolEdit, labelEdit, floor>>
  BY DEF Edits!PutName, Mutates, Working, Begun, Edits!store, Edits!Parts
<1>2. toolEdit = {} /\ labelEdit = {RenameOf(r)} /\ rev < EditRevision
  BY <1>1, EditsOfRequest DEF LabelStands
<1>3. sourceFaults' \in Nat
  BY EditsOfRequest DEF Edits!PutName, Edits!Fault
<1> DEFINE Put     == [x \in EditSources |-> Edits!Available(sourceSaved[x], x, op[r].cat, {})]
           Whole   == sourcePortal' = Put /\ sourceDrift' = {}
           Body    == IF p = "portal" THEN Whole ELSE UNCHANGED <<sourcePortal, sourceDrift>>
           Written == names' = [names EXCEPT ![op[r].src][p] = op[r].lab] /\ Body
           Same    == UNCHANGED <<names, sourcePortal, sourceDrift>>
<1>4. \/ names[op[r].src][p] = op[r].lab /\ Same /\ Edits!Go(r, Edits!After(p))
      \/ Written /\ Edits!Go(r, Edits!After(p))
      \/ (Written \/ Same) /\ Edits!Answer(r)
  BY DEF Edits!PutName
<1>5. Same => DataStands'
  BY <1>1, <1>3, DataSame DEF EditsInv, Edits!remote, DataStands, EditsDataFits
<1>6. Written => /\ names' \in [EditSources -> [Edits!Parts -> EditLabels]]
                 /\ names'[op[r].src][p] = op[r].lab
                 /\ \A s \in EditSources, x \in Edits!Parts : s # op[r].src \/ x # p =>
                      names'[s][x] = names[s][x]
  BY EditsOfRequest DEF EditsDataFits
<1>7. ASSUME Written
      PROVE  DataStands'
  <2>1. NamesKnown'
    <3> SUFFICES ASSUME NEW s \in EditSources, NEW x \in Edits!Parts
                 PROVE  names'[s][x] = label[s] \/ \E e \in labelEdit :
                          e.src = s /\ names'[s][x] = e.lab
      BY <1>1 DEF NamesKnown
    <3>1. CASE s = op[r].src /\ x = p
      BY <1>2, <3>1, <1>6, <1>7 DEF RenameOf
    <3>2. CASE s # op[r].src \/ x # p
      BY <1>6, <1>7, <3>2, EditsOfRequest DEF NamesKnown
    <3> QED BY <3>1, <3>2
  <2>2. /\ sourcePortal' \in [EditSources -> Edits!Mappings] /\ sourceDrift' \subseteq EditSources
        /\ MappingApproved'
    <3>1. CASE p = "portal"
      <4>1. /\ sourceSaved \in [EditSources -> EditChoices] /\ EditChoices \subseteq Edits!Mappings
            /\ op[r].cat \in [EditSources -> SUBSET EditTools]
        BY EditsOfRequest, EditSelections DEF EditsDataFits, Edits!Mappings
      <4>2. /\ sourceDrift' = {}
            /\ \A x \in EditSources : sourcePortal'[x] = Edits!Available(sourceSaved[x], x,
                 op[r].cat, {})
        BY <1>7, <3>1
      <4>3. ASSUME NEW x \in EditSources
            PROVE  /\ Edits!Available(sourceSaved[x], x, op[r].cat, {}) \in Edits!Mappings
                   /\ EditsWithin(x, sourceSaved[x])'
        <5>1. sourceSaved[x] \in Edits!Mappings /\ op[r].cat[x] \subseteq EditTools
          BY <4>1
        <5>2. Edits!Available(sourceSaved[x], x, op[r].cat,
                {}) = [sourceSaved[x] EXCEPT !.tools = @ \cap op[r].cat[x]]
          BY DEF Edits!Available
        <5>3. [sourceSaved[x] EXCEPT !.tools = @ \cap op[r].cat[x]] \in Edits!Mappings
          BY <5>1 DEF Edits!Mappings
        <5>4. /\ [sourceSaved[x] EXCEPT !.tools = @ \cap op[r].cat[x]].all = sourceSaved[x].all
              /\ [sourceSaved[x] EXCEPT !.tools = @ \cap op[r].cat[x]].tools \subseteq sourceSaved[x].tools
          BY <5>1 DEF Edits!Mappings
        <5>5. /\ sourcePortal'[x].all = sourceSaved[x].all
              /\ sourcePortal'[x].tools \subseteq sourceSaved[x].tools
          BY <4>2, <5>2, <5>4
        <5> QED BY <1>1, <5>2, <5>3, <5>5 DEF EditsWithin
      <4>4. sourcePortal' \in [EditSources -> Edits!Mappings]
        BY <1>7, <3>1, <4>3
      <4> QED BY <1>1, <4>2, <4>3, <4>4 DEF MappingApproved
    <3>2. CASE p # "portal"
      BY <1>1, <1>7, <3>2, EditsOfRequest DEF EditsDataFits, MappingApproved, EditsWithin
    <3> QED BY <3>1, <3>2
  <2>3. EditsDataFits'
    BY <1>1, <1>3, <1>6, <1>7, <2>2, EditsOfRequest DEF EditsDataFits
  <2>4. EditsStand' /\ FloorStored'
    BY <1>1, EditsOfRequest DEF EditsStand, FloorStored
  <2> QED BY <2>1, <2>2, <2>3, <2>4 DEF DataStands
<1> HIDE DEF Written, Same
<1>8. CASE (Written \/ Same) /\ Edits!Answer(r)
  BY <1>1, <1>5, <1>7, <1>8, MutationAnswers, EditsOfRequest DEF EditsInv
<1>9. CASE Edits!Go(r, Edits!After(p)) /\ (Written \/ (names[op[r].src][p] = op[r].lab /\ Same))
  <2>1. /\ Edits!After("server") = "portal" /\ Edits!After("portal") = "policy"
        /\ Edits!After("policy") = "commit"
        /\ Edits!After(p) \in {"portal", "policy", "commit"} /\ p \in {"server", "portal", "policy"}
    BY DEF Edits!After, Edits!Parts
  <2>2. op' = op /\ stage' = [stage EXCEPT ![r] = Edits!After(p)] /\ UNCHANGED Edits!queue
        /\ Edits!After(p) \in StagesOf(op[r].kind) \ {"queued"}
    BY <1>1, <1>9, <2>1 DEF Edits!Go, StagesOf
  <2>3. /\ RequestsStand' /\ stage'[r] = Edits!After(p)
        /\ (ToolsStand(r) /\ LabelStands(r) /\ FloorStands(r))' => WorkStands'
    BY <1>1, <2>2, MutationGoes, EditsOfRequest
  <2>4. /\ names'[op[r].src][p] = op[r].lab
        /\ \A x \in Edits!Parts : x # p => names'[op[r].src][x] = names[op[r].src][x]
    BY <1>6, <1>9, EditsOfRequest DEF Same
  <2>5. /\ p \in {"portal", "policy"} => names[op[r].src]["server"] = op[r].lab
        /\ p = "policy" => names[op[r].src]["portal"] = op[r].lab
    BY <1>1, EditsOfRequest DEF LabelStands
  <2>6. LabelStands(r)'
    BY <1>1, <1>2, <2>1, <2>2, <2>3, <2>4, <2>5 DEF LabelStands, RenameOf, Edits!Parts
  <2>7. ToolsStand(r)' /\ FloorStands(r)'
    BY <1>1, <2>2, EditsOfRequest DEF ToolsStand, FloorStands, Edits!NeedsFloor
  <2> QED BY <1>5, <1>7, <1>9, <2>3, <2>6, <2>7 DEF EditsInv
<1> QED BY <1>4, <1>8, <1>9

\* Label, revision and journal are written at once.
LEMMA EditsCommitLabelHolds ==
  ASSUME EditsInv, NEW r \in EditRequests, Edits!CommitLabel(r)
  PROVE  EditsInv'
BY EditsOfRequest, MutationAnswers, EditLimits DEF Edits!CommitLabel, Mutates, Working, Begun,
  Edits!remote, Edits!bounds, LabelStands, FloorStands, Edits!NeedsFloor, Edits!Parts,
  Edits!Renamed, EditsDataFits, EditsStand, FloorStored, MappingApproved, EditsWithin, NamesKnown,
  RenameOf, EditsInv, DataStands

\* A draft is saved where no edit is unfinished.
LEMMA EditsSaveDraftHolds ==
  ASSUME EditsInv, NEW r \in EditRequests, Edits!SaveDraft(r)
  PROVE  EditsInv'
<1>1. /\ op[r].kind = "draft" /\ Mutates(r) /\ Working(r) /\ Edits!Answer(r)
      /\ UNCHANGED <<sourceSaved, label, toolEdit, labelEdit, floor, sourcePortal, names, offered,
           sourceDrift, sourceFaults, outside>>
      /\ rev' = (IF Edits!DraftOpen /\ rev < EditRevision THEN Edits!SavedRevision(r) ELSE rev)
  BY DEF Edits!SaveDraft, Mutates, Working, Edits!remote, Edits!bounds
<1>2. RequestsStand' /\ WorkStands'
  BY <1>1, MutationAnswers, EditsOfRequest
<1>3. rev \in 1..EditRevision /\ EditRevision \in Nat
  BY EditsOfRequest, EditLimits DEF EditsDataFits
<1>4. rev' \in 1..EditRevision /\ (rev' = rev \/ toolEdit \cup labelEdit = {})
  BY <1>1, <1>3 DEF Edits!SavedRevision, Edits!DraftOpen
<1>5. EditsDataFits'
  BY <1>1, <1>4, EditsOfRequest DEF EditsDataFits
<1>6. EditsStand' /\ FloorStored'
  BY <1>1, <1>4, EditsOfRequest DEF EditsStand, FloorStored
<1>7. MappingApproved' /\ NamesKnown'
  BY <1>1, EditsOfRequest DEF MappingApproved, NamesKnown, EditsWithin
<1> QED BY <1>2, <1>5, <1>6, <1>7 DEF EditsInv, DataStands

\* A connection check begins and looks at the Portal.
LEMMA EditsLookHolds ==
  ASSUME EditsInv, NEW r \in EditRequests, Edits!LoadCheck(r) \/ Edits!Inspect(r)
  PROVE  EditsInv'
BY EditsOfRequest, StageKinds, CheckGoes, CheckAnswers, DataSame DEF Edits!LoadCheck, Edits!Loading,
  Edits!Inspect, Holding, Checks, Edits!bounds, EditsInv

\* Cloudflare reads the tools of a source again.
LEMMA ResyncNarrows ==
  ASSUME EditsInv, NEW s \in EditSources, Edits!Resync(s)
  PROVE  /\ offered' \in [EditSources -> Edits!Catalogues]
         /\ sourcePortal' \in [EditSources -> Edits!Mappings]
         /\ \A x \in EditSources :
              sourcePortal'[x].all = sourcePortal[x].all /\
              sourcePortal'[x].tools \subseteq sourcePortal[x].tools
<1>1. /\ offered \in [EditSources -> Edits!Catalogues]
      /\ sourcePortal \in [EditSources -> Edits!Mappings]
  BY DEF EditsInv, DataStands, EditsDataFits
<1>2. PICK u \in Edits!Catalogues :
        offered' = [offered EXCEPT ![s] = u] /\
        sourcePortal' = [sourcePortal EXCEPT ![s].tools = @ \cap u]
  BY DEF Edits!Resync
<1> DEFINE c == [sourcePortal[s] EXCEPT !.tools = @ \cap u]
<1>3. c \in Edits!Mappings /\ c.all = sourcePortal[s].all /\ c.tools \subseteq sourcePortal[s].tools
  BY <1>1 DEF Edits!Mappings
<1>4. sourcePortal' = [sourcePortal EXCEPT ![s] = c]
  BY <1>2
<1> HIDE DEF c
<1> QED BY <1>1, <1>2, <1>3, <1>4

\* A check has the catalogue read again.
LEMMA EditsSyncSourceHolds ==
  ASSUME EditsInv, NEW r \in EditRequests, Edits!SyncSource(r)
  PROVE  EditsInv'
BY EditsOfRequest, StageKinds, CheckAnswers, ResyncNarrows, MappingNarrows DEF Edits!SyncSource,
  Edits!bounds, Holding, EditsInv, EditsDataFits

\* Cloudflare changes a source's catalogue, or somebody its mapping.
LEMMA EditsOutsideHolds ==
  ASSUME EditsInv, NEW s \in EditSources, Edits!Upstream(s) \/ Edits!Tamper(s)
  PROVE  EditsInv'
<1>1. /\ UNCHANGED <<Edits!store, names, stage, op, Edits!queue, sourceFaults>>
      /\ outside' = outside + 1
  BY DEF Edits!Upstream, Edits!Tamper
<1>2. /\ RequestsStand /\ DataStands /\ WorkStands /\ RequestsFit /\ EditsDataFits
  BY DEF EditsInv, RequestsStand, DataStands
<1>3. RequestsStand'
  BY <1>1, <1>2, RequestsSame
<1>4. /\ offered' \in [EditSources -> Edits!Catalogues]
      /\ sourcePortal' \in [EditSources -> Edits!Mappings] /\ sourceDrift' \subseteq EditSources
      /\ \A x \in EditSources \ sourceDrift' :
           /\ x \notin sourceDrift /\ sourcePortal'[x].all = sourcePortal[x].all
           /\ sourcePortal'[x].tools \subseteq sourcePortal[x].tools
  <2>1. CASE Edits!Upstream(s)
    BY <1>2, <2>1, ResyncNarrows DEF Edits!Upstream, EditsDataFits
  <2>2. CASE Edits!Tamper(s)
    <3>1. /\ EditChoices \subseteq Edits!Mappings /\ offered' = offered
          /\ sourceDrift' = sourceDrift \cup {s}
      BY <2>2, EditSelections DEF Edits!Mappings, Edits!Tamper
    <3>2. PICK c \in EditChoices : sourcePortal' = [sourcePortal EXCEPT ![s] = c]
      BY <2>2 DEF Edits!Tamper
    <3> QED BY <1>2, <3>1, <3>2 DEF EditsDataFits
  <2> QED BY <2>1, <2>2
<1>5. DataStands' /\ WorkStands'
  BY <1>1, <1>2, <1>4, MappingNarrows DEF EditsDataFits
<1> QED BY <1>3, <1>5 DEF EditsInv


\* At the start everything is as it was saved, and nobody asks.
LEMMA EditsInitHolds == Edits!Init => EditsInv
<1> SUFFICES ASSUME Edits!Init
             PROVE  EditsInv
  OBVIOUS
<1>1. /\ Edits!Idle \in Operations /\ Edits!Idle.kind = "none" /\ Edits!Idle.lab \in EditLabels
      /\ Edits!First \in EditChoices /\ ~Edits!First.all
      /\ Edits!First \in Edits!Mappings /\ 1 \in 1..EditRevision
  BY IdleFits, EditSelections, EditLimits DEF Operations, Edits!Mappings
<1>2. /\ \A r \in EditRequests : stage[r] = "idle" /\ op[r] = Edits!Idle /\ after[r] = {}
      /\ stage \in [EditRequests -> Edits!Stages] /\ op \in [EditRequests -> Operations]
      /\ after \in [EditRequests -> SUBSET EditRequests]
      /\ tail = {} /\ checksAfter = {} /\ active = 0 /\ slots = <<>>
  BY <1>1 DEF Edits!Init, Edits!Stages
<1>3. \A r \in EditRequests : ~EditsOpen(r) /\ ~Working(r) /\ ~Holding(r)
  BY <1>2 DEF EditsOpen, Working, Holding
<1>4. RequestsFit
  BY <1>1, <1>2, EditLimits DEF StagesOf, RequestsFit
<1>5. EditsQueued
  <2> DEFINE n == [r \in EditRequests |-> 0]
  <2>1. LastPlace(n, 0) = {} /\ LastMutation(n, 0) = {}
    BY <1>3 DEF LastPlace, LastMutation
  <2>2. n \in [EditRequests -> Nat]
    OBVIOUS
  <2> HIDE DEF n
  <2>3. EditsOrdered(n, 0)
    BY <1>2, <1>3, <2>1 DEF EditsOrdered
  <2> QED BY <1>3, <2>2, <2>3 DEF EditsQueued
<1>6. EditsPlaces
  BY <1>3, <1>2, FS_EmptySet DEF Holders, EditsPlaces
<1>7. EditsDataFits
  BY <1>1 DEF Edits!Init, EditsDataFits, Edits!Catalogues
<1>8. EditsStand /\ FloorStored
  BY <1>1 DEF Edits!Init, EditsStand, FloorStored
<1>9. MappingApproved /\ NamesKnown
  BY DEF Edits!Init, MappingApproved, NamesKnown, EditsWithin
<1>10. WorkStands
  BY <1>2 DEF WorkStands, ToolsStand, LabelStands, FloorStands, Begun, Working, Edits!Parts
<1> QED BY <1>4, <1>5, <1>6, <1>7, <1>8, <1>9, <1>10 DEF EditsInv, RequestsStand, DataStands

\* Every step keeps the invariant.
LEMMA EditsStepHolds == EditsInv /\ [Edits!Next]_(Edits!vars) => EditsInv'
<1> SUFFICES ASSUME EditsInv, [Edits!Next]_(Edits!vars)
             PROVE  EditsInv'
  OBVIOUS
<1>1. CASE UNCHANGED Edits!vars
  BY <1>1, RequestsSame, DataSame, RelianceSame DEF Edits!vars, Edits!store, Edits!remote,
    Edits!queue, EditsInv, DataStands, EditsDataFits, WorkStands
<1>2. ASSUME NEW r \in EditRequests, Edits!Serve(r)
      PROVE  EditsInv'
  BY <1>2, EditsBeginHolds, EditsLoadToolsHolds, EditsReadToolsHolds, EditsRaiseFloorHolds,
    EditsArmToolsHolds, EditsPutToolsHolds, EditsVerifyToolsHolds, EditsCommitToolsHolds,
    EditsLoadLabelHolds, EditsReadLabelHolds, EditsArmLabelHolds, EditsPutNameHolds,
    EditsCommitLabelHolds, EditsSaveDraftHolds, EditsLookHolds, EditsSyncSourceHolds DEF
    Edits!Serve
<1> QED BY <1>1, <1>2, EditsRestartHolds, EditsArriveHolds, EditsOutsideHolds DEF Edits!Next

\* The sets the component counts.
LEMMA EditsCardinality == \A S : Edits!Cardinality(S) = Cardinality(S)
  BY DEF Edits!Cardinality, Cardinality

\* At most one edit is unfinished.
LEMMA OneEdit ==
  ASSUME EditsStand
  PROVE  Cardinality(toolEdit) + Cardinality(labelEdit) <= 1
<1>1. ASSUME NEW S, \A d, e \in S : d = e
      PROVE  (S = {} => Cardinality(S) = 0) /\ (S # {} => Cardinality(S) = 1)
  <2>1. S # {} => \E e \in S : S = {e}
    BY <1>1
  <2> QED BY <2>1, FS_EmptySet, FS_Singleton
<1>2. toolEdit = {} \/ labelEdit = {}
  BY DEF EditsStand
<1>3. Cardinality({}) = 0
  BY FS_EmptySet
<1>4. Cardinality(toolEdit) \in {0, 1} /\ Cardinality(labelEdit) \in {0, 1}
  BY <1>1 DEF EditsStand
<1> QED BY <1>2, <1>3, <1>4

\* And the invariant gives the properties.
LEMMA EditsInvIsSafe == EditsInv => Edits!Safe
<1> SUFFICES ASSUME EditsInv
             PROVE  Edits!Safe
  OBVIOUS
<1>1. /\ EditsDataFits /\ EditsStand /\ FloorStored /\ MappingApproved /\ NamesKnown
      /\ RequestsStand /\ RequestsFit
  BY DEF EditsInv, DataStands, RequestsStand
<1>2. Edits!TypeOK
  BY <1>1, OneEdit, EditsCardinality DEF EditsDataFits, RequestsFit, Edits!TypeOK
<1>3. Edits!ExposedIsApproved
  <2> SUFFICES ASSUME NEW s \in EditSources \ sourceDrift
               PROVE  Edits!Exposed(s) \subseteq Edits!Approved(s,
                        sourceSaved[s]) \cup UNION {Edits!Approved(s,
                        e.sel) : e \in {x \in toolEdit : x.src = s}}
    BY DEF Edits!ExposedIsApproved
  <2>1. offered[s] \subseteq EditTools
    BY <1>1 DEF EditsDataFits, Edits!Catalogues
  <2>2. ASSUME NEW c, EditsWithin(s, c)
        PROVE  Edits!Exposed(s) \subseteq Edits!Approved(s, c)
    BY <2>1, <2>2 DEF EditsWithin, Edits!Exposed, Edits!Approved
  <2>3. CASE EditsWithin(s, sourceSaved[s])
    BY <2>2, <2>3
  <2>4. ASSUME NEW e \in toolEdit, e.src = s, EditsWithin(s, e.sel)
        PROVE  Edits!Exposed(s) \subseteq UNION {Edits!Approved(s,
                 x.sel) : x \in {x \in toolEdit : x.src = s}}
    BY <2>2, <2>4
  <2> QED BY <1>1, <2>3, <2>4 DEF MappingApproved
<1>4. Edits!PendingIsCurrent
  BY <1>1 DEF Edits!PendingIsCurrent, EditsStand
<1>5. Edits!NamesAreSaved
  BY <1>1 DEF Edits!NamesAreSaved, NamesKnown
<1>6. Edits!OlderRuntimeKeptOut
  BY <1>1 DEF Edits!OlderRuntimeKeptOut, FloorStored
<1>7. Edits!CheckIsAlone
  BY <1>1, NoMutationWorks DEF Edits!CheckIsAlone, Checks, Working, Mutates
<1> QED BY <1>2, <1>3, <1>4, <1>5, <1>6, <1>7 DEF Edits!Safe

\* SourceEdits: the Portal exposes only tools that the saved or the journaled selection approves, an
\* unfinished edit stays resumable, names follow the saved label, older runtimes are kept out first,
\* and no check overlaps a mutation in the queue, for every set of sources, selections and requests.
THEOREM EditsSafety == Edits!Spec => []Edits!Safe
<1> QED BY EditsInitHolds, EditsStepHolds, EditsInvIsSafe, PTL DEF Edits!Spec

\* The same in the run: the behaviours of the parts "edits" and "queue" are those of SourceEdits.
THEOREM EditsInRun == AnySpec => []EditsAreSafe
<1> DEFINE Inv == part \in {"edits", "queue"} => EditsInv
<1>1. AnyInit => Inv
  BY EditsInitHolds DEF AnyInit, SwitchInit, InstallInit, EditsInit, QueueInit, OauthInit,
    ScopesInit
<1>2. Inv /\ [AnyNext]_allVars => Inv'
  <2> SUFFICES ASSUME Inv, [AnyNext]_allVars, part' \in {"edits", "queue"}
               PROVE  EditsInv'
    OBVIOUS
  <2>1. CASE EditsNext \/ QueueNext
    BY <2>1, EditsStepHolds DEF EditsNext, QueueNext, Edits!Next
  <2>2. CASE UNCHANGED allVars
    BY <2>2, EditsStepHolds DEF allVars, vars, Edits!vars
  <2>3. ~(SwitchNext \/ InstallNext \/ OauthNext \/ ScopesNext)
    BY DEF SwitchNext, InstallNext, OauthNext, ScopesNext
  <2> QED BY <2>1, <2>2, <2>3 DEF AnyNext
<1>3. Inv => EditsAreSafe
  BY EditsInvIsSafe DEF EditsAreSafe
<1> QED BY <1>1, <1>2, <1>3, PTL DEF AnySpec

=============================================================================
