----------------------------- MODULE TokenSwitch -----------------------------
(***************************************************************************)
(* Moving an installed source from sign-in to a service token              *)
(* (payload/worker/index.js, updateSourceTokenSwitch and what it calls).   *)
(*                                                                         *)
(* The source keeps its Team application and policy; its server record is  *)
(* replaced.  start creates the token record and pauses until the customer *)
(* gave it a token; continue unmaps the sign-in record from the Portal,    *)
(* retargets the application, maps the token record, commits the saved     *)
(* source with its ownership, and deletes the sign-in record; rollback     *)
(* goes back.  A journal says which of these is under way.  Requests run   *)
(* one at a time in the object's mutation queue and may stop anywhere: an  *)
(* answer is lost (the write took place or it did not) or the object is    *)
(* evicted.  A write takes place, if at all, before the next read.         *)
(***************************************************************************)
EXTENDS Naturals

CONSTANTS MaxFaults,  \* bound on lost answers, refusals and evictions
          MaxEdits    \* bound on changes made in Cloudflare's dashboard

ASSUME BoundsAreNat == MaxFaults \in Nat /\ MaxEdits \in Nat

VARIABLES
  journal,     \* SOURCE_AUTH_SWITCH_KEY
  saved,       \* authMode of the saved source, and whose receipts its ownership holds
  records,     \* the server records that exist
  credential,  \* the token record has a token that works and its tools are synced
  portal,      \* the record the Portal maps for the source
  drift,       \* the Portal's servers are not exactly the ones the gateway knows
  app,         \* the record the Team application leads to
  pc,          \* the next step of the request that holds the queue
  last,        \* previous of moveTokenSwitch
  step,        \* step of moveTokenSwitch
  faults, edits

storage  == <<journal, saved>>
provider == <<records, credential, portal, drift, app>>
loop     == <<last, step>>
bounds   == <<faults, edits>>
vars     == <<journal, saved, records, credential, portal, drift, app, pc, last, step, faults, edits>>

Modes   == {"oauth", "token"}
Phases  == {"create_armed", "credential", "moving", "returning", "retiring"}
NoSwitch == [phase |-> "none", committed |-> FALSE, retire |-> "none"]
NoPlace == <<"none", "none">>
Steps   == 4

(* safeSourceTokenSwitch: what the journal may say.                         *)
SafeSwitch(j) ==
  /\ j \in [phase : Phases, committed : BOOLEAN, retire : Modes \cup {"none"}]
  /\ (j.phase = "retiring") <=> (j.retire # "none")
  /\ j.phase \in {"create_armed", "credential", "moving"} => ~j.committed
  /\ j.phase = "retiring" => (j.committed <=> j.retire = "oauth")

Init ==
  /\ journal = NoSwitch /\ saved = "oauth" /\ records = {"oauth"} /\ credential = FALSE
  /\ portal = "oauth" /\ drift = FALSE /\ app = "oauth" /\ pc = "idle" /\ last = NoPlace /\ step = 0
  /\ faults = 0 /\ edits = 0

(* stopTokenSwitch and every return: only the reason of the journal changes. *)
Return == pc' = "idle" /\ last' = NoPlace /\ step' = 0
Fault  == faults < MaxFaults /\ faults' = faults + 1 /\ UNCHANGED edits

(* persistTokenSwitch followed by the step that the next phase starts with.  *)
Enter(j) ==
  pc' = CASE j.phase = "create_armed" -> "look"
          [] j.phase = "credential" -> "await"
          [] j.phase \in {"moving", "returning"} -> "place"
          [] j.phase = "retiring" -> "check"
Persist(j) ==
  IF SafeSwitch(j) THEN journal' = j /\ Enter(j) /\ UNCHANGED loop
                   ELSE Return /\ UNCHANGED journal

(* A write to the provider: done and answered, done or not and not answered. *)
Write(done, then) ==
  \/ done /\ then /\ UNCHANGED bounds
  \/ (done \/ UNCHANGED provider) /\ Return /\ Fault

-----------------------------------------------------------------------------
(* Requests: refused unless the saved source is the one the journal expects. *)

ContextHolds == saved = IF journal.committed THEN "token" ELSE "oauth"

Start ==
  /\ pc = "idle" /\ journal = NoSwitch /\ ContextHolds
  /\ "token" \notin records
  /\ Persist([phase |-> "create_armed", committed |-> FALSE, retire |-> "none"])
  /\ UNCHANGED <<saved, provider, bounds>>

Continue ==
  /\ pc = "idle" /\ journal # NoSwitch /\ ContextHolds
  /\ Enter(journal) /\ UNCHANGED <<storage, provider, loop, bounds>>

RolledBack(j) ==
  CASE j.phase \in {"create_armed", "credential"} -> [j EXCEPT !.phase = "retiring", !.retire = "token"]
    [] j.phase = "moving" \/ j.retire = "oauth" -> [j EXCEPT !.phase = "returning", !.retire = "none"]
    [] OTHER -> j
Rollback ==
  /\ pc = "idle" /\ journal # NoSwitch /\ ContextHolds
  /\ journal.phase = "moving" \/ journal.retire = "oauth" => "oauth" \in records
  /\ Persist(RolledBack(journal))
  /\ UNCHANGED <<saved, provider, bounds>>

-----------------------------------------------------------------------------
(* advanceTokenSwitch: the token record                                     *)

LookForRecord ==
  /\ pc = "look"
  /\ IF "token" \in records
     THEN Persist([journal EXCEPT !.phase = "credential"])
     ELSE pc' = "create" /\ UNCHANGED <<journal, loop>>
  /\ UNCHANGED <<saved, provider, bounds>>

CreateRecord ==
  /\ pc = "create"
  /\ Write(/\ records' = records \cup {"token"} /\ credential' = FALSE
           /\ UNCHANGED <<portal, drift, app>>,
           pc' = "look" /\ UNCHANGED loop)
  /\ UNCHANGED storage

AwaitCredential ==
  /\ pc = "await"
  /\ IF "token" \in records /\ credential
     THEN Persist([journal EXCEPT !.phase = "moving"])
     ELSE Return /\ UNCHANGED journal
  /\ UNCHANGED <<saved, provider, bounds>>

-----------------------------------------------------------------------------
(* moveTokenSwitch                                                          *)

At      == <<IF drift THEN "drift" ELSE portal, app>>
Forward == journal.phase = "moving"
From    == IF Forward THEN "oauth" ELSE "token"
To      == IF Forward THEN "token" ELSE "oauth"

\* Mutant of NextWrite: a Portal that maps the new record before the application leads to it.
NextWriteMapFirst(at) ==
  CASE at = <<To, To>> -> "commit"
    [] at = <<From, From>> -> "unmap"
    [] at = <<"none", From>> -> "map"
    [] at = <<To, From>> -> "retarget"
    [] OTHER -> "none"
\* Mutant of NextWrite: a move that commits as soon as the application was retargeted.
NextWriteUnmapped(at) ==
  CASE at[2] = To -> "commit"
    [] at = <<From, From>> -> "unmap"
    [] at = <<"none", From>> -> "retarget"
    [] OTHER -> "none"
(* The write that follows from where the Portal and the application point;   *)
(* any other placement is drift.                                             *)
NextWrite(at) ==
  CASE at = <<To, To>> -> "commit"
    [] at = <<From, From>> -> "unmap"
    [] at = <<"none", From>> -> "retarget"
    [] at = <<"none", To>> -> "map"
    [] OTHER -> "none"

(* tokenSwitchPlacement, then the next write: not after one that reads back  *)
(* unchanged, whose outcome is unknown, and not after the fourth reading.    *)
Place ==
  /\ pc = "place"
  /\ IF step = Steps \/ last = At \/ NextWrite(At) = "none" THEN Return
     ELSE pc' = NextWrite(At) /\ last' = At /\ step' = step + 1
  /\ UNCHANGED <<storage, provider, bounds>>

Unmap ==
  /\ pc = "unmap"
  /\ Write(portal' = "none" /\ drift' = FALSE /\ UNCHANGED <<records, credential, app>>,
            pc' = "place" /\ UNCHANGED loop)
  /\ UNCHANGED storage
Retarget ==
  /\ pc = "retarget"
  /\ Write(app' = To /\ UNCHANGED <<records, credential, portal, drift>>, pc' = "place" /\ UNCHANGED loop)
  /\ UNCHANGED storage
Map ==
  /\ pc = "map"
  /\ Write(portal' = To /\ drift' = FALSE /\ UNCHANGED <<records, credential, app>>,
            pc' = "place" /\ UNCHANGED loop)
  /\ UNCHANGED storage

(* commitTokenSwitch: the source, its ownership and the journal in one write. *)
Commit ==
  /\ pc = "commit"
  /\ IF To \in records /\ (Forward => credential)
     THEN /\ journal' = [phase |-> "retiring", committed |-> Forward, retire |-> From]
          /\ saved' = To /\ pc' = "check" /\ UNCHANGED loop
     ELSE Return /\ UNCHANGED storage
  /\ UNCHANGED <<provider, bounds>>

-----------------------------------------------------------------------------
(* retireTokenSwitch                                                        *)

CheckUnmapped ==
  /\ pc = "check"
  /\ IF portal = journal.retire THEN Return ELSE pc' = "absent" /\ UNCHANGED loop
  /\ UNCHANGED <<storage, provider, bounds>>

(* One reading before the deletion and one after it; only absence closes.    *)
Close ==
  /\ pc \in {"absent", "gone"}
  /\ IF journal.retire \notin records THEN journal' = NoSwitch /\ Return
     ELSE IF pc = "absent" THEN pc' = "delete" /\ UNCHANGED <<journal, loop>>
          ELSE Return /\ UNCHANGED journal
  /\ UNCHANGED <<saved, provider, bounds>>

Delete ==
  /\ pc = "delete"
  /\ Write(/\ records' = records \ {journal.retire}
           /\ credential' = (credential /\ journal.retire # "token")
           /\ UNCHANGED <<portal, drift, app>>,
           pc' = "gone" /\ UNCHANGED loop)
  /\ UNCHANGED storage

-----------------------------------------------------------------------------
(* Everybody else                                                           *)

(* A read that is not answered, or an eviction, between two steps.           *)
Interrupt == pc # "idle" /\ Fault /\ Return /\ UNCHANGED <<storage, provider>>

(* The customer writes the token into the record; later it stops working, or *)
(* the source's tools change under it.                                       *)
GiveCredential ==
  /\ "token" \in records /\ ~credential /\ credential' = TRUE
  /\ UNCHANGED <<storage, records, portal, drift, app, pc, loop, bounds>>
Edit(change) == edits < MaxEdits /\ edits' = edits + 1 /\ change /\ UNCHANGED <<storage, pc, loop, faults>>
LoseCredential == Edit(credential /\ credential' = FALSE /\ UNCHANGED <<records, portal, drift, app>>)

(* Somebody edits the Portal's servers in Cloudflare's dashboard, and takes   *)
(* the change back when told of the drift.                                   *)
Drift  == Edit(~drift /\ drift' = TRUE /\ UNCHANGED <<records, credential, portal, app>>)
Repair ==
  /\ drift /\ drift' = FALSE
  /\ UNCHANGED <<storage, records, credential, portal, app, pc, loop, bounds>>

Step ==
  \/ LookForRecord \/ CreateRecord \/ AwaitCredential \/ Place \/ Unmap \/ Retarget
  \/ Map \/ Commit \/ CheckUnmapped \/ Close \/ Delete
Next ==
  \/ Start \/ Continue \/ Rollback \/ Step \/ Interrupt
  \/ GiveCredential \/ LoseCredential \/ Drift \/ Repair

(* An administrator presses Continue until the switch is closed, the customer *)
(* provides the token and repairs what the page reports; a step that began    *)
(* goes on unless it is interrupted.  The code asks for the first three.      *)
Fairness == WF_vars(Continue) /\ WF_vars(GiveCredential) /\ WF_vars(Repair) /\ WF_vars(Step)
Spec == Init /\ [][Next]_vars
FairSpec == Spec /\ Fairness

-----------------------------------------------------------------------------
TypeOK ==
  /\ journal = NoSwitch \/ SafeSwitch(journal)
  /\ saved \in Modes /\ records \subseteq Modes /\ credential \in BOOLEAN /\ drift \in BOOLEAN
  /\ portal \in Modes \cup {"none"} /\ app \in Modes
  /\ pc \in {"idle", "look", "create", "await", "place", "unmap", "retarget", "map", "commit",
             "check", "absent", "delete", "gone"}
  /\ step \in 0..Steps /\ faults \in 0..MaxFaults /\ edits \in 0..MaxEdits

(* A record in the Portal is always governed by the source's Team             *)
(* application: there is no moment, in either direction and after any stop,   *)
(* at which people reach a record the Team policy does not stand in front of. *)
MappedIsGoverned == portal # "none" => app = portal

(* A closed switch leaves nothing behind: the saved source, its ownership,    *)
(* the Portal and the application name one record, and it is the only one.    *)
ClosedIsClean ==
  journal = NoSwitch => saved = portal /\ portal = app /\ records = {saved}

(* No stop makes the journal unreadable for the saved state: whatever was     *)
(* interrupted, Continue is accepted.                                         *)
AlwaysResumable == journal # NoSwitch => ContextHolds

(* The record that serves the source: the Portal maps it, the application     *)
(* leads to it and it exists (serving of module RecordSwap).                  *)
Serving == IF portal = app /\ portal \in records THEN portal ELSE "none"
Swap    == INSTANCE RecordSwap WITH Records <- Modes, serving <- Serving, existing <- records

(* The people who use the source see one record suspended, the other one      *)
(* serving, and never a record that does not exist, or the saved one removed. *)
SwitchSwapsRecords == Swap!Spec

(* A switch that was begun is closed, forwards or back.                       *)
Due  == journal # NoSwitch
Done == journal = NoSwitch
SwitchCloses == Due ~> Done

(* Wherever a switch of credentials stops, a record the Portal maps is        *)
(* governed by the Team's application, a switch that closed left one record   *)
(* that everything names, and the journal of one that did not is accepted.    *)
SwitchIsSafe ==
  /\ TypeOK /\ MappedIsGoverned /\ ClosedIsClean /\ AlwaysResumable
=============================================================================
