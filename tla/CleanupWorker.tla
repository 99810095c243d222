---------------------------- MODULE CleanupWorker ----------------------------
(***************************************************************************)
(* The cleanup Worker, which replaces the management Worker for an         *)
(* uninstall.  Every signed request makes one pass: first the management   *)
(* object takes the sources added after the installation out of the Portal *)
(* and deletes them, then the installation's object deletes the resources  *)
(* of the root receipt, in reverse order.  Each object runs one pass at a  *)
(* time and keeps its own journal; the passes of two requests may be in    *)
(* the two objects at once.                                                *)
(*                                                                         *)
(* A request that got no answer, and a DELETE or PUT that was accepted,    *)
(* may take effect later; a pass may stop at any step, when its object is  *)
(* evicted or a write to storage fails.  Somebody may take a resource over *)
(* (its marker changes) or delete it by hand.                              *)
(***************************************************************************)
EXTENDS Naturals, Sequences, FiniteSets

CONSTANTS
    Requests,       \* signed requests, each may be sent again
    NExtras,        \* how many sources were added after the installation
    None,
    MaxFaults, MaxHands    \* bounds

SourceKinds == <<"policy", "application", "server">>

\* Extra sources from the highest identifier down, each in reverse order.
SourceEntries ==
    [i \in 1..(3 * NExtras) |-> <<NExtras - ((i - 1) \div 3), SourceKinds[1 + ((i - 1) % 3)]>>]

PortalKinds == <<"dns", "portalPolicy", "portalApplication", "portal">>

Objects == {"sources", "root"}

\* The sources of the management control record.
Extras == 1..NExtras

Resources ==
    {SourceEntries[i] : i \in 1..Len(SourceEntries)}
        \union {<<0, PortalKinds[i]>> : i \in 1..4} \union {<<0, SourceKinds[i]>> : i \in 1..3}

Portal == <<0, "portal">>

\* The Portal's update, among the writes under way.
Update == <<0, "update">>

VARIABLES
    live,       \* of each resource: "ours", "foreign" or "gone"
    mapped,     \* the sources mapped in the Portal
    journal,    \* of each object: status, whether the receipt holds a source, length of the
                \* removed prefix, pending deletion
    portal,     \* how far the Portal's update is
    pass,       \* where each request is, and its answer
    wire,       \* accepted or unanswered writes that will take effect
    kept,       \* resources taken over before any deletion of them was decided
    unknown,    \* deletions without an answer, per request, that no other request looked into since
    replayed,   \* a request sent again what it had no answer for
    used        \* how often each bounded event happened

\* The management object has a control record; before source actions existed there was none, nor
\* anything to remove.
HasControl == journal["sources"].status # "no_control"

\* The receipt in the root's object holds a source.
RootSource == journal["root"].source

\* parseReadyReceipt: a receipt with a source or without one.
RootKinds == PortalKinds \o (IF RootSource THEN SourceKinds ELSE <<>>)

RootEntries == [i \in 1..Len(RootKinds) |-> <<0, RootKinds[i]>>]

Entries(o) == IF o = "sources" THEN SourceEntries ELSE RootEntries

RootOnly == IF RootSource THEN {0} ELSE {}

vars == <<live, mapped, journal, portal, pass, wire, kept, unknown, replayed, used>>

\* A signed request that was verified and has not begun.
Claim == [at |-> "idle", step |-> "none", answer |-> None]

Init ==
    /\ \E control, source \in BOOLEAN :
        /\ live = [e \in Resources |->
              IF (e[1] # 0 /\ ~control) \/ (e[1] = 0 /\ ~source /\ \E i \in 1..3 : e[2] = SourceKinds[i])
              THEN "gone" ELSE "ours"]
        /\ mapped = (IF source THEN {0} ELSE {}) \union (IF control THEN Extras ELSE {})
        /\ journal = [o \in Objects |->
              [status |-> IF o = "root" THEN "ready" ELSE IF control THEN "none" ELSE "no_control",
               source |-> source, removed |-> 0, pending |-> None]]
    /\ portal = "not_started"
    /\ pass = [r \in Requests |-> Claim]
    /\ wire = {}
    /\ kept = {}
    /\ unknown = {}
    /\ replayed = FALSE
    /\ used = [faults |-> 0, hands |-> 0]

Fault == used.faults < MaxFaults /\ used' = [used EXCEPT !.faults = @ + 1]

Goto(r, step) == pass' = [pass EXCEPT ![r].step = step]

End(r, answer) == pass' = [pass EXCEPT ![r] = [at |-> "ended", step |-> "none", answer |-> answer]]

Free(o) == \A r \in Requests : pass[r].at # o

NextEntry(o) == Entries(o)[journal[o].removed + 1]

Committed(o) == [journal EXCEPT ![o].removed = @ + 1, ![o].pending = None]

(***************************************************************************)
(* Entering the two objects.                                               *)
(***************************************************************************)
\* A journal of the sources that is read back.
SourcesValid ==
    (journal["sources"].status = "removed")
    <=> (portal = "complete" /\ journal["sources"].pending = None)

\* Without a control record there are no sources to remove.
Enter(r) ==
    /\ pass[r].at = "idle"
    /\ Free("sources")
    /\ \/ /\ ~HasControl
          /\ pass' = [pass EXCEPT ![r].at = "between"]
          /\ UNCHANGED journal
       \/ /\ HasControl
          /\ journal["sources"].status = "none"
          /\ journal' = [journal EXCEPT !["sources"].status = "uninstalling"]
          /\ pass' = [pass EXCEPT ![r].at = "sources", ![r].step = "portal"]
       \/ /\ HasControl
          /\ journal["sources"].status # "none"
          /\ IF ~SourcesValid THEN End(r, "repair")
             ELSE IF journal["sources"].status = "removed"
             THEN pass' = [pass EXCEPT ![r].at = "between"]
             ELSE pass' = [pass EXCEPT ![r].at = "sources", ![r].step = "portal"]
          /\ UNCHANGED journal
    /\ UNCHANGED <<live, mapped, portal, wire, kept, unknown, replayed, used>>

\* The stored receipt becomes the journal, before the first read.
EnterRoot(r) ==
    /\ pass[r].at = "between"
    /\ Free("root")
    /\ IF journal["root"].status = "removed"
       THEN End(r, "removed") /\ UNCHANGED journal
       ELSE /\ journal' = [journal EXCEPT !["root"].status = "uninstalling"]
            /\ pass' = [pass EXCEPT ![r].at = "root", ![r].step = "look"]
    /\ UNCHANGED <<live, mapped, portal, wire, kept, unknown, replayed, used>>

(***************************************************************************)
(* The Portal loses every mapping but the root's.                          *)
(***************************************************************************)
PortalRead(r) ==
    /\ pass[r].step = "portal"
    /\ \/ /\ portal = "complete"
          /\ Goto(r, "look")
          /\ UNCHANGED portal
       \/ /\ portal # "complete"
          /\ live[Portal] = "gone"
          /\ End(r, "blocked")
          /\ UNCHANGED portal
       \/ /\ portal # "complete"
          /\ live[Portal] = "ours"
          /\ IF mapped = RootOnly THEN portal' = "complete" /\ Goto(r, "look")
             ELSE IF portal # "not_started" THEN End(r, "retry") /\ UNCHANGED portal
             ELSE portal' = "send_armed" /\ Goto(r, "portalSend")
       \/ /\ portal # "complete"
          /\ live[Portal] = "foreign"
          /\ IF portal # "not_started" THEN End(r, "retry") /\ UNCHANGED portal
             ELSE portal' = "send_armed" /\ Goto(r, "portalSend")
    /\ UNCHANGED <<live, mapped, journal, wire, kept, unknown, replayed, used>>

\* The body carries the marker, so a Portal taken over becomes ours again.
Updated ==
    /\ live' = IF live[Portal] = "gone" THEN live ELSE [live EXCEPT ![Portal] = "ours"]
    /\ mapped' = RootOnly

PortalSend(r) ==
    /\ pass[r].step = "portalSend"
    /\ \/ /\ live[Portal] # "gone"
          /\ portal' = "submitted"
          /\ Goto(r, "portalVerify")
          /\ \/ Updated /\ UNCHANGED wire
             \/ wire' = wire \union {Update} /\ UNCHANGED <<live, mapped>>
          /\ UNCHANGED used
       \/ /\ live[Portal] = "gone"
          /\ End(r, "blocked")
          /\ UNCHANGED <<live, mapped, portal, wire, used>>
       \/ /\ Fault
          /\ End(r, "retry")
          /\ wire' \in {wire, wire \union {Update}}
          /\ UNCHANGED <<live, mapped, portal>>
       \/ /\ Fault
          /\ \E answer \in {"fresh", "blocked"} : End(r, answer)
          /\ UNCHANGED <<live, mapped, portal, wire>>
    /\ UNCHANGED <<journal, kept, unknown, replayed>>

PortalVerify(r) ==
    /\ pass[r].step = "portalVerify"
    /\ IF live[Portal] = "ours" /\ mapped = RootOnly
       THEN portal' = "complete" /\ Goto(r, "look")
       ELSE End(r, "retry") /\ UNCHANGED portal
    /\ UNCHANGED <<live, mapped, journal, wire, kept, unknown, replayed, used>>

(***************************************************************************)
(* One resource after the other, in either object.                         *)
(***************************************************************************)
Observed(e) ==
    CASE live[e] = "ours" -> "present"
      [] live[e] = "foreign" -> "conflict"
      [] live[e] = "gone" -> "absent"

\* The request that sent a deletion does not send it again.
Waits(p, r) == p.req = r /\ p.phase # "not_applied"

\* In the root's journal it needs another request, also after a refusal.
NeedsFresh(o, p, r) == o = "root" /\ p.req = r

Look(r) ==
    LET o == pass[r].at
        p == journal[o].pending IN
    /\ pass[r].step = "look"
    /\ journal[o].removed < Len(Entries(o))
    /\ CASE Observed(NextEntry(o)) = "absent" -> journal' = Committed(o) /\ UNCHANGED pass
         [] Observed(NextEntry(o)) = "conflict" -> End(r, "repair") /\ UNCHANGED journal
         [] Observed(NextEntry(o)) = "present" /\ p = None -> Goto(r, "arm") /\ UNCHANGED journal
         [] Observed(NextEntry(o)) = "present" /\ p # None ->
              IF Waits(p, r) THEN End(r, "retry") /\ UNCHANGED journal
              ELSE IF NeedsFresh(o, p, r) THEN End(r, "fresh") /\ UNCHANGED journal
              ELSE /\ journal' = [journal EXCEPT ![o].pending.phase = "not_applied"]
                   /\ Goto(r, "arm")
    /\ unknown' = {u \in unknown : pass'[r].step = "arm" /\ u[2] = NextEntry(o) => u[1] = r}
    /\ UNCHANGED <<live, mapped, portal, wire, kept, replayed, used>>

\* A read without an answer, or refused.
ReadFails(r) ==
    /\ pass[r].step \in {"portal", "portalVerify", "look", "verify"}
    /\ Fault
    /\ \E answer \in {"retry", "fresh"} : End(r, answer)
    /\ UNCHANGED <<live, mapped, journal, portal, wire, kept, unknown, replayed>>

Arm(r) ==
    /\ pass[r].step = "arm"
    /\ journal' = [journal EXCEPT ![pass[r].at].pending = [req |-> r, phase |-> "send_armed"]]
    /\ Goto(r, "send")
    /\ UNCHANGED <<live, mapped, portal, wire, kept, unknown, replayed, used>>

Deleted(e) == live' = [live EXCEPT ![e] = "gone"]

\* The DELETE: accepted, at once or for later; already absent; refused; or
\* without an answer.
Send(r) ==
    LET o == pass[r].at
        e == NextEntry(o) IN
    /\ pass[r].step = "send"
    /\ replayed' = (replayed \/ <<r, e>> \in unknown)
    /\ \/ /\ live[e] # "gone"
          /\ \/ Deleted(e) /\ UNCHANGED wire
             \/ wire' = wire \union {e} /\ UNCHANGED live
          /\ journal' = [journal EXCEPT ![o].pending.phase = "submitted"]
          /\ Goto(r, "verify")
          /\ UNCHANGED <<unknown, used>>
       \/ /\ live[e] = "gone"
          /\ IF o = "root"
             THEN journal' = Committed(o) /\ Goto(r, "look")
             ELSE journal' = [journal EXCEPT ![o].pending.phase = "submitted"] /\ Goto(r, "verify")
          /\ UNCHANGED <<live, wire, unknown, used>>
       \/ /\ Fault
          /\ journal' = [journal EXCEPT ![o].pending.phase = "not_applied"]
          /\ \E answer \in {"fresh", "blocked"} : End(r, answer)
          /\ UNCHANGED <<live, wire, unknown>>
       \/ /\ Fault
          /\ \/ Deleted(e) /\ UNCHANGED wire
             \/ wire' \in {wire, wire \union {e}} /\ UNCHANGED live
          /\ unknown' = unknown \union {<<r, e>>}
          /\ End(r, "retry")
          /\ UNCHANGED journal
    /\ UNCHANGED <<mapped, portal, kept>>

\* Mutant of Verify: an accepted deletion is an applied one.
MutVerify(r) ==
    /\ pass[r].step = "verify"
    /\ journal' = Committed(pass[r].at)
    /\ Goto(r, "look")
    /\ UNCHANGED <<live, mapped, portal, wire, kept, unknown, replayed, used>>

Verify(r) ==
    LET o == pass[r].at IN
    /\ pass[r].step = "verify"
    /\ CASE Observed(NextEntry(o)) = "absent" -> journal' = Committed(o) /\ Goto(r, "look")
         [] Observed(NextEntry(o)) = "conflict" -> End(r, "repair") /\ UNCHANGED journal
         [] Observed(NextEntry(o)) = "present" ->
              /\ journal' = IF o = "root" THEN [journal EXCEPT ![o].pending.phase = "not_applied"]
                            ELSE journal
              /\ End(r, "fresh")
    /\ UNCHANGED <<live, mapped, portal, wire, kept, unknown, replayed, used>>

Finish(r) ==
    LET o == pass[r].at IN
    /\ pass[r].step = "look"
    /\ journal[o].removed = Len(Entries(o))
    /\ journal' = [journal EXCEPT ![o].status = "removed", ![o].pending = None]
    /\ IF o = "sources"
       THEN pass' = [pass EXCEPT ![r].at = "between", ![r].step = "none"]
       ELSE End(r, "removed")
    /\ UNCHANGED <<live, mapped, portal, wire, kept, unknown, replayed, used>>

\* The object is evicted, or its write fails, before the next step.
Stop(r) ==
    /\ pass[r].at \in Objects \union {"between"}
    /\ Fault
    /\ End(r, "retry")
    /\ UNCHANGED <<live, mapped, journal, portal, wire, kept, unknown, replayed>>

\* The request is sent again.
Again(r) ==
    /\ pass[r].at = "ended"
    /\ pass' = [pass EXCEPT ![r] = Claim]
    /\ UNCHANGED <<live, mapped, journal, portal, wire, kept, unknown, replayed, used>>

(***************************************************************************)
(* The environment.                                                        *)
(***************************************************************************)
Land(x) ==
    /\ x \in wire
    /\ wire' = wire \ {x}
    /\ IF x = Update THEN Updated
       ELSE Deleted(x) /\ UNCHANGED mapped
    /\ UNCHANGED <<journal, portal, pass, kept, unknown, replayed, used>>

\* A deletion of the resource is under way.
Deleting(e) ==
    \/ e \in wire
    \/ \E r \in Requests :
        pass[r].step \in {"arm", "send"} /\ NextEntry(pass[r].at) = e

\* Somebody takes a resource over, or deletes it.
Hand(e) ==
    /\ used.hands < MaxHands
    /\ used' = [used EXCEPT !.hands = @ + 1]
    /\ live[e] = "ours"
    /\ \E how \in {"foreign", "gone"} :
        /\ live' = [live EXCEPT ![e] = how]
        /\ kept' = IF how = "foreign" /\ ~Deleting(e) THEN kept \union {e} ELSE kept
    /\ UNCHANGED <<mapped, journal, portal, pass, wire, unknown, replayed>>

Step(r) ==
    \/ PortalRead(r) \/ PortalSend(r) \/ PortalVerify(r)
    \/ Look(r) \/ ReadFails(r) \/ Arm(r) \/ Send(r) \/ Verify(r) \/ Finish(r)

Next ==
    \/ \E r \in Requests : Enter(r) \/ EnterRoot(r) \/ Step(r) \/ Stop(r) \/ Again(r)
    \/ \E x \in Resources \union {Update} : Land(x)
    \/ \E e \in Resources : Hand(e)

Spec == Init /\ [][Next]_vars

(***************************************************************************)
(* Fairness: passes go on, requests are repeated, the objects serve every  *)
(* request in turn, and an accepted write takes effect.                    *)
(***************************************************************************)
FairSpec ==
    /\ Spec
    /\ \A r \in Requests :
        WF_vars(Step(r)) /\ SF_vars(Enter(r)) /\ SF_vars(EnterRoot(r)) /\ WF_vars(Again(r))
    /\ \A x \in Resources \union {Update} : WF_vars(Land(x))

-----------------------------------------------------------------------------
\* A journal that an object reads back from storage.
StoredState(o) ==
    LET j == journal[o] IN
    /\ j.status \in IF o = "root" THEN {"ready", "uninstalling", "removed"}
                    ELSE {"no_control", "none", "uninstalling", "removed"}
    /\ j.removed \in 0..Len(Entries(o))
    /\ j.status = "removed" => j.removed = Len(Entries(o)) /\ j.pending = None
    /\ j.pending # None => j.status = "uninstalling" /\ j.removed < Len(Entries(o))

\* Every variable has its type, and every journal is one that is read back.
TypeOK ==
    /\ \A o \in Objects : StoredState(o)
    /\ portal \in {"not_started", "send_armed", "submitted", "complete"}
    /\ \A e \in Resources : live[e] \in {"ours", "foreign", "gone"}

\* What a journal lists as removed is gone, and a request answered "removed"
\* left nothing of the gateway: an accepted deletion is not believed.
RemovedIsGone ==
    /\ \A o \in Objects : \A i \in 1..journal[o].removed : live[Entries(o)[i]] = "gone"
    /\ (\E r \in Requests : pass[r].answer = "removed") =>
          \A i \in 1..Len(RootEntries) : live[RootEntries[i]] = "gone"

\* A resource other than the Portal that somebody had taken over before its
\* deletion was decided is never deleted.
ForeignKept == \A e \in kept \ {Portal} : live[e] = "foreign"

\* Neither is the Portal.
PortalKept == Portal \in kept => live[Portal] # "gone"

\* The Portal never offers a source this cleanup has deleted: mappings go first.
MappedIsPresent ==
    live[Portal] = "ours" /\ used.hands = 0
    => \A s \in mapped \ {0} : live[<<s, "server">>] # "gone"

\* The root stays until every added source is gone: its deletions never begin
\* while one is left, so that nothing is left without its Portal's receipt.
SourcesFirst ==
    journal["root"].status # "ready" /\ HasControl
    => \A i \in 1..Len(SourceEntries) : live[SourceEntries[i]] = "gone"

\* A request never repeats a deletion it got no answer for, unless another one looked in between.
UnknownNotReplayed == ~replayed

\* Repair is asked for only when somebody changed something by hand.
RepairHasCause == (\E r \in Requests : pass[r].answer = "repair") => used.hands > 0

\* Repeated requests remove the root in the end.
UninstallEnds == <>(journal["root"].status = "removed")

\* The Portal's update does not stay open for ever.
ArmedPortalEnds == portal = "send_armed" ~> portal # "send_armed"

(* The safety of this component: its invariants together.                   *)
Safe ==
  /\ TypeOK /\ RemovedIsGone /\ ForeignKept /\ MappedIsPresent /\ SourcesFirst
  /\ UnknownNotReplayed
=============================================================================
