----------------------------- MODULE ReceiptLock -----------------------------
(***************************************************************************)
(* The exclusive lock of the receipt file (src/receipt-store.ts): a        *)
(* directory next to the receipt that holds one metadata file named by the *)
(* lock's id.  Every reconciler run that writes takes it; a run that       *)
(* crashes leaves it behind, and an operator removes such a lock only with *)
(* the evidence of an earlier inspection.                                  *)
(*                                                                         *)
(* A locker is one call of withExclusiveLock, a recoverer one call of      *)
(* recoverStaleLock with the inspection before it.  Each takes one step    *)
(* per file system call, and its process may die between any two of them.  *)
(***************************************************************************)
EXTENDS Naturals

CONSTANTS
  Lockers,     \* calls of withExclusiveLock, each with its own random lockId
  Recoverers,  \* calls of recoverStaleLock
  NoLock       \* no evidence yet

ASSUME ProcessAssumption == Lockers \cap Recoverers = {} /\ NoLock \notin Lockers

VARIABLES
  dir,       \* the lock directory exists
  files,     \* the metadata files in it, by lockId
  written,   \* the metadata files whose content is complete
  pc,        \* where each process is
  evidence,  \* the lock each recoverer inspected
  alive      \* the processes that run

vars == <<dir, files, written, pc, evidence, alive>>

Processes == Lockers \cup Recoverers

Goto(p, label) == pc' = [pc EXCEPT ![p] = label]

Init ==
  /\ dir = FALSE /\ files = {} /\ written = {}
  /\ pc = [p \in Processes |-> "idle"]
  /\ evidence = [r \in Recoverers |-> NoLock]
  /\ alive = Processes

-----------------------------------------------------------------------------
(* withExclusiveLock                                                        *)

\* mkdir; EEXIST is reported as locked and nothing is removed.
MakeDirectory(l) ==
  /\ pc[l] = "idle" /\ ~dir
  /\ dir' = TRUE
  /\ Goto(l, "made")
  /\ UNCHANGED <<files, written, evidence, alive>>

\* open with O_EXCL: the file is there, still empty.
OpenMetadata(l) ==
  /\ pc[l] = "made" /\ dir
  /\ files' = files \cup {l}
  /\ Goto(l, "opened")
  /\ UNCHANGED <<dir, written, evidence, alive>>

\* The metadata is written and synced: the operation runs.
Enter(l) ==
  /\ pc[l] = "opened"
  /\ written' = written \cup {l}
  /\ Goto(l, "holding")
  /\ UNCHANGED <<dir, files, evidence, alive>>

\* The operation ends, or a file system call before it throws.
Leave(l) ==
  /\ pc[l] \in {"made", "opened", "holding"}
  /\ Goto(l, "removing")
  /\ UNCHANGED <<dir, files, written, evidence, alive>>

-----------------------------------------------------------------------------
(* inspectLock and recoverStaleLock                                         *)

\* Mutant of Stale: the owner's process is not probed.
StaleUnprobed(l) == dir /\ files = {l} /\ l \in written

\* inspectLockDirectory finds one complete metadata file of a process that
\* does not run any more; anything else is live or ambiguous.
Stale(l) == dir /\ files = {l} /\ l \in written /\ l \notin alive

\* inspectLock: the operator gets the evidence of the lock that is there.
Inspect(r) ==
  /\ pc[r] = "idle"
  /\ \E l \in Lockers : Stale(l) /\ evidence' = [evidence EXCEPT ![r] = l]
  /\ Goto(r, "inspected")
  /\ UNCHANGED <<dir, files, written, alive>>

\* recoverStaleLock inspects twice, and both times it has to see the same lock.
Confirm(r) ==
  /\ pc[r] \in {"inspected", "confirmed"} /\ Stale(evidence[r])
  /\ Goto(r, IF pc[r] = "inspected" THEN "confirmed" ELSE "removing")
  /\ UNCHANGED <<dir, files, written, evidence, alive>>

-----------------------------------------------------------------------------
(* removeLockDirectory, for the lock a process holds or recovers            *)

LockOf(p) == IF p \in Lockers THEN p ELSE evidence[p]

\* Mutant of Unlink: a metadata file that is gone does not stop the removal.
UnlinkAnyway(p) ==
  /\ pc[p] = "removing"
  /\ files' = files \ {LockOf(p)} /\ written' = written \ {LockOf(p)}
  /\ Goto(p, "unlinked")
  /\ UNCHANGED <<dir, evidence, alive>>

\* unlink of exactly this lock's file; a missing one is lock_replaced.
Unlink(p) ==
  /\ pc[p] = "removing"
  /\ files' = files \ {LockOf(p)} /\ written' = written \ {LockOf(p)}
  /\ Goto(p, IF LockOf(p) \in files THEN "unlinked" ELSE "replaced")
  /\ UNCHANGED <<dir, evidence, alive>>

\* rmdir takes only an empty directory.
RemoveDirectory(p) ==
  /\ pc[p] = "unlinked"
  /\ IF dir /\ files = {} THEN dir' = FALSE /\ Goto(p, "done")
                          ELSE UNCHANGED dir /\ Goto(p, "replaced")
  /\ UNCHANGED <<files, written, evidence, alive>>

\* The process dies.
Die(p) ==
  /\ alive' = alive \ {p}
  /\ UNCHANGED <<dir, files, written, pc, evidence>>

Lock(l)    == MakeDirectory(l) \/ OpenMetadata(l) \/ Enter(l) \/ Leave(l)
Recover(r) == Inspect(r) \/ Confirm(r)
Remove(p)  == Unlink(p) \/ RemoveDirectory(p)

Next ==
  \/ \E l \in Lockers \cap alive : Lock(l)
  \/ \E r \in Recoverers \cap alive : Recover(r)
  \/ \E p \in alive : Remove(p) \/ Die(p)

Spec == Init /\ [][Next]_vars

-----------------------------------------------------------------------------
(* Properties.                                                              *)

\* Types of all variables.
TypeOK ==
  /\ dir \in BOOLEAN /\ files \subseteq Lockers /\ written \subseteq Lockers
  /\ pc \in [Processes -> {"idle", "made", "opened", "holding", "inspected", "confirmed",
                           "removing", "unlinked", "replaced", "done"}]
  /\ evidence \in [Recoverers -> Lockers \cup {NoLock}]
  /\ alive \subseteq Processes

\* Two operations never run under the lock at once, whatever processes die and
\* however many operators recover the lock they left behind.
MutualExclusion ==
  \A k, l \in Lockers \cap alive : pc[k] = "holding" /\ pc[l] = "holding" => k = l

\* A recovery never takes the lock away from an operation that runs: its
\* metadata file stays the only one in the directory.
LiveLockStands ==
  \A l \in Lockers \cap alive : pc[l] = "holding" => dir /\ files = {l} /\ l \in written
=============================================================================
