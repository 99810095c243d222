----------------------------- MODULE RecordSwap -----------------------------
(***************************************************************************)
(* What replacing the server record of an installed source promises to the *)
(* people who use it, whatever the management Worker does to get there: a  *)
(* record serves only while it exists, one record serves at a time, the    *)
(* saved source always names a record that exists, and a record is removed *)
(* only when it neither serves nor is the one the source is saved with.    *)
(***************************************************************************)
CONSTANT Records
VARIABLES
  serving,  \* the record that answers for the source, or "none"
  saved,    \* the record the saved source is configured for
  existing  \* the records that exist

swap == <<serving, saved, existing>>

Init == saved \in Records /\ serving = saved /\ existing = {saved}

Create(r)  == existing' = existing \cup {r} /\ UNCHANGED <<serving, saved>>
Suspend    == serving' = "none" /\ UNCHANGED <<saved, existing>>
Serve(r)   == serving = "none" /\ r \in existing /\ serving' = r /\ UNCHANGED <<saved, existing>>
Save       == serving # "none" /\ saved' = serving /\ UNCHANGED <<serving, existing>>
Retire(r)  == r \notin {serving, saved} /\ existing' = existing \ {r} /\ UNCHANGED <<serving, saved>>

Next == Suspend \/ Save \/ \E r \in Records : Create(r) \/ Serve(r) \/ Retire(r)
Spec == Init /\ [][Next]_swap
=============================================================================
