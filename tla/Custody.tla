------------------------------- MODULE Custody -------------------------------
(***************************************************************************)
(* What quarantine promises about a flagged file, whoever quarantines,     *)
(* restores or crashes: it is on disk where its user can reach it, or held *)
(* in quarantine, and it is gone only after the user asked for that.       *)
(***************************************************************************)
CONSTANT Items

VARIABLE where  \* where each file is

TypeOK == where \in [Items -> {"unwritten", "disk", "held", "purged"}]

Init == where = [i \in Items |-> "unwritten"]

Move(i, from, to) == where[i] = from /\ where' = [where EXCEPT ![i] = to]

Write(i) == Move(i, "unwritten", "disk")
Quarantine(i) == Move(i, "disk", "held")
Restore(i) == Move(i, "held", "disk")
Purge(i) == Move(i, "held", "purged")

Next == \E i \in Items : Write(i) \/ Quarantine(i) \/ Restore(i) \/ Purge(i)

Spec == Init /\ [][Next]_where
=============================================================================
