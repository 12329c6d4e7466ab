----------------------------- MODULE MCMailAndRepair -----------------------------
(* Small instances for TLC of Mail and of the boot repair, two programs that     *)
(* share nothing and that owe something in the end.  A behaviour is one of the   *)
(* one or of the other.                                                          *)
EXTENDS Mail, GrubRepair

CONSTANTS service, hand, sda1, sdb1

\* An ESP beside the root file system, one on another disk, and a FAT
\* partition that is none.
Esp(d) == [fat |-> TRUE, physical |-> TRUE, espType |-> TRUE, disk |-> d]
NoEspKind == [Esp("root disk") EXCEPT !.espType = FALSE]
ThreeKinds == {Esp("root disk"), Esp("other disk"), NoEspKind}

VARIABLE chosen

\* The machine of a behaviour of Mail: one that cannot be repaired.
Unrepairable ==
    /\ part = [p \in Parts |-> NoEspKind] /\ rootKnown /\ fstab = None
    /\ plymouth /\ cfg = None

MailRepairInit ==
    /\ chosen \in {"mail", "repair"}
    /\ MailInit /\ Init
    /\ chosen = "mail" => Unrepairable
    /\ chosen = "repair" => account = CHOOSE a \in Accounts : TRUE

MailRepairNext ==
    \/ chosen = "mail" /\ MailNext /\ UNCHANGED <<chosen, vars>>
    \/ chosen = "repair" /\ Next /\ UNCHANGED <<chosen, mailVars>>

\* Mail's idle state owes nothing.  The repair's fairness is that of GrubRepair,
\* for the behaviours that are its own.
MailRepairSpec ==
    /\ MailRepairInit /\ [][MailRepairNext]_<<chosen, mailVars, vars>>
    /\ MailFairness
    /\ WF_vars(chosen = "repair" /\ Boot)
    /\ \A r \in Runs : WF_vars(chosen = "repair" /\ Step(r))
=============================================================================
