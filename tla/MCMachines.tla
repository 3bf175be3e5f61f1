----------------------------- MODULE MCMachines -----------------------------
(* Bounds for five machines: the refunds of a termination, the workflow of *)
(* a promote, the pings to IndexNow, the seats of a vendor and the grant   *)
(* that makes good a ban.  They share no state, so one run follows each by *)
(* itself: machine is chosen at first and only its actions are taken.      *)
EXTENDS TerminationRefunds, PromoteJob, IndexNow, Seats, BanTerm, TLC

VARIABLE machine

MachinesInit ==
  /\ machine \in {"refunds", "promote", "indexnow", "seats", "banterm"}
  /\ RefundInit /\ PromoteInit /\ IndexNowInit /\ SeatsInit /\ BanInit
  /\ machine # "seats" => Holders = {}

MachinesNext ==
  \/ machine = "refunds" /\ RefundNext
       /\ UNCHANGED <<machine, promoteVars, indexVars, seatsVars, banVars>>
  \/ machine = "promote" /\ PromoteNext
       /\ UNCHANGED <<machine, refundVars, indexVars, seatsVars, banVars>>
  \/ machine = "indexnow" /\ IndexNowNext
       /\ UNCHANGED <<machine, refundVars, promoteVars, seatsVars, banVars>>
  \/ machine = "seats" /\ SeatsNext
       /\ UNCHANGED <<machine, refundVars, promoteVars, indexVars, banVars>>
  \/ machine = "banterm" /\ BanNext
       /\ UNCHANGED <<machine, refundVars, promoteVars, indexVars, seatsVars>>

MachinesVars ==
  <<machine, refundVars, promoteVars, indexVars, seatsVars, banVars>>

MachinesSpec == MachinesInit /\ [][MachinesNext]_MachinesVars

(* Machines that are never in one behaviour may share their values.        *)
Symmetry ==
  Permutations(Rows) \cup Permutations(Settlers) \cup Permutations(Invites)
=============================================================================
