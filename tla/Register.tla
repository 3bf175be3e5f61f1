------------------------------ MODULE Register ------------------------------
(***************************************************************************)
(* What a vendor's licenses promise the rest of the system, whoever writes *)
(* them and however the writers cross.  A license is granted once and ends *)
(* once; while it is live it may be on a product, and no two are on the    *)
(* same one; it leaves a product only by being freed or by its end, when   *)
(* another free license may take the product over.  A vendor may be barred *)
(* and keep what it has, or closed, which ends it all; until it is open    *)
(* again nothing is granted.  Licenses implements it for a vendor's own    *)
(* licenses, StripeSync for those of a subscription.                       *)
(***************************************************************************)
CONSTANTS
  Ids, Products, NoProd

VARIABLES
  phase,      \* absent, live or ended
  on,         \* the product a license is on, or was on when it ended
  standing    \* open, barred or closed

registerVars == <<phase, on, standing>>

InForce == {l \in Ids : phase[l] = "live"}
Free    == {l \in InForce : on[l] = NoProd}

(* Some licenses may be in force already.                                  *)
RegisterInit ==
  /\ phase \in [Ids -> {"absent", "live"}]
  /\ on \in [Ids -> Products \cup {NoProd}]
  /\ \A l \in Ids \ InForce : on[l] = NoProd
  /\ \A k, l \in InForce \ Free : on[k] = on[l] => k = l
  /\ standing = "open"

Grant(G) ==
  /\ standing = "open"
  /\ \A l \in G : phase[l] = "absent"
  /\ phase' = [l \in Ids |-> IF l \in G THEN "live" ELSE phase[l]]
  /\ on'    = [l \in Ids |-> IF l \in G THEN NoProd ELSE on[l]]
  /\ UNCHANGED standing

Assign(l, p) ==
  /\ l \in Free
  /\ \A k \in InForce : on[k] # p
  /\ on' = [on EXCEPT ![l] = p]
  /\ UNCHANGED <<phase, standing>>

Release(l) ==
  /\ l \in InForce
  /\ on' = [on EXCEPT ![l] = NoProd]
  /\ UNCHANGED <<phase, standing>>

(* The licenses S end; each free license in heir's domain takes over the   *)
(* product of one of them.                                                 *)
End(S, heir) ==
  /\ S \subseteq InForce
  /\ DOMAIN heir \subseteq Free \ S
  /\ \A k, l \in DOMAIN heir : heir[k] = heir[l] => k = l
  /\ phase' = [l \in Ids |-> IF l \in S THEN "ended" ELSE phase[l]]
  /\ on'    = [l \in Ids |-> IF l \in DOMAIN heir THEN on[heir[l]] ELSE on[l]]
  /\ UNCHANGED standing

Bar ==
  /\ standing = "open"
  /\ standing' = "barred"
  /\ UNCHANGED <<phase, on>>

Close ==
  /\ standing' = "closed"
  /\ phase' = [l \in Ids |-> IF l \in InForce THEN "ended" ELSE phase[l]]
  /\ UNCHANGED on

Reopen ==
  /\ standing' = "open"
  /\ UNCHANGED <<phase, on>>

RegisterNext ==
  \/ \E G \in SUBSET Ids : Grant(G)
  \/ \E l \in Ids, p \in Products : Assign(l, p)
  \/ \E l \in Ids : Release(l)
  \/ \E S \in SUBSET InForce : \E T \in SUBSET (Free \ S) :
       \E heir \in [T -> S] : End(S, heir)
  \/ Bar \/ Close \/ Reopen

RegisterSpec == RegisterInit /\ [][RegisterNext]_registerVars
=============================================================================
