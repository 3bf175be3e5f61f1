----------------------------- MODULE MCLicenses -----------------------------
(* Bounds for Licenses.                                                    *)
EXTENDS Licenses, TLC

(* The vendor's or AECi's handling of an assigned license has begun.       *)
Handled ==
  \/ \E l \in Ids : asked[l] > 0 \/ lic[l].release
  \/ \E s \in Slots : slot[s].op \in {"flag", "ask", "approve", "decline"}

(* The third license and the second tick are for the carry-over, which     *)
(* they only follow where no license is flagged or asked about.            *)
SmallWhenHandled ==
  Handled' => /\ now' <= 1
              /\ \A l \in Ids : lic'[l].ends <= 1
              /\ \A s \in Slots : slot'[s].end <= 1
              /\ \A l \in Ids : l > 2 =>
                   /\ lic'[l] = Blank
                   /\ \A s \in Slots : l \notin slot'[s].lics

(* The second tick is for a term whose spare has no end date.              *)
LateWhenOpenEnded == now' = 2 => \E l \in Ids : lic'[l].ends = NoEnd

(* A vendor without an unbanned seat is followed at one time, one that was *)
(* suspended until the first tick, both with two dates, the one over and   *)
(* the other not: neither seats nor suspensions move with time.            *)
SmallWhenStanding ==
  cases' > 0 \/ seats' # "active" =>
    /\ now' <= IF seats' = "active" THEN 1 ELSE 0
    /\ \A l \in Ids : lic'[l].ends # 2
    /\ \A s \in Slots : slot'[s].end <= 1

Symmetry == Permutations(Products) \cup Permutations(Slots)
=============================================================================
