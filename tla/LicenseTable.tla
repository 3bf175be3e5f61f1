---------------------------- MODULE LicenseTable ----------------------------
(***************************************************************************)
(* The licenses of one vendor's billing account as a value: what a row     *)
(* holds, which rows a builder of lib/license.ts selects, and the table it *)
(* leaves.  Pure operators, no variables: the modules that extend this one *)
(* say when a table is read and when it is written.                        *)
(*                                                                         *)
(* A license's id is its place in loadVendorLicenses' order.  Times are    *)
(* ticks.  Reference, terms version, notes and audit rows are left out.    *)
(***************************************************************************)
EXTENDS Integers, FiniteSets

CONSTANTS
  Ids,        \* licenses that may ever be granted
  Products,   \* products of the directory
  NoProd,     \* assigned_product_id IS NULL
  MaxTime     \* bound: the clock and every dated ends_at stop here

ASSUME TableConstants ==
  /\ Ids \subseteq Nat
  /\ IsFiniteSet(Ids)
  /\ NoProd \notin Products
  /\ MaxTime \in Nat

Time    == 0 .. MaxTime
NoEnd   == MaxTime + 1          \* ends_at IS NULL: after every time, never due
Ends    == Time \cup {NoEnd}
States  == {"absent", "live", "ended"}          \* "ended" is ended_at NOT NULL
Reasons == {"none", "lapsed", "released", "revoked", "banned"}

Row == [state : States, reason : Reasons, ends : Ends,
        prod : Products \cup {NoProd}, at : Time, release : BOOLEAN]

Table == [Ids -> Row]

Blank == [state |-> "absent", reason |-> "none", ends |-> 0,
          prod |-> NoProd, at |-> 0, release |-> FALSE]

(* A license of the back-fill: complimentary, with no end date.            *)
OpenEnded(p) == [Blank EXCEPT !.state = "live", !.ends = NoEnd, !.prod = p]

Live(t)         == {l \in Ids : t[l].state = "live"}
OnProduct(t, p) == {l \in Live(t) : t[l].prod = p}

(* licenses_live_product_idx: one live license per product.                *)
Indexed(t) ==
  \A k, l \in Live(t) : t[k].prod = t[l].prod /\ t[k].prod # NoProd => k = l

-----------------------------------------------------------------------------
(* What each builder writes.  Guards and sentinels are the caller's.       *)

Granted(t, G, e) ==
  [l \in Ids |-> IF l \in G
                 THEN [Blank EXCEPT !.state = "live", !.ends = e]
                 ELSE t[l]]

(* A plausible bug: the two columns swapped.                               *)
AssignedSwapped(t, l, p, at) ==
  [t EXCEPT ![l] = [@ EXCEPT !.prod = at, !.at = p]]

Assigned(t, l, p, at) ==
  [t EXCEPT ![l] = [@ EXCEPT !.prod = p, !.at = at]]

Unassigned(t, l) ==
  [t EXCEPT ![l] = [@ EXCEPT !.prod = NoProd, !.at = 0, !.release = FALSE]]

Flagged(t, l, b) == [t EXCEPT ![l] = [@ EXCEPT !.release = b]]

Extended(t, l, e) == [t EXCEPT ![l] = [@ EXCEPT !.ends = e]]

(* An ended license keeps its product as history.                          *)
Ended(t, S, why) ==
  [l \in Ids |-> IF l \in S
                 THEN [t[l] EXCEPT !.state = "ended", !.reason = why]
                 ELSE t[l]]

-----------------------------------------------------------------------------
(* The term that ends, and the carry-over of its products.                 *)

Term(t, e) == {l \in Live(t) : t[l].ends = e}

Releasing(t, e) == {l \in Term(t, e) : t[l].release /\ t[l].prod # NoProd}

Pool(t, at) == {l \in Live(t) : t[l].prod = NoProd /\ t[l].ends > at}

Candidates(t, e, noCarry) ==
  {l \in Term(t, e) :
     t[l].prod # NoProd /\ ~t[l].release /\ t[l].prod \notin noCarry}

(* A plausible bug: the newest assignment first.                           *)
SeniorReversed(t, k, l) == t[k].at > t[l].at \/ (t[k].at = t[l].at /\ k < l)

(* byAssignedAt: assigned_at, then id.                                     *)
Senior(t, k, l) == t[k].at < t[l].at \/ (t[k].at = t[l].at /\ k < l)

(* The i-th most senior candidate goes onto the i-th pool license.         *)
Carry(t, e, at, noCarry) ==
  LET from == Candidates(t, e, noCarry)
      to   == Pool(t, at)
  IN  {m \in from \X to :
         Cardinality({k \in from : Senior(t, k, m[1])})
           = Cardinality({k \in to : k < m[2]})}

(* The pool license takes the product and its seniority, as read in seen.  *)
Carried(t, moves, seen) ==
  [l \in Ids |->
     IF \E m \in moves : m[2] = l
     THEN LET c == (CHOOSE m \in moves : m[2] = l)[1]
          IN  [t[l] EXCEPT !.prod = seen[c].prod, !.at = seen[c].at]
     ELSE t[l]]

(* Both ends first, then the assigns.                                      *)
Lapsed(t, seen, e, moves) ==
  LET released == Releasing(seen, e)
      ends     == Ended(Ended(t, released, "released"),
                        Term(seen, e) \ released, "lapsed")
  IN  Carried(ends, moves, seen)
=============================================================================
