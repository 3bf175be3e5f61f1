--------------------------- MODULE LicensesProofs ---------------------------
(***************************************************************************)
(* What holds of Licenses for every set of licenses, products and handlers *)
(* in flight, and every bound.                                             *)
(*                                                                         *)
(* Each commit replaces the table by one of the builders' results.  The    *)
(* argument is that every such result is a legal successor of the table as *)
(* it stands at the commit (Successor), whatever the handler had read; the *)
(* invariants follow from that alone.  What a plan promises about its read *)
(* is PlanSound.                                                           *)
(***************************************************************************)
EXTENDS Licenses, LicenseTableProofs

-----------------------------------------------------------------------------
(* u follows t: what has ended stays, a license that holds a product held  *)
(* it before or gained it now, and a flag has a product.                   *)
Successor(t, u, gained) ==
  /\ u \in Table
  /\ \A l \in Ids : t[l].state = "ended" => u[l] = t[l]
  /\ \A l \in Ids : u[l].state = "live" /\ u[l].prod # NoProd
                      => \/ t[l].state = "live" /\ t[l].prod = u[l].prod
                         \/ u[l].prod \in gained
  /\ \A l \in Ids : u[l].state = "live" /\ u[l].release => u[l].prod # NoProd

(* No license came alive.                                                  *)
Fewer(t, u) == \A l \in Ids : u[l].state = "live" => t[l].state = "live"

(* A plan on a product names one; an extend lengthens a dated term; a      *)
(* lapse plans a term that is over; a termination plans the sweep; an      *)
(* approval names the open request's product for as long as that request   *)
(* is the open one.                                                        *)
PlanSound ==
  \A s \in Slots :
    /\ slot[s].op \in {"assign", "flag", "approve"} => slot[s].prod # NoProd
    /\ slot[s].op = "extend" =>
         \A l \in slot[s].lics :
           slot[s].seen[l].ends # NoEnd => slot[s].end > slot[s].seen[l].ends
    /\ slot[s].op = "lapse" => slot[s].end <= now
    /\ slot[s].op = "terminate" => slot[s].last
    /\ slot[s].op = "approve" =>
         \A l \in slot[s].lics :
           /\ slot[s].mark <= asked[l]
           /\ asks[l] # NoProd /\ asked[l] = slot[s].mark
                => asks[l] = slot[s].prod

IInv == TypeOK /\ PlanSound /\ FlagHasProduct /\ MirrorsAgree
               /\ TerminatedHoldsNone

-----------------------------------------------------------------------------
(* Every builder's result is a successor of the table it is applied to.    *)

Flagless(t) == \A l \in Ids : t[l].state = "live" /\ t[l].release
                                => t[l].prod # NoProd

LEMMA GrantFollows ==
  ASSUME NEW t \in Table, Flagless(t), NEW G \in SUBSET Ids, NEW e \in Time,
         \A l \in G : t[l].state = "absent"
  PROVE  Successor(t, Granted(t, G, e), {})
<1> DEFINE u == Granted(t, G, e)
<1>1. /\ u \in Table
      /\ \A l \in Ids : l \notin G => u[l] = t[l]
      /\ \A l \in G : u[l].prod = NoProd /\ u[l].release = FALSE
  BY GrantedRows
<1> HIDE DEF u
<1>3. Successor(t, u, {})
  BY <1>1 DEF Successor, Flagless
<1> QED
  BY <1>3 DEF u

(* One live license changed, the others as they were.                      *)
LEMMA OneRow ==
  ASSUME NEW t \in Table, Flagless(t), NEW u \in Table, NEW gained,
         NEW S \in SUBSET Ids,
         \A l \in S : t[l].state = "live",
         \A k \in Ids : k \notin S => u[k] = t[k],
         \A l \in S : u[l].state = "live" =>
           /\ u[l].prod # NoProd =>
                u[l].prod = t[l].prod \/ u[l].prod \in gained
           /\ u[l].release => u[l].prod # NoProd
  PROVE  Successor(t, u, gained) /\ Fewer(t, u)
BY DEF Successor, Fewer, Flagless

LEMMA AssignFollows ==
  ASSUME NEW t \in Table, Flagless(t), NEW l \in Ids, NEW p \in Products,
         NEW at \in Time,
         t[l].state = "live"
  PROVE  /\ Successor(t, Assigned(t, l, p, at), {p})
         /\ Fewer(t, Assigned(t, l, p, at))
<1> DEFINE u == Assigned(t, l, p, at)
           gained == {p}
<1>1. u \in Table /\ \A k \in Ids : k # l => u[k] = t[k]
  BY AssignedRows
<1>2. u[l].prod = p
  BY AssignedRows
<1> HIDE DEF u
<1>3. Successor(t, u, gained) /\ Fewer(t, u)
  <2>1. u[l].prod \in gained /\ u[l].prod # NoProd
    BY <1>2, TableConstants
  <2> QED
    BY <1>1, <1>2, <2>1 DEF Successor, Fewer, Flagless
<1> QED
  BY <1>3 DEF u, gained

LEMMA UnassignFollows ==
  ASSUME NEW t \in Table, Flagless(t), NEW l \in Ids,
         t[l].state = "live"
  PROVE  /\ Successor(t, Unassigned(t, l), {})
         /\ Fewer(t, Unassigned(t, l))
<1> DEFINE u == Unassigned(t, l)
<1>1. u \in Table /\ \A k \in Ids : k # l => u[k] = t[k]
  BY UnassignedRows
<1>2. u[l].prod = NoProd /\ ~u[l].release
  BY UnassignedRows
<1> HIDE DEF u
<1>3. Successor(t, u, {}) /\ Fewer(t, u)
  <2>1. {l} \in SUBSET Ids
    OBVIOUS
  <2> QED
    BY <1>1, <1>2, <2>1, OneRow
<1> QED
  BY <1>3 DEF u

LEMMA FlagFollows ==
  ASSUME NEW t \in Table, Flagless(t), NEW l \in Ids,
         NEW b \in BOOLEAN,
         t[l].state = "live", b => t[l].prod # NoProd
  PROVE  /\ Successor(t, Flagged(t, l, b), {})
         /\ Fewer(t, Flagged(t, l, b))
<1> DEFINE u == Flagged(t, l, b)
<1>1. u \in Table /\ \A k \in Ids : k # l => u[k] = t[k]
  BY FlaggedRows
<1>2. u[l].prod = t[l].prod /\ u[l].release = b
  BY FlaggedRows
<1> HIDE DEF u
<1>3. Successor(t, u, {}) /\ Fewer(t, u)
  <2>1. {l} \in SUBSET Ids
    OBVIOUS
  <2> QED
    BY <1>1, <1>2, <2>1, OneRow
<1> QED
  BY <1>3 DEF u

LEMMA ExtendFollows ==
  ASSUME NEW t \in Table, Flagless(t), NEW l \in Ids,
         NEW e \in Time,
         t[l].state = "live"
  PROVE  /\ Successor(t, Extended(t, l, e), {})
         /\ Fewer(t, Extended(t, l, e))
<1> DEFINE u == Extended(t, l, e)
<1>1. u \in Table /\ \A k \in Ids : k # l => u[k] = t[k]
  BY ExtendedRows
<1>2. u[l].prod = t[l].prod /\ u[l].release = t[l].release
  BY ExtendedRows
<1> HIDE DEF u
<1>3. Successor(t, u, {}) /\ Fewer(t, u)
  <2>1. {l} \in SUBSET Ids
    OBVIOUS
  <2> QED
    BY <1>1, <1>2, <2>1, OneRow DEF Flagless
<1> QED
  BY <1>3 DEF u

LEMMA EndFollows ==
  ASSUME NEW t \in Table, Flagless(t), NEW S \in SUBSET Ids,
         NEW why \in Reasons, \A l \in S : t[l].state = "live"
  PROVE  /\ Successor(t, Ended(t, S, why), {})
         /\ Fewer(t, Ended(t, S, why))
<1> DEFINE u == Ended(t, S, why)
<1>1. u \in Table /\ \A k \in Ids : k \notin S => u[k] = t[k]
  BY EndedRows
<1>2. \A l \in S : u[l].state = "ended"
  BY EndedRows
<1> HIDE DEF u
<1>3. Successor(t, u, {}) /\ Fewer(t, u)
  BY <1>1, <1>2, OneRow
<1> QED
  BY <1>3 DEF u

LEMMA LapseFollows ==
  ASSUME NEW t \in Table, Flagless(t), NEW seen \in Table, NEW e \in Time,
         NEW at \in Time, NEW noCarry,
         \A l \in Term(seen, e) : t[l].state = "live",
         \A m \in Carry(seen, e, at, noCarry) : t[m[2]].state = "live"
  PROVE  LET moves == Carry(seen, e, at, noCarry)
             u     == Lapsed(t, seen, e, moves)
         IN  /\ Successor(t, u, {seen[m[1]].prod : m \in moves})
             /\ Fewer(t, u)
<1> DEFINE moves  == Carry(seen, e, at, noCarry)
           term   == Term(seen, e)
           u      == Lapsed(t, seen, e, moves)
           gained == {seen[m[1]].prod : m \in moves}
<1>1. /\ u \in Table
      /\ \A k \in Ids :
           /\ u[k].ends = t[k].ends
           /\ u[k].release = t[k].release
           /\ u[k].state = IF k \in term THEN "ended" ELSE t[k].state
           /\ u[k].reason = IF k \notin term THEN t[k].reason
                            ELSE IF k \in Releasing(seen, e) THEN "released"
                            ELSE "lapsed"
           /\ \/ /\ u[k].prod = t[k].prod /\ u[k].at = t[k].at
                 /\ ~ \E m \in moves : m[2] = k
              \/ \E m \in moves : m[2] = k /\ u[k].prod = seen[m[1]].prod
  BY LapsedRows
<1>2. \A m \in moves : seen[m[1]].prod \in gained /\ seen[m[1]].prod # NoProd
  BY CarryPairs, TableConstants
<1> HIDE DEF u, moves, term, gained
<1>3. ASSUME NEW l \in Ids, t[l].state = "ended"
      PROVE  u[l] = t[l]
  <2>1. l \notin term /\ ~ \E m \in moves : m[2] = l
    BY <1>3 DEF moves, term
  <2>2. u[l] \in Row /\ t[l] \in Row
    BY <1>1 DEF Table
  <2> QED
    BY <1>1, <2>1, <2>2 DEF Row
<1>4. ASSUME NEW l \in Ids, u[l].state = "live"
      PROVE  /\ t[l].state = "live"
             /\ u[l].prod # NoProd =>
                  t[l].prod = u[l].prod \/ u[l].prod \in gained
             /\ u[l].release => u[l].prod # NoProd
  BY <1>1, <1>2, <1>4 DEF Flagless
<1>5. Successor(t, u, gained) /\ Fewer(t, u)
  BY <1>1, <1>3, <1>4 DEF Successor, Fewer
<1> QED
  BY <1>5 DEF u, moves, gained

-----------------------------------------------------------------------------
(* What every commit shares.                                               *)

LEMMA IdlePlan == Idle \in Plan
<1>1. Unread \in Table
  BY BlankRow DEF Unread, Table
<1>2. 0 \in Time /\ 0 \in 0 .. MaxAsks
  BY TableConstants, LicenseConstants DEF Time
<1> QED
  BY <1>1, <1>2 DEF Idle, Plan

LEMMA SeenTable == ASSUME lic \in Table, NEW S PROVE Seen(S) \in Table
BY BlankRow DEF Seen, Table

(* reconcileManagedMirror on a successor of the stored table.              *)
LEMMA TableStep ==
  ASSUME IInv, NEW t, NEW lost \in SUBSET Products, NEW gained,
         Successor(lic, t, gained), Reconcile(t, lost, gained)
  PROVE  /\ lic' = t /\ lic' \in Table
         /\ verified' \in BOOLEAN
         /\ managed' \subseteq Products
         /\ MirrorsAgree'
         /\ FlagHasProduct'
<1>1. /\ lic' = t /\ lic' \in Table
      /\ verified' = (Live(t) # {})
      /\ managed' = (managed \cup {p \in lost : OnProduct(t, p) = {}})
                       \ {p \in gained : OnProduct(t, p) # {}}
  BY DEF Reconcile, Successor
<1>2. managed' \subseteq Products
  BY <1>1 DEF IInv, TypeOK
<1>3. ASSUME NEW p \in managed', NEW l \in OnProduct(t, p)
      PROVE  FALSE
  <2>1. /\ l \in Ids /\ t[l].state = "live" /\ t[l].prod = p
        /\ p # NoProd
    BY <1>2, <1>3, TableConstants DEF OnProduct, Live
  <2>2. CASE p \in gained
    BY <1>1, <1>3, <2>2
  <2>3. CASE lic[l].state = "live" /\ lic[l].prod = p
    <3>1. p \notin managed
      BY <2>1, <2>3 DEF IInv, MirrorsAgree, OnProduct, Live
    <3> QED
      BY <1>1, <1>3, <3>1
  <2> QED
    BY <2>1, <2>2, <2>3 DEF Successor
<1>4. MirrorsAgree'
  BY <1>1, <1>3 DEF MirrorsAgree
<1>5. FlagHasProduct'
  BY <1>1 DEF FlagHasProduct, Successor, Live
<1> QED
  BY <1>1, <1>2, <1>4, <1>5

LEMMA FinishKeeps ==
  ASSUME IInv, NEW s \in Slots, Finish(s), now' = now,
         asked' \in [Ids -> 0 .. MaxAsks],
         \A l \in Ids :
           \/ asked'[l] = asked[l] /\ asks'[l] \in {asks[l], NoProd}
           \/ asked'[l] = asked[l] + 1
  PROVE  slot' \in [Slots -> Plan] /\ PlanSound'
<1>1. slot' \in [Slots -> Plan]
  BY IdlePlan DEF IInv, TypeOK, Finish
<1>2. ASSUME NEW r \in Slots, slot'[r].op # "idle"
      PROVE  slot'[r] = slot[r]
  BY <1>2 DEF Finish, Idle, IInv, TypeOK
<1>3. ASSUME NEW r \in Slots, slot'[r].op = "approve", NEW l \in slot'[r].lics
      PROVE  /\ slot'[r].mark <= asked'[l]
             /\ asks'[l] # NoProd /\ asked'[l] = slot'[r].mark
                  => asks'[l] = slot'[r].prod
  <2>1. slot'[r] = slot[r] /\ slot[r] \in Plan
    BY <1>2, <1>3 DEF IInv, TypeOK
  <2>2. l \in Ids /\ slot[r].mark \in Int /\ asked[l] \in Int
    BY <1>3, <2>1, LicenseConstants DEF Plan, IInv, TypeOK
  <2>3. /\ slot[r].mark <= asked[l]
        /\ asks[l] # NoProd /\ asked[l] = slot[r].mark => asks[l] = slot[r].prod
    BY <1>3, <2>1 DEF IInv, PlanSound
  <2> QED
    BY <2>1, <2>2, <2>3
<1>4. ASSUME NEW r \in Slots, slot'[r].op # "idle"
      PROVE  /\ slot'[r].op \in {"assign", "flag", "approve"}
                  => slot'[r].prod # NoProd
             /\ slot'[r].op = "extend" =>
                  \A l \in slot'[r].lics :
                    slot'[r].seen[l].ends # NoEnd
                      => slot'[r].end > slot'[r].seen[l].ends
             /\ slot'[r].op = "lapse" => slot'[r].end <= now'
             /\ slot'[r].op = "terminate" => slot'[r].last
  BY <1>2, <1>4 DEF IInv, PlanSound
<1> QED
  BY <1>1, <1>3, <1>4 DEF PlanSound

(* A commit that touches the table and nothing but the table.              *)
LEMMA PlainCommit ==
  ASSUME IInv, NEW s \in Slots, NEW t, NEW lost \in SUBSET Products,
         NEW gained, Successor(lic, t, gained), Reconcile(t, lost, gained),
         Fewer(lic, t) \/ ~FullyBanned, Finish(s),
         UNCHANGED <<owned, requests, standing, now>>
  PROVE  IInv' /\ Successor(lic, lic', gained)
<1>1. /\ lic' = t /\ lic' \in Table /\ verified' \in BOOLEAN
      /\ managed' \subseteq Products /\ MirrorsAgree' /\ FlagHasProduct'
  BY TableStep
<1>2. slot' \in [Slots -> Plan] /\ PlanSound'
  <2>1. /\ asked' \in [Ids -> 0 .. MaxAsks] /\ now' = now
        /\ \A l \in Ids : asked'[l] = asked[l] /\ asks'[l] \in {asks[l], NoProd}
    BY DEF requests, IInv, TypeOK
  <2> QED
    BY <2>1, FinishKeeps
<1>3. TypeOK'
  BY <1>1, <1>2 DEF IInv, TypeOK, requests, standing
<1>4. TerminatedHoldsNone'
  BY <1>1 DEF IInv, TerminatedHoldsNone, FullyBanned, standing, Fewer, Live
<1> QED
  BY <1>1, <1>2, <1>3, <1>4 DEF IInv

-----------------------------------------------------------------------------
(* The commits.                                                            *)

Keeps == IInv' /\ \E gained : Successor(lic, lic', gained)

LEMMA FlaglessNow == ASSUME IInv PROVE Flagless(lic)
BY DEF IInv, FlagHasProduct, Flagless, Live

LEMMA PlanFields ==
  ASSUME IInv, NEW s \in Slots
  PROVE  LET plan == slot[s]
         IN  /\ plan.lics \in SUBSET Ids
             /\ plan.prod \in Products \cup {NoProd}
             /\ plan.at \in Time /\ plan.end \in Time
             /\ plan.flag \in BOOLEAN
             /\ plan.mark \in 0 .. MaxAsks
             /\ plan.seen \in Table
             /\ lic \in Table
BY DEF IInv, TypeOK, Plan

LEMMA GrantKeeps ==
  ASSUME IInv, NEW s \in Slots, CommitGrant(s)
  PROVE  Keeps
<1> DEFINE plan == slot[s]
           t == Granted(lic, plan.lics, plan.end)
<1>1. /\ \A l \in plan.lics : lic[l].state = "absent"
      /\ ~FullyBanned /\ Reconcile(t, {}, {}) /\ Finish(s)
      /\ UNCHANGED <<owned, requests, standing, now>>
  BY DEF CommitGrant, SeatLeft
<1>2. Successor(lic, t, {})
  BY <1>1, GrantFollows, FlaglessNow, PlanFields
<1> HIDE DEF t
<1>3. IInv' /\ Successor(lic, lic', {})
  BY <1>1, <1>2, PlainCommit
<1> QED
  BY <1>3 DEF Keeps

LEMMA AssignKeeps ==
  ASSUME IInv, NEW s \in Slots, NEW l \in Ids, CommitAssign(s, l)
  PROVE  Keeps
<1> DEFINE plan == slot[s]
           t == Assigned(lic, l, plan.prod, plan.at)
           g == {plan.prod}
<1>1. /\ plan.op = "assign" /\ StillLive(l)
      /\ Reconcile(t, {}, g) /\ Finish(s)
      /\ UNCHANGED <<owned, requests, standing, now>>
  BY DEF CommitAssign
<1>2. plan.prod \in Products
  BY <1>1, PlanFields DEF IInv, PlanSound
<1>3. Successor(lic, t, g) /\ Fewer(lic, t)
  BY <1>1, <1>2, AssignFollows, FlaglessNow, PlanFields DEF StillLive
<1> HIDE DEF t, g
<1>4. IInv' /\ Successor(lic, lic', g)
  BY <1>1, <1>3, PlainCommit
<1> QED
  BY <1>4 DEF Keeps

LEMMA FlagKeeps ==
  ASSUME IInv, NEW s \in Slots, NEW l \in Ids, CommitFlag(s, l)
  PROVE  Keeps
<1> DEFINE plan == slot[s]
           t == Flagged(lic, l, plan.flag)
<1>1. /\ plan.op = "flag" /\ FlagFits(plan, l)
      /\ Reconcile(t, {}, {}) /\ Finish(s)
      /\ UNCHANGED <<owned, requests, standing, now>>
  BY DEF CommitFlag
<1>2. lic[l].state = "live" /\ (plan.flag => lic[l].prod # NoProd)
  BY <1>1 DEF IInv, PlanSound, FlagFits, StillLive
<1>3. Successor(lic, t, {}) /\ Fewer(lic, t)
  BY <1>2, FlagFollows, FlaglessNow, PlanFields
<1> HIDE DEF t
<1>4. IInv' /\ Successor(lic, lic', {})
  BY <1>1, <1>3, PlainCommit
<1> QED
  BY <1>4 DEF Keeps

LEMMA ExtendKeeps ==
  ASSUME IInv, NEW s \in Slots, NEW l \in Ids, CommitExtend(s, l)
  PROVE  Keeps
<1> DEFINE plan == slot[s]
           t == Extended(lic, l, plan.end)
<1>1. /\ StillLive(l) /\ Reconcile(t, {}, {}) /\ Finish(s)
      /\ UNCHANGED <<owned, requests, standing, now>>
  BY DEF CommitExtend
<1>2. Successor(lic, t, {}) /\ Fewer(lic, t)
  BY <1>1, ExtendFollows, FlaglessNow, PlanFields DEF StillLive
<1> HIDE DEF t
<1>3. IInv' /\ Successor(lic, lic', {})
  BY <1>1, <1>2, PlainCommit
<1> QED
  BY <1>3 DEF Keeps

LEMMA RevokeKeeps ==
  ASSUME IInv, NEW s \in Slots, NEW l \in Ids, CommitRevoke(s, l)
  PROVE  Keeps
<1> DEFINE plan == slot[s]
           S == {l}
           t == Ended(lic, S, "revoked")
           lost == {plan.prod} \ {NoProd}
<1>1. /\ StillLive(l) /\ Reconcile(t, lost, {}) /\ Finish(s)
      /\ UNCHANGED <<owned, requests, standing, now>>
  BY DEF CommitRevoke
<1>2. Successor(lic, t, {}) /\ Fewer(lic, t)
  <2>1. S \in SUBSET Ids /\ \A k \in S : lic[k].state = "live"
    BY <1>1 DEF StillLive
  <2>2. "revoked" \in Reasons
    BY DEF Reasons
  <2> HIDE DEF S
  <2> QED
    BY <2>1, <2>2, EndFollows, FlaglessNow, PlanFields
<1>3. lost \in SUBSET Products
  BY PlanFields
<1> HIDE DEF t, lost
<1>4. IInv' /\ Successor(lic, lic', {})
  BY <1>1, <1>2, <1>3, PlainCommit
<1> QED
  BY <1>4 DEF Keeps

LEMMA LapseKeeps ==
  ASSUME IInv, NEW s \in Slots, CommitLapse(s)
  PROVE  Keeps
<1> DEFINE plan == slot[s]
           moves == Carry(plan.seen, plan.end, plan.at, plan.blocked)
           t == Lapsed(lic, plan.seen, plan.end, moves)
           lost == {plan.seen[l].prod : l \in plan.lics} \ {NoProd}
           g == {plan.seen[m[1]].prod : m \in moves}
<1>1. /\ TermUnchanged(plan) /\ SparesFree(moves)
      /\ Reconcile(t, lost, g) /\ Finish(s)
      /\ UNCHANGED <<owned, requests, standing, now>>
  BY DEF CommitLapse
<1>2. /\ \A l \in Term(plan.seen, plan.end) : lic[l].state = "live"
      /\ \A m \in moves : lic[m[2]].state = "live"
  BY <1>1 DEF TermUnchanged, SparesFree, StillLive
<1>3. Successor(lic, t, g) /\ Fewer(lic, t)
  BY <1>2, LapseFollows, FlaglessNow, PlanFields
<1>4. lost \in SUBSET Products
  BY PlanFields DEF Table, Row
<1> HIDE DEF t, g, lost
<1>5. IInv' /\ Successor(lic, lic', g)
  BY <1>1, <1>3, <1>4, PlainCommit
<1> QED
  BY <1>5 DEF Keeps

LEMMA SameTable ==
  ASSUME IInv, lic' = lic
  PROVE  \E gained : Successor(lic, lic', gained)
<1>1. Successor(lic, lic', Products)
  BY FlaglessNow DEF IInv, TypeOK, Successor, Flagless, Table, Row
<1> QED
  BY <1>1

LEMMA AskKeeps ==
  ASSUME IInv, NEW s \in Slots, NEW l \in Ids, CommitAsk(s, l)
  PROVE  Keeps
<1>1. /\ asked[l] < MaxAsks
      /\ asks' = [asks EXCEPT ![l] = slot[s].prod]
      /\ asked' = [asked EXCEPT ![l] = @ + 1]
      /\ Finish(s) /\ UNCHANGED <<table, owned, standing, now>>
  BY DEF CommitAsk
<1>2. /\ asks' \in [Ids -> Products \cup {NoProd}]
      /\ asked' \in [Ids -> 0 .. MaxAsks]
  BY <1>1, PlanFields, LicenseConstants DEF IInv, TypeOK
<1>3. slot' \in [Slots -> Plan] /\ PlanSound'
  <2>1. \A k \in Ids : \/ asked'[k] = asked[k] /\ asks'[k] \in {asks[k], NoProd}
                       \/ asked'[k] = asked[k] + 1
    BY <1>1 DEF IInv, TypeOK
  <2> QED
    BY <1>1, <1>2, <2>1, FinishKeeps
<1>4. IInv'
  BY <1>1, <1>2, <1>3
     DEF IInv, TypeOK, table, standing, FlagHasProduct, MirrorsAgree,
         TerminatedHoldsNone, Live, OnProduct
<1> QED
  BY <1>1, <1>4, SameTable DEF Keeps, table

(* Deciding a request leaves the requests typed and the other plans sound. *)
LEMMA DecidedKeeps ==
  ASSUME IInv, NEW s \in Slots, NEW l \in Ids, Decided(slot[s], l), Finish(s),
         asked' = asked, now' = now
  PROVE  /\ asks' \in [Ids -> Products \cup {NoProd}]
         /\ slot' \in [Slots -> Plan] /\ PlanSound'
<1>1. asks' = [asks EXCEPT ![l] = NoProd]
  BY DEF Decided
<1>2. asks' \in [Ids -> Products \cup {NoProd}]
  BY <1>1 DEF IInv, TypeOK
<1>3. /\ asked' \in [Ids -> 0 .. MaxAsks]
      /\ \A k \in Ids : asked'[k] = asked[k] /\ asks'[k] \in {asks[k], NoProd}
  BY <1>1 DEF IInv, TypeOK
<1> QED
  BY <1>2, <1>3, FinishKeeps

LEMMA DeclineKeeps ==
  ASSUME IInv, NEW s \in Slots, NEW l \in Ids, CommitDecline(s, l)
  PROVE  Keeps
<1>1. /\ Decided(slot[s], l) /\ Finish(s)
      /\ UNCHANGED <<table, owned, asked, standing, now>>
  BY DEF CommitDecline
<1>2. /\ asks' \in [Ids -> Products \cup {NoProd}]
      /\ slot' \in [Slots -> Plan] /\ PlanSound'
  BY <1>1, DecidedKeeps
<1>3. IInv'
  BY <1>1, <1>2
     DEF IInv, TypeOK, table, standing, FlagHasProduct, MirrorsAgree,
         TerminatedHoldsNone, Live, OnProduct
<1> QED
  BY <1>1, <1>3, SameTable DEF Keeps, table

LEMMA ApproveKeeps ==
  ASSUME IInv, NEW s \in Slots, NEW l \in Ids, CommitApprove(s, l)
  PROVE  Keeps
<1> DEFINE plan == slot[s]
           t == Unassigned(lic, l)
           lost == {plan.prod}
<1>1. /\ plan.op = "approve" /\ Decided(plan, l) /\ StillLive(l)
      /\ Reconcile(t, lost, {}) /\ Finish(s)
      /\ UNCHANGED <<owned, asked, standing, now>>
  BY DEF CommitApprove
<1>2. /\ asks' \in [Ids -> Products \cup {NoProd}]
      /\ slot' \in [Slots -> Plan] /\ PlanSound'
  BY <1>1, DecidedKeeps
<1>3. lost \in SUBSET Products
  BY <1>1, PlanFields DEF IInv, PlanSound
<1>4. Successor(lic, t, {}) /\ Fewer(lic, t)
  BY <1>1, UnassignFollows, FlaglessNow, PlanFields DEF StillLive
<1> HIDE DEF t, lost
<1>5. /\ lic' = t /\ lic' \in Table /\ verified' \in BOOLEAN
      /\ managed' \subseteq Products /\ MirrorsAgree' /\ FlagHasProduct'
  BY <1>1, <1>3, <1>4, TableStep
<1>6. TerminatedHoldsNone'
  BY <1>1, <1>4, <1>5 DEF IInv, TerminatedHoldsNone, standing, Fewer, Live
<1>7. TypeOK'
  BY <1>1, <1>2, <1>5 DEF IInv, TypeOK, standing
<1> QED
  BY <1>2, <1>4, <1>5, <1>6, <1>7 DEF Keeps, IInv

LEMMA TerminateKeeps ==
  ASSUME IInv, NEW s \in Slots, CommitTerminate(s)
  PROVE  Keeps
<1> DEFINE plan == slot[s]
           t == Ended(lic, plan.lics, "banned")
           lost == {plan.seen[l].prod : l \in plan.lics} \ {NoProd}
<1>1. /\ \A l \in plan.lics : StillLive(l)
      /\ Live(t) = {} /\ Reconcile(t, lost, {}) /\ Finish(s)
      /\ suspended' = FALSE /\ seats' \in {"none", "terminated"}
      /\ UNCHANGED <<owned, requests, cases, now>>
  BY DEF CommitTerminate
<1>2. Successor(lic, t, {})
  <2>1. "banned" \in Reasons
    BY DEF Reasons
  <2> QED
    BY <1>1, <2>1, EndFollows, FlaglessNow, PlanFields DEF StillLive
<1>3. lost \in SUBSET Products
  BY PlanFields DEF Table, Row
<1> HIDE DEF t, lost
<1>4. /\ lic' = t /\ lic' \in Table /\ verified' \in BOOLEAN
      /\ managed' \subseteq Products /\ MirrorsAgree' /\ FlagHasProduct'
  BY <1>1, <1>2, <1>3, TableStep
<1>5. slot' \in [Slots -> Plan] /\ PlanSound'
  <2>1. /\ asked' \in [Ids -> 0 .. MaxAsks] /\ now' = now
        /\ \A l \in Ids : asked'[l] = asked[l] /\ asks'[l] \in {asks[l], NoProd}
    BY <1>1 DEF requests, IInv, TypeOK
  <2> QED
    BY <1>1, <2>1, FinishKeeps
<1>6. TerminatedHoldsNone'
  BY <1>1, <1>4 DEF TerminatedHoldsNone
<1>7. TypeOK'
  BY <1>1, <1>4, <1>5 DEF IInv, TypeOK, requests, Seats
<1> QED
  BY <1>2, <1>4, <1>5, <1>6, <1>7 DEF Keeps, IInv

-----------------------------------------------------------------------------
(* The reads.                                                              *)

(* A plan is sound in the state it was made in.                            *)
Sound(plan) ==
  /\ plan.op \in {"assign", "flag", "approve"} => plan.prod # NoProd
  /\ plan.op = "extend" =>
       \A l \in plan.lics :
         plan.seen[l].ends # NoEnd => plan.end > plan.seen[l].ends
  /\ plan.op = "lapse" => plan.end <= now
  /\ plan.op = "terminate" => plan.last
  /\ plan.op = "approve" =>
       \A l \in plan.lics : plan.mark = asked[l] /\ plan.prod = asks[l]

LEMMA BeginKeeps ==
  ASSUME IInv, NEW s \in Slots, NEW plan \in Plan, Sound(plan), Begin(s, plan)
  PROVE  Keeps
<1>1. /\ slot' = [slot EXCEPT ![s] = plan]
      /\ UNCHANGED <<table, owned, requests, standing, now>>
  BY DEF Begin
<1>2. TypeOK'
  BY <1>1 DEF IInv, TypeOK, table, requests, standing
<1>3. PlanSound'
  <2>1. /\ \A r \in Slots : slot'[r] = IF r = s THEN plan ELSE slot[r]
        /\ now' = now /\ asks' = asks /\ asked' = asked
    BY <1>1 DEF IInv, TypeOK, requests
  <2>2. ASSUME NEW l \in plan.lics
        PROVE  asked[l] <= asked[l]
    BY LicenseConstants DEF Plan, IInv, TypeOK
  <2> QED
    BY <2>1, <2>2 DEF IInv, PlanSound, Sound
<1>4. FlagHasProduct' /\ MirrorsAgree' /\ TerminatedHoldsNone'
  BY <1>1 DEF IInv, FlagHasProduct, MirrorsAgree, TerminatedHoldsNone, table,
              standing, Live, OnProduct
<1> QED
  BY <1>1, <1>2, <1>3, <1>4, SameTable DEF Keeps, IInv, table

LEMMA ReadKeeps ==
  ASSUME IInv, NEW s \in Slots, Read(s)
  PROVE  Keeps
<1> USE IdlePlan
<1> DEFINE T == Products \cup {NoProd}
<1>0. /\ lic \in Table /\ owned \subseteq Products /\ now \in Time
      /\ asks \in [Ids -> T] /\ asked \in [Ids -> 0 .. MaxAsks]
      /\ cases \in 0 .. MaxAsks
      /\ \A l \in Ids : lic[l].prod \in T
  BY DEF IInv, TypeOK, Table, Row
<1>1. ASSUME NEW G \in SUBSET Ids, NEW e \in Time, PlanGrant(s, G, e)
      PROVE  Keeps
  <2> DEFINE plan == [Idle EXCEPT !.op = "grant", !.lics = G, !.end = e]
  <2>1. plan \in Plan /\ Sound(plan)
    BY DEF Plan, Ops, Sound, Idle
  <2>2. Begin(s, plan)
    BY <1>1 DEF PlanGrant
  <2> HIDE DEF plan
  <2> QED
    BY <2>1, <2>2, BeginKeeps
<1>2. ASSUME NEW l \in Ids, NEW p \in Products, PlanAssign(s, l, p)
      PROVE  Keeps
  <2> DEFINE plan == [Idle EXCEPT !.op = "assign", !.lics = {l}, !.prod = p,
                                  !.at = now]
  <2>1. plan \in Plan /\ Sound(plan)
    BY <1>0, TableConstants DEF Plan, Ops, Sound, Idle
  <2>2. Begin(s, plan)
    BY <1>2 DEF PlanAssign
  <2> HIDE DEF plan
  <2> QED
    BY <2>1, <2>2, BeginKeeps
<1>3. ASSUME NEW l \in Ids, NEW b \in BOOLEAN, PlanFlag(s, l, b)
      PROVE  Keeps
  <2> DEFINE plan == [Idle EXCEPT !.op = "flag", !.lics = {l}, !.flag = b,
                                  !.prod = lic[l].prod]
  <2>1. Begin(s, plan) /\ lic[l].prod # NoProd
    BY <1>3 DEF PlanFlag
  <2>2. plan \in Plan /\ Sound(plan)
    BY <1>0, <2>1 DEF Plan, Ops, Sound, Idle
  <2> HIDE DEF plan
  <2> QED
    BY <2>1, <2>2, BeginKeeps
<1>4. ASSUME NEW l \in Ids, PlanAsk(s, l)
      PROVE  Keeps
  <2> DEFINE plan == [Idle EXCEPT !.op = "ask", !.lics = {l},
                                  !.prod = lic[l].prod]
  <2>1. plan \in Plan /\ Sound(plan)
    BY <1>0 DEF Plan, Ops, Sound, Idle
  <2>2. Begin(s, plan)
    BY <1>4 DEF PlanAsk
  <2> HIDE DEF plan
  <2> QED
    BY <2>1, <2>2, BeginKeeps
<1>5. ASSUME NEW l \in Ids, PlanApprove(s, l)
      PROVE  Keeps
  <2> DEFINE plan == [Idle EXCEPT !.op = "approve", !.lics = {l},
                                  !.prod = asks[l], !.mark = asked[l]]
  <2>1. Begin(s, plan) /\ asks[l] # NoProd
    BY <1>5 DEF PlanApprove
  <2>2. plan \in Plan /\ Sound(plan)
    BY <1>0, <2>1 DEF Plan, Ops, Sound, Idle
  <2> HIDE DEF plan
  <2> QED
    BY <2>1, <2>2, BeginKeeps
<1>6. ASSUME NEW l \in Ids, PlanDecline(s, l)
      PROVE  Keeps
  <2> DEFINE plan == [Idle EXCEPT !.op = "decline", !.lics = {l},
                                  !.mark = asked[l]]
  <2>1. plan \in Plan /\ Sound(plan)
    BY <1>0 DEF Plan, Ops, Sound, Idle
  <2>2. Begin(s, plan)
    BY <1>6 DEF PlanDecline
  <2> HIDE DEF plan
  <2> QED
    BY <2>1, <2>2, BeginKeeps
<1>7. ASSUME NEW l \in Ids, NEW e \in Time, PlanExtend(s, l, e)
      PROVE  Keeps
  <2> DEFINE seen == Seen({l})
             plan == [Idle EXCEPT !.op = "extend", !.lics = {l}, !.end = e,
                                  !.seen = seen]
  <2>1. Begin(s, plan) /\ (lic[l].ends # NoEnd => e > lic[l].ends)
    BY <1>7 DEF PlanExtend, ExtendFloor
  <2>2. seen \in Table /\ seen[l] = lic[l]
    BY <1>0, SeenTable DEF Seen
  <2> HIDE DEF seen
  <2>3. plan \in Plan /\ Sound(plan)
    BY <2>1, <2>2 DEF Plan, Ops, Sound, Idle
  <2> HIDE DEF plan
  <2> QED
    BY <2>1, <2>3, BeginKeeps
<1>8. ASSUME NEW l \in Ids, PlanRevoke(s, l)
      PROVE  Keeps
  <2> DEFINE last == LastOf({l})
             plan == [Idle EXCEPT !.op = "revoke", !.lics = {l}, !.last = last,
                                  !.prod = lic[l].prod]
  <2>1. Begin(s, plan)
    BY <1>8 DEF PlanRevoke
  <2>2. last \in BOOLEAN
    BY DEF LastOf
  <2> HIDE DEF last
  <2>3. plan \in Plan /\ Sound(plan)
    BY <1>0, <2>2 DEF Plan, Ops, Sound, Idle
  <2> HIDE DEF plan
  <2> QED
    BY <2>1, <2>3, BeginKeeps
<1>9. ASSUME NEW e \in Time, PlanLapse(s, e)
      PROVE  Keeps
  <2> DEFINE ending == Term(lic, e)
             last == LastOf(ending)
             seen == Seen(ending \cup Pool(lic, now))
             blocked == IF OnProduct(lic, NoProd) = {} THEN {}
                        ELSE Products \ owned
             plan == [Idle EXCEPT !.op = "lapse", !.lics = ending, !.end = e,
                        !.at = now, !.last = last, !.blocked = blocked,
                        !.seen = seen]
  <2>1. Begin(s, plan) /\ e <= now
    BY <1>9 DEF PlanLapse, Due
  <2>2. /\ last \in BOOLEAN /\ seen \in Table /\ ending \in SUBSET Ids
        /\ blocked \in SUBSET Products
    BY <1>0, SeenTable DEF LastOf, Term, Live
  <2> HIDE DEF last, seen, ending, blocked
  <2>3. plan \in Plan /\ Sound(plan)
    BY <1>0, <2>1, <2>2 DEF Plan, Ops, Sound, Idle
  <2> HIDE DEF plan
  <2> QED
    BY <2>1, <2>3, BeginKeeps
<1>10. ASSUME PlanTerminate(s)
       PROVE  Keeps
  <2> DEFINE live == Live(lic)
             seen == Seen(live)
             unbanned == (seats = "active")
             plan == [Idle EXCEPT !.op = "terminate", !.lics = live,
                        !.mark = cases, !.last = TRUE, !.flag = unbanned,
                        !.seen = seen]
  <2>1. Begin(s, plan)
    BY <1>10 DEF PlanTerminate
  <2>2. seen \in Table /\ live \in SUBSET Ids /\ unbanned \in BOOLEAN
    BY <1>0, SeenTable DEF Live
  <2> HIDE DEF seen, live, unbanned
  <2>3. plan \in Plan /\ Sound(plan)
    BY <1>0, <2>2 DEF Plan, Ops, Sound, Idle
  <2> HIDE DEF plan
  <2> QED
    BY <2>1, <2>3, BeginKeeps
<1> QED
  BY <1>1, <1>2, <1>3, <1>4, <1>5, <1>6, <1>7, <1>8, <1>9, <1>10 DEF Read

-----------------------------------------------------------------------------
(* The invariant.                                                          *)

(* A license is not granted yet, or of the back-fill.                      *)
LEMMA InitRows ==
  ASSUME Init
  PROVE  /\ lic \in Table /\ Indexed(lic)
         /\ \A l \in Ids : /\ lic[l].state \in {"absent", "live"}
                           /\ lic[l].state = "absent" => lic[l].prod = NoProd
                           /\ lic[l].reason = "none"
                           /\ lic[l].at = 0 /\ ~lic[l].release
<1>1. /\ Indexed(lic)
      /\ lic \in [Ids -> {Blank} \cup {OpenEnded(p) : p \in Products \cup {NoProd}}]
  BY DEF Init
<1>2. ASSUME NEW l \in Ids
      PROVE  \/ lic[l] = Blank
             \/ \E p \in Products \cup {NoProd} : lic[l] = OpenEnded(p)
  BY <1>1
<1>3. ASSUME NEW l \in Ids
      PROVE  /\ lic[l] \in Row
             /\ lic[l].state \in {"absent", "live"}
             /\ lic[l].state = "absent" => lic[l].prod = NoProd
             /\ lic[l].reason = "none"
             /\ lic[l].at = 0 /\ ~lic[l].release
  <2>1. CASE lic[l] = Blank
    BY <2>1, BlankRow DEF Blank
  <2>2. CASE \E p \in Products \cup {NoProd} : lic[l] = OpenEnded(p)
    BY <2>2, OpenEndedRow
  <2> QED
    BY <1>2, <2>1, <2>2
<1>4. lic \in Table
  BY <1>1, <1>3 DEF Table
<1> QED
  BY <1>1, <1>3, <1>4

LEMMA InitInv == Init => IInv
<1> SUFFICES ASSUME Init PROVE IInv
  OBVIOUS
<1>1. 0 \in Time /\ 0 \in 0 .. MaxAsks
  BY TableConstants, LicenseConstants DEF Time
<1>2. TypeOK
  BY <1>1, InitRows, IdlePlan DEF Init, TypeOK, Seats
<1>3. PlanSound
  BY DEF Init, PlanSound, Idle
<1>4. FlagHasProduct
  BY InitRows DEF FlagHasProduct, Live
<1>5. MirrorsAgree /\ TerminatedHoldsNone
  BY DEF Init, MirrorsAgree, TerminatedHoldsNone
<1> QED
  BY <1>2, <1>3, <1>4, <1>5 DEF IInv

(* A step that leaves the table and the requests alone.                    *)
LEMMA AsideKeeps ==
  ASSUME IInv, UNCHANGED <<table, requests>>, slot' = slot,
         owned' \subseteq Products, suspended' \in BOOLEAN,
         seats' \in Seats, seats' = "terminated" => seats = "terminated",
         cases' \in 0 .. MaxAsks,
         now' \in Time, now <= now'
  PROVE  Keeps
<1>1. TypeOK'
  BY DEF IInv, TypeOK, table, requests
<1>2. PlanSound'
  <2>1. ASSUME NEW s \in Slots, slot[s].end <= now
        PROVE  slot[s].end <= now'
    BY <2>1, PlanFields, TableConstants DEF Time, IInv, TypeOK
  <2> QED
    BY <2>1 DEF IInv, PlanSound, requests
<1>3. FlagHasProduct' /\ MirrorsAgree' /\ TerminatedHoldsNone'
  BY DEF IInv, FlagHasProduct, MirrorsAgree, TerminatedHoldsNone, table,
         Live, OnProduct
<1> QED
  BY <1>1, <1>2, <1>3, SameTable DEF Keeps, IInv, table

LEMMA CommitKeeps ==
  ASSUME IInv, NEW s \in Slots, Commit(s)
  PROVE  Keeps
BY GrantKeeps, AssignKeeps, FlagKeeps, AskKeeps, ApproveKeeps, DeclineKeeps,
   ExtendKeeps, RevokeKeeps, LapseKeeps, TerminateKeeps DEF Commit

LEMMA AbandonKeeps ==
  ASSUME IInv, NEW s \in Slots, Abandon(s)
  PROVE  Keeps
<1>1. Finish(s) /\ UNCHANGED <<table, owned, requests, standing, now>>
  BY DEF Abandon
<1>2. slot' \in [Slots -> Plan] /\ PlanSound'
  <2>1. /\ asked' \in [Ids -> 0 .. MaxAsks] /\ now' = now
        /\ \A l \in Ids : asked'[l] = asked[l] /\ asks'[l] \in {asks[l], NoProd}
    BY <1>1 DEF requests, IInv, TypeOK
  <2> QED
    BY <1>1, <2>1, FinishKeeps
<1>3. IInv'
  BY <1>1, <1>2
     DEF IInv, TypeOK, table, requests, standing, FlagHasProduct, MirrorsAgree,
         TerminatedHoldsNone, Live, OnProduct
<1> QED
  BY <1>1, <1>3, SameTable DEF Keeps, table

LEMMA NextKeeps == IInv /\ [Next]_vars => Keeps
<1> SUFFICES ASSUME IInv, [Next]_vars PROVE Keeps
  OBVIOUS
<1>0. /\ now \in Time /\ now <= now /\ cases \in 0 .. MaxAsks
      /\ owned \subseteq Products /\ suspended \in BOOLEAN /\ seats \in Seats
  BY TableConstants DEF IInv, TypeOK, Time
<1>1. CASE \E s \in Slots : Read(s) \/ Commit(s) \/ Abandon(s)
  BY <1>1, ReadKeeps, CommitKeeps, AbandonKeeps
<1>2. CASE Suspend
  <2>1. cases' \in 0 .. MaxAsks
    BY <1>0, <1>2, LicenseConstants DEF Suspend
  <2> QED
    BY <1>0, <1>2, <2>1, AsideKeeps DEF Suspend
<1>3. CASE Lift
  BY <1>0, <1>3, AsideKeeps DEF Lift
<1>4. CASE Reseat \/ SeatBannedProfile \/ LoseSeats
  BY <1>0, <1>4, AsideKeeps
     DEF Reseat, SeatBannedProfile, LoseSeats, MoveSeats, Seats
<1>5. CASE \E p \in Products : Disown(p)
  BY <1>0, <1>5, AsideKeeps DEF Disown, standing
<1>6. CASE Tick
  <2>1. now' \in Time /\ now <= now'
    BY <1>0, <1>6, TableConstants DEF Tick, Time
  <2> QED
    BY <1>0, <1>6, <2>1, AsideKeeps DEF Tick, standing
<1>7. CASE UNCHANGED vars
  BY <1>0, <1>7, AsideKeeps DEF vars, table, requests
<1> QED
  BY <1>1, <1>2, <1>3, <1>4, <1>5, <1>6, <1>7 DEF Next

THEOREM Invariant == Spec => []IInv
<1>1. IInv /\ [Next]_vars => IInv'
  BY NextKeeps DEF Keeps
<1> QED
  BY InitInv, <1>1, PTL DEF Spec

(* Every row, plan and mirror keeps its type.                              *)
THEOREM Typed == Spec => []TypeOK
<1>1. IInv => TypeOK
  BY DEF IInv
<1> QED
  BY <1>1, Invariant, PTL

(* However assigns, approvals, revokes and carries cross, no live license  *)
(* is on a product that shows an end date, and vendors.verified says       *)
(* whether one is live.                                                    *)
THEOREM MirrorsHold == Spec => []MirrorsAgree
<1>1. IInv => MirrorsAgree
  BY DEF IInv
<1> QED
  BY <1>1, Invariant, PTL

(* No free license keeps a release flag for the next product assigned.     *)
THEOREM FlagsHold == Spec => []FlagHasProduct
<1>1. IInv => FlagHasProduct
  BY DEF IInv
<1> QED
  BY <1>1, Invariant, PTL

(* No handler, whatever it read, changes a license that has ended.         *)
THEOREM EndedStays == Spec => EndedIsFinal
<1>1. IInv /\ [Next]_vars
        => [\A l \in Ids : lic[l].state = "ended" => lic'[l] = lic[l]]_vars
  BY NextKeeps DEF Keeps, Successor
<1> QED
  BY <1>1, Invariant, PTL DEF Spec, EndedIsFinal

-----------------------------------------------------------------------------
(* What one step may do to a live license: its term, the reason it ends    *)
(* for, the product it leaves.                                             *)

Grows(l) == lic[l].ends # NoEnd => lic'[l].ends \in lic[l].ends .. MaxTime

EndsDue(l) ==
  lic'[l].state = "ended" /\ lic'[l].reason \in {"lapsed", "released"}
    => /\ lic[l].ends <= now
       /\ lic'[l].reason = "released"
            <=> lic[l].release /\ lic[l].prod # NoProd

LeavesAsked(l) ==
  lic'[l].state = "live" /\ lic[l].prod \notin {NoProd, lic'[l].prod}
    => lic'[l].prod = NoProd /\ asks[l] = lic[l].prod /\ asks'[l] = NoProd

Steady(l) == Grows(l) /\ EndsDue(l) /\ LeavesAsked(l)

LEMMA EndsInt ==
  ASSUME IInv, NEW l \in Ids
  PROVE  /\ lic[l].ends \in Int
         /\ lic[l].ends # NoEnd => lic[l].ends <= MaxTime
BY TableConstants DEF IInv, TypeOK, Table, Row, Time, Ends, NoEnd

(* A row that keeps its state, its term and its product.                   *)
LEMMA SameRow ==
  ASSUME IInv, NEW l \in Live(lic), lic'[l].state = lic[l].state,
         lic'[l].ends = lic[l].ends,
         lic[l].prod = NoProd \/ lic'[l].prod = lic[l].prod
  PROVE  Steady(l)
BY EndsInt DEF Live, Steady, Grows, EndsDue, LeavesAsked

(* An end that is not the daily job's.                                     *)
LEMMA OtherEnd ==
  ASSUME IInv, NEW S \in SUBSET Ids, NEW why \in {"revoked", "banned"},
         lic' = Ended(lic, S, why), NEW l \in Live(lic)
  PROVE  Steady(l)
<1>1. /\ l \in Ids /\ lic \in Table /\ why \in Reasons
      /\ why \notin {"lapsed", "released"}
  BY DEF Live, IInv, TypeOK, Reasons
<1>2. /\ lic'[l].state = IF l \in S THEN "ended" ELSE lic[l].state
      /\ lic'[l].reason = IF l \in S THEN why ELSE lic[l].reason
      /\ lic'[l].ends = lic[l].ends
      /\ lic'[l].prod = lic[l].prod
  BY <1>1, EndedRows
<1>3. CASE l \in S
  BY <1>1, <1>2, <1>3, EndsInt DEF Steady, Grows, EndsDue, LeavesAsked
<1>4. CASE l \notin S
  BY <1>2, <1>4, SameRow
<1> QED
  BY <1>3, <1>4

LEMMA GrantSteady ==
  ASSUME IInv, NEW s \in Slots, CommitGrant(s), NEW l \in Live(lic)
  PROVE  Steady(l)
<1>1. /\ lic' = Granted(lic, slot[s].lics, slot[s].end)
      /\ l \in Ids /\ l \notin slot[s].lics
  BY DEF CommitGrant, Reconcile, Live
<1>2. lic'[l] = lic[l]
  BY <1>1, GrantedRows, PlanFields
<1> QED
  BY <1>2, SameRow

LEMMA AssignSteady ==
  ASSUME IInv, NEW s \in Slots, NEW k \in Ids, CommitAssign(s, k),
         NEW l \in Live(lic)
  PROVE  Steady(l)
<1>1. /\ lic' = Assigned(lic, k, slot[s].prod, slot[s].at)
      /\ lic[k].prod = NoProd /\ l \in Ids
  BY DEF CommitAssign, Reconcile, Live
<1>2. /\ lic'[l].state = lic[l].state /\ lic'[l].ends = lic[l].ends
      /\ lic[l].prod = NoProd \/ lic'[l].prod = lic[l].prod
  <2>1. /\ lic \in Table /\ slot[s].prod \in Products \cup {NoProd}
        /\ slot[s].at \in Time
    BY PlanFields
  <2>2. CASE l = k
    BY <1>1, <2>1, <2>2, AssignedRows
  <2>3. CASE l # k
    BY <1>1, <2>1, <2>3, AssignedRows
  <2> QED
    BY <2>2, <2>3
<1> QED
  BY <1>2, SameRow

LEMMA FlagSteady ==
  ASSUME IInv, NEW s \in Slots, NEW k \in Ids, CommitFlag(s, k),
         NEW l \in Live(lic)
  PROVE  Steady(l)
<1>1. lic' = Flagged(lic, k, slot[s].flag) /\ l \in Ids
  BY DEF CommitFlag, Reconcile, Live
<1>2. /\ lic'[l].state = lic[l].state /\ lic'[l].ends = lic[l].ends
      /\ lic'[l].prod = lic[l].prod
  BY <1>1, FlaggedRows, PlanFields
<1> QED
  BY <1>2, SameRow

(* The product it leaves is the open request's.                            *)
LEMMA ApproveSteady ==
  ASSUME IInv, NEW s \in Slots, NEW k \in Ids, CommitApprove(s, k),
         NEW l \in Live(lic)
  PROVE  Steady(l)
<1>1. /\ lic' = Unassigned(lic, k) /\ lic[k].prod = slot[s].prod
      /\ Decided(slot[s], k) /\ slot[s].op = "approve" /\ l \in Ids
  BY DEF CommitApprove, Reconcile, Live
<1>2. asks[k] = slot[s].prod /\ asks'[k] = NoProd
  BY <1>1 DEF Decided, IInv, PlanSound, TypeOK
<1>3. /\ lic'[l].state = lic[l].state /\ lic'[l].ends = lic[l].ends
      /\ l # k => lic'[l].prod = lic[l].prod
      /\ l = k => lic'[l].prod = NoProd
  <2>1. lic \in Table
    BY PlanFields
  <2>2. CASE l = k
    BY <1>1, <2>1, <2>2, UnassignedRows
  <2>3. CASE l # k
    BY <1>1, <2>1, <2>3, UnassignedRows
  <2> QED
    BY <2>2, <2>3
<1>4. CASE l = k
  BY <1>1, <1>2, <1>3, <1>4, EndsInt
     DEF Steady, Grows, EndsDue, LeavesAsked, Live
<1>5. CASE l # k
  BY <1>3, <1>5, SameRow
<1> QED
  BY <1>4, <1>5

(* It lengthens the term it read, and that is still the term.              *)
LEMMA ExtendSteady ==
  ASSUME IInv, NEW s \in Slots, NEW k \in Ids, CommitExtend(s, k),
         NEW l \in Live(lic)
  PROVE  Steady(l)
<1>1. /\ lic' = Extended(lic, k, slot[s].end) /\ k \in slot[s].lics
      /\ lic[k].ends = slot[s].seen[k].ends
      /\ slot[s].op = "extend" /\ l \in Ids
  BY DEF CommitExtend, Reconcile, Live, TermAsRead
<1>2. lic[k].ends # NoEnd => slot[s].end > lic[k].ends
  BY <1>1 DEF IInv, PlanSound
<1>3. /\ lic'[l].state = lic[l].state /\ lic'[l].prod = lic[l].prod
      /\ l = k => lic'[l].ends = slot[s].end
      /\ l # k => lic'[l].ends = lic[l].ends
  BY <1>1, ExtendedRows, PlanFields
<1>4. CASE l = k
  <2>1. /\ slot[s].end \in Int /\ slot[s].end <= MaxTime /\ MaxTime \in Int
        /\ lic[l].ends \in Int
    BY PlanFields, EndsInt, <1>1, TableConstants DEF Time
  <2> QED
    BY <1>2, <1>3, <1>4, <2>1 DEF Steady, Grows, EndsDue, LeavesAsked, Live
<1>5. CASE l # k
  BY <1>3, <1>5, SameRow
<1> QED
  BY <1>4, <1>5

(* The rows of the term are as read, flag included, and the term is over.  *)
LEMMA LapseSteady ==
  ASSUME IInv, NEW s \in Slots, CommitLapse(s), NEW l \in Live(lic)
  PROVE  Steady(l)
<1> DEFINE plan  == slot[s]
           moves == Carry(plan.seen, plan.end, plan.at, plan.blocked)
           term  == Term(plan.seen, plan.end)
<1>1. /\ lic' = Lapsed(lic, plan.seen, plan.end, moves)
      /\ TermUnchanged(plan) /\ SparesFree(moves)
      /\ plan.op = "lapse" /\ l \in Ids /\ lic[l].state = "live"
  BY DEF CommitLapse, Reconcile, Live
<1>2. /\ lic'[l].ends = lic[l].ends
      /\ lic'[l].state = IF l \in term THEN "ended" ELSE lic[l].state
      /\ lic'[l].reason = IF l \notin term THEN lic[l].reason
                          ELSE IF l \in Releasing(plan.seen, plan.end)
                               THEN "released" ELSE "lapsed"
      /\ \/ lic'[l].prod = lic[l].prod
         \/ \E m \in moves : m[2] = l
  BY <1>1, LapsedRows, PlanFields
<1>3. CASE l \in term
  <2>1. /\ lic[l].ends = plan.end /\ plan.end <= now
        /\ lic[l].prod = plan.seen[l].prod
        /\ lic[l].release = plan.seen[l].release
    BY <1>1, <1>3 DEF TermUnchanged, IInv, PlanSound
  <2>2. l \in Releasing(plan.seen, plan.end)
          <=> lic[l].release /\ lic[l].prod # NoProd
    BY <1>3, <2>1 DEF Releasing
  <2> QED
    BY <1>2, <1>3, <2>1, <2>2, EndsInt, <1>1
       DEF Steady, Grows, EndsDue, LeavesAsked
<1>4. CASE l \notin term
  <2>1. lic[l].prod = NoProd \/ lic'[l].prod = lic[l].prod
    BY <1>1, <1>2 DEF SparesFree
  <2> QED
    BY <1>2, <1>4, <2>1, SameRow
<1> QED
  BY <1>3, <1>4

LEMMA StepSteady ==
  ASSUME IInv, [Next]_vars, NEW l \in Live(lic)
  PROVE  Steady(l)
<1>1. ASSUME lic' = lic PROVE Steady(l)
  BY <1>1, SameRow
<1>2. ASSUME NEW s \in Slots, Read(s) PROVE lic' = lic
  BY <1>2 DEF Read, PlanGrant, PlanAssign, PlanFlag, PlanAsk, PlanApprove,
              PlanDecline, PlanExtend, PlanRevoke, PlanLapse, PlanTerminate,
              Begin, table
<1>3. ASSUME NEW s \in Slots, NEW k \in Ids,
             CommitAsk(s, k) \/ CommitDecline(s, k)
      PROVE  lic' = lic
  BY <1>3 DEF CommitAsk, CommitDecline, table
<1>4. ASSUME NEW s \in Slots, NEW k \in Ids, CommitRevoke(s, k)
      PROVE  Steady(l)
  <2>1. lic' = Ended(lic, {k}, "revoked")
    BY <1>4 DEF CommitRevoke, Reconcile
  <2> QED
    BY <2>1, OtherEnd
<1>5. ASSUME NEW s \in Slots, CommitTerminate(s) PROVE Steady(l)
  <2>1. lic' = Ended(lic, slot[s].lics, "banned") /\ slot[s].lics \in SUBSET Ids
    BY <1>5, PlanFields DEF CommitTerminate, Reconcile
  <2> QED
    BY <2>1, OtherEnd
<1>6. ASSUME NEW s \in Slots, Commit(s) PROVE Steady(l)
  BY <1>1, <1>3, <1>4, <1>5, <1>6, GrantSteady, AssignSteady, FlagSteady,
     ApproveSteady, ExtendSteady, LapseSteady DEF Commit
<1>7. ASSUME \/ \E s \in Slots : Abandon(s)
             \/ Suspend \/ Lift \/ Tick
             \/ Reseat \/ SeatBannedProfile \/ LoseSeats
             \/ \E p \in Products : Disown(p)
             \/ UNCHANGED vars
      PROVE  lic' = lic
  BY <1>7 DEF Abandon, Suspend, Lift, Reseat, SeatBannedProfile, LoseSeats,
     MoveSeats, Tick, Disown, vars, table
<1> QED
  BY <1>1, <1>2, <1>6, <1>7 DEF Next

(* Of two extends that cross, the shorter never overwrites the longer, and *)
(* nothing else shortens a term.                                           *)
THEOREM TermsGrow == Spec => TermNeverShrinks
<1>1. IInv /\ [Next]_vars
        => [\A l \in Live(lic) :
              lic[l].ends # NoEnd => lic'[l].ends \in lic[l].ends .. MaxTime]_vars
  BY StepSteady DEF Steady, Grows
<1> QED
  BY <1>1, Invariant, PTL DEF Spec, TermNeverShrinks

(* The daily job ends what is due when its batch commits, and releases     *)
(* exactly what the owner flagged, whatever crossed it.                    *)
THEOREM LapsesAreDue == Spec => LapseIsDue
<1>1. IInv /\ [Next]_vars
        => [\A l \in Live(lic) :
              lic'[l].state = "ended" /\ lic'[l].reason \in {"lapsed", "released"}
                => /\ lic[l].ends <= now
                   /\ lic'[l].reason = "released"
                        <=> lic[l].release /\ lic[l].prod # NoProd]_vars
  BY StepSteady DEF Steady, EndsDue
<1> QED
  BY <1>1, Invariant, PTL DEF Spec, LapseIsDue

(* A live license leaves its product by the approval of the open request   *)
(* that names it, and by nothing else.                                     *)
THEOREM LeavesByRequest == Spec => LeavesOnlyByRequest
<1>1. IInv /\ [Next]_vars
        => [\A l \in Live(lic) :
              lic'[l].state = "live" /\ lic[l].prod \notin {NoProd, lic'[l].prod}
                => lic'[l].prod = NoProd /\ asks[l] = lic[l].prod
                                         /\ asks'[l] = NoProd]_vars
  BY StepSteady DEF Steady, LeavesAsked
<1> QED
  BY <1>1, Invariant, PTL DEF Spec, LeavesOnlyByRequest

-----------------------------------------------------------------------------
(* Whoever ends a license knows whether it was the last.                   *)

Swept(s) ==
  /\ slot[s].op # "idle" /\ slot'[s] = Idle
  /\ slot[s].last <=> Live(lic') = {}

LEMMA FinishIdles ==
  ASSUME IInv, NEW s \in Slots, Finish(s)
  PROVE  slot'[s] = Idle
BY DEF IInv, TypeOK, Finish

LEMMA EndsSwept ==
  ASSUME IInv, NEW s \in Slots,
         \/ \E k \in Ids : CommitRevoke(s, k)
         \/ CommitLapse(s) \/ CommitTerminate(s)
  PROVE  Swept(s)
<1>1. ASSUME NEW k \in Ids, CommitRevoke(s, k) PROVE Swept(s)
  BY <1>1, FinishIdles DEF CommitRevoke, Reconcile, SweepGuard, Swept
<1>2. ASSUME CommitLapse(s) PROVE Swept(s)
  <2> DEFINE t == Lapsed(lic, slot[s].seen, slot[s].end,
                    Carry(slot[s].seen, slot[s].end, slot[s].at, slot[s].blocked))
  <2>1. /\ lic' = t /\ SweepGuard(slot[s], t) /\ Finish(s)
        /\ slot[s].op = "lapse"
    BY <1>2 DEF CommitLapse, Reconcile
  <2> HIDE DEF t
  <2> QED
    BY <2>1, FinishIdles DEF SweepGuard, Swept
<1>3. ASSUME CommitTerminate(s) PROVE Swept(s)
  <2>1. slot[s].last /\ slot[s].op = "terminate"
    BY <1>3 DEF CommitTerminate, IInv, PlanSound
  <2> QED
    BY <1>3, <2>1, FinishIdles DEF CommitTerminate, Reconcile, Swept
<1> QED
  BY <1>1, <1>2, <1>3

(* No other commit ends a license.                                         *)
LEMMA OthersEndNone ==
  ASSUME IInv, NEW s \in Slots, NEW k \in Ids,
         \/ CommitGrant(s) \/ CommitAssign(s, k) \/ CommitFlag(s, k)
         \/ CommitApprove(s, k) \/ CommitExtend(s, k)
         \/ CommitAsk(s, k) \/ CommitDecline(s, k),
         NEW l \in Live(lic)
  PROVE  lic'[l].state = "live"
<1>0. /\ l \in Ids /\ lic[l].state = "live" /\ lic \in Table
      /\ slot[s].lics \in SUBSET Ids
      /\ slot[s].prod \in Products \cup {NoProd} /\ slot[s].at \in Time
      /\ slot[s].end \in Time /\ slot[s].flag \in BOOLEAN
  BY PlanFields DEF Live
<1>1. CASE CommitGrant(s)
  <2>1. lic' = Granted(lic, slot[s].lics, slot[s].end) /\ l \notin slot[s].lics
    BY <1>0, <1>1 DEF CommitGrant, Reconcile
  <2> QED
    BY <1>0, <2>1, GrantedRows
<1>2. CASE CommitAssign(s, k)
  <2>1. lic' = Assigned(lic, k, slot[s].prod, slot[s].at)
    BY <1>2 DEF CommitAssign, Reconcile
  <2>2. CASE l = k
    BY <1>0, <2>1, <2>2, AssignedRows
  <2>3. CASE l # k
    BY <1>0, <2>1, <2>3, AssignedRows
  <2> QED
    BY <2>2, <2>3
<1>3. CASE CommitFlag(s, k)
  <2>1. lic' = Flagged(lic, k, slot[s].flag)
    BY <1>3 DEF CommitFlag, Reconcile
  <2> QED
    BY <1>0, <2>1, FlaggedRows
<1>4. CASE CommitApprove(s, k)
  <2>1. lic' = Unassigned(lic, k)
    BY <1>4 DEF CommitApprove, Reconcile
  <2>2. CASE l = k
    BY <1>0, <2>1, <2>2, UnassignedRows
  <2>3. CASE l # k
    BY <1>0, <2>1, <2>3, UnassignedRows
  <2> QED
    BY <2>2, <2>3
<1>5. CASE CommitExtend(s, k)
  <2>1. lic' = Extended(lic, k, slot[s].end)
    BY <1>5 DEF CommitExtend, Reconcile
  <2> QED
    BY <1>0, <2>1, ExtendedRows
<1>6. CASE CommitAsk(s, k) \/ CommitDecline(s, k)
  BY <1>0, <1>6 DEF CommitAsk, CommitDecline, table
<1> QED
  BY <1>1, <1>2, <1>3, <1>4, <1>5, <1>6

(* Only a revoke, a term end and a termination end a license.              *)
LEMMA Ender ==
  ASSUME IInv, [Next]_vars, NEW l \in Live(lic), lic'[l].state = "ended"
  PROVE  \E s \in Slots : \/ \E k \in Ids : CommitRevoke(s, k)
                          \/ CommitLapse(s) \/ CommitTerminate(s)
<1>1. lic' # lic
  BY DEF Live
<1>2. ASSUME NEW s \in Slots, Read(s) PROVE lic' = lic
  BY <1>2 DEF Read, PlanGrant, PlanAssign, PlanFlag, PlanAsk, PlanApprove,
              PlanDecline, PlanExtend, PlanRevoke, PlanLapse, PlanTerminate,
              Begin, table
<1>3. ASSUME \/ \E s \in Slots : Abandon(s)
             \/ Suspend \/ Lift \/ Tick
             \/ Reseat \/ SeatBannedProfile \/ LoseSeats
             \/ \E p \in Products : Disown(p)
             \/ UNCHANGED vars
      PROVE  lic' = lic
  BY <1>3 DEF Abandon, Suspend, Lift, Reseat, SeatBannedProfile, LoseSeats,
     MoveSeats, Tick, Disown, vars, table
<1>4. PICK s \in Slots : Commit(s)
  BY <1>1, <1>2, <1>3 DEF Next
<1>5. l \in Ids
  BY DEF Live
<1>6. \/ \E k \in Ids : CommitRevoke(s, k)
      \/ CommitLapse(s) \/ CommitTerminate(s)
  BY <1>4, <1>5, OthersEndNone DEF Commit
<1> QED
  BY <1>6

LEMMA EnderSwept ==
  ASSUME IInv, [Next]_vars, NEW l \in Live(lic), lic'[l].state = "ended"
  PROVE  \E s \in Slots : Swept(s)
BY Ender, EndsSwept

(* The batch that ends the last live license is one that planned to hand   *)
(* the vendor's contests over, however many ends crossed.                  *)
THEOREM LastEndSwept == Spec => LastEndSweeps
<1>1. IInv /\ [Next]_vars
        => [(\E l \in Live(lic) : lic'[l].state = "ended")
              => \E s \in Slots :
                   /\ slot[s].op # "idle" /\ slot'[s] = Idle
                   /\ slot[s].last <=> Live(lic') = {}]_vars
  BY EnderSwept DEF Swept
<1> QED
  BY <1>1, Invariant, PTL DEF Spec, LastEndSweeps
-----------------------------------------------------------------------------
(* Licenses implements Register.  A grant, an assign, an approval, the end *)
(* of a license and a termination map to the step of that name; every      *)
(* other step stutters.  What the term end needs is that Carry is one to   *)
(* one, and that a plan's term was over when it was read, so that no       *)
(* license of the term was spare.                                          *)

LapsePlanned ==
  \A s \in Slots :
    slot[s].op = "lapse" =>
      /\ slot[s].end <= slot[s].at
      /\ slot[s].lics = Term(slot[s].seen, slot[s].end)
      /\ slot[s].blocked \cap owned = {}

LEMMA GrantMaps ==
  ASSUME IInv, NEW s \in Slots, CommitGrant(s)
  PROVE  \E G \in SUBSET Ids : Rights!Grant(G)
<1>1. PICK G \in SUBSET Ids, e \in Time : G = slot[s].lics /\ e = slot[s].end
  BY PlanFields
<1>2. /\ \A l \in G : lic[l].state = "absent"
      /\ ~FullyBanned /\ seats \in Seats /\ seats' = seats
      /\ lic' = Granted(lic, G, e) /\ lic \in Table
  BY <1>1, PlanFields DEF CommitGrant, SeatLeft, Reconcile, standing,
     IInv, TypeOK
<1>3. /\ \A k \in Ids : k \notin G => lic'[k] = lic[k]
      /\ \A k \in G : lic'[k].prod = NoProd
  BY <1>2, GrantedRows
<1>4. \A k \in Ids : lic'[k].state = IF k \in G THEN "live" ELSE lic[k].state
  BY <1>2, GrantedLive
<1>5. Rights!Grant(G)
  BY <1>2, <1>3, <1>4 DEF Rights!Grant, FullyBanned, Seats
<1> QED
  BY <1>5

LEMMA AssignMaps ==
  ASSUME IInv, NEW s \in Slots, NEW l \in Ids, CommitAssign(s, l)
  PROVE  \E p \in Products : Rights!Assign(l, p)
<1>0. slot[s].prod \in Products
  BY PlanFields DEF CommitAssign, IInv, PlanSound
<1>2. PICK p \in Products : p = slot[s].prod
  BY <1>0
<1>1. /\ lic[l].state = "live" /\ lic[l].prod = NoProd
      /\ lic' = Assigned(lic, l, p, slot[s].at) /\ Indexed(lic')
      /\ seats' = seats
  BY <1>2 DEF CommitAssign, Reconcile, StillLive, standing
<1>3. /\ \A k \in Ids : k # l => lic'[k] = lic[k]
      /\ lic'[l].state = lic[l].state /\ lic'[l].prod = p
  BY <1>1, PlanFields, AssignedRows
<1>4. \A k \in Ids : lic[k].state = "live" => lic[k].prod # p
  BY <1>1, <1>2, <1>3, TableConstants DEF Indexed, Live
<1>5. Rights!Assign(l, p)
  BY <1>1, <1>3, <1>4 DEF Rights!Assign, Rights!Free, Rights!InForce
<1> QED
  BY <1>2, <1>5

LEMMA ApproveMaps ==
  ASSUME IInv, NEW s \in Slots, NEW l \in Ids, CommitApprove(s, l)
  PROVE  Rights!Release(l)
<1>1. /\ lic[l].state = "live" /\ lic' = Unassigned(lic, l) /\ seats' = seats
  BY DEF CommitApprove, Reconcile, StillLive, standing
<1>2. /\ \A k \in Ids : k # l => lic'[k] = lic[k]
      /\ lic'[l].state = lic[l].state /\ lic'[l].prod = NoProd
  BY <1>1, PlanFields, UnassignedRows
<1> QED
  BY <1>1, <1>2 DEF Rights!Release, Rights!InForce

LEMMA EndMaps ==
  ASSUME NEW S, NEW T, NEW heir \in [T -> S], Rights!End(S, heir)
  PROVE  Rights!RegisterNext
BY DEF Rights!RegisterNext, Rights!End

LEMMA RevokeMaps ==
  ASSUME IInv, NEW s \in Slots, NEW l \in Ids, CommitRevoke(s, l)
  PROVE  Rights!RegisterNext
<1> DEFINE none == [k \in {} |-> k]
<1>1. lic[l].state = "live" /\ lic' = Ended(lic, {l}, "revoked") /\ seats' = seats
  BY DEF CommitRevoke, Reconcile, StillLive, standing
<1>2. \A k \in Ids : /\ lic'[k].state = IF k \in {l} THEN "ended" ELSE lic[k].state
                     /\ lic'[k].prod = lic[k].prod
  <2>1. "revoked" \in Reasons /\ {l} \in SUBSET Ids
    BY DEF Reasons
  <2> QED
    BY <1>1, <2>1, PlanFields, EndedRows
<1>3. none \in [{} -> {l}]
  OBVIOUS
<1>4. Rights!End({l}, none)
  BY <1>1, <1>2 DEF Rights!End, Rights!InForce
<1> QED
  BY <1>3, <1>4, EndMaps

LEMMA LapseRows ==
  ASSUME IInv, NEW s \in Slots, CommitLapse(s)
  PROVE  LET plan  == slot[s]
             moves == Carry(plan.seen, plan.end, plan.at, plan.blocked)
         IN  \A k \in Ids :
               /\ lic'[k].state = IF k \in Term(plan.seen, plan.end)
                                  THEN "ended" ELSE lic[k].state
               /\ \/ /\ lic'[k].prod = lic[k].prod /\ lic'[k].at = lic[k].at
                     /\ ~ \E m \in moves : m[2] = k
                  \/ \E m \in moves : /\ m[2] = k
                                      /\ lic'[k].prod = plan.seen[m[1]].prod
                                      /\ lic'[k].at = plan.seen[m[1]].at
<1>1. PICK seen \in Table, e \in Time, at \in Time :
        seen = slot[s].seen /\ e = slot[s].end /\ at = slot[s].at
  BY PlanFields
<1> DEFINE moves == Carry(seen, e, at, slot[s].blocked)
           term  == Term(seen, e)
           u     == Lapsed(lic, seen, e, moves)
<1>2. lic' = u /\ lic \in Table
  BY <1>1, PlanFields DEF CommitLapse, Reconcile
<1>3. \A k \in Ids :
        /\ u[k].state = IF k \in term THEN "ended" ELSE lic[k].state
        /\ \/ /\ u[k].prod = lic[k].prod /\ u[k].at = lic[k].at
              /\ ~ \E m \in moves : m[2] = k
           \/ \E m \in moves :
                /\ m[2] = k
                /\ u[k].prod = seen[m[1]].prod /\ u[k].at = seen[m[1]].at
  BY <1>2, LapsedRows
<1> HIDE DEF u
<1> QED
  BY <1>1, <1>2, <1>3

(* Each spare license a product is carried to inherits from the one        *)
(* license its move comes from.                                            *)
LEMMA LapseMaps ==
  ASSUME IInv, LapsePlanned, NEW s \in Slots, CommitLapse(s)
  PROVE  Rights!RegisterNext
<1> DEFINE plan  == slot[s]
           moves == Carry(plan.seen, plan.end, plan.at, plan.blocked)
<1>1. /\ TermUnchanged(plan) /\ SparesFree(moves)
      /\ plan.op = "lapse" /\ seats' = seats
      /\ plan.seen \in Table /\ plan.end \in Time /\ plan.at \in Time
      /\ plan.end <= plan.at
  BY PlanFields DEF CommitLapse, standing, LapsePlanned
<1>0. /\ \A k \in Ids : plan.seen[k].ends \in Int
      /\ plan.end \in Int /\ plan.at \in Int
  BY <1>1, TableConstants DEF Table, Row, Time, Ends, NoEnd
<1>2. PICK S \in SUBSET Ids : S = Term(plan.seen, plan.end)
  BY DEF Term, Live
<1>3. \A l \in S : /\ lic[l].state = "live"
                   /\ lic[l].prod = plan.seen[l].prod
                   /\ plan.seen[l].ends = plan.end
  BY <1>1, <1>2 DEF TermUnchanged, StillLive, Term, Live
<1>4. \A m \in moves : /\ m[1] \in S /\ m[2] \in Ids
                       /\ lic[m[2]].state = "live" /\ lic[m[2]].prod = NoProd
                       /\ plan.seen[m[2]].ends > plan.at
  BY <1>1, <1>2, CarryPairs DEF SparesFree, StillLive, Candidates, Pool
<1>5. \A m, n \in moves : m[1] = n[1] <=> m[2] = n[2]
  BY <1>1, CarryKeepsSeniors
<1>6. \A k \in Ids :
        /\ lic'[k].state = IF k \in S THEN "ended" ELSE lic[k].state
        /\ \/ lic'[k].prod = lic[k].prod /\ ~ \E m \in moves : m[2] = k
           \/ \E m \in moves : m[2] = k /\ lic'[k].prod = plan.seen[m[1]].prod
  BY <1>2, LapseRows
<1> HIDE DEF moves, plan
<1>7. PICK T \in SUBSET Ids : T = {m[2] : m \in moves}
  BY <1>4
<1>8. PICK heir \in [T -> S] : \A m \in moves : heir[m[2]] = m[1]
  <2> DEFINE from == [k \in T |-> (CHOOSE m \in moves : m[2] = k)[1]]
  <2>1. ASSUME NEW m \in moves PROVE from[m[2]] = m[1]
    BY <1>5, <1>7
  <2>2. from \in [T -> S]
    BY <1>4, <1>7
  <2> QED
    BY <2>1, <2>2
<1>9. \A k \in T : /\ k \notin S /\ lic[k].state = "live" /\ lic[k].prod = NoProd
                   /\ \E m \in moves : m[2] = k /\ heir[k] = m[1]
  BY <1>0, <1>1, <1>3, <1>4, <1>7, <1>8
<1>10. \A k, l \in T : heir[k] = heir[l] => k = l
  BY <1>5, <1>9
<1>11. ASSUME NEW k \in Ids
       PROVE  lic'[k].prod = IF k \in T THEN lic[heir[k]].prod ELSE lic[k].prod
  <2>1. CASE k \notin T
    BY <1>6, <1>7, <2>1
  <2>2. CASE k \in T
    <3>1. PICK m \in moves : m[2] = k /\ lic'[k].prod = plan.seen[m[1]].prod
      BY <1>6, <1>7, <2>2
    <3>2. heir[k] = m[1]
      BY <1>8, <3>1
    <3>3. lic[m[1]].prod = plan.seen[m[1]].prod
      BY <1>3, <1>4
    <3> QED
      BY <2>2, <3>1, <3>2, <3>3
  <2> QED
    BY <2>1, <2>2
<1>12. Rights!End(S, heir)
  BY <1>1, <1>3, <1>6, <1>9, <1>10, <1>11
     DEF Rights!End, Rights!Free, Rights!InForce
<1> QED
  BY <1>12, EndMaps

(* A vendor with no seat has none to ban: its licenses end, and it stays   *)
(* open.                                                                   *)
LEMMA TerminateMaps ==
  ASSUME IInv, NEW s \in Slots, CommitTerminate(s)
  PROVE  Rights!RegisterNext
<1> DEFINE S == slot[s].lics
<1>1. /\ lic' = Ended(lic, S, "banned") /\ Live(lic') = {}
      /\ seats' = IF seats = "none" THEN "none" ELSE "terminated"
      /\ \A l \in S : lic[l].state = "live"
      /\ S \in SUBSET Ids
  BY PlanFields DEF CommitTerminate, Reconcile, StillLive
<1>2. \A k \in Ids : /\ lic'[k].state = IF k \in S THEN "ended" ELSE lic[k].state
                     /\ lic'[k].prod = lic[k].prod
  <2>1. "banned" \in Reasons
    BY DEF Reasons
  <2> QED
    BY <1>1, <2>1, PlanFields, EndedRows
<1>3. \A k \in Ids : lic[k].state = "live" <=> k \in S
  BY <1>1, <1>2 DEF Live
<1> DEFINE none == [k \in {} |-> k]
<1>4. none \in [{} -> S]
  OBVIOUS
<1> HIDE DEF S
<1>5. CASE seats = "none"
  <2>1. Rights!End(S, none)
    BY <1>1, <1>2, <1>3, <1>5 DEF Rights!End, Rights!InForce
  <2> QED
    BY <1>4, <2>1, EndMaps
<1>6. CASE seats # "none"
  <2>1. Rights!Close
    BY <1>1, <1>2, <1>3, <1>6 DEF Rights!Close, Rights!InForce
  <2> QED
    BY <2>1 DEF Rights!RegisterNext
<1> QED
  BY <1>5, <1>6

(* A handler's plan after a step is the plan it held, or none, or the one  *)
(* it made by reading in that step.                                        *)
LEMMA SlotStep ==
  ASSUME IInv, [Next]_vars, NEW r \in Slots
  PROVE  slot'[r] = slot[r] \/ slot'[r] = Idle \/ Read(r)
<1>1. ASSUME NEW s \in Slots, Finish(s) PROVE slot'[r] \in {slot[r], Idle}
  BY <1>1 DEF Finish, IInv, TypeOK
<1>2. ASSUME NEW s \in Slots, NEW plan, Begin(s, plan), s # r
      PROVE  slot'[r] = slot[r]
  BY <1>2 DEF Begin, IInv, TypeOK
<1>3. ASSUME NEW s \in Slots, Read(s), s # r PROVE slot'[r] = slot[r]
  BY <1>2, <1>3 DEF Read, PlanGrant, PlanAssign, PlanFlag, PlanAsk,
     PlanApprove, PlanDecline, PlanExtend, PlanRevoke, PlanLapse, PlanTerminate
<1>4. ASSUME NEW s \in Slots, Commit(s) \/ Abandon(s)
      PROVE  slot'[r] \in {slot[r], Idle}
  BY <1>1, <1>4 DEF Commit, Abandon, CommitGrant, CommitAssign, CommitFlag,
     CommitAsk, CommitApprove, CommitDecline, CommitExtend, CommitRevoke,
     CommitLapse, CommitTerminate
<1>5. ASSUME \/ Suspend \/ Lift \/ Tick
             \/ Reseat \/ SeatBannedProfile \/ LoseSeats
             \/ \E p \in Products : Disown(p)
             \/ UNCHANGED vars
      PROVE  slot' = slot
  BY <1>5 DEF Suspend, Lift, Reseat, SeatBannedProfile, LoseSeats,
     MoveSeats, Tick, Disown, vars
<1> QED
  BY <1>3, <1>4, <1>5 DEF Next

LEMMA LapseHeld ==
  ASSUME IInv, [Next]_vars, NEW r \in Slots, slot'[r].op = "lapse"
  PROVE  slot'[r] = slot[r] \/ \E e \in Time : PlanLapse(r, e)
<1>1. ASSUME NEW plan, Begin(r, plan), plan.op # "lapse" PROVE FALSE
  BY <1>1 DEF Begin, IInv, TypeOK
<1>2. ASSUME Read(r) PROVE \E e \in Time : PlanLapse(r, e)
  <2>1. ~ \E G \in SUBSET Ids, e \in Time : PlanGrant(r, G, e)
    BY <1>1 DEF PlanGrant, Idle
  <2>2. ~ \E l \in Ids, p \in Products : PlanAssign(r, l, p)
    BY <1>1 DEF PlanAssign, Idle
  <2>3. ~ \E l \in Ids, b \in BOOLEAN : PlanFlag(r, l, b)
    BY <1>1 DEF PlanFlag, Idle
  <2>4. ~ \E l \in Ids : PlanAsk(r, l) \/ PlanApprove(r, l) \/ PlanDecline(r, l)
    BY <1>1 DEF PlanAsk, PlanApprove, PlanDecline, Idle
  <2>5. ~ \E l \in Ids, e \in Time : PlanExtend(r, l, e)
    BY <1>1 DEF PlanExtend, Idle
  <2>6. ~ \E l \in Ids : PlanRevoke(r, l)
    BY <1>1 DEF PlanRevoke, Idle
  <2>7. ~PlanTerminate(r)
    BY <1>1 DEF PlanTerminate, Idle
  <2> QED
    BY <1>2, <2>1, <2>2, <2>3, <2>4, <2>5, <2>6, <2>7 DEF Read
<1> QED
  BY <1>2, SlotStep DEF Idle

LEMMA OwnedShrinks == [Next]_vars => owned' \subseteq owned
<1>1. ASSUME NEW s \in Slots, Read(s) PROVE owned' = owned
  BY <1>1 DEF Read, PlanGrant, PlanAssign, PlanFlag, PlanAsk, PlanApprove,
              PlanDecline, PlanExtend, PlanRevoke, PlanLapse, PlanTerminate,
              Begin
<1>2. ASSUME NEW s \in Slots, Commit(s) PROVE owned' = owned
  BY <1>2 DEF Commit, CommitGrant, CommitAssign, CommitFlag, CommitAsk,
     CommitApprove, CommitDecline, CommitExtend, CommitRevoke, CommitLapse,
     CommitTerminate
<1> QED
  BY <1>1, <1>2 DEF Next, Abandon, Suspend, Lift, Reseat, SeatBannedProfile, LoseSeats,
     MoveSeats, Tick, Disown, vars

(* What the job records at its read.                                       *)
LEMMA LapseRead ==
  ASSUME IInv, NEW r \in Slots, NEW e \in Time, PlanLapse(r, e)
  PROVE  /\ slot'[r].end = e /\ slot'[r].at = now /\ e <= now
         /\ slot'[r].lics = Term(lic, e)
         /\ slot'[r].seen \in Table
         /\ \A l \in Term(lic, e) : slot'[r].seen[l] = lic[l]
         /\ Term(slot'[r].seen, e) = Term(lic, e)
         /\ slot'[r].blocked \cap owned = {}
         /\ lic' = lic /\ owned' = owned
<1> DEFINE ending == Term(lic, e)
           spare  == Pool(lic, now)
           seen   == Seen(ending \cup spare)
           blocked == IF OnProduct(lic, NoProd) = {} THEN {} ELSE Products \ owned
<1>1. /\ e <= now /\ e \in Int /\ now \in Int
      /\ \A l \in Ids : lic[l].ends \in Int
      /\ lic \in Table /\ lic' = lic /\ owned' = owned
  BY TableConstants
     DEF PlanLapse, Due, Begin, table, IInv, TypeOK, Time, Ends, NoEnd, Table, Row
<1>2. \A l \in Ids : seen[l] = IF l \in ending \cup spare THEN lic[l] ELSE Blank
  BY DEF Seen
<1>3. seen \in Table
  BY <1>1, SeenTable
<1> HIDE DEF seen
<1>4. Term(seen, e) = ending
  BY <1>1, <1>2 DEF Term, Pool, Live, Blank
<1> HIDE DEF ending, spare, blocked
<1>5. /\ slot'[r].end = e /\ slot'[r].at = now /\ slot'[r].lics = ending
      /\ slot'[r].seen = seen /\ slot'[r].blocked = blocked
  BY DEF PlanLapse, Begin, Idle, IInv, TypeOK, ending, spare, seen, blocked
<1>6. \A l \in ending : seen[l] = lic[l]
  BY <1>2 DEF ending, Term, Live
<1>7. blocked \cap owned = {}
  BY DEF blocked
<1> QED
  BY <1>1, <1>3, <1>4, <1>5, <1>6, <1>7 DEF ending

LEMMA PlannedKept ==
  ASSUME IInv, LapsePlanned, [Next]_vars
  PROVE  LapsePlanned'
<1> SUFFICES ASSUME NEW r \in Slots, slot'[r].op = "lapse"
             PROVE  /\ slot'[r].end <= slot'[r].at
                    /\ slot'[r].lics = Term(slot'[r].seen, slot'[r].end)
                    /\ slot'[r].blocked \cap owned' = {}
  BY DEF LapsePlanned, Term, Live
<1>1. CASE slot'[r] = slot[r]
  BY <1>1, OwnedShrinks DEF LapsePlanned
<1>2. CASE \E e \in Time : PlanLapse(r, e)
  BY <1>2, LapseRead
<1> QED
  BY <1>1, <1>2, LapseHeld

LEMMA NextMaps ==
  ASSUME IInv, LapsePlanned, [Next]_vars
  PROVE  [Rights!RegisterNext]_(Rights!registerVars)
<1>1. ASSUME lic' = lic, seats' = seats PROVE UNCHANGED Rights!registerVars
  BY <1>1 DEF Rights!registerVars
<1>2. ASSUME NEW s \in Slots, Read(s) PROVE lic' = lic /\ seats' = seats
  BY <1>2 DEF Read, PlanGrant, PlanAssign, PlanFlag, PlanAsk, PlanApprove,
              PlanDecline, PlanExtend, PlanRevoke, PlanLapse, PlanTerminate,
              Begin, table, standing
<1>3. ASSUME NEW s \in Slots, NEW l \in Ids,
             CommitAsk(s, l) \/ CommitDecline(s, l)
      PROVE  lic' = lic /\ seats' = seats
  BY <1>3 DEF CommitAsk, CommitDecline, table, standing
<1>4. ASSUME NEW s \in Slots, NEW l \in Ids, CommitFlag(s, l)
      PROVE  UNCHANGED Rights!registerVars
  <2>1. lic' = Flagged(lic, l, slot[s].flag) /\ seats' = seats
    BY <1>4 DEF CommitFlag, Reconcile, standing
  <2>2. \A k \in Ids : lic'[k].state = lic[k].state /\ lic'[k].prod = lic[k].prod
    BY <2>1, PlanFields, FlaggedRows
  <2> QED
    BY <2>1, <2>2 DEF Rights!registerVars
<1>5. ASSUME NEW s \in Slots, NEW l \in Ids, CommitExtend(s, l)
      PROVE  UNCHANGED Rights!registerVars
  <2>1. lic' = Extended(lic, l, slot[s].end) /\ seats' = seats
    BY <1>5 DEF CommitExtend, Reconcile, standing
  <2>2. \A k \in Ids : lic'[k].state = lic[k].state /\ lic'[k].prod = lic[k].prod
    BY <2>1, PlanFields, ExtendedRows
  <2> QED
    BY <2>1, <2>2 DEF Rights!registerVars
<1>6. ASSUME NEW s \in Slots, Commit(s)
      PROVE  [Rights!RegisterNext]_(Rights!registerVars)
  <2>1. CASE CommitGrant(s)
    BY <2>1, GrantMaps DEF Rights!RegisterNext
  <2>2. CASE \E l \in Ids : CommitAssign(s, l)
    BY <2>2, AssignMaps DEF Rights!RegisterNext
  <2>3. CASE \E l \in Ids : CommitApprove(s, l)
    BY <2>3, ApproveMaps DEF Rights!RegisterNext
  <2>4. CASE \E l \in Ids : CommitRevoke(s, l)
    BY <2>4, RevokeMaps
  <2>5. CASE CommitLapse(s)
    BY <2>5, LapseMaps
  <2>6. CASE CommitTerminate(s)
    BY <2>6, TerminateMaps
  <2>7. CASE \E l \in Ids : \/ CommitAsk(s, l) \/ CommitDecline(s, l)
                            \/ CommitFlag(s, l) \/ CommitExtend(s, l)
    BY <1>1, <1>3, <1>4, <1>5, <2>7
  <2> QED
    BY <1>6, <2>1, <2>2, <2>3, <2>4, <2>5, <2>6, <2>7 DEF Commit
<1>7. ASSUME Reseat \/ SeatBannedProfile \/ LoseSeats
      PROVE  [Rights!RegisterNext]_(Rights!registerVars)
  <2>1. /\ lic' = lic
        /\ \/ seats' \in {"none", "active"}
           \/ seats \in {"none", "active"} /\ seats' = "lapsed"
    BY <1>7 DEF Reseat, SeatBannedProfile, LoseSeats, MoveSeats, table
  <2>2. CASE seats' \in {"none", "active"}
    <3>1. Rights!Reopen
      BY <2>1, <2>2 DEF Rights!Reopen
    <3> QED
      BY <3>1 DEF Rights!RegisterNext
  <2>3. CASE seats \in {"none", "active"} /\ seats' = "lapsed"
    <3>1. Rights!Bar
      BY <2>1, <2>3 DEF Rights!Bar
    <3> QED
      BY <3>1 DEF Rights!RegisterNext
  <2> QED
    BY <2>1, <2>2, <2>3
<1>8. ASSUME \/ \E s \in Slots : Abandon(s)
             \/ Suspend \/ Lift \/ Tick
             \/ \E p \in Products : Disown(p)
             \/ UNCHANGED vars
      PROVE  lic' = lic /\ seats' = seats
  BY <1>8 DEF Abandon, Suspend, Lift, Tick, Disown, vars, table, standing
<1> QED
  BY <1>1, <1>2, <1>6, <1>7, <1>8 DEF Next

LEMMA InitMaps == Init => Rights!RegisterInit /\ LapsePlanned
<1> SUFFICES ASSUME Init PROVE Rights!RegisterInit /\ LapsePlanned
  OBVIOUS
<1>1. \A l \in Ids : lic[l].prod \in Products \cup {NoProd}
  BY InitRows DEF Table, Row
<1>2. seats \in {"none", "active"}
  BY DEF Init
<1>3. Rights!RegisterInit
  BY <1>1, <1>2, InitRows
     DEF Rights!RegisterInit, Rights!InForce, Rights!Free, Indexed, Live
<1>4. LapsePlanned
  BY DEF Init, LapsePlanned, Idle
<1> QED
  BY <1>3, <1>4

LEMMA Planned == Spec => []LapsePlanned
<1>1. IInv /\ LapsePlanned /\ [Next]_vars => LapsePlanned'
  BY PlannedKept
<1> QED
  BY <1>1, InitMaps, Invariant, PTL DEF Spec

(* Whatever the handlers had read and in whatever order they commit, the   *)
(* vendor's licenses move only as Register allows.                         *)
THEOREM ImplementsRegister == Spec => KeepsRegister
<1>1. IInv /\ LapsePlanned /\ [Next]_vars
        => [Rights!RegisterNext]_(Rights!registerVars)
  BY NextMaps
<1> QED
  BY <1>1, InitMaps, Invariant, Planned, PTL
     DEF Spec, KeepsRegister, Rights!RegisterSpec

(* A grant that read a vendor before its termination, or before it lost    *)
(* its last unbanned seat, never commits after: a vendor with seats, all   *)
(* banned, gets no license, and one that a termination left so has none.   *)
THEOREM TerminationIsFinal ==
  Spec => /\ []TerminatedHoldsNone
          /\ [][FullyBanned => Live(lic') \subseteq Live(lic)]_vars
<1>1. IInv => TerminatedHoldsNone
  BY DEF IInv
<1>2. ASSUME IInv, LapsePlanned, [Next]_vars, FullyBanned
      PROVE  Live(lic') \subseteq Live(lic)
  <2>1. ~ \E G \in SUBSET Ids : Rights!Grant(G)
    BY <1>2 DEF Rights!Grant, FullyBanned
  <2>2. \A l \in Ids : lic'[l].state = "live" => lic[l].state = "live"
    BY <1>2, <2>1, NextMaps
       DEF Rights!RegisterNext, Rights!registerVars, Rights!Assign,
           Rights!Release, Rights!End, Rights!Bar, Rights!Close, Rights!Reopen
  <2> QED
    BY <2>2 DEF Live
<1>3. IInv /\ LapsePlanned /\ [Next]_vars
        => [FullyBanned => Live(lic') \subseteq Live(lic)]_vars
  BY <1>2
<1> QED
  BY <1>1, <1>3, Invariant, Planned, PTL DEF Spec
-----------------------------------------------------------------------------
(* What a step may do to one row, whoever takes it.  A license that is live*)
(* keeps its product and its seniority, unless it has none or a release    *)
(* request is approved.                                                    *)

Unended(l) ==
  /\ lic[l].state # "absent" => lic'[l].state # "absent"
  /\ lic'[l].state = "live" => \/ lic'[l].reason = "none"
                               \/ lic[l].state = "live" /\ lic'[l].reason = lic[l].reason

RowStep(l) ==
  /\ Unended(l)
  /\ lic[l].state = "live" /\ lic[l].prod # NoProd /\ lic'[l].state = "live"
       => /\ lic'[l].prod = lic[l].prod
          /\ lic'[l].at = lic[l].at

LEMMA GrantRow ==
  ASSUME IInv, NEW s \in Slots, CommitGrant(s), NEW l \in Ids
  PROVE  RowStep(l)
<1>1. PICK G \in SUBSET Ids, e \in Time : G = slot[s].lics /\ e = slot[s].end
  BY PlanFields
<1>2. lic' = Granted(lic, G, e) /\ lic \in Table /\ \A k \in G : lic[k].state = "absent"
  BY <1>1, PlanFields DEF CommitGrant, Reconcile
<1>3. /\ lic'[l].state = IF l \in G THEN "live" ELSE lic[l].state
      /\ lic'[l].reason = IF l \in G THEN "none" ELSE lic[l].reason
  BY <1>2, GrantedLive
<1>4. l \notin G => lic'[l] = lic[l]
  BY <1>2, GrantedRows
<1> QED
  BY <1>2, <1>3, <1>4 DEF RowStep, Unended

LEMMA OneRowStep ==
  ASSUME IInv, NEW s \in Slots, NEW k \in Ids,
         \/ CommitAssign(s, k) \/ CommitFlag(s, k) \/ CommitExtend(s, k),
         NEW l \in Ids
  PROVE  RowStep(l)
<1>1. CASE CommitAssign(s, k)
  <2>0. PICK p \in Products \cup {NoProd}, at \in Time :
          p = slot[s].prod /\ at = slot[s].at
    BY PlanFields
  <2>1. lic' = Assigned(lic, k, p, at) /\ lic[k].prod = NoProd /\ lic \in Table
    BY <1>1, <2>0, PlanFields DEF CommitAssign, Reconcile
  <2>2. CASE l = k
    BY <2>1, <2>2, AssignedRows DEF RowStep, Unended
  <2>3. CASE l # k
    BY <2>1, <2>3, AssignedRows DEF RowStep, Unended
  <2> QED
    BY <2>2, <2>3
<1>2. CASE CommitFlag(s, k)
  <2>1. lic' = Flagged(lic, k, slot[s].flag)
    BY <1>2 DEF CommitFlag, Reconcile
  <2> QED
    BY <2>1, PlanFields, FlaggedRows DEF RowStep, Unended
<1>3. CASE CommitExtend(s, k)
  <2>1. lic' = Extended(lic, k, slot[s].end)
    BY <1>3 DEF CommitExtend, Reconcile
  <2> QED
    BY <2>1, PlanFields, ExtendedRows DEF RowStep, Unended
<1> QED
  BY <1>1, <1>2, <1>3

LEMMA EndRow ==
  ASSUME IInv, NEW S \in SUBSET Ids, NEW why \in Reasons,
         lic' = Ended(lic, S, why), NEW l \in Ids
  PROVE  RowStep(l)
BY PlanFields, EndedRows DEF RowStep, Unended, IInv, TypeOK

LEMMA LapseRow ==
  ASSUME IInv, NEW s \in Slots, CommitLapse(s), NEW l \in Ids
  PROVE  RowStep(l)
<1>1. PICK seen \in Table, e \in Time, at \in Time :
        seen = slot[s].seen /\ e = slot[s].end /\ at = slot[s].at
  BY PlanFields
<1> DEFINE moves == Carry(seen, e, at, slot[s].blocked)
           term  == Term(seen, e)
           u     == Lapsed(lic, seen, e, moves)
<1>2. /\ lic' = u /\ lic \in Table
      /\ \A k \in term : lic[k].state = "live"
      /\ \A m \in moves : lic[m[2]].prod = NoProd
  BY <1>1, PlanFields
     DEF CommitLapse, Reconcile, TermUnchanged, SparesFree, StillLive
<1>3. /\ u[l].state = IF l \in term THEN "ended" ELSE lic[l].state
      /\ l \notin term => u[l].reason = lic[l].reason
      /\ \/ u[l].prod = lic[l].prod /\ u[l].at = lic[l].at
         \/ \E m \in moves : m[2] = l
  BY <1>2, LapsedRows
<1> HIDE DEF u, term, moves
<1> QED
  BY <1>2, <1>3 DEF RowStep, Unended

LEMMA EveryRowStep ==
  ASSUME IInv, [Next]_vars, NEW l \in Ids,
         ~ \E s \in Slots, k \in Ids : CommitApprove(s, k)
  PROVE  RowStep(l)
<1>1. ASSUME lic' = lic PROVE RowStep(l)
  BY <1>1 DEF RowStep, Unended
<1>2. ASSUME NEW s \in Slots, Read(s) PROVE lic' = lic
  BY <1>2 DEF Read, PlanGrant, PlanAssign, PlanFlag, PlanAsk, PlanApprove,
              PlanDecline, PlanExtend, PlanRevoke, PlanLapse, PlanTerminate,
              Begin, table
<1>3. ASSUME NEW s \in Slots, NEW k \in Ids, CommitAsk(s, k) \/ CommitDecline(s, k)
      PROVE  lic' = lic
  BY <1>3 DEF CommitAsk, CommitDecline, table
<1>4. ASSUME NEW s \in Slots, NEW k \in Ids, CommitRevoke(s, k) PROVE RowStep(l)
  <2>1. lic' = Ended(lic, {k}, "revoked") /\ "revoked" \in Reasons
    BY <1>4 DEF CommitRevoke, Reconcile, Reasons
  <2> QED
    BY <2>1, EndRow
<1>5. ASSUME NEW s \in Slots, CommitTerminate(s) PROVE RowStep(l)
  <2>1. /\ lic' = Ended(lic, slot[s].lics, "banned") /\ slot[s].lics \in SUBSET Ids
        /\ "banned" \in Reasons
    BY <1>5, PlanFields DEF CommitTerminate, Reconcile, Reasons
  <2> QED
    BY <2>1, EndRow
<1>6. ASSUME NEW s \in Slots, Commit(s) PROVE RowStep(l)
  BY <1>1, <1>3, <1>4, <1>5, <1>6, GrantRow, OneRowStep, LapseRow DEF Commit
<1>7. ASSUME \/ \E s \in Slots : Abandon(s)
             \/ Suspend \/ Lift \/ Tick
             \/ Reseat \/ SeatBannedProfile \/ LoseSeats
             \/ \E p \in Products : Disown(p)
             \/ UNCHANGED vars
      PROVE  lic' = lic
  BY <1>7 DEF Abandon, Suspend, Lift, Reseat, SeatBannedProfile, LoseSeats,
     MoveSeats, Tick, Disown, vars, table
<1> QED
  BY <1>1, <1>2, <1>6, <1>7 DEF Next
-----------------------------------------------------------------------------
(* The carry-over keeps the longest assigned.  At the commit every license *)
(* of the term is as it was read (TermUnchanged) and no product has two    *)
(* (Indexed), so a product that is held afterwards was carried from the    *)
(* license that had it; CarryKeepsSeniors does the rest.  What the guards  *)
(* do not compare is assigned_at: it is still the one read as long as      *)
(* nothing takes a license off its product in between (SeniorityHeld).     *)

LEMMA IndexedKept ==
  ASSUME Indexed(lic), [Rights!RegisterNext]_(Rights!registerVars)
  PROVE  Indexed(lic')
<1>1. ASSUME NEW G \in SUBSET Ids, Rights!Grant(G) PROVE Indexed(lic')
  BY <1>1 DEF Rights!Grant, Indexed, Live
<1>2. ASSUME NEW l \in Ids, NEW p \in Products, Rights!Assign(l, p)
      PROVE  Indexed(lic')
  <2>1. /\ \A k \in Ids : lic'[k].state = lic[k].state
        /\ \A k \in Ids : lic'[k].prod = IF k = l THEN p ELSE lic[k].prod
        /\ \A k \in Ids : lic[k].state = "live" => lic[k].prod # p
    BY <1>2 DEF Rights!Assign, Rights!Free, Rights!InForce
  <2> QED
    BY <2>1 DEF Indexed, Live
<1>3. ASSUME NEW l \in Ids, Rights!Release(l) PROVE Indexed(lic')
  BY <1>3 DEF Rights!Release, Rights!InForce, Indexed, Live
<1>4. ASSUME NEW S \in SUBSET Rights!InForce,
             NEW T \in SUBSET (Rights!Free \ S), NEW heir \in [T -> S],
             Rights!End(S, heir)
      PROVE  Indexed(lic')
  <2>1. /\ \A l \in Ids : lic'[l].state = IF l \in S THEN "ended" ELSE lic[l].state
        /\ \A l \in Ids : lic'[l].prod = IF l \in T THEN lic[heir[l]].prod
                                         ELSE lic[l].prod
        /\ \A l \in S : lic[l].state = "live"
        /\ \A k, l \in T : heir[k] = heir[l] => k = l
    BY <1>4 DEF Rights!End, Rights!Free, Rights!InForce
  <2>2. /\ S \subseteq Ids /\ T \subseteq Ids
        /\ \A l \in T : heir[l] \in S
    BY DEF Rights!Free, Rights!InForce
  <2> QED
    BY <2>1, <2>2 DEF Indexed, Live
<1>5. ASSUME \/ Rights!Bar \/ Rights!Close \/ Rights!Reopen
             \/ UNCHANGED Rights!registerVars
      PROVE  Indexed(lic')
  BY <1>5 DEF Rights!Bar, Rights!Close, Rights!Reopen, Rights!registerVars,
     Rights!InForce, Indexed, Live
<1> QED
  BY <1>1, <1>2, <1>3, <1>4, <1>5 DEF Rights!RegisterNext

LInv == IInv /\ LapsePlanned /\ Indexed(lic)

LEMMA LInvariant == Spec => []LInv
<1>1. Init => LInv
  <2> SUFFICES ASSUME Init PROVE LInv
    OBVIOUS
  <2>1. Indexed(lic)
    BY DEF Init, Indexed, Live, Unread, Blank
  <2> QED
    BY <2>1, InitInv, InitMaps DEF LInv
<1>2. LInv /\ [Next]_vars => LInv'
  BY NextKeeps, PlannedKept, NextMaps, IndexedKept DEF LInv, Keeps
<1> QED
  BY <1>1, <1>2, PTL DEF Spec

(* k's product and l's were the vendor's, both terms lapsed, and only k's  *)
(* product found a spare license.                                          *)
KeptOver(k, l) ==
  /\ lic'[k].reason = "lapsed" /\ lic'[l].reason = "lapsed"
  /\ {lic[k].prod, lic[l].prod} \subseteq owned
  /\ OnProduct(lic', lic[k].prod) # {}
  /\ OnProduct(lic', lic[l].prod) = {}

LEMMA LapseKeepsLongest ==
  ASSUME LInv, NEW s \in Slots, CommitLapse(s),
         NEW k \in Live(lic), NEW l \in Live(lic),
         lic[k].reason = "none", lic[l].reason = "none", KeptOver(k, l)
  PROVE  /\ slot[s].seen[k].at <= slot[s].seen[l].at
         /\ {k, l} \subseteq Term(slot[s].seen, slot[s].end)
<1>1. PICK seen \in Table, e \in Time, at \in Time :
        seen = slot[s].seen /\ e = slot[s].end /\ at = slot[s].at
  BY PlanFields DEF LInv
<1> DEFINE blocked == slot[s].blocked
           moves == Carry(seen, e, at, blocked)
           term  == Term(seen, e)
           from  == Candidates(seen, e, blocked)
           u     == Lapsed(lic, seen, e, moves)
<1>2. /\ lic' = u /\ lic \in Table
      /\ \A j \in term : /\ lic[j].state = "live"
                         /\ lic[j].prod = seen[j].prod
                         /\ lic[j].release = seen[j].release
      /\ \A m \in moves : lic[m[2]].state = "live"
      /\ blocked \cap owned = {} /\ e <= at
  BY <1>1, PlanFields
     DEF CommitLapse, Reconcile, TermUnchanged, SparesFree, StillLive, LInv,
         LapsePlanned
<1>3. \A j \in Ids :
        /\ u[j].state = IF j \in term THEN "ended" ELSE lic[j].state
        /\ u[j].reason = IF j \notin term THEN lic[j].reason
                         ELSE IF j \in Releasing(seen, e) THEN "released"
                         ELSE "lapsed"
        /\ \/ u[j].prod = lic[j].prod
           \/ \E m \in moves : m[2] = j /\ u[j].prod = seen[m[1]].prod
        /\ (\E m \in moves : m[2] = j)
             => \E m \in moves : m[2] = j /\ u[j].prod = seen[m[1]].prod
  BY <1>2, LapsedRows
<1>4. k \in Ids /\ l \in Ids /\ k \in term /\ l \in term
  BY <1>2, <1>3 DEF KeptOver, Live
<1>5. k \in from /\ l \in from
  <2>1. ASSUME NEW j \in term, u[j].reason = "lapsed", lic[j].prod \in owned
        PROVE  j \in from
    <3>1. seen[j].prod \in Products /\ seen[j].prod \notin blocked
      BY <1>2, <2>1 DEF LInv, IInv, TypeOK
    <3>2. j \notin Releasing(seen, e) /\ j \in Ids
      BY <1>3, <2>1 DEF Term, Live
    <3> QED
      BY <3>1, <3>2, TableConstants DEF Candidates, Releasing
  <2> HIDE DEF u, term, from
  <2> QED
    BY <1>2, <1>4, <2>1 DEF KeptOver
<1>6. /\ \A m, n \in moves : m[1] = n[1] <=> m[2] = n[2]
      /\ \A m \in moves : \A j \in from :
           Senior(seen, j, m[1]) => \E n \in moves : n[1] = j
  BY CarryKeepsSeniors
<1>7. \A m \in moves : /\ m[1] \in term /\ m[2] \in Ids /\ m[2] \notin term
                       /\ seen[m[1]].prod # NoProd
  <2>1. ASSUME NEW m \in moves
        PROVE  m[1] \in term /\ m[2] \in Ids /\ m[2] \notin term
               /\ seen[m[1]].prod # NoProd
    <3>1. m[1] \in from /\ m[2] \in Pool(seen, at) /\ m[2] \in Ids
      BY CarryPairs
    <3>2. /\ \A j \in Ids : seen[j].ends \in Int
          /\ e \in Int /\ at \in Int
      BY TableConstants DEF Table, Row, Time, Ends, NoEnd
    <3> QED
      BY <1>2, <3>1, <3>2 DEF Candidates, Pool, Term
  <2> QED
    BY <2>1
<1> HIDE DEF u, moves, term, from, blocked
<1>8. \A i, j \in Ids : /\ lic[i].state = "live" /\ lic[j].state = "live"
                        /\ lic[i].prod = lic[j].prod /\ lic[i].prod # NoProd
                        => i = j
  BY DEF LInv, Indexed, Live
<1>9. PICK m \in moves : m[1] = k
  <2>1. PICK j \in Ids : lic'[j].state = "live" /\ lic'[j].prod = lic[k].prod
    BY DEF KeptOver, OnProduct, Live
  <2>2. lic[k].prod # NoProd /\ lic[k].state = "live" /\ j \notin term
    BY <1>2, <1>3, <2>1, TableConstants DEF KeptOver, Live, LInv, IInv, TypeOK
  <2>3. j # k /\ lic[j].state = "live"
    BY <1>2, <1>3, <1>4, <2>1, <2>2
  <2>4. PICK m \in moves : m[2] = j /\ lic'[j].prod = seen[m[1]].prod
    BY <1>2, <1>3, <1>4, <1>8, <2>1, <2>2, <2>3
  <2>5. m[1] \in term /\ lic[m[1]].prod = lic[k].prod
    BY <1>2, <1>7, <2>1, <2>4
  <2>6. m[1] \in Ids
    BY <2>5 DEF term, Term, Live
  <2> QED
    BY <1>2, <1>4, <1>8, <2>2, <2>5, <2>6
<1>10. ~ \E n \in moves : n[1] = l
  <2> SUFFICES ASSUME NEW n \in moves, n[1] = l PROVE FALSE
    OBVIOUS
  <2>1. PICK i \in moves : i[2] = n[2] /\ lic'[n[2]].prod = seen[i[1]].prod
    BY <1>2, <1>3, <1>7
  <2>2. i[1] = l
    BY <1>6, <2>1
  <2>3. lic'[n[2]].prod = lic[l].prod /\ lic'[n[2]].state = "live" /\ n[2] \in Ids
    BY <1>2, <1>3, <1>4, <1>7, <2>1, <2>2
  <2> QED
    BY <2>3 DEF KeptOver, OnProduct, Live
<1>11. ~Senior(seen, l, k)
  BY <1>5, <1>6, <1>9, <1>10
<1>12. seen[k].at \in Int /\ seen[l].at \in Int
  BY <1>4, TableConstants DEF Table, Row, Time, Ends, NoEnd
<1> QED
  BY <1>1, <1>4, <1>11, <1>12 DEF Senior, term
LEMMA EveryUnended ==
  ASSUME IInv, [Next]_vars, NEW l \in Ids
  PROVE  Unended(l)
<1>1. ASSUME NEW s \in Slots, NEW k \in Ids, CommitApprove(s, k)
      PROVE  Unended(l)
  <2>1. lic' = Unassigned(lic, k) /\ lic \in Table
    BY <1>1, PlanFields DEF CommitApprove, Reconcile
  <2>2. CASE l = k
    BY <2>1, <2>2, UnassignedRows DEF Unended
  <2>3. CASE l # k
    BY <2>1, <2>3, UnassignedRows DEF Unended
  <2> QED
    BY <2>2, <2>3
<1>2. CASE ~ \E s \in Slots, k \in Ids : CommitApprove(s, k)
  BY <1>2, EveryRowStep DEF RowStep
<1> QED
  BY <1>1, <1>2

LiveUnended == \A l \in Live(lic) : lic[l].reason = "none"

LEMMA UnendedInv == Spec => []LiveUnended
<1>1. Init => LiveUnended
  BY InitRows DEF LiveUnended, Live
<1>2. IInv /\ LiveUnended /\ [Next]_vars => LiveUnended'
  BY EveryUnended DEF Unended, LiveUnended, Live
<1> QED
  BY <1>1, <1>2, Invariant, PTL DEF Spec

(* Of two products whose terms lapse together, the one that keeps a        *)
(* license is the one the job read as assigned longer: for every pool,     *)
(* every term and whatever commits between the job's read and its batch.   *)
THEOREM LongestAsRead ==
  Spec => [][\A s \in Slots : CommitLapse(s) =>
               \A k, l \in Live(lic) :
                 KeptOver(k, l)
                   => slot[s].seen[k].at <= slot[s].seen[l].at]_vars
<1>1. LInv /\ LiveUnended /\ [Next]_vars
        => [\A s \in Slots : CommitLapse(s) =>
              \A k, l \in Live(lic) :
                KeptOver(k, l)
                  => slot[s].seen[k].at <= slot[s].seen[l].at]_vars
  BY LapseKeepsLongest DEF LiveUnended
<1> QED
  BY <1>1, LInvariant, UnendedInv, PTL DEF Spec

(* Where nothing takes a license off its product, what the job read stands.*)
NoApproval == \A s \in Slots : slot[s].op # "approve"

SeniorityHeld ==
  \A s \in Slots : slot[s].op = "lapse" =>
    \A l \in Term(slot[s].seen, slot[s].end) :
      slot[s].seen[l].prod # NoProd =>
        /\ lic[l].state # "absent"
        /\ lic[l].state = "live" => /\ lic[l].prod = slot[s].seen[l].prod
                                    /\ lic[l].at = slot[s].seen[l].at

LEMMA NoApprovalInv ==
  ASSUME "approve" \notin Enabled
  PROVE  Spec => []NoApproval
<1>1. Init => NoApproval
  BY DEF Init, NoApproval, Idle
<1>2. ASSUME IInv, NoApproval, [Next]_vars, NEW r \in Slots
      PROVE  slot'[r].op # "approve"
  <2>1. ASSUME NEW plan, Begin(r, plan) PROVE slot'[r].op \in Enabled
    BY <1>2, <2>1 DEF Begin, IInv, TypeOK
  <2>2. ASSUME Read(r) PROVE slot'[r].op \in Enabled
    BY <2>1, <2>2 DEF Read, PlanGrant, PlanAssign, PlanFlag, PlanAsk,
       PlanApprove, PlanDecline, PlanExtend, PlanRevoke, PlanLapse, PlanTerminate
  <2> QED
    BY <1>2, <2>2, SlotStep DEF NoApproval, Idle
<1>3. IInv /\ NoApproval /\ [Next]_vars => NoApproval'
  BY <1>2 DEF NoApproval
<1> QED
  BY <1>1, <1>3, Invariant, PTL DEF Spec

LEMMA SeniorityKept ==
  ASSUME IInv, NoApproval, SeniorityHeld, [Next]_vars
  PROVE  SeniorityHeld'
<1> SUFFICES ASSUME NEW r \in Slots, slot'[r].op = "lapse",
                    NEW l \in Term(slot'[r].seen, slot'[r].end),
                    slot'[r].seen[l].prod # NoProd
             PROVE  /\ lic'[l].state # "absent"
                    /\ lic'[l].state = "live" => /\ lic'[l].prod = slot'[r].seen[l].prod
                                                 /\ lic'[l].at = slot'[r].seen[l].at
  BY DEF SeniorityHeld, Term, Live
<1>0. l \in Ids
  BY DEF Term, Live
<1>1. CASE slot'[r] = slot[r]
  <2>1. /\ lic[l].state # "absent"
        /\ lic[l].state = "live" => /\ lic[l].prod = slot'[r].seen[l].prod
                                    /\ lic[l].at = slot'[r].seen[l].at
    BY <1>1 DEF SeniorityHeld
  <2>2. RowStep(l)
    BY <1>0, EveryRowStep DEF NoApproval, CommitApprove
  <2>3. CASE lic[l].state = "live"
    BY <2>1, <2>2, <2>3 DEF RowStep, Unended
  <2>4. CASE lic[l].state # "live"
    <3>1. lic[l].state = "ended"
      BY <1>0, <2>1, <2>4 DEF IInv, TypeOK, Table, Row, States
    <3>2. lic'[l] = lic[l]
      BY <1>0, <3>1, NextKeeps DEF Keeps, Successor
    <3> QED
      BY <3>1, <3>2
  <2> QED
    BY <2>3, <2>4
<1>2. ASSUME NEW e \in Time, PlanLapse(r, e)
      PROVE  /\ lic'[l].state # "absent"
             /\ lic'[l].state = "live" => /\ lic'[l].prod = slot'[r].seen[l].prod
                                          /\ lic'[l].at = slot'[r].seen[l].at
  <2>1. l \in Term(lic, e) /\ slot'[r].seen[l] = lic[l] /\ lic' = lic
    BY <1>2, LapseRead
  <2> QED
    BY <2>1 DEF Term, Live
<1> QED
  BY <1>1, <1>2, LapseHeld

LEMMA SeniorityInv ==
  ASSUME "approve" \notin Enabled
  PROVE  Spec => [](NoApproval /\ SeniorityHeld)
<1>1. Init => SeniorityHeld
  BY DEF Init, SeniorityHeld, Idle
<1>2. IInv /\ NoApproval /\ SeniorityHeld /\ [Next]_vars => SeniorityHeld'
  BY SeniorityKept
<1> QED
  BY <1>1, <1>2, NoApprovalInv, Invariant, PTL DEF Spec

(* Only the daily job calls an end lapsed.                                 *)
LEMMA LapsedByJob ==
  ASSUME IInv, LiveUnended, [Next]_vars, NEW l \in Live(lic),
         lic'[l].reason = "lapsed"
  PROVE  \E s \in Slots : CommitLapse(s)
<1>1. l \in Ids /\ lic[l].state = "live" /\ lic[l].reason = "none"
  BY DEF Live, LiveUnended
<1>2. lic'[l].state = "ended"
  <2>1. lic' \in Table
    BY NextKeeps DEF Keeps, IInv, TypeOK
  <2> QED
    BY <1>1, <2>1, EveryUnended DEF Unended, Table, Row, States
<1>3. ASSUME NEW s \in Slots, NEW k \in Ids, CommitRevoke(s, k) PROVE FALSE
  <2>1. lic' = Ended(lic, {k}, "revoked") /\ "revoked" \in Reasons
    BY <1>3 DEF CommitRevoke, Reconcile, Reasons
  <2> QED
    BY <1>1, <2>1, PlanFields, EndedRows DEF IInv, TypeOK
<1>4. ASSUME NEW s \in Slots, CommitTerminate(s) PROVE FALSE
  <2>1. /\ lic' = Ended(lic, slot[s].lics, "banned") /\ slot[s].lics \in SUBSET Ids
        /\ "banned" \in Reasons
    BY <1>4, PlanFields DEF CommitTerminate, Reconcile, Reasons
  <2> QED
    BY <1>1, <2>1, EndedRows DEF IInv, TypeOK
<1> QED
  BY <1>2, <1>3, <1>4, Ender

(* The carry-over keeps the longest assigned, as the assignments stand     *)
(* when it commits, as long as no release request is approved: the one     *)
(* way an assigned_at moves between the job's read and its batch.          *)
THEOREM LongestAssigned ==
  ASSUME "approve" \notin Enabled
  PROVE  Spec => LongestAssignedKeep
<1>1. LInv /\ LiveUnended /\ SeniorityHeld /\ [Next]_vars
        => [\A k, l \in Live(lic) :
              (/\ lic'[k].reason = "lapsed" /\ lic'[l].reason = "lapsed"
               /\ {lic[k].prod, lic[l].prod} \subseteq owned
               /\ OnProduct(lic', lic[k].prod) # {}
               /\ OnProduct(lic', lic[l].prod) = {})
                => lic[k].at <= lic[l].at]_vars
  <2> SUFFICES ASSUME LInv, LiveUnended, SeniorityHeld, [Next]_vars,
                      NEW k \in Live(lic), NEW l \in Live(lic), KeptOver(k, l)
               PROVE  lic[k].at <= lic[l].at
    BY DEF KeptOver
  <2>1. PICK s \in Slots : CommitLapse(s)
    BY LapsedByJob DEF KeptOver, LInv
  <2>2. /\ slot[s].seen[k].at <= slot[s].seen[l].at
        /\ {k, l} \subseteq Term(slot[s].seen, slot[s].end)
    BY <2>1, LapseKeepsLongest DEF LiveUnended
  <2>3. slot[s].op = "lapse" /\ TermUnchanged(slot[s])
    BY <2>1 DEF CommitLapse
  <2>4. ASSUME NEW j \in {k, l} PROVE lic[j].at = slot[s].seen[j].at
    <3>1. lic[j].prod # NoProd /\ lic[j].state = "live"
      BY TableConstants DEF KeptOver, Live, LInv, IInv, TypeOK
    <3> QED
      BY <2>2, <2>3, <3>1 DEF SeniorityHeld, TermUnchanged
  <2> QED
    BY <2>2, <2>4
<1> QED
  BY <1>1, LInvariant, UnendedInv, SeniorityInv, PTL DEF Spec, LongestAssignedKeep
-----------------------------------------------------------------------------
(* The managed mirror.  A batch takes its lost products from the diff its  *)
(* handler planned.  A term end compares each product with the row and an  *)
(* approval names it, so what they plan to lose is what is lost; a revoke  *)
(* and a termination compare nothing.                                      *)

LEMMA MirrorMoves ==
  ASSUME NEW t, NEW lost, NEW gained, Reconcile(t, lost, gained),
         NEW p, p \in managed \cup lost, OnProduct(t, p) = {}
  PROVE  p \in managed'
BY DEF Reconcile

LEMMA SameStates ==
  ASSUME IInv, NEW s \in Slots, NEW k \in Ids,
         \/ CommitAssign(s, k) \/ CommitFlag(s, k) \/ CommitExtend(s, k)
  PROVE  \A j \in Ids : lic'[j].state = lic[j].state
<1>1. CASE CommitAssign(s, k)
  <2>0. PICK p \in Products \cup {NoProd}, at \in Time :
          p = slot[s].prod /\ at = slot[s].at
    BY PlanFields
  <2>1. lic' = Assigned(lic, k, p, at) /\ lic \in Table
    BY <1>1, <2>0, PlanFields DEF CommitAssign, Reconcile
  <2> QED
    BY <2>1, AssignedRows
<1>2. CASE CommitFlag(s, k)
  <2>1. lic' = Flagged(lic, k, slot[s].flag)
    BY <1>2 DEF CommitFlag, Reconcile
  <2> QED
    BY <2>1, PlanFields, FlaggedRows
<1>3. CASE CommitExtend(s, k)
  <2>1. lic' = Extended(lic, k, slot[s].end)
    BY <1>3 DEF CommitExtend, Reconcile
  <2> QED
    BY <2>1, PlanFields, ExtendedRows
<1> QED
  BY <1>1, <1>2, <1>3

(* The commits that end nothing and free nothing.                          *)
LEMMA PlainMirror ==
  ASSUME LInv, PlanEndMirror, NEW s \in Slots, NEW k \in Ids,
         \/ CommitGrant(s) \/ CommitAssign(s, k) \/ CommitFlag(s, k)
         \/ CommitExtend(s, k),
         [Next]_vars
  PROVE  PlanEndMirror'
<1> SUFFICES ASSUME NEW p \in Products, NEW l \in Ids,
                    lic'[l].state = "ended", lic'[l].prod = p,
                    OnProduct(lic', p) = {}
             PROVE  p \in managed'
  BY DEF PlanEndMirror
<1>1. \A j \in Live(lic) : lic'[j].state = "live"
  BY OthersEndNone DEF LInv
<1>2. lic[l].state = "ended" /\ lic'[l] = lic[l]
  <2>1. lic[l].state # "absent"
    <3>1. CASE CommitGrant(s)
      <4>1. PICK G \in SUBSET Ids, e \in Time : G = slot[s].lics /\ e = slot[s].end
        BY PlanFields DEF LInv
      <4>2. lic' = Granted(lic, G, e) /\ lic \in Table
        BY <3>1, <4>1, PlanFields DEF CommitGrant, Reconcile, LInv
      <4> QED
        BY <4>2, GrantedLive
    <3>2. CASE CommitAssign(s, k) \/ CommitFlag(s, k) \/ CommitExtend(s, k)
      BY <3>2, SameStates DEF LInv
    <3> QED
      BY <3>1, <3>2
  <2>2. lic[l].state = "ended"
    BY <1>1, <2>1 DEF Live, LInv, IInv, TypeOK, Table, Row, States
  <2> QED
    BY <2>2, NextKeeps DEF Keeps, Successor, LInv
<1>3. OnProduct(lic, p) = {}
  <2> SUFFICES ASSUME NEW j \in OnProduct(lic, p) PROVE FALSE
    OBVIOUS
  <2>1. /\ j \in Ids /\ lic[j].state = "live" /\ lic[j].prod = p /\ p # NoProd
        /\ lic'[j].state = "live"
    BY <1>1, TableConstants DEF OnProduct, Live
  <2>2. RowStep(j)
    BY <2>1, GrantRow, OneRowStep DEF LInv
  <2> QED
    BY <2>1, <2>2 DEF RowStep, OnProduct, Live
<1>4. p \in managed
  BY <1>2, <1>3 DEF PlanEndMirror
<1>5. Reconcile(lic', {}, {}) \/ Reconcile(lic', {}, {slot[s].prod})
  BY DEF CommitGrant, CommitAssign, CommitFlag, CommitExtend, Reconcile
<1> QED
  BY <1>4, <1>5, MirrorMoves

LEMMA ApproveMirror ==
  ASSUME LInv, PlanEndMirror, NEW s \in Slots, NEW k \in Ids, CommitApprove(s, k)
  PROVE  PlanEndMirror'
<1> SUFFICES ASSUME NEW p \in Products, NEW l \in Ids,
                    lic'[l].state = "ended", lic'[l].prod = p,
                    OnProduct(lic', p) = {}
             PROVE  p \in managed'
  BY DEF PlanEndMirror
<1>1. /\ lic' = Unassigned(lic, k) /\ lic \in Table
      /\ Reconcile(lic', {slot[s].prod}, {})
      /\ lic[k].state = "live" /\ lic[k].prod = slot[s].prod
  BY PlanFields DEF CommitApprove, Reconcile, StillLive, LInv
<1>2. lic'[k].state = "live" /\ \A j \in Ids : j # k => lic'[j] = lic[j]
  BY <1>1, UnassignedRows
<1>3. p \in managed \/ p = slot[s].prod
  BY <1>1, <1>2 DEF PlanEndMirror, OnProduct, Live
<1> QED
  BY <1>1, <1>3, MirrorMoves

LEMMA LapseMirror ==
  ASSUME LInv, PlanEndMirror, NEW s \in Slots, CommitLapse(s)
  PROVE  PlanEndMirror'
<1>1. PICK seen \in Table, e \in Time, at \in Time :
        seen = slot[s].seen /\ e = slot[s].end /\ at = slot[s].at
  BY PlanFields DEF LInv
<1> DEFINE moves == Carry(seen, e, at, slot[s].blocked)
           term  == Term(seen, e)
           lost  == {seen[l].prod : l \in slot[s].lics} \ {NoProd}
           gained == {seen[m[1]].prod : m \in moves}
           u     == Lapsed(lic, seen, e, moves)
<1>2. /\ lic' = u /\ lic \in Table /\ Reconcile(u, lost, gained)
      /\ slot[s].lics = term
      /\ \A j \in term : lic[j].state = "live" /\ lic[j].prod = seen[j].prod
      /\ \A m \in moves : lic[m[2]].state = "live" /\ lic[m[2]].prod = NoProd
  BY <1>1, PlanFields
     DEF CommitLapse, Reconcile, TermUnchanged, SparesFree, StillLive, LInv,
         LapsePlanned
<1>3. \A j \in Ids :
        /\ u[j].state = IF j \in term THEN "ended" ELSE lic[j].state
        /\ \/ u[j].prod = lic[j].prod
           \/ \E m \in moves : m[2] = j /\ u[j].prod = seen[m[1]].prod
  BY <1>2, LapsedRows
<1>4. \A m \in moves : m[2] \notin term
  <2>1. ASSUME NEW m \in moves PROVE m[2] \notin term
    <3>1. m[2] \in Pool(seen, at) /\ m[2] \in Ids
      BY CarryPairs
    <3>2. e <= at
      BY <1>1 DEF CommitLapse, LInv, LapsePlanned
    <3>3. /\ \A j \in Ids : seen[j].ends \in Int
          /\ e \in Int /\ at \in Int
      BY TableConstants DEF Table, Row, Time, Ends, NoEnd
    <3> HIDE DEF moves
    <3> QED
      BY <3>1, <3>2, <3>3 DEF Pool, Term
  <2> QED
    BY <2>1
<1> SUFFICES ASSUME NEW p \in Products, NEW l \in Ids,
                    lic'[l].state = "ended", lic'[l].prod = p,
                    OnProduct(lic', p) = {}
             PROVE  p \in managed'
  BY DEF PlanEndMirror
<1>5. \A j \in term : lic[j].prod = p => p \in lost
  BY <1>2, TableConstants
<1> HIDE DEF u, moves, term, gained, lost
<1>6. CASE l \in term
  BY <1>2, <1>3, <1>4, <1>5, <1>6, MirrorMoves
<1>7. CASE l \notin term
  <2>1. lic[l].state = "ended" /\ lic[l].prod = p
    BY <1>2, <1>3, <1>7
  <2>2. CASE OnProduct(lic, p) = {}
    BY <1>2, <2>1, <2>2, MirrorMoves DEF PlanEndMirror
  <2>3. ASSUME NEW j \in OnProduct(lic, p) PROVE p \in managed'
    <3>1. j \in Ids /\ lic[j].state = "live" /\ lic[j].prod = p /\ p # NoProd
      BY <2>3, TableConstants DEF OnProduct, Live
    <3>2. j \in term
      BY <1>2, <1>3, <3>1 DEF OnProduct, Live
    <3> QED
      BY <1>2, <1>5, <3>1, <3>2, MirrorMoves
  <2> QED
    BY <2>2, <2>3
<1> QED
  BY <1>6, <1>7

(* No other step leaves a product that an ended license names and no live  *)
(* one holds without its date: it is the revoke and the termination,       *)
(* guarded on ended_at alone, that do.                                     *)
THEOREM OnlyEndsLoseDate ==
  Spec => [][PlanEndMirror /\ ~PlanEndMirror'
               => \E s \in Slots : \/ CommitTerminate(s)
                                   \/ \E l \in Ids : CommitRevoke(s, l)]_vars
<1>1. ASSUME LInv, PlanEndMirror, [Next]_vars, ~PlanEndMirror'
      PROVE  \E s \in Slots : \/ CommitTerminate(s)
                              \/ \E l \in Ids : CommitRevoke(s, l)
  <2>1. ~UNCHANGED table
    BY <1>1 DEF table, PlanEndMirror, OnProduct, Live
  <2>2. ASSUME NEW s \in Slots, Read(s) PROVE UNCHANGED table
    BY <2>2 DEF Read, PlanGrant, PlanAssign, PlanFlag, PlanAsk, PlanApprove,
                PlanDecline, PlanExtend, PlanRevoke, PlanLapse, PlanTerminate,
                Begin
  <2>3. PICK s \in Slots : Commit(s)
    BY <1>1, <2>1, <2>2
       DEF Next, Abandon, Suspend, Lift, Reseat, SeatBannedProfile, LoseSeats,
     MoveSeats, Tick, Disown, vars, table
  <2>4. ~ \E k \in Ids : CommitAsk(s, k) \/ CommitDecline(s, k)
    BY <2>1 DEF CommitAsk, CommitDecline
  <2>5. PICK one \in Ids : TRUE
    BY <1>1 DEF PlanEndMirror
  <2>6. ~(CommitGrant(s) \/ \E k \in Ids : \/ CommitAssign(s, k) \/ CommitFlag(s, k)
                                           \/ CommitExtend(s, k))
    BY <1>1, <2>5, PlainMirror
  <2>7. ~(CommitLapse(s) \/ \E k \in Ids : CommitApprove(s, k))
    BY <1>1, ApproveMirror, LapseMirror
  <2> QED
    BY <2>3, <2>4, <2>6, <2>7 DEF Commit
<1>2. LInv /\ [Next]_vars
        => [PlanEndMirror /\ ~PlanEndMirror'
              => \E s \in Slots : \/ CommitTerminate(s)
                                  \/ \E l \in Ids : CommitRevoke(s, l)]_vars
  BY <1>1
<1> QED
  BY <1>2, LInvariant, PTL DEF Spec
-----------------------------------------------------------------------------
(* What nothing crosses.  DueTermEnds is that a term that is over ends some *)
(* day; what a run of the job does towards it is proved here.              *)

(* The rows of the term and the spares are as the job read them.           *)
UncrossedLapse(s) ==
  LET plan == slot[s]
  IN  /\ plan.op = "lapse"
      /\ plan.lics = Term(lic, plan.end)
      /\ plan.seen = Seen(plan.lics \cup Pool(lic, plan.at))
      /\ plan.last = LastOf(plan.lics)

(* The sentinels and the index let the batch pass.                         *)
LapseFits(s) ==
  LET plan  == slot[s]
      moves == Carry(plan.seen, plan.end, plan.at, plan.blocked)
      t     == Lapsed(lic, plan.seen, plan.end, moves)
  IN  TermUnchanged(plan) /\ SparesFree(moves) /\ Indexed(t) /\ SweepGuard(plan, t)

LEMMA PlansUncrossedLapse ==
  ASSUME IInv, NEW s \in Slots, NEW e \in Time, PlanLapse(s, e)
  PROVE  UncrossedLapse(s)'
<1> DEFINE ending == Term(lic, e)
           seen   == Seen(ending \cup Pool(lic, now))
           last   == LastOf(ending)
           blocked == IF OnProduct(lic, NoProd) = {} THEN {} ELSE Products \ owned
<1>1. lic' = lic
  BY DEF PlanLapse, Begin, table
<1>2. /\ slot'[s].op = "lapse" /\ slot'[s].end = e /\ slot'[s].at = now
      /\ slot'[s].lics = ending /\ slot'[s].seen = seen /\ slot'[s].last = last
  <2> HIDE DEF ending, seen, last, blocked
  <2>1. slot'[s] = [Idle EXCEPT !.op = "lapse", !.lics = ending, !.end = e,
                      !.at = now, !.last = last, !.blocked = blocked, !.seen = seen]
    BY DEF PlanLapse, Begin, IInv, TypeOK, ending, seen, last, blocked
  <2> QED
    BY <2>1 DEF Idle
<1> QED
  BY <1>1, <1>2 DEF UncrossedLapse, Term, Pool, Seen, LastOf, Live

(* What was read is what is, of the term and of the spares.                *)
LEMMA UncrossedRead ==
  ASSUME LInv, NEW s \in Slots, UncrossedLapse(s)
  PROVE  LET seen == slot[s].seen
             e    == slot[s].end
             at   == slot[s].at
         IN  /\ seen \in Table /\ e \in Time /\ at \in Time /\ lic \in Table
             /\ Term(seen, e) = Term(lic, e) /\ Pool(seen, at) = Pool(lic, at)
             /\ \A l \in Term(lic, e) : seen[l] = lic[l]
             /\ Term(lic, e) \cap Pool(lic, at) = {}
<1>1. PICK seen \in Table, e \in Time, at \in Time :
        seen = slot[s].seen /\ e = slot[s].end /\ at = slot[s].at
  BY PlanFields DEF LInv
<1>2. /\ e <= at /\ e \in Int /\ at \in Int /\ lic \in Table
      /\ \A l \in Ids : lic[l].ends \in Int
  BY <1>1, TableConstants
     DEF LInv, LapsePlanned, UncrossedLapse, IInv, TypeOK, Time, Ends, NoEnd, Table, Row
<1>3. \A l \in Ids : seen[l] = IF l \in Term(lic, e) \cup Pool(lic, at)
                               THEN lic[l] ELSE Blank
  BY <1>1 DEF UncrossedLapse, Seen
<1>4. Term(seen, e) = Term(lic, e) /\ Term(lic, e) \cap Pool(lic, at) = {}
  BY <1>2, <1>3 DEF Term, Pool, Live, Blank
<1>5. Pool(seen, at) = Pool(lic, at)
  BY <1>2, <1>3 DEF Term, Pool, Live, Blank
<1>6. \A l \in Term(lic, e) : seen[l] = lic[l]
  BY <1>3 DEF Term, Live
<1> QED
  BY <1>1, <1>2, <1>4, <1>5, <1>6

LEMMA UncrossedLapseFits ==
  ASSUME LInv, NEW s \in Slots, UncrossedLapse(s)
  PROVE  /\ LapseFits(s)
         /\ CommitLapse(s) => Term(lic', slot[s].end) = {}
<1>1. PICK seen \in Table, e \in Time, at \in Time :
        seen = slot[s].seen /\ e = slot[s].end /\ at = slot[s].at
  BY PlanFields DEF LInv
<1> DEFINE moves == Carry(seen, e, at, slot[s].blocked)
           term  == Term(seen, e)
           u     == Lapsed(lic, seen, e, moves)
<1>2. /\ term = Term(lic, e) /\ Pool(seen, at) = Pool(lic, at) /\ lic \in Table
      /\ \A l \in term : seen[l] = lic[l]
  BY <1>1, UncrossedRead
<1>3. \A m \in moves : /\ m[1] \in term /\ m[2] \in Pool(lic, at)
                       /\ m[1] \in Live(lic) /\ m[2] \in Live(lic)
                       /\ seen[m[1]].prod = lic[m[1]].prod
                       /\ lic[m[1]].prod \in Products
  BY <1>2, CarryPairs DEF Candidates, Pool, Term
<1>4. TermUnchanged(slot[s])
  BY <1>1, <1>2 DEF TermUnchanged, StillLive, Term, Live
<1>5. SparesFree(moves)
  BY <1>3 DEF SparesFree, StillLive, Pool, Live
<1>6. \A k \in Ids :
        /\ u[k].ends = lic[k].ends
        /\ u[k].state = IF k \in term THEN "ended" ELSE lic[k].state
        /\ \/ u[k].prod = lic[k].prod
           \/ \E m \in moves : m[2] = k /\ u[k].prod = seen[m[1]].prod
  BY <1>1, <1>2, LapsedRows
<1>7. \A m, n \in moves : m[1] = n[1] => m[2] = n[2]
  BY <1>1, CarryKeepsSeniors
<1>8. Live(u) = Live(lic) \ term
  <2> HIDE DEF u, term
  <2> QED
    BY <1>6 DEF Live
<1>9. Indexed(u)
  <2> SUFFICES ASSUME NEW k \in Live(u), NEW l \in Live(u),
                      u[k].prod = u[l].prod, u[k].prod # NoProd
               PROVE  k = l
    BY DEF Indexed
  <2>1. /\ k \in Live(lic) /\ k \notin term /\ l \in Live(lic) /\ l \notin term
        /\ k \in Ids /\ l \in Ids
    BY <1>8 DEF Live
  <2> HIDE DEF u, term, moves
  <2>2. \A i, j \in Live(lic) : lic[i].prod = lic[j].prod /\ lic[i].prod # NoProd => i = j
    BY DEF LInv, Indexed
  <2>3. CASE u[k].prod = lic[k].prod /\ u[l].prod = lic[l].prod
    BY <2>1, <2>2, <2>3
  <2>4. CASE u[k].prod = lic[k].prod /\ \E m \in moves : m[2] = l /\ u[l].prod = seen[m[1]].prod
    BY <1>3, <2>1, <2>2, <2>4
  <2>5. CASE u[l].prod = lic[l].prod /\ \E m \in moves : m[2] = k /\ u[k].prod = seen[m[1]].prod
    BY <1>3, <2>1, <2>2, <2>5
  <2>6. CASE /\ \E m \in moves : m[2] = k /\ u[k].prod = seen[m[1]].prod
             /\ \E m \in moves : m[2] = l /\ u[l].prod = seen[m[1]].prod
    <3>1. PICK m \in moves : m[2] = k /\ u[k].prod = seen[m[1]].prod
      BY <2>6
    <3>2. PICK n \in moves : n[2] = l /\ u[l].prod = seen[n[1]].prod
      BY <2>6
    <3>3. m[1] = n[1]
      <4>1. /\ m[1] \in Live(lic) /\ seen[m[1]].prod = lic[m[1]].prod
            /\ n[1] \in Live(lic) /\ seen[n[1]].prod = lic[n[1]].prod
        BY <1>3, <3>1, <3>2
      <4>2. lic[m[1]].prod = lic[n[1]].prod /\ lic[m[1]].prod # NoProd
        BY <3>1, <3>2, <4>1
      <4> QED
        BY <2>2, <4>1, <4>2
    <3> QED
      BY <1>7, <3>1, <3>2, <3>3
  <2> QED
    BY <1>6, <2>1, <2>3, <2>4, <2>5, <2>6
<1>10. SweepGuard(slot[s], u)
  <2>1. slot[s].last <=> Live(lic) \subseteq term
    BY <1>1, <1>2 DEF UncrossedLapse, LastOf
  <2> HIDE DEF u, term
  <2> QED
    BY <1>8, <2>1 DEF SweepGuard
<1>11. LapseFits(s)
  BY <1>1, <1>4, <1>5, <1>9, <1>10 DEF LapseFits
<1>12. Term(u, e) = {}
  <2> SUFFICES ASSUME NEW l \in Term(u, e) PROVE FALSE
    OBVIOUS
  <2>1. l \in Ids /\ l \in Live(lic) /\ l \notin term /\ u[l].ends = e
    BY <1>8 DEF Term, Live
  <2>2. lic[l].ends = e
    BY <1>6, <2>1
  <2> QED
    BY <1>2, <2>1, <2>2 DEF Term
<1>13. CommitLapse(s) => lic' = u
  BY <1>1 DEF CommitLapse, Reconcile
<1> QED
  BY <1>1, <1>11, <1>12, <1>13

(* One run of the job that nothing crosses is enough: what it plans from   *)
(* the rows as they are is not refused, neither by a sentinel nor, for the *)
(* products it carries over, by the index; and when it has committed no    *)
(* license is live on that term, however many were, carried over or not.   *)
THEOREM UncrossedLapses ==
  Spec => /\ [][\A s \in Slots, e \in Time : PlanLapse(s, e) => UncrossedLapse(s)']_vars
          /\ [](\A s \in Slots : UncrossedLapse(s) => LapseFits(s))
          /\ [][\A s \in Slots : UncrossedLapse(s) /\ CommitLapse(s)
                                   => Term(lic', slot[s].end) = {}]_vars
<1>1. LInv /\ [Next]_vars
        => [\A s \in Slots, e \in Time : PlanLapse(s, e) => UncrossedLapse(s)']_vars
  BY PlansUncrossedLapse DEF LInv
<1>2. LInv => \A s \in Slots : UncrossedLapse(s) => LapseFits(s)
  BY UncrossedLapseFits
<1>3. LInv /\ [Next]_vars
        => [\A s \in Slots : UncrossedLapse(s) /\ CommitLapse(s)
                               => Term(lic', slot[s].end) = {}]_vars
  BY UncrossedLapseFits
<1> QED
  BY <1>1, <1>2, <1>3, LInvariant, PTL DEF Spec
=============================================================================
