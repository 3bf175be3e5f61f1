---------------------------- MODULE AfterBanProofs ----------------------------
(***************************************************************************)
(* Proofs about what follows a ban: TerminationRefunds, for any rows and   *)
(* settlers, and BanTerm, for any requests and grants.                     *)
(*                                                                         *)
(* The argument for PaidOnce is of two halves: a key Stripe still knows    *)
(* makes no second refund, and while it knows none, whoever is about to    *)
(* create has seen that no good refund exists and none can appear.         *)
(***************************************************************************)
EXTENDS TerminationRefunds, BanTerm, TLAPS

(* A create for this row is about to go out, or is still on its way.       *)
Pending(r) == r \in late \/ \E s \in Settlers :
                              settler[s].at = "create" /\ r \in settler[s].row

(* Of a row's refunds only the newest may be good, and it is the one the   *)
(* key answers.                                                            *)
NewestOnly ==
  \A r \in Rows : /\ Good(r) \subseteq {made[r]}
                  /\ keyed[r] \in {0, made[r]}

(* Without a key, a row with a good refund has no create pending.          *)
KeylessIsQuiet ==
  \A r \in Rows : keyed[r] = 0 /\ Pending(r) => Good(r) = {}

(* A settler works on one row, and an id it holds is of a refund made.     *)
HoldsMade ==
  \A s \in Settlers :
    /\ \A q, r \in settler[s].row : q = r
    /\ settler[s].at = "create" => settler[s].id = 0
    /\ settler[s].at = "record" /\ settler[s].id # 0
         => \A r \in settler[s].row : made[r] # 0

PaidIsMade ==
  /\ \A r \in Rows : r \notin unpaid => made[r] # 0
  /\ PaidMailIsTrue

IInv == RefundTypeOK /\ NewestOnly /\ KeylessIsQuiet /\ HoldsMade /\ PaidIsMade

-----------------------------------------------------------------------------
(* At first no refund is made and none is due a mail.                      *)
LEMMA InitIInv == RefundInit => IInv
  BY RefundConstants
  DEF RefundInit, IInv, RefundTypeOK, NewestOnly, KeylessIsQuiet, HoldsMade,
      PaidIsMade, PaidMailIsTrue, Good, Pending, Idle

(* The places, rows and ids a settler may hold.                            *)
Desk == [at : {"idle", "next", "create", "record"}, todo : SUBSET Rows,
         row : SUBSET Rows, id : 0 .. MaxRefunds]

(* What Stripe does with a create, for a row that has one pending: the     *)
(* refunds keep their shape, and a key is known after.                     *)
LEMMA Takes ==
  ASSUME IInv, NEW r \in Rows, Pending(r), StripeTakes(r), sour' = sour
  PROVE  /\ made' \in [Rows -> 0 .. MaxRefunds]
         /\ keyed' \in [Rows -> 0 .. MaxRefunds]
         /\ keyed'[r] # 0 /\ made'[r] # 0
         /\ \A q \in Rows : made[q] # 0 => made'[q] # 0
         /\ \A q \in Rows \ {r} : made'[q] = made[q] /\ keyed'[q] = keyed[q]
         /\ NewestOnly'
<1> USE RefundConstants
<1>1. made \in [Rows -> 0 .. MaxRefunds] /\ keyed \in [Rows -> 0 .. MaxRefunds]
        /\ sour \in [Rows -> SUBSET (1 .. MaxRefunds)]
  BY DEF IInv, RefundTypeOK
<1>2. CASE keyed[r] # 0 /\ UNCHANGED <<made, keyed>>
  <2>1. made[r] # 0
    BY <1>1, <1>2 DEF IInv, NewestOnly
  <2> QED  BY <1>1, <1>2, <2>1 DEF IInv, NewestOnly, Good
<1>3. CASE /\ keyed[r] = 0 /\ made[r] < MaxRefunds
           /\ made'  = [made EXCEPT ![r] = @ + 1]
           /\ keyed' = [keyed EXCEPT ![r] = made[r] + 1]
  <2>1. Good(r) = {}
    BY <1>3 DEF IInv, KeylessIsQuiet
  <2>2. made[r] \in Nat /\ made'[r] = made[r] + 1 /\ keyed'[r] = made[r] + 1
        /\ made[r] + 1 \in 0 .. MaxRefunds /\ made[r] + 1 # 0
    BY <1>1, <1>3
  <2>3. \A q \in Rows \ {r} : made'[q] = made[q] /\ keyed'[q] = keyed[q]
    BY <1>1, <1>3
  <2>4. Good(r)' \subseteq {made'[r]}
    BY <2>1, <2>2 DEF Good
  <2>5. NewestOnly'
    <3> SUFFICES ASSUME NEW q \in Rows
                 PROVE  (Good(q) \subseteq {made[q]} /\ keyed[q] \in {0, made[q]})'
      BY DEF NewestOnly
    <3>1. CASE q = r  BY <3>1, <2>4, <2>2
    <3>2. CASE q # r  BY <3>2, <2>3 DEF IInv, NewestOnly, Good
    <3> QED  BY <3>1, <3>2
  <2> QED  BY <1>1, <1>3, <2>2, <2>3, <2>5
<1> QED  BY <1>2, <1>3 DEF StripeTakes

(* A step of one settler that leaves Stripe alone: what it must keep of    *)
(* its own desk.                                                           *)
LEMMA Moves ==
  ASSUME IInv, NEW s \in Settlers,
         \A t \in Settlers \ {s} : settler'[t] = settler[t],
         UNCHANGED <<made, sour, keyed>>,
         \A r \in late' : r \in late \/ Pending(r),
         \A q, r \in settler'[s].row : q = r,
         settler'[s].at = "create" =>
           /\ settler'[s].id = 0
           /\ \A r \in settler'[s].row : Good(r) = {},
         settler'[s].at = "record" /\ settler'[s].id # 0
           => \A r \in settler'[s].row : made[r] # 0
  PROVE  NewestOnly' /\ KeylessIsQuiet' /\ HoldsMade'
<1>1. NewestOnly'
  BY DEF IInv, NewestOnly, Good
<1>2. KeylessIsQuiet'
  <2> SUFFICES ASSUME NEW r \in Rows, keyed[r] = 0, Pending(r)'
               PROVE  Good(r) = {}
    BY DEF KeylessIsQuiet, Good
  <2>1. Pending(r) \/ Good(r) = {}
    BY DEF Pending
  <2> QED  BY <2>1 DEF IInv, KeylessIsQuiet
<1>3. HoldsMade'
  BY DEF IInv, HoldsMade
<1> QED  BY <1>1, <1>2, <1>3

(* Every step keeps the invariant.                                         *)
LEMMA NextIInv == IInv /\ [RefundNext]_refundVars => IInv'
<1> SUFFICES ASSUME IInv, [RefundNext]_refundVars PROVE IInv'
  OBVIOUS
<1> USE RefundConstants
<1>0. RefundTypeOK /\ settler \in [Settlers -> Desk]
  BY DEF IInv, RefundTypeOK, Desk
<1>1. CASE UNCHANGED refundVars
  BY <1>1
  DEF IInv, refundVars, stripeVars, RefundTypeOK, NewestOnly, KeylessIsQuiet,
      HoldsMade, PaidIsMade, PaidMailIsTrue, Good, Pending
<1>2. ASSUME NEW s \in Settlers, ReadUnpaid(s) PROVE IInv'
  <2>1. /\ settler' \in [Settlers -> Desk]
        /\ \A t \in Settlers \ {s} : settler'[t] = settler[t]
        /\ settler'[s].at = "next" /\ settler'[s].row = settler[s].row
    BY <1>0, <1>2 DEF ReadUnpaid, RefundTypeOK, Desk
  <2>2. \A q, r \in settler'[s].row : q = r
    BY <2>1 DEF IInv, HoldsMade
  <2>3. NewestOnly' /\ KeylessIsQuiet' /\ HoldsMade'
    BY <1>2, <2>1, <2>2, Moves DEF ReadUnpaid, stripeVars
  <2> QED  BY <1>0, <1>2, <2>1, <2>3
           DEF ReadUnpaid, stripeVars, IInv, PaidIsMade, PaidMailIsTrue,
               RefundTypeOK, Desk
<1>3. ASSUME NEW s \in Settlers, NEW r \in Rows, LookUpFails(s, r) PROVE IInv'
  <2>1. /\ settler' \in [Settlers -> Desk]
        /\ \A t \in Settlers \ {s} : settler'[t] = settler[t]
        /\ settler'[s].at = "record" /\ settler'[s].row = {r} /\ settler'[s].id = 0
    BY <1>0, <1>3 DEF LookUpFails, Desk
  <2>2. NewestOnly' /\ KeylessIsQuiet' /\ HoldsMade'
    BY <1>3, <2>1, Moves DEF LookUpFails, stripeVars
  <2> QED  BY <1>0, <1>3, <2>1, <2>2
           DEF LookUpFails, stripeVars, IInv, PaidIsMade, PaidMailIsTrue,
               RefundTypeOK, Desk
<1>4. ASSUME NEW s \in Settlers, NEW r \in Rows, LookUp(s, r) PROVE IInv'
  <2>0. \A place \in {"record", "create"}, g \in 0 .. MaxRefunds :
          [settler[s] EXCEPT !.at = place, !.row = {r}, !.todo = @ \ {r}, !.id = g]
            \in Desk
    BY <1>0 DEF Desk
  <2>1. /\ settler' \in [Settlers -> Desk]
        /\ \A t \in Settlers \ {s} : settler'[t] = settler[t]
        /\ settler'[s].row = {r}
        /\ \/ settler'[s].at = "record" /\ made[r] # 0
           \/ settler'[s].at = "create" /\ settler'[s].id = 0 /\ Good(r) = {}
    <3>1. CASE \E g \in Good(r) :
                 settler' = [settler EXCEPT ![s].at = "record", ![s].row = {r},
                                            ![s].todo = @ \ {r}, ![s].id = g]
      <4>1. PICK g \in Good(r) :
              settler' = [settler EXCEPT ![s].at = "record", ![s].row = {r},
                                         ![s].todo = @ \ {r}, ![s].id = g]
        BY <3>1
      <4>2. g \in 0 .. MaxRefunds /\ made[r] # 0
        BY <1>0, <4>1 DEF RefundTypeOK, Good
      <4>3. settler' \in [Settlers -> Desk]
        <5> DEFINE d == [settler[s] EXCEPT !.at = "record", !.row = {r},
                                           !.todo = @ \ {r}, !.id = g]
        <5>1. d \in Desk /\ settler' = [settler EXCEPT ![s] = d]
          BY <2>0, <4>1, <4>2
        <5> HIDE DEF d
        <5> QED  BY <1>0, <5>1
      <4>4. /\ \A t \in Settlers \ {s} : settler'[t] = settler[t]
            /\ settler'[s].row = {r} /\ settler'[s].at = "record"
        BY <1>0, <4>1 DEF Desk
      <4> QED  BY <4>2, <4>3, <4>4
    <3>2. CASE /\ Good(r) = {}
               /\ settler' = [settler EXCEPT ![s].at = "create", ![s].row = {r},
                                             ![s].todo = @ \ {r}, ![s].id = 0]
      <4>1. settler' \in [Settlers -> Desk]
        <5> DEFINE d == [settler[s] EXCEPT !.at = "create", !.row = {r},
                                           !.todo = @ \ {r}, !.id = 0]
        <5>1. d \in Desk /\ settler' = [settler EXCEPT ![s] = d]
          <6>1. 0 \in 0 .. MaxRefunds /\ "create" \in {"record", "create"}
            OBVIOUS
          <6> QED  BY <2>0, <3>2, <6>1
        <5> HIDE DEF d
        <5> QED  BY <1>0, <5>1
      <4>2. /\ \A t \in Settlers \ {s} : settler'[t] = settler[t]
            /\ settler'[s].row = {r} /\ settler'[s].at = "create"
            /\ settler'[s].id = 0
        BY <1>0, <3>2 DEF Desk
      <4> QED  BY <3>2, <4>1, <4>2
    <3> QED  BY <1>4, <3>1, <3>2 DEF LookUp
  <2>2. NewestOnly' /\ KeylessIsQuiet' /\ HoldsMade'
    BY <1>4, <2>1, Moves DEF LookUp, stripeVars
  <2> QED  BY <1>0, <1>4, <2>1, <2>2
           DEF LookUp, stripeVars, IInv, PaidIsMade, PaidMailIsTrue,
               RefundTypeOK, Desk
<1>5. ASSUME NEW s \in Settlers, Create(s) PROVE IInv'
  <2>1. PICK r \in settler[s].row :
          /\ settler[s].at = "create"
          /\ StripeTakes(r)
          /\ settler' = [settler EXCEPT ![s].at = "record", ![s].id = keyed'[r]]
          /\ UNCHANGED <<unpaid, refundId, sour, late, letters>>
    BY <1>5 DEF Create
  <2>2. r \in Rows /\ Pending(r)
    BY <1>0, <2>1 DEF Pending, Desk
  <2>3. /\ made' \in [Rows -> 0 .. MaxRefunds]
        /\ keyed' \in [Rows -> 0 .. MaxRefunds]
        /\ keyed'[r] # 0 /\ made'[r] # 0
        /\ \A q \in Rows : made[q] # 0 => made'[q] # 0
        /\ \A q \in Rows \ {r} : made'[q] = made[q] /\ keyed'[q] = keyed[q]
        /\ NewestOnly'
    BY <2>1, <2>2, Takes
  <2>4. RefundTypeOK'
    <3>1. keyed'[r] \in 0 .. MaxRefunds
      BY <2>2, <2>3
    <3>2. settler' \in [Settlers -> Desk]
      BY <1>0, <2>1, <3>1 DEF Desk
    <3> QED  BY <1>0, <2>1, <2>3, <3>2 DEF RefundTypeOK, Desk
  <2>5. KeylessIsQuiet'
    BY <1>0, <2>1, <2>2, <2>3 DEF IInv, KeylessIsQuiet, Pending, Good, Desk
  <2>6. HoldsMade'
    BY <1>0, <2>1, <2>2, <2>3 DEF IInv, HoldsMade, Desk
  <2>7. PaidIsMade'
    BY <2>1, <2>3 DEF IInv, PaidIsMade, PaidMailIsTrue
  <2> QED  BY <2>3, <2>4, <2>5, <2>6, <2>7 DEF IInv
<1>6. ASSUME NEW s \in Settlers, CreateRefused(s) PROVE IInv'
  BY <1>0, <1>6
  DEF CreateRefused, IInv, stripeVars, RefundTypeOK, NewestOnly, KeylessIsQuiet,
      HoldsMade, PaidIsMade, PaidMailIsTrue, Good, Pending, Desk
<1>7. ASSUME NEW s \in Settlers, CreateTimesOut(s) PROVE IInv'
  <2>1. /\ settler' \in [Settlers -> Desk]
        /\ \A t \in Settlers \ {s} : settler'[t] = settler[t]
        /\ settler'[s].at = "record" /\ settler'[s].row = settler[s].row
        /\ settler'[s].id = settler[s].id
    BY <1>0, <1>7 DEF CreateTimesOut, Desk
  <2>2. late' \subseteq Rows /\ \A r \in late' : r \in late \/ Pending(r)
    BY <1>0, <1>7 DEF CreateTimesOut, RefundTypeOK, Pending, Desk
  <2>3. settler'[s].id = 0 /\ \A q, r \in settler'[s].row : q = r
    BY <1>7, <2>1 DEF CreateTimesOut, IInv, HoldsMade
  <2>4. NewestOnly' /\ KeylessIsQuiet' /\ HoldsMade'
    BY <1>7, <2>1, <2>2, <2>3, Moves DEF CreateTimesOut
  <2> QED  BY <1>0, <1>7, <2>1, <2>2, <2>4
           DEF CreateTimesOut, IInv, PaidIsMade, PaidMailIsTrue, RefundTypeOK, Desk
<1>8. ASSUME NEW s \in Settlers, RecordRefund(s) PROVE IInv'
  <2>1. RefundTypeOK'
    BY <1>0, <1>8 DEF RecordRefund, stripeVars, RefundTypeOK, Desk
  <2>2. NewestOnly' /\ KeylessIsQuiet' /\ HoldsMade'
    BY <1>0, <1>8
    DEF RecordRefund, IInv, stripeVars, NewestOnly, KeylessIsQuiet, HoldsMade,
        Good, Pending, Desk
  <2>3. PaidIsMade'
    BY <1>0, <1>8
    DEF RecordRefund, IInv, stripeVars, HoldsMade, PaidIsMade, PaidMailIsTrue
  <2> QED  BY <2>1, <2>2, <2>3 DEF IInv
<1>9. ASSUME NEW s \in Settlers, MailRefund(s) PROVE IInv'
  <2>1. /\ settler' \in [Settlers -> Desk]
        /\ \A t \in Settlers \ {s} : settler'[t] = settler[t]
        /\ settler'[s].at = "idle" /\ settler'[s].row = {}
    BY <1>0, <1>9 DEF MailRefund, Idle, Desk
  <2>2. NewestOnly' /\ KeylessIsQuiet' /\ HoldsMade'
    BY <1>9, <2>1, Moves DEF MailRefund, stripeVars
  <2>3. PaidIsMade' /\ letters' \subseteq {"pending", "paid"}
    BY <1>0, <1>9
    DEF MailRefund, IInv, stripeVars, PaidIsMade, PaidMailIsTrue, RefundTypeOK
  <2> QED  BY <1>0, <1>9, <2>1, <2>2, <2>3
           DEF MailRefund, stripeVars, IInv, RefundTypeOK, Desk
<1>10. ASSUME NEW s \in Settlers, EvictSettler(s) PROVE IInv'
  <2>1. late' \subseteq Rows /\ \A r \in late' : r \in late \/ Pending(r)
    BY <1>0, <1>10 DEF EvictSettler, RefundTypeOK, Pending, Desk
  <2>2. /\ settler' \in [Settlers -> Desk]
        /\ \A t \in Settlers \ {s} : settler'[t] = settler[t]
        /\ settler'[s].at = "idle" /\ settler'[s].row = {}
    BY <1>0, <1>10 DEF EvictSettler, Idle, Desk
  <2>3. NewestOnly' /\ KeylessIsQuiet' /\ HoldsMade'
    BY <1>10, <2>1, <2>2, Moves DEF EvictSettler
  <2> QED  BY <1>0, <1>10, <2>1, <2>2, <2>3
           DEF EvictSettler, IInv, PaidIsMade, PaidMailIsTrue, RefundTypeOK, Desk
<1>11. ASSUME NEW r \in Rows, LateCreate(r) PROVE IInv'
  <2>1. CASE UNCHANGED <<made, keyed>>
    BY <1>0, <1>11, <2>1
    DEF LateCreate, IInv, RefundTypeOK, NewestOnly, KeylessIsQuiet, HoldsMade,
        PaidIsMade, PaidMailIsTrue, Good, Pending
  <2>2. CASE StripeTakes(r)
    <3>1. /\ made' \in [Rows -> 0 .. MaxRefunds]
          /\ keyed' \in [Rows -> 0 .. MaxRefunds]
          /\ keyed'[r] # 0 /\ made'[r] # 0
          /\ \A q \in Rows : made[q] # 0 => made'[q] # 0
          /\ \A q \in Rows \ {r} : made'[q] = made[q] /\ keyed'[q] = keyed[q]
          /\ NewestOnly'
      BY <1>11, <2>2, Takes DEF LateCreate, Pending
    <3>2. RefundTypeOK'
      BY <1>0, <1>11, <3>1 DEF LateCreate, RefundTypeOK
    <3>3. KeylessIsQuiet'
      BY <1>11, <3>1 DEF LateCreate, IInv, KeylessIsQuiet, Pending, Good
    <3>4. HoldsMade' /\ PaidIsMade'
      BY <1>0, <1>11, <3>1
      DEF LateCreate, IInv, HoldsMade, PaidIsMade, PaidMailIsTrue, Desk
    <3> QED  BY <3>1, <3>2, <3>3, <3>4 DEF IInv
  <2> QED  BY <1>11, <2>1, <2>2 DEF LateCreate
<1>12. ASSUME NEW r \in Rows, RefundSours(r) PROVE IInv'
  <2>1. PICK g \in Good(r) :
          /\ sour' = [sour EXCEPT ![r] = @ \cup {g}]
          /\ UNCHANGED <<unpaid, refundId, made, keyed, late, settler, letters>>
    BY <1>12 DEF RefundSours
  <2>2. g \in 1 .. MaxRefunds
    BY <1>0, <2>1 DEF RefundTypeOK, Good
  <2>3. \A q \in Rows : Good(q)' \subseteq Good(q)
    BY <1>0, <2>1 DEF RefundTypeOK, Good
  <2>4. RefundTypeOK'
    BY <1>0, <2>1, <2>2 DEF RefundTypeOK
  <2>5. NewestOnly' /\ KeylessIsQuiet' /\ HoldsMade' /\ PaidIsMade'
    BY <2>1, <2>3
    DEF IInv, NewestOnly, KeylessIsQuiet, HoldsMade, PaidIsMade,
        PaidMailIsTrue, Pending
  <2> QED  BY <2>4, <2>5 DEF IInv
<1>13. ASSUME NEW r \in Rows, KeyDropped(r) PROVE IInv'
  BY <1>0, <1>13
  DEF KeyDropped, IInv, RefundTypeOK, NewestOnly, KeylessIsQuiet, HoldsMade,
      PaidIsMade, PaidMailIsTrue, Good, Pending
<1> QED
  BY <1>1, <1>2, <1>3, <1>4, <1>5, <1>6, <1>7, <1>8, <1>9, <1>10, <1>11, <1>12,
     <1>13
  DEF RefundNext

(* The invariant holds of every behaviour.                                 *)
LEMMA AlwaysIInv == RefundSpec => []IInv
  BY InitIInv, NextIInv, PTL DEF RefundSpec

-----------------------------------------------------------------------------
(* Rows, refunds and settlers hold values the code and Stripe may give     *)
(* them.                                                                   *)
THEOREM RefundTyped == RefundSpec => []RefundTypeOK
<1>1. IInv => RefundTypeOK  BY DEF IInv
<1> QED  BY <1>1, AlwaysIInv, PTL

(* settleTerminationRefunds never pays a row twice, whatever retries cross *)
(* and whichever answers and keys are lost.                                *)
THEOREM NeverPaidTwice == RefundSpec => []PaidOnce
<1>1. IInv => PaidOnce  BY DEF IInv, NewestOnly, PaidOnce
<1> QED  BY <1>1, AlwaysIInv, PTL

(* emailAfterTermination says "paid" only when Stripe made every refund.   *)
THEOREM MailIsTrue == RefundSpec => []PaidMailIsTrue
<1>1. IInv => PaidMailIsTrue  BY DEF IInv, PaidIsMade
<1> QED  BY <1>1, AlwaysIInv, PTL

-----------------------------------------------------------------------------
(* BanTerm.  GrantedOnce is inductive with the types: an id is in the      *)
(* table for good, and a batch that would insert it again aborts.          *)
Reasons == {"none", "banned", "revoked", "lapsed"}

LicenseRow == [grant : Grants \cup {NoGrant}, from : Nat, assigned : BOOLEAN,
               created : Nat, ended : Nat, reason : Reasons]

CallState == [at : {"idle", "commit"}, grant : Grants \cup {NoGrant},
              from : Nat, now : Nat]

BanTypes ==
  /\ licenses \in Seq(LicenseRow)
  /\ call \in [Calls -> CallState]
  /\ writes \in Nat

(* No step but Commit puts a grant's id in the table.                      *)
SameGrants ==
  /\ DOMAIN licenses' = DOMAIN licenses
  /\ \A i \in DOMAIN licenses : licenses'[i].grant = licenses[i].grant

BanIInv == BanTypes /\ GrantedOnce

LEMMA NewWrite ==
  ASSUME BanTypes, Written
  PROVE  writes' \in Nat
  BY DEF BanTypes, Written

LEMMA RowsTyped ==
  ASSUME NEW g \in Grants \cup {NoGrant}, NEW from \in Nat, NEW now \in Nat
  PROVE  Row(g, from, now) \in LicenseRow
  BY DEF Row, LicenseRow, Reasons

(* An ended license keeps its grant.                                       *)
LEMMA EndKeepsGrants ==
  ASSUME BanTypes, writes' \in Nat, NEW I, NEW reason \in Reasons, End(I, reason)
  PROVE  licenses' \in Seq(LicenseRow) /\ SameGrants
<1>1. \A i \in 1 .. Len(licenses) : licenses[i] \in LicenseRow
  BY DEF BanTypes
<1>2. DOMAIN licenses = 1 .. Len(licenses)
  BY DEF BanTypes
<1> DEFINE row(i) == IF i \in I
                     THEN [licenses[i] EXCEPT !.ended = writes', !.reason = reason]
                     ELSE licenses[i]
<1>3. \A i \in 1 .. Len(licenses) :
        row(i) \in LicenseRow /\ row(i).grant = licenses[i].grant
  BY <1>1 DEF LicenseRow
<1>4. licenses' = [i \in 1 .. Len(licenses) |-> row(i)]
  BY <1>2 DEF End, Ids
<1>5. Len(licenses) \in Nat
  BY DEF BanTypes
<1> HIDE DEF row
<1>6. licenses' \in Seq(LicenseRow)
  BY <1>3, <1>4, <1>5
<1>7. SameGrants
  BY <1>2, <1>3, <1>4 DEF SameGrants
<1> QED  BY <1>6, <1>7

(* A license moved on or off the product keeps its grant.                  *)
LEMMA MoveKeepsGrants ==
  ASSUME BanTypes, NEW i \in Ids, NEW b \in BOOLEAN,
         licenses' = [licenses EXCEPT ![i].assigned = b]
  PROVE  licenses' \in Seq(LicenseRow) /\ SameGrants
<1>1. licenses[i] \in LicenseRow /\ DOMAIN licenses = 1 .. Len(licenses)
  BY DEF BanTypes, Ids
<1>2. [licenses[i] EXCEPT !.assigned = b] \in LicenseRow
  BY <1>1 DEF LicenseRow
<1>3. licenses' = [licenses EXCEPT ![i] = [licenses[i] EXCEPT !.assigned = b]]
  OBVIOUS
<1>4. licenses' \in Seq(LicenseRow)
  BY <1>2, <1>3 DEF BanTypes, Ids
<1>5. [licenses[i] EXCEPT !.assigned = b].grant = licenses[i].grant
  BY <1>1 DEF LicenseRow
<1>6. SameGrants
  BY <1>1, <1>3, <1>5 DEF SameGrants
<1> QED  BY <1>4, <1>6

LEMMA SameGrantsOnce ==
  ASSUME GrantedOnce, SameGrants
  PROVE  GrantedOnce'
  BY DEF GrantedOnce, SameGrants, Ids

LEMMA AppendGrantsOnce ==
  ASSUME BanTypes, GrantedOnce, NEW r \in LicenseRow,
         r.grant = NoGrant \/ ~Stored(r.grant),
         licenses' = Append(licenses, r)
  PROVE  licenses' \in Seq(LicenseRow) /\ GrantedOnce'
<1>1. licenses' \in Seq(LicenseRow)
  BY DEF BanTypes
<1>2. /\ DOMAIN licenses = 1 .. Len(licenses)
      /\ DOMAIN licenses' = 1 .. (Len(licenses) + 1)
      /\ Len(licenses) \in Nat
      /\ licenses'[Len(licenses) + 1] = r
      /\ \A i \in 1 .. Len(licenses) : licenses'[i] = licenses[i]
  BY DEF BanTypes
<1>3. GrantedOnce'
  <2> SUFFICES ASSUME NEW i \in DOMAIN licenses', NEW j \in DOMAIN licenses',
                      licenses'[i].grant = licenses'[j].grant, i # j
               PROVE  licenses'[i].grant = NoGrant
    BY DEF GrantedOnce, Ids
  <2>1. CASE i \in DOMAIN licenses /\ j \in DOMAIN licenses
    BY <1>2, <2>1 DEF GrantedOnce, Ids
  <2>2. CASE i \in DOMAIN licenses /\ j = Len(licenses) + 1
    BY <1>2, <2>2 DEF Stored, Ids
  <2>3. CASE i = Len(licenses) + 1 /\ j \in DOMAIN licenses
    BY <1>2, <2>3 DEF Stored, Ids
  <2> QED  BY <1>2, <2>1, <2>2, <2>3
<1> QED  BY <1>1, <1>3

LEMMA BanStart == BanInit => BanIInv
<1> SUFFICES ASSUME BanInit PROVE BanIInv
  OBVIOUS
<1>1. Row(NoGrant, 0, 0) \in LicenseRow
  BY RowsTyped
<1>2. BanTypes
  BY <1>1 DEF BanInit, BanTypes, CallState, NoCall
<1>3. GrantedOnce
  BY DEF BanInit, GrantedOnce, Ids
<1> QED  BY <1>2, <1>3 DEF BanIInv

LEMMA BanStep == BanIInv /\ [BanNext]_banVars => BanIInv'
<1> SUFFICES ASSUME BanIInv, [BanNext]_banVars PROVE BanIInv'
  OBVIOUS
<1> USE DEF BanIInv
<1>1. ASSUME NEW c \in Calls, NEW g \in Grants, NEW e \in Ids, Read(c, g, e)
      PROVE  BanIInv'
  <2>1. e \in Nat
    BY DEF BanTypes, Ids
  <2>2. BanTypes'
    BY <1>1, <2>1 DEF Read, BanTypes, CallState
  <2>3. GrantedOnce'
    BY <1>1 DEF Read, GrantedOnce, Ids
  <2> QED  BY <2>2, <2>3
<1>2. ASSUME NEW c \in Calls, Commit(c)
      PROVE  BanIInv'
  <2> DEFINE r == Row(call[c].grant, call[c].from, call[c].now)
  <2>1. call[c] \in CallState
    BY DEF BanTypes
  <2>2. r \in LicenseRow
    BY <2>1, RowsTyped DEF CallState
  <2>3. r.grant = call[c].grant
    BY DEF Row
  <2>4. ~Stored(r.grant) /\ licenses' = Append(licenses, r)
    BY <1>2, <2>3 DEF Commit, BatchHolds
  <2> HIDE DEF r
  <2>5. licenses' \in Seq(LicenseRow) /\ GrantedOnce'
    BY <2>2, <2>4, AppendGrantsOnce
  <2>6. call' \in [Calls -> CallState] /\ writes' \in Nat
    BY <1>2, NewWrite DEF Commit, BanTypes, CallState, NoCall
  <2> QED  BY <2>5, <2>6 DEF BanTypes
<1>3. ASSUME NEW c \in Calls, GiveUp(c)
      PROVE  BanIInv'
  BY <1>3 DEF GiveUp, BanTypes, CallState, NoCall, GrantedOnce, Ids
<1>4. CASE Terminate
  <2>1. writes' \in Nat
    BY <1>4, NewWrite DEF Terminate
  <2>2. licenses' \in Seq(LicenseRow) /\ SameGrants
    BY <1>4, <2>1, EndKeepsGrants DEF Terminate, Reasons
  <2> QED  BY <1>4, <2>1, <2>2, SameGrantsOnce DEF Terminate, BanTypes
<1>5. CASE Reinstate
  BY <1>5, NewWrite DEF Reinstate, BanTypes, GrantedOnce, Ids
<1>6. CASE EndOne
  <2>1. writes' \in Nat
    BY <1>6, NewWrite DEF EndOne
  <2>2. PICK i \in LiveOnes, reason \in {"revoked", "lapsed"} : End({i}, reason)
    BY <1>6 DEF EndOne
  <2>3. licenses' \in Seq(LicenseRow) /\ SameGrants
    BY <2>1, <2>2, EndKeepsGrants DEF Reasons
  <2> QED  BY <1>6, <2>1, <2>3, SameGrantsOnce DEF EndOne, BanTypes
<1>7. CASE Release
  <2>1. PICK i \in Ids : licenses' = [licenses EXCEPT ![i].assigned = FALSE]
    BY <1>7 DEF Release, LiveOnes
  <2>2. licenses' \in Seq(LicenseRow) /\ SameGrants
    BY <2>1, MoveKeepsGrants
  <2> QED  BY <1>7, <2>2, NewWrite, SameGrantsOnce DEF Release, BanTypes
<1>8. CASE Assign
  <2>1. PICK i \in Ids : licenses' = [licenses EXCEPT ![i].assigned = TRUE]
    BY <1>8 DEF Assign, LiveOnes
  <2>2. licenses' \in Seq(LicenseRow) /\ SameGrants
    BY <2>1, MoveKeepsGrants
  <2> QED  BY <1>8, <2>2, NewWrite, SameGrantsOnce DEF Assign, BanTypes
<1>9. CASE Replace
  <2> DEFINE r == Row(NoGrant, 0, writes')
  <2>1. writes' \in Nat
    BY <1>9, NewWrite DEF Replace
  <2>2. r \in LicenseRow /\ r.grant = NoGrant /\ licenses' = Append(licenses, r)
    BY <1>9, <2>1, RowsTyped DEF Replace, Row
  <2> HIDE DEF r
  <2>3. licenses' \in Seq(LicenseRow) /\ GrantedOnce'
    BY <2>2, AppendGrantsOnce
  <2> QED  BY <1>9, <2>1, <2>3 DEF Replace, BanTypes
<1>10. CASE UNCHANGED banVars
  BY <1>10 DEF banVars, BanTypes, GrantedOnce, Ids
<1> QED
  BY <1>1, <1>2, <1>3, <1>4, <1>5, <1>6, <1>7, <1>8, <1>9, <1>10 DEF BanNext

(* A grant id never makes two licenses, for any number of requests and     *)
(* whatever ends or moves the licenses between a read and its batch.       *)
THEOREM OneLicenseAGrant == BanSpec => []GrantedOnce
<1>1. BanIInv => GrantedOnce
  BY DEF BanIInv
<1> QED  BY <1>1, BanStart, BanStep, PTL DEF BanSpec
-----------------------------------------------------------------------------
(* When a ban's end is made good.  A request reads the ended license only  *)
(* once a seat is back, so the license it makes is created after that end, *)
(* and Restorable of a later request sees it for as long as it is on the   *)
(* product.                                                                *)
EndsByNow ==
  \A i \in Ids : /\ licenses[i].ended <= writes
                 /\ seated /\ licenses[i].reason = "banned"
                      => licenses[i].ended < writes

(* e ended by a ban, before the time at.                                   *)
BannedBefore(e, at) ==
  e \in Ids /\ licenses[e].reason = "banned" /\ licenses[e].ended < at

CallsAfterBan ==
  \A c \in Calls : call[c].at = "commit" => BannedBefore(call[c].from, call[c].now)

RestoredAfterBan ==
  \A i \in Ids : licenses[i].from # 0
    => licenses[i].from < i /\ BannedBefore(licenses[i].from, licenses[i].created)

BanOrder == BanTypes /\ EndsByNow /\ CallsAfterBan /\ RestoredAfterBan

(* What every step but Commit and Replace does to the table.               *)
Aged ==
  /\ DOMAIN licenses' = DOMAIN licenses
  /\ \A i \in DOMAIN licenses :
       /\ licenses'[i].from = licenses[i].from
       /\ licenses'[i].created = licenses[i].created
       /\ licenses[i].reason = "banned"
            => licenses'[i].reason = "banned" /\ licenses'[i].ended = licenses[i].ended

LEMMA AgedKeeps ==
  ASSUME Aged, BanOrder, UNCHANGED call
  PROVE  CallsAfterBan' /\ RestoredAfterBan'
<1>1. \A e, at : BannedBefore(e, at) => BannedBefore(e, at)'
  BY DEF BannedBefore, Aged, Ids
<1> QED
  BY <1>1 DEF Aged, BanOrder, CallsAfterBan, RestoredAfterBan, Ids

LEMMA TablesTyped ==
  ASSUME BanTypes
  PROVE  /\ DOMAIN licenses = 1 .. Len(licenses) /\ Len(licenses) \in Nat
         /\ \A i \in Ids : licenses[i] \in LicenseRow /\ i \in Nat /\ i # 0
  BY DEF BanTypes, Ids

LEMMA EndAges ==
  ASSUME BanOrder, Written, NEW I \in SUBSET LiveOnes, NEW reason \in Reasons,
         End(I, reason)
  PROVE  /\ Aged
         /\ \A i \in Ids : licenses'[i].ended <= writes'
         /\ \A i \in Ids : licenses'[i].reason = "banned"
              => reason = "banned" \/ licenses'[i].ended < writes'
<1>1. ASSUME NEW i \in Ids
      PROVE  /\ licenses'[i] = IF i \in I
                    THEN [licenses[i] EXCEPT !.ended = writes', !.reason = reason]
                    ELSE licenses[i]
             /\ licenses[i] \in LicenseRow /\ licenses[i].ended <= writes
             /\ licenses[i].ended \in Nat
  BY TablesTyped DEF End, BanOrder, EndsByNow, LicenseRow
<1>2. writes' = writes + 1 /\ writes \in Nat
  BY DEF Written, BanOrder, BanTypes
<1>3. ASSUME NEW i \in Ids
      PROVE  /\ licenses'[i].from = licenses[i].from
             /\ licenses'[i].created = licenses[i].created
             /\ licenses'[i].ended = IF i \in I THEN writes' ELSE licenses[i].ended
             /\ licenses'[i].reason = IF i \in I THEN reason ELSE licenses[i].reason
  BY <1>1 DEF LicenseRow
<1>4. \A i \in I : licenses[i].reason = "none" /\ i \in Ids
  BY DEF LiveOnes
<1>5. DOMAIN licenses' = DOMAIN licenses
  BY DEF End, Ids
<1>6. Aged
  BY <1>3, <1>4, <1>5 DEF Aged, Ids
<1>7. ASSUME NEW i \in Ids
      PROVE  /\ licenses'[i].ended <= writes'
             /\ licenses'[i].reason = "banned"
                  => reason = "banned" \/ licenses'[i].ended < writes'
  <2>1. licenses[i].ended <= writes /\ licenses[i].ended \in Nat
    BY <1>1
  <2>2. CASE i \in I
    BY <1>2, <1>3, <2>2
  <2>3. CASE i \notin I
    BY <1>2, <1>3, <2>1, <2>3
  <2> QED  BY <2>2, <2>3
<1> QED
  BY <1>6, <1>7

LEMMA MoveAges ==
  ASSUME BanOrder, NEW i \in Ids, NEW b \in BOOLEAN,
         licenses' = [licenses EXCEPT ![i].assigned = b]
  PROVE  /\ Aged
         /\ \A k \in Ids : /\ licenses'[k].ended = licenses[k].ended
                           /\ licenses'[k].reason = licenses[k].reason
<1>1. \A k \in Ids : licenses[k] \in LicenseRow /\ Ids = DOMAIN licenses
  BY TablesTyped DEF BanOrder, Ids
<1>2. ASSUME NEW k \in Ids
      PROVE  licenses'[k] = IF k = i THEN [licenses[k] EXCEPT !.assigned = b]
                            ELSE licenses[k]
  BY <1>1
<1>3. ASSUME NEW k \in Ids
      PROVE  /\ licenses'[k].from = licenses[k].from
             /\ licenses'[k].created = licenses[k].created
             /\ licenses'[k].ended = licenses[k].ended
             /\ licenses'[k].reason = licenses[k].reason
  BY <1>1, <1>2 DEF LicenseRow
<1> QED
  BY <1>1, <1>3 DEF Aged, Ids

(* A license added to the table: it restores nothing, or a license whose   *)
(* ban came before it.                                                     *)
LEMMA AddedKeeps ==
  ASSUME BanOrder, Written, NEW r \in LicenseRow, licenses' = Append(licenses, r),
         r.ended = 0, r.reason = "none", seated' = seated,
         r.from = 0 \/ BannedBefore(r.from, r.created),
         \A c \in Calls : call'[c] = call[c] \/ call'[c].at = "idle"
  PROVE  EndsByNow' /\ CallsAfterBan' /\ RestoredAfterBan'
<1> DEFINE n == Len(licenses) + 1
<1>1. /\ Ids = 1 .. Len(licenses) /\ Ids' = 1 .. n /\ Len(licenses) \in Nat
      /\ licenses'[n] = r
      /\ \A i \in Ids : licenses'[i] = licenses[i] /\ i \in Ids' /\ i < n
  BY DEF BanOrder, BanTypes, Ids
<1>2. \A i \in Ids' : i \in Ids \/ i = n
  BY <1>1
<1>3. \A e, at : BannedBefore(e, at) => BannedBefore(e, at)'
  BY <1>1 DEF BannedBefore
<1>4. writes' = writes + 1 /\ writes \in Nat
      /\ \A i \in Ids : licenses[i].ended \in Nat
  BY TablesTyped DEF Written, BanOrder, BanTypes, LicenseRow
<1> HIDE DEF n
<1>5. EndsByNow'
  BY <1>1, <1>2, <1>4 DEF BanOrder, EndsByNow
<1>6. CallsAfterBan'
  BY <1>3 DEF BanOrder, CallsAfterBan
<1>7. RestoredAfterBan'
  <2>1. ASSUME NEW i \in Ids', licenses'[i].from # 0
        PROVE  (/\ licenses[i].from < i
                /\ BannedBefore(licenses[i].from, licenses[i].created))'
    <3>1. CASE i \in Ids
      BY <1>1, <1>3, <2>1, <3>1 DEF BanOrder, RestoredAfterBan
    <3>2. CASE i = n
      BY <1>1, <1>3, <2>1, <3>2 DEF BannedBefore
    <3> QED
      BY <1>2, <3>1, <3>2
  <2> QED
    BY <2>1 DEF RestoredAfterBan, BannedBefore
<1> QED
  BY <1>5, <1>6, <1>7
LEMMA BanOrderStart == BanInit => BanOrder
<1> SUFFICES ASSUME BanInit PROVE BanOrder
  OBVIOUS
<1>1. BanTypes
  BY BanStart DEF BanIInv
<1>2. Ids = {1} /\ licenses[1] = Row(NoGrant, 0, 0) /\ writes = 1
  BY DEF BanInit, Ids
<1>3. EndsByNow /\ RestoredAfterBan
  BY <1>2 DEF EndsByNow, RestoredAfterBan, Row
<1>4. CallsAfterBan
  BY DEF BanInit, CallsAfterBan, NoCall
<1> QED  BY <1>1, <1>3, <1>4 DEF BanOrder

LEMMA BanOrderStep == BanOrder /\ BanIInv /\ [BanNext]_banVars => BanOrder'
<1> SUFFICES ASSUME BanOrder, BanIInv, [BanNext]_banVars
             PROVE  EndsByNow' /\ CallsAfterBan' /\ RestoredAfterBan'
  BY BanStep DEF BanOrder, BanIInv
<1>0. /\ \A i \in Ids : licenses[i].ended <= writes /\ licenses[i].ended \in Nat
      /\ writes \in Nat /\ call \in [Calls -> CallState]
  BY TablesTyped DEF BanOrder, EndsByNow, BanTypes, LicenseRow
<1>1. ASSUME NEW c \in Calls, NEW g \in Grants, NEW e \in Ids, Read(c, g, e)
      PROVE  EndsByNow' /\ CallsAfterBan' /\ RestoredAfterBan'
  <2>1. BannedBefore(e, writes)
    BY <1>1 DEF Read, Restorable, BanOrder, EndsByNow, BannedBefore
  <2>2. /\ UNCHANGED <<licenses, seated, writes>>
        /\ call'[c] = [at |-> "commit", grant |-> g, from |-> e, now |-> writes]
        /\ \A b \in Calls \ {c} : call'[b] = call[b]
    BY <1>0, <1>1 DEF Read
  <2>3. CallsAfterBan'
    BY <2>1, <2>2 DEF CallsAfterBan, BanOrder, BannedBefore, Ids
  <2> QED  BY <2>2, <2>3 DEF BanOrder, EndsByNow, RestoredAfterBan, BannedBefore, Ids
<1>2. ASSUME NEW c \in Calls, Commit(c)
      PROVE  EndsByNow' /\ CallsAfterBan' /\ RestoredAfterBan'
  <2> DEFINE r == Row(call[c].grant, call[c].from, call[c].now)
  <2>1. r \in LicenseRow
    BY <1>0, RowsTyped DEF CallState
  <2>2. /\ r.ended = 0 /\ r.reason = "none" /\ r.from = call[c].from
        /\ r.created = call[c].now
    BY DEF Row
  <2>3. BannedBefore(r.from, r.created)
    BY <1>2, <2>2 DEF Commit, BanOrder, CallsAfterBan
  <2>4. \A b \in Calls : call'[b] = call[b] \/ call'[b].at = "idle"
    BY <1>0, <1>2 DEF Commit, NoCall
  <2>5. Written /\ licenses' = Append(licenses, r) /\ seated' = seated
    BY <1>2 DEF Commit
  <2> HIDE DEF r
  <2> QED  BY <2>1, <2>2, <2>3, <2>4, <2>5, AddedKeeps
<1>3. ASSUME NEW c \in Calls, GiveUp(c)
      PROVE  EndsByNow' /\ CallsAfterBan' /\ RestoredAfterBan'
  BY <1>0, <1>3 DEF GiveUp, NoCall, BanOrder, EndsByNow, CallsAfterBan,
                    RestoredAfterBan, BannedBefore, Ids
<1>4. CASE Terminate
  <2>1. /\ Written /\ UNCHANGED call /\ End(LiveOnes, "banned") /\ ~seated'
    BY <1>4 DEF Terminate
  <2>2. Aged /\ \A i \in Ids : licenses'[i].ended <= writes'
    BY <2>1, EndAges DEF Reasons
  <2> QED  BY <2>1, <2>2, AgedKeeps DEF EndsByNow, Aged, Ids
<1>5. CASE Reinstate
  <2>1. writes' = writes + 1 /\ UNCHANGED <<licenses, call>>
    BY <1>5 DEF Reinstate, Written
  <2>2. EndsByNow'
    BY <1>0, <2>1 DEF EndsByNow, Ids
  <2> QED  BY <2>1, <2>2 DEF BanOrder, CallsAfterBan, RestoredAfterBan,
                             BannedBefore, Ids
<1>6. CASE EndOne
  <2>1. PICK i \in LiveOnes, reason \in {"revoked", "lapsed"} : End({i}, reason)
    BY <1>6 DEF EndOne
  <2>2. Written /\ UNCHANGED call
    BY <1>6 DEF EndOne
  <2>3. Aged /\ \A k \in Ids : /\ licenses'[k].ended <= writes'
                               /\ licenses'[k].reason = "banned"
                                    => licenses'[k].ended < writes'
    BY <2>1, <2>2, EndAges DEF Reasons
  <2> QED  BY <2>2, <2>3, AgedKeeps DEF EndsByNow, Aged, Ids
<1>7. CASE Release \/ Assign
  <2>1. PICK i \in Ids, b \in BOOLEAN : licenses' = [licenses EXCEPT ![i].assigned = b]
    BY <1>7 DEF Release, Assign, LiveOnes
  <2>2. Written /\ UNCHANGED call
    BY <1>7 DEF Release, Assign
  <2>3. Aged /\ \A k \in Ids : licenses'[k].ended = licenses[k].ended
    BY <2>1, MoveAges
  <2>4. writes' = writes + 1
    BY <2>2 DEF Written
  <2> QED  BY <1>0, <2>2, <2>3, <2>4, AgedKeeps DEF EndsByNow, Aged, Ids
<1>8. CASE Replace
  <2> DEFINE r == Row(NoGrant, 0, writes')
  <2>1. Written /\ licenses' = Append(licenses, r) /\ UNCHANGED <<seated, call>>
    BY <1>8 DEF Replace
  <2>2. writes' \in Nat
    BY <2>1, NewWrite DEF BanOrder
  <2>3. r \in LicenseRow /\ r.ended = 0 /\ r.reason = "none" /\ r.from = 0
    BY <2>2, RowsTyped DEF Row
  <2> HIDE DEF r
  <2> QED  BY <2>1, <2>3, AddedKeeps
<1>9. CASE UNCHANGED banVars
  BY <1>9 DEF banVars, BanOrder, EndsByNow, CallsAfterBan, RestoredAfterBan,
              BannedBefore, Ids
<1> QED
  BY <1>1, <1>2, <1>3, <1>4, <1>5, <1>6, <1>7, <1>8, <1>9 DEF BanNext

(* What holds of "the row is spent" (routes/admin-licenses.spec.ts:1666):  *)
(* no request takes up a banned license while a license that restored it   *)
(* is still on the product, live or ended, and none commits while such a   *)
(* license is live on it.  A ban is made good twice only after the first   *)
(* restored license was released, or by two requests that had both read.   *)
THEOREM SpentOnItsProduct ==
  BanSpec => [][\A c \in Calls :
                  /\ \A g \in Grants, e \in Ids :
                       Read(c, g, e) => \A i \in Assigned : licenses[i].from # e
                  /\ Commit(c) => \A i \in LiveOnes \cap Assigned :
                                    licenses[i].from # call[c].from]_banVars
<1>1. ASSUME BanOrder, NEW c \in Calls, NEW g \in Grants, NEW e \in Ids,
             Read(c, g, e), NEW i \in Assigned, licenses[i].from = e
      PROVE  FALSE
  <2>1. i \in Ids /\ e # 0 /\ e \in Nat /\ licenses[i] \in LicenseRow
        /\ licenses[e] \in LicenseRow
    BY <1>1, TablesTyped DEF Assigned, BanOrder
  <2>2. e < i /\ licenses[e].ended < licenses[i].created
    BY <1>1, <2>1 DEF BanOrder, RestoredAfterBan, BannedBefore
  <2>3. i # e /\ licenses[i].created <= licenses[e].ended
    BY <1>1, <2>1, <2>2 DEF Read, Restorable
  <2> QED  BY <2>1, <2>2, <2>3 DEF LicenseRow
<1>2. ASSUME NEW c \in Calls, Commit(c) PROVE LiveOnes \cap Assigned = {}
  BY <1>2 DEF Commit, BatchHolds, Licensed
<1>3. BanOrder => [\A c \in Calls :
                     /\ \A g \in Grants, e \in Ids :
                          Read(c, g, e) => \A i \in Assigned : licenses[i].from # e
                     /\ Commit(c) => \A i \in LiveOnes \cap Assigned :
                                       licenses[i].from # call[c].from]_banVars
  BY <1>1, <1>2
<1> QED
  BY <1>3, BanStart, BanStep, BanOrderStart, BanOrderStep, PTL DEF BanSpec
=============================================================================
