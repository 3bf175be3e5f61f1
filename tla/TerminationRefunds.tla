------------------------- MODULE TerminationRefunds -------------------------
(***************************************************************************)
(* The refunds a termination leaves to pay, one row per payment, settled   *)
(* after the commit against Stripe's lookup and idempotency key.           *)
(*                                                                         *)
(*   lib/vendor-termination.ts           settleTerminationRefunds,         *)
(*                                       emailAfterTermination             *)
(*   routes/admin-vendor-suspension.ts   the retry handler                 *)
(*                                                                         *)
(* A settler is one run of either.  Each call to Stripe and each batch is  *)
(* a step; between two of them any other settler may move, the worker may  *)
(* be evicted, and Stripe may fail a refund or drop the key.               *)
(***************************************************************************)
EXTENDS Naturals

CONSTANTS
  Rows,        \* the rows that are Stripe's to pay
  Settlers,    \* runs of settleTerminationRefunds at one time
  MaxRefunds   \* bound: refunds Stripe makes for one row

ASSUME RefundConstants == MaxRefunds \in Nat

VARIABLES
  unpaid,      \* the rows whose status is pending or failed
  refundId,    \* stripe_refund_id, 0 for NULL
  made,        \* Stripe: how many refunds it made for a row, ids 1..made
  sour,        \* Stripe: those that have failed or were canceled
  keyed,       \* Stripe: what the row's idempotency key answers, 0 if unknown
  late,        \* rows with a timed-out create that Stripe may still take
  settler,     \* each settler: where it stands, what it read, what it has
  letters      \* ghost: the refund states the vendor was mailed

stripeVars == <<made, sour, keyed, late>>
refundVars == <<unpaid, refundId, made, sour, keyed, late, settler, letters>>

(* A plausible bug: another refund of the payment is taken for the row's.  *)
GoodOrOther(r) == (1 .. made[r] + 1) \ sour[r]

(* The refunds of a row that moved money.                                  *)
Good(r) == (1 .. made[r]) \ sour[r]

Idle == [at |-> "idle", todo |-> {}, row |-> {}, id |-> 0]

RefundInit ==
  /\ unpaid   = Rows
  /\ refundId = [r \in Rows |-> 0]
  /\ made     = [r \in Rows |-> 0]
  /\ sour     = [r \in Rows |-> {}]
  /\ keyed    = [r \in Rows |-> 0]
  /\ late     = {}
  /\ settler  = [s \in Settlers |-> Idle]
  /\ letters  = {}

-----------------------------------------------------------------------------
(* The rows pending or failed, read once.                                  *)
ReadUnpaid(s) ==
  /\ settler[s].at = "idle"
  /\ settler' = [settler EXCEPT ![s].at = "next", ![s].todo = unpaid]
  /\ UNCHANGED <<unpaid, refundId, stripeVars, letters>>

(* No client, no payment intent, or a lookup that cannot answer: a         *)
(* failure, and nothing is paid.                                           *)
LookUpFails(s, r) ==
  /\ settler[s].at = "next" /\ r \in settler[s].todo
  /\ settler' = [settler EXCEPT ![s].at = "record", ![s].row = {r},
                                ![s].todo = @ \ {r}, ![s].id = 0]
  /\ UNCHANGED <<unpaid, refundId, stripeVars, letters>>

(* A plausible bug: no lookup, the idempotency key is trusted alone.       *)
SkipLookUp(s, r) ==
  /\ settler[s].at = "next" /\ r \in settler[s].todo
  /\ settler' = [settler EXCEPT ![s].at = "create", ![s].row = {r},
                                ![s].todo = @ \ {r}, ![s].id = 0]
  /\ UNCHANGED <<unpaid, refundId, stripeVars, letters>>

(* listRefunds answers: a good refund of this row is its payment;          *)
(* otherwise one is created next.                                          *)
LookUp(s, r) ==
  /\ settler[s].at = "next" /\ r \in settler[s].todo
  /\ \/ \E g \in Good(r) :
          settler' = [settler EXCEPT ![s].at = "record", ![s].row = {r},
                                     ![s].todo = @ \ {r}, ![s].id = g]
     \/ /\ Good(r) = {}
        /\ settler' = [settler EXCEPT ![s].at = "create", ![s].row = {r},
                                      ![s].todo = @ \ {r}, ![s].id = 0]
  /\ UNCHANGED <<unpaid, refundId, stripeVars, letters>>

(* POST /v1/refunds with the row's key: a key Stripe knows answers the     *)
(* refund it made then, whatever became of it.                             *)
StripeTakes(r) ==
  \/ keyed[r] # 0 /\ UNCHANGED <<made, keyed>>
  \/ /\ keyed[r] = 0 /\ made[r] < MaxRefunds
     /\ made'  = [made EXCEPT ![r] = @ + 1]
     /\ keyed' = [keyed EXCEPT ![r] = made[r] + 1]

Create(s) ==
  \E r \in settler[s].row :
    /\ settler[s].at = "create"
    /\ StripeTakes(r)
    /\ settler' = [settler EXCEPT ![s].at = "record", ![s].id = keyed'[r]]
    /\ UNCHANGED <<unpaid, refundId, sour, late, letters>>

CreateRefused(s) ==
  /\ settler[s].at = "create"
  /\ settler' = [settler EXCEPT ![s].at = "record"]
  /\ UNCHANGED <<unpaid, refundId, stripeVars, letters>>

(* A timeout: the request is on its way, and Stripe takes it or not.       *)
CreateTimesOut(s) ==
  /\ settler[s].at = "create"
  /\ settler' = [settler EXCEPT ![s].at = "record"]
  /\ late'    = late \cup settler[s].row
  /\ UNCHANGED <<unpaid, refundId, made, sour, keyed, letters>>

(* A plausible bug: the row is written as succeeded whatever Stripe said.  *)
RecordPaid(s) ==
  /\ settler[s].at = "record"
  /\ unpaid'   = unpaid \ settler[s].row
  /\ refundId' = [r \in Rows |->
                    IF r \in settler[s].row THEN settler[s].id ELSE refundId[r]]
  /\ settler'  = [settler EXCEPT ![s].at = "next", ![s].row = {}]
  /\ UNCHANGED <<stripeVars, letters>>

(* The result by row id alone, whatever the row says by now, or nothing    *)
(* when the batch fails.                                                   *)
RecordRefund(s) ==
  /\ settler[s].at = "record"
  /\ \/ /\ unpaid' = IF settler[s].id = 0 THEN unpaid \cup settler[s].row
                                          ELSE unpaid \ settler[s].row
        /\ refundId' = [r \in Rows |->
             IF r \in settler[s].row THEN settler[s].id ELSE refundId[r]]
     \/ UNCHANGED <<unpaid, refundId>>
  /\ settler' = [settler EXCEPT ![s].at = "next", ![s].row = {}]
  /\ UNCHANGED <<stripeVars, letters>>

(* All rows are done, or the deadline is over: the mail says where the     *)
(* refund stands.  Its dedupe key is that state, so each goes once.        *)
MailRefund(s) ==
  /\ settler[s].at = "next"
  /\ settler' = [settler EXCEPT ![s] = Idle]
  /\ letters' = letters \cup {IF unpaid # {} THEN "pending" ELSE "paid"}
  /\ UNCHANGED <<unpaid, refundId, stripeVars>>

(* The worker is evicted, perhaps with a create on its way.                *)
EvictSettler(s) ==
  /\ settler[s].at # "idle"
  /\ settler' = [settler EXCEPT ![s] = Idle]
  /\ \/ UNCHANGED late
     \/ settler[s].at = "create" /\ late' = late \cup settler[s].row
  /\ UNCHANGED <<unpaid, refundId, made, sour, keyed, letters>>

-----------------------------------------------------------------------------
(* Stripe takes a late request, or it is lost.                             *)
LateCreate(r) ==
  /\ r \in late
  /\ late' = late \ {r}
  /\ StripeTakes(r) \/ UNCHANGED <<made, keyed>>
  /\ UNCHANGED <<unpaid, refundId, sour, settler, letters>>

(* A refund fails at the bank, or is canceled.                             *)
RefundSours(r) ==
  \E g \in Good(r) :
    /\ sour' = [sour EXCEPT ![r] = @ \cup {g}]
    /\ UNCHANGED <<unpaid, refundId, made, keyed, late, settler, letters>>

(* Stripe drops a key after a day: no request with it is still on its way, *)
(* and no settler, whose deadline is seconds, is about to send one.        *)
KeyDropped(r) ==
  /\ keyed[r] # 0
  /\ r \notin late
  /\ \A s \in Settlers : ~(settler[s].at = "create" /\ r \in settler[s].row)
  /\ keyed' = [keyed EXCEPT ![r] = 0]
  /\ UNCHANGED <<unpaid, refundId, made, sour, late, settler, letters>>

RefundNext ==
  \/ \E s \in Settlers :
       \/ ReadUnpaid(s)
       \/ \E r \in Rows : LookUpFails(s, r) \/ LookUp(s, r)
       \/ Create(s)
       \/ CreateRefused(s)
       \/ CreateTimesOut(s)
       \/ RecordRefund(s)
       \/ MailRefund(s)
       \/ EvictSettler(s)
  \/ \E r \in Rows : LateCreate(r) \/ RefundSours(r) \/ KeyDropped(r)

RefundSpec == RefundInit /\ [][RefundNext]_refundVars

-----------------------------------------------------------------------------
RefundTypeOK ==
  /\ unpaid \subseteq Rows
  /\ refundId \in [Rows -> 0 .. MaxRefunds]
  /\ made \in [Rows -> 0 .. MaxRefunds]
  /\ sour \in [Rows -> SUBSET (1 .. MaxRefunds)]
  /\ keyed \in [Rows -> 0 .. MaxRefunds]
  /\ late \subseteq Rows
  /\ settler \in [Settlers -> [at : {"idle", "next", "create", "record"},
                               todo : SUBSET Rows, row : SUBSET Rows,
                               id : 0 .. MaxRefunds]]
  /\ letters \subseteq {"pending", "paid"}

(* A vendor is never paid twice: whatever retries cross, answers are lost  *)
(* and keys are dropped, a row has at most one refund that moved money     *)
(* (settleTerminationRefunds: "a retry after a lost response cannot pay    *)
(* twice, however late").                                                  *)
PaidOnce == \A r \in Rows : \A g, h \in Good(r) : g = h

(* The vendor is told of its refund only when Stripe made one for every    *)
(* row, though a settler that read a row unpaid may write over the result  *)
(* of another.                                                             *)
PaidMailIsTrue == "paid" \in letters => \A r \in Rows : made[r] # 0
=============================================================================
