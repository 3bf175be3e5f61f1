----------------------------- MODULE StripeSync -----------------------------
(***************************************************************************)
(* The licenses of one annual Stripe subscription, and how they follow it. *)
(* Stripe changes the subscription and announces each change by an event,  *)
(* delivered in any order and any number of times.  A handler, the         *)
(* webhook's or the daily reconcile's, retrieves the subscription, reads   *)
(* the licenses, and commits one db.batch; the vendor assigns and flags    *)
(* licenses, and AECi terminates the vendor, in between.                   *)
(*                                                                         *)
(* A license's id is its ordinal on the subscription.  The account has no  *)
(* other license, so nothing carries over; the carry-over, and the sweep   *)
(* of the vendor's contests, are in Licenses.  The agreement a checkout or *)
(* a renewal binds, and the e-mails, are left out.                         *)
(***************************************************************************)
EXTENDS LicenseTable

CONSTANTS
  Slots,      \* handlers in flight at once
  Daily,      \* the one of them that is the daily reconcile
  MaxQty,     \* bound: the quantity a subscription may have
  MaxEvents,  \* bound: changes Stripe makes on its own account
  Enabled     \* what a run lets happen to the licenses besides the sync

ASSUME StripeConstants ==
  /\ Ids = 1 .. Cardinality(Ids)
  /\ MaxQty \in Nat
  /\ MaxEvents \in Nat \ {0}
  /\ Daily \in Slots

VARIABLES
  sub,        \* the subscription, as Stripe has it
  emitted,    \* events Stripe has sent
  ledger,     \* stripe_events
  lic,        \* the licenses on the subscription
  flagged,    \* those with cancel_at_term_end, reason vendor-cancelled
  ban,        \* none; dead: vendorBanDead; past: it was, and is no more
  followup,   \* the termination's own cancel is still to come
  slot        \* each handler

vars   == <<sub, emitted, ledger, lic, flagged, ban, followup, slot>>
stripe == <<sub, emitted>>
rows   == <<lic, flagged>>
vendor == <<ban, followup>>

(* incomplete stands for paused too, active for trialing and past_due, and *)
(* canceled for incomplete_expired.                                        *)
Statuses == {"incomplete", "active", "unpaid", "canceled"}
Sub == [status : Statuses, qty : 1 .. MaxQty, period : Time, cancel : BOOLEAN]

(* A termination's cancel is one event more.                               *)
EventIds == 1 .. MaxEvents + 1

(* stage: idle; fetched, holding snap; planned, holding its batch; cancel  *)
(* and record, the two steps of the ban-dead branch.  The batch: count ids *)
(* to grant after the first from, out the licenses to end, as read and     *)
(* marked, moves and flips those whose term or flag changes, sawBan if one *)
(* had ended banned.                                                       *)
Handler == [stage : {"idle", "fetched", "planned", "cancel", "record"},
            event : EventIds \cup {0}, snap : Sub, again : BOOLEAN,
            from : 0 .. Cardinality(Ids), count : 0 .. MaxQty,
            out : SUBSET Ids, read : Table, marked : SUBSET Ids,
            moves : SUBSET Ids, flips : SUBSET Ids, sawBan : BOOLEAN]

Unread == [l \in Ids |-> Blank]
NoSub  == [status |-> "incomplete", qty |-> 1, period |-> 0, cancel |-> FALSE]
Idle   == [stage |-> "idle", event |-> 0, snap |-> NoSub, again |-> FALSE,
           from |-> 0, count |-> 0, out |-> {}, read |-> Unread,
           marked |-> {}, moves |-> {}, flips |-> {}, sawBan |-> FALSE]

Init ==
  /\ sub \in [status : {"incomplete", "active"}, qty : 1 .. MaxQty,
              period : {0}, cancel : {FALSE}]
  /\ emitted  = 1
  /\ ledger   = {}
  /\ lic      = Unread
  /\ flagged  = {}
  /\ ban      = "none"
  /\ followup = FALSE
  /\ slot     = [s \in Slots |-> Idle]

-----------------------------------------------------------------------------
(* What a subscription asks of its licenses.                               *)

(* A plausible bug: unpaid is left alone, as paused is.                    *)
ModeUnpaidKept(status) ==
  IF status = "active" THEN "live"
  ELSE IF status = "canceled" THEN "terminal" ELSE "none"

(* stripeSyncMode                                                          *)
Mode(status) ==
  IF status = "active" THEN "live"
  ELSE IF status = "incomplete" THEN "none" ELSE "terminal"

(* isStripeSubscriptionCancellable                                         *)
Cancellable(status) == status # "canceled"

(* isBanDeadSubscription                                                   *)
Banned(t) == {l \in Ids : t[l].reason = "banned"}
BanDeadSub(t) == Banned(t) # {} /\ Live(t) = {}

Rows(t) == {l \in Ids : t[l].state # "absent"}

(* grantDelta *)
Delta(t, snap) ==
  IF Mode(snap.status) # "live" \/ Cardinality(Live(t)) >= snap.qty THEN 0
  ELSE snap.qty - Cardinality(Live(t))

(* A plausible bug: the ids are minted at the commit, not from the read.   *)
LicenseIdsFresh(from, count) ==
  {l \in Ids : Cardinality(Rows(lic)) < l /\ l <= Cardinality(Rows(lic)) + count}

(* stripeLicenseIds: the next ordinals after the rows read, live or ended. *)
LicenseIds(from, count) == {l \in Ids : from < l /\ l <= from + count}

(* surplusOf: k ends only after l has.  Unassigned first, the newest       *)
(* first; then those the owner releases; then the latest assigned.         *)
Spared(t, k, l) ==
  LET class(m) == IF t[m].prod = NoProd THEN 0 ELSE IF t[m].release THEN 1 ELSE 2
  IN  \/ class(l) < class(k)
      \/ class(l) = class(k) /\ IF class(k) = 2 THEN Senior(t, k, l) ELSE k < l

Surplus(t, n) ==
  {l \in Live(t) : Cardinality({k \in Live(t) : Spared(t, l, k)})
                     < Cardinality(Live(t)) - n}

Ending(t, snap) ==
  IF Mode(snap.status) = "terminal" THEN Live(t)
  ELSE IF Mode(snap.status) = "live" THEN Surplus(t, snap.qty) ELSE {}

Kept(t, snap) ==
  IF Mode(snap.status) = "live" THEN Live(t) \ Ending(t, snap) ELSE {}

-----------------------------------------------------------------------------
(* Stripe.                                                                 *)

Sends ==
  /\ emitted < MaxEvents
  /\ sub.status # "canceled"
  /\ emitted' = emitted + 1
  /\ UNCHANGED <<ledger, rows, vendor, slot>>

ChangeStatus(to) ==
  /\ Sends
  /\ to # sub.status
  /\ to \in {"unpaid", "incomplete"} => sub.status = "active"
  /\ sub' = [sub EXCEPT !.status = to]

ChangeQuantity(q) ==
  /\ Sends
  /\ sub.status = "active" /\ q # sub.qty
  /\ sub' = [sub EXCEPT !.qty = q]

Renew ==
  /\ Sends
  /\ sub.status = "active" /\ sub.period < MaxTime
  /\ sub' = [sub EXCEPT !.period = @ + 1]

ToggleCancel ==
  /\ "toggle" \in Enabled
  /\ Sends
  /\ sub.status = "active"
  /\ sub' = [sub EXCEPT !.cancel = ~@]

(* DELETE /v1/subscriptions/:id; Stripe refuses a dead one.                *)
CancelledNow ==
  IF Cancellable(sub.status)
  THEN sub' = [sub EXCEPT !.status = "canceled"] /\ emitted' = emitted + 1
  ELSE UNCHANGED stripe

-----------------------------------------------------------------------------
(* A handler: the webhook's on an event, or the daily reconcile, whose     *)
(* event is 0 and which has no ledger row.                                 *)

Put(s, h) == slot' = [slot EXCEPT ![s] = h]

(* A plausible bug: a reconcile is recorded as an event is.                *)
RecordedAlways(e) == ledger' = ledger \cup {e}

Recorded(e) == ledger' = ledger \cup ({e} \ {0})

Fetch(s, e) ==
  /\ slot[s].stage = "idle"
  /\ e \in 0 .. emitted /\ e \notin ledger
  /\ e = 0 <=> s = Daily
  /\ Put(s, [Idle EXCEPT !.stage = "fetched", !.event = e, !.snap = sub])
  /\ UNCHANGED <<stripe, ledger, rows, vendor>>

(* The licenses and the seats, read together at each attempt.              *)
PlanBatch(s) ==
  LET h   == slot[s]
      out == Ending(lic, h.snap)
  IN  /\ Cardinality(Rows(lic)) + Delta(lic, h.snap) <= Cardinality(Ids)
      /\ Put(s, [h EXCEPT
           !.stage  = "planned",
           !.from   = Cardinality(Rows(lic)),
           !.count  = Delta(lic, h.snap),
           !.out    = out,
           !.read   = [l \in Ids |-> IF l \in out THEN lic[l] ELSE Blank],
           !.marked = flagged \cap out,
           !.moves  = {l \in Kept(lic, h.snap) : lic[l].ends # h.snap.period},
           !.flips  = {l \in Kept(lic, h.snap) : (l \in flagged) # h.snap.cancel},
           !.sawBan = Banned(lic) # {}])

Plan(s) ==
  LET h == slot[s]
  IN  /\ h.stage = "fetched"
      /\ IF Cancellable(h.snap.status) /\ (ban = "dead" \/ BanDeadSub(lic))
         THEN Put(s, [Idle EXCEPT !.stage = "cancel", !.event = h.event])
         ELSE PlanBatch(s)
      /\ UNCHANGED <<stripe, ledger, rows, vendor>>

Grants(h) == LicenseIds(h.from, h.count)
Writes(h) == Grants(h) \cup h.out \cup h.moves \cup h.flips

(* Each statement still finds its one row, and no id is taken.             *)
RowsAsRead(h) ==
  /\ \A l \in Grants(h) : lic[l].state = "absent"
  /\ \A l \in h.out \cup h.moves \cup h.flips : lic[l].state = "live"
  /\ \A l \in h.out : /\ lic[l].prod = h.read[l].prod
                      /\ lic[l].release = h.read[l].release
                      /\ l \in flagged <=> l \in h.marked
  /\ \A l \in h.flips : (l \in flagged) # h.snap.cancel

(* A plausible bug: the seats are checked on a grant, the bans never.      *)
NoBanSeats(h) == Grants(h) # {} => ban # "dead"

(* A plausible bug: the licenses are checked, the seats never.             *)
NoBanRows(h) == Writes(h) # {} /\ ~h.sawBan => Banned(lic) = {}

(* bannedSubscriptionSentinel, and vendorNotBanDeadSentinel on a grant.    *)
NoBan(h) ==
  /\ Writes(h) # {} /\ ~h.sawBan => Banned(lic) = {}
  /\ Grants(h) # {} => ban # "dead"

(* A lower quantity ends released; a dead subscription only what its owner *)
(* asked to release.                                                       *)
Releases(h) ==
  {l \in h.out : Mode(h.snap.status) = "live"
                   \/ (h.read[l].release /\ h.read[l].prod # NoProd)}

(* The rows after the batch: granted, ended, moved to the period's end.    *)
Synced(h) ==
  LET freed == Releases(h)
      t     == Ended(Ended(Granted(lic, Grants(h), h.snap.period), freed, "released"),
                     h.out \ freed, "lapsed")
  IN  [l \in Ids |-> IF l \in h.moves THEN [t[l] EXCEPT !.ends = h.snap.period]
                     ELSE t[l]]

Commit(s) ==
  LET h == slot[s]
  IN  /\ h.stage = "planned"
      /\ h.event \notin ledger
      /\ RowsAsRead(h) /\ NoBan(h)
      /\ lic' = Synced(h)
      /\ flagged' = IF h.snap.cancel THEN flagged \cup h.flips \cup Grants(h)
                    ELSE flagged \ h.flips
      /\ Recorded(h.event)
      /\ Put(s, Idle)
      /\ UNCHANGED <<stripe, vendor>>

(* One more attempt, on the same snapshot; then the delivery fails.        *)
LoseRace(s) ==
  LET h == slot[s]
  IN  /\ h.stage = "planned"
      /\ h.event \notin ledger
      /\ ~(RowsAsRead(h) /\ NoBan(h))
      /\ Put(s, IF h.again THEN Idle
                ELSE [Idle EXCEPT !.stage = "fetched", !.event = h.event,
                                  !.snap = h.snap, !.again = TRUE])
      /\ UNCHANGED <<stripe, ledger, rows, vendor>>

(* The ledger's key refuses the whole batch.                               *)
Replay(s) ==
  /\ slot[s].stage \in {"planned", "record"}
  /\ slot[s].event \in ledger
  /\ Put(s, Idle)
  /\ UNCHANGED <<stripe, ledger, rows, vendor>>

(* banDeadRun: cancel, then the ledger row.                                *)
Cancel(s) ==
  /\ slot[s].stage = "cancel"
  /\ CancelledNow
  /\ Put(s, [slot[s] EXCEPT !.stage = "record"])
  /\ UNCHANGED <<ledger, rows, vendor>>

Record(s) ==
  /\ slot[s].stage = "record"
  /\ slot[s].event \notin ledger
  /\ Recorded(slot[s].event)
  /\ Put(s, Idle)
  /\ UNCHANGED <<stripe, rows, vendor>>

(* The worker is evicted, or Stripe or D1 fails the call: Stripe delivers  *)
(* the event again, the job runs again tomorrow.                           *)
Evict(s) ==
  /\ slot[s].stage # "idle"
  /\ Put(s, Idle)
  /\ UNCHANGED <<stripe, ledger, rows, vendor>>

-----------------------------------------------------------------------------
(* The vendor, and AECi.                                                   *)

Assign(l, p) ==
  /\ "assign" \in Enabled /\ ban = "none"
  /\ lic[l].state = "live" /\ lic[l].prod = NoProd /\ OnProduct(lic, p) = {}
  /\ lic' = Assigned(lic, l, p, 0)
  /\ UNCHANGED <<stripe, ledger, flagged, vendor, slot>>

Flag(l) ==
  /\ "flag" \in Enabled /\ ban = "none"
  /\ lic[l].state = "live" /\ lic[l].prod # NoProd
  /\ lic' = Flagged(lic, l, ~lic[l].release)
  /\ UNCHANGED <<stripe, ledger, flagged, vendor, slot>>

(* The one batch bans the seats and ends the licenses.                     *)
Terminate ==
  /\ "terminate" \in Enabled /\ ban = "none"
  /\ lic' = Ended(lic, Live(lic), "banned")
  /\ ban' = "dead"
  /\ followup' = TRUE
  /\ UNCHANGED <<stripe, ledger, flagged, slot>>

(* stripeBanCancelNowHook, best effort: it may be late, or never come.     *)
FollowUp ==
  /\ followup
  /\ followup' = FALSE
  /\ CancelledNow
  /\ UNCHANGED <<ledger, rows, ban, slot>>

(* vendorBanDead is false again: a seat is granted or unbanned, or the     *)
(* last of the banned seats is revoked.  A termination that found no seat  *)
(* is Terminate and this.                                                  *)
BanPasses ==
  /\ ban = "dead"
  /\ ban' = "past"
  /\ UNCHANGED <<stripe, ledger, rows, followup, slot>>

-----------------------------------------------------------------------------
Handle(s) ==
  Plan(s) \/ Commit(s) \/ LoseRace(s) \/ Replay(s) \/ Cancel(s) \/ Record(s)

Next ==
  \/ \E to \in Statuses : ChangeStatus(to)
  \/ \E q \in 1 .. MaxQty : ChangeQuantity(q)
  \/ Renew \/ ToggleCancel
  \/ \E s \in Slots, e \in 0 .. MaxEvents + 1 : Fetch(s, e)
  \/ \E s \in Slots : Handle(s) \/ Evict(s)
  \/ \E l \in Ids, p \in Products : Assign(l, p)
  \/ \E l \in Ids : Flag(l)
  \/ Terminate \/ FollowUp \/ BanPasses

Spec == Init /\ [][Next]_vars

(* A reconcile ends, and the daily job runs again; it is not evicted, nor  *)
(* crossed, at the same point for ever.  Nothing is asked of the webhook.  *)
Fairness ==
  /\ WF_vars(Handle(Daily) \/ Evict(Daily))
  /\ SF_vars(Fetch(Daily, 0))
  /\ SF_vars(Plan(Daily))
  /\ SF_vars(Commit(Daily))
  /\ SF_vars(Cancel(Daily))

FairSpec == Spec /\ Fairness

-----------------------------------------------------------------------------
(* Every variable holds values the code writes.                            *)
TypeOK ==
  /\ sub      \in Sub
  /\ emitted  \in 0 .. MaxEvents + 1
  /\ ledger   \subseteq EventIds
  /\ lic      \in Table
  /\ flagged  \subseteq Ids
  /\ ban      \in {"none", "dead", "past"}
  /\ followup \in BOOLEAN
  /\ slot     \in [Slots -> Handler]

(* A termination is the last word on a subscription: once one of its       *)
(* licenses ended banned none is live, and none is granted again, even by  *)
(* a handler that read before the ban and commits when it has passed.      *)
BannedIsLast == Banned(lic) # {} => Live(lic) = {}

(* A vendor that is ban-dead holds no license of the subscription, though  *)
(* a handler read before the termination, when it had no license yet.      *)
DeadVendorHoldsNone == ban = "dead" => Live(lic) = {}

(* The handlers keep the promise of Register as the others do: a ban-dead  *)
(* vendor holds nothing and is granted nothing, though a handler read      *)
(* before the termination, and no license is granted or ended twice.       *)
Rights == INSTANCE Register WITH
  phase    <- [l \in Ids |-> lic[l].state],
  on       <- [l \in Ids |-> lic[l].prod],
  standing <- IF ban = "dead" THEN "closed" ELSE "open"

KeepsRegister == Rights!RegisterSpec

(* Handlers that cross never grant a license twice: whoever grants leaves  *)
(* at most the quantity its own snapshot asked for.                        *)
GrantsUpToQuantity ==
  [][~(Live(lic)' \subseteq Live(lic))
       => \E s \in Slots : /\ Commit(s)
                           /\ Cardinality(Live(lic)') <= slot[s].snap.qty]_vars

(* The licenses are the subscription's: as many, to its period's end, its  *)
(* cancellation on each.                                                   *)
Matched ==
  /\ sub.status = "active" => Cardinality(Live(lic)) = sub.qty
  /\ sub.status \in {"unpaid", "canceled"} => Live(lic) = {}
  /\ sub.status = "active" =>
       \A l \in Live(lic) : lic[l].ends = sub.period /\ (l \in flagged <=> sub.cancel)

(* The bound on Ids stops a grant.                                         *)
Exhausted == Cardinality(Rows(lic)) + Delta(lic, sub) > Cardinality(Ids)

(* The daily reconcile makes the licenses the subscription's, whatever     *)
(* order events came in and whatever was lost on the way; and a terminated *)
(* vendor stops paying, though the termination's own cancel was lost and   *)
(* whatever the subscription's status was.                                 *)
Settles ==
  <>[](/\ Matched \/ Exhausted
       /\ ban = "dead" => sub.status = "canceled")
=============================================================================
