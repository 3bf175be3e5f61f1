------------------------------ MODULE Licenses ------------------------------
(***************************************************************************)
(* The life of a vendor's licenses outside Stripe: the owner seat assigns, *)
(* flags and asks for release; AECi grants, extends, revokes, answers      *)
(* release requests, suspends and terminates; the daily job ends terms and *)
(* carries products over.                                                  *)
(*                                                                         *)
(* A handler reads the table, decides, and commits one db.batch.  A slot   *)
(* is one handler between its read and its commit: what it decided and the *)
(* rows its WHERE clauses compare.  Other handlers commit in between.  A   *)
(* sentinel or the unique index that does not hold aborts the whole batch. *)
(***************************************************************************)
EXTENDS LicenseTable

CONSTANTS
  Slots,      \* handlers in flight at once
  Enabled,    \* operations a run explores
  Backfilled, \* licenses that may be there from the back-fill
  MaxAsks,    \* bound: release requests per license, and suspensions
  FirstEnd    \* bound: no grant ends before it

Ops == {"grant", "assign", "flag", "ask", "approve", "decline", "extend",
        "revoke", "lapse", "terminate", "disown", "seats"}

ASSUME LicenseConstants ==
  /\ Enabled \subseteq Ops
  /\ Backfilled \subseteq Ids
  /\ MaxAsks \in Nat
  /\ FirstEnd \in Nat

VARIABLES
  lic,        \* the licenses table
  verified,   \* vendors.verified
  managed,    \* products whose managed_ended_at is set
  owned,      \* products of the vendor in product_vendors
  asks,       \* the product of the open release request on a license
  asked,      \* how many requests a license has had: the request's identity
  suspended,  \* the vendor has an open suspension
  seats,      \* what its vendor_admin profiles are, and what left them so
  cases,      \* how many suspensions: the open suspension's identity
  slot,       \* each handler's plan
  now

vars == <<lic, verified, managed, owned, asks, asked, suspended, seats,
          cases, slot, now>>
table    == <<lic, verified, managed>>
requests == <<asks, asked>>
standing == <<suspended, seats, cases>>

(* "none": no seat at all.  "active": an unbanned seat.  Else there are    *)
(* seats and all are banned: "lapsed" when the unbanned ones were lost, or *)
(* a banned profile got the first, "terminated" when a termination found   *)
(* or left them so.  The rows of the two are the same.                     *)
Seats == {"none", "active", "lapsed", "terminated"}

Plan == [op : Ops \cup {"idle"}, lics : SUBSET Ids,
         prod : Products \cup {NoProd}, at : Time, end : Time,
         flag : BOOLEAN, mark : 0 .. MaxAsks, last : BOOLEAN,
         blocked : SUBSET Products, seen : Table]

Unread == [l \in Ids |-> Blank]
Seen(S) == [l \in Ids |-> IF l \in S THEN lic[l] ELSE Blank]

Idle == [op |-> "idle", lics |-> {}, prod |-> NoProd, at |-> 0, end |-> 0,
         flag |-> FALSE, mark |-> 0, last |-> FALSE, blocked |-> {},
         seen |-> Unread]

(* Nothing is granted yet, but the back-fill may have left a vendor its    *)
(* open-ended complimentary licenses.                                      *)
Init ==
  /\ lic \in [Ids -> {Blank} \cup {OpenEnded(p) : p \in Products \cup {NoProd}}]
  /\ Indexed(lic)
  /\ Live(lic) \subseteq Backfilled
  /\ verified = (Live(lic) # {})
  /\ managed  = {}
  /\ owned    = Products
  /\ asks     = [l \in Ids |-> NoProd]
  /\ asked    = [l \in Ids |-> 0]
  /\ suspended = FALSE
  /\ seats    \in {"none", "active"}
  /\ cases    = 0
  /\ slot     = [s \in Slots |-> Idle]
  /\ now      = 0

-----------------------------------------------------------------------------
(* Reads.  Each takes its refusals as guards and records what it planned.  *)

Begin(s, plan) ==
  /\ slot[s].op = "idle"
  /\ plan.op \in Enabled
  /\ slot' = [slot EXCEPT ![s] = plan]
  /\ UNCHANGED <<table, owned, requests, standing, now>>

(* planLastLicenseReroute: no live license but the ending ones.            *)
LastOf(S) == Live(lic) \subseteq S

(* vendorFullyBanned: a vendor with no seat at all is not.                 *)
FullyBanned == seats \in {"lapsed", "terminated"}

(* The ids come from the grant id, so a repeat of a stored grant is        *)
(* answered from the rows.  ends_at only has to be after starts_at, which  *)
(* may lie in the past: a grant may be over when it is made.               *)
PlanGrant(s, G, e) ==
  /\ \A l \in G : lic[l].state = "absent"
  /\ G # {}
  /\ ~FullyBanned
  /\ e >= FirstEnd
  /\ Begin(s, [Idle EXCEPT !.op = "grant", !.lics = G, !.end = e])

(* An unbanned seat is let into the portal.                                *)
Portal == ~suspended /\ seats = "active"

PlanAssign(s, l, p) ==
  /\ Portal
  /\ p \in owned
  /\ lic[l].state = "live" /\ lic[l].prod = NoProd
  /\ OnProduct(lic, p) = {}
  /\ Begin(s, [Idle EXCEPT !.op = "assign", !.lics = {l}, !.prod = p,
                           !.at = now])

PlanFlag(s, l, b) ==
  /\ Portal
  /\ lic[l].state = "live" /\ lic[l].prod # NoProd
  /\ lic[l].release # b
  /\ Begin(s, [Idle EXCEPT !.op = "flag", !.lics = {l}, !.flag = b,
                           !.prod = lic[l].prod])

PlanAsk(s, l) ==
  /\ Portal
  /\ lic[l].state = "live" /\ lic[l].prod # NoProd
  /\ asks[l] = NoProd
  /\ asked[l] < MaxAsks
  /\ Begin(s, [Idle EXCEPT !.op = "ask", !.lics = {l}, !.prod = lic[l].prod])

(* A plausible bug: the license is taken off whatever it is on.            *)
PlanApproveAny(s, l) ==
  /\ asks[l] # NoProd
  /\ lic[l].state = "live" /\ lic[l].prod # NoProd
  /\ Begin(s, [Idle EXCEPT !.op = "approve", !.lics = {l},
                           !.prod = lic[l].prod, !.mark = asked[l]])

PlanApprove(s, l) ==
  /\ asks[l] # NoProd
  /\ lic[l].state = "live" /\ lic[l].prod = asks[l]
  /\ Begin(s, [Idle EXCEPT !.op = "approve", !.lics = {l}, !.prod = asks[l],
                           !.mark = asked[l]])

PlanDecline(s, l) ==
  /\ asks[l] # NoProd
  /\ Begin(s, [Idle EXCEPT !.op = "decline", !.lics = {l}, !.mark = asked[l]])

(* A license with no end date gets its first, after now.                   *)
ExtendFloor(l) == IF lic[l].ends = NoEnd THEN now ELSE lic[l].ends

PlanExtend(s, l, e) ==
  /\ lic[l].state = "live"
  /\ e > ExtendFloor(l)
  /\ Begin(s, [Idle EXCEPT !.op = "extend", !.lics = {l}, !.end = e,
                           !.seen = Seen({l})])

PlanRevoke(s, l) ==
  /\ lic[l].state = "live"
  /\ Begin(s, [Idle EXCEPT !.op = "revoke", !.lics = {l}, !.last = LastOf({l}),
                           !.prod = lic[l].prod])

(* A plausible bug: the scan takes ends_at < now, not <=.                  *)
DueStrictly(e) == e < now

(* loadLapsingTerms: ends_at <= now.                                       *)
Due(e) == e <= now

(* One term of the daily job.  loadNoCarry looks at ownership only when    *)
(* some live license is unassigned.                                        *)
PlanLapse(s, e) ==
  LET ending == Term(lic, e)
      spare  == Pool(lic, now)
  IN  /\ Due(e)
      /\ ending # {}
      /\ Begin(s, [Idle EXCEPT !.op = "lapse", !.lics = ending, !.end = e,
                     !.at = now, !.last = LastOf(ending),
                     !.blocked = IF OnProduct(lic, NoProd) = {} THEN {}
                                 ELSE Products \ owned,
                     !.seen = Seen(ending \cup spare)])

(* The seats it bans are the unbanned ones it read.                        *)
PlanTerminate(s) ==
  /\ suspended
  /\ Begin(s, [Idle EXCEPT !.op = "terminate", !.lics = Live(lic),
                 !.mark = cases, !.last = TRUE, !.flag = (seats = "active"),
                 !.seen = Seen(Live(lic))])

-----------------------------------------------------------------------------
(* Commits.                                                                *)

Finish(s) == slot' = [slot EXCEPT ![s] = Idle]

(* A plausible bug: the product mirror trusts the handler's diff.          *)
ReconcileUnchecked(t, lost, gained) ==
  /\ lic'      = t
  /\ verified' = (Live(t) # {})
  /\ managed'  = (managed \ gained) \cup lost

(* assemble's two mirrors, at the end of every license batch.              *)
Reconcile(t, lost, gained) ==
  /\ lic'      = t
  /\ verified' = (Live(t) # {})
  /\ managed'  = (managed \cup {p \in lost : OnProduct(t, p) = {}})
                   \ {p \in gained : OnProduct(t, p) # {}}

(* A plausible bug: only the sweeping batch is guarded.                    *)
SweepGuardOneSided(plan, t) == plan.last => Live(t) = {}

(* noLiveLicenseSentinel when the batch sweeps the vendor's contests,      *)
(* liveLicenseRemainsSentinel when it planned no sweep.                    *)
SweepGuard(plan, t) == plan.last <=> Live(t) = {}

(* A plausible bug: the WHERE names the id alone.                          *)
StillLiveById(l) == lic[l].state # "absent"

(* ended_at IS NULL                                                        *)
StillLive(l) == lic[l].state = "live"

(* A plausible bug: the handler's own check is taken to be enough.         *)
SeatLeftAsRead == TRUE

(* unbannedSeatExistsSentinel with allowNoSeats.                           *)
SeatLeft == ~FullyBanned

CommitGrant(s) ==
  LET plan == slot[s]
  IN  /\ plan.op = "grant"
      /\ \A l \in plan.lics : lic[l].state = "absent"
      /\ SeatLeft
      /\ Reconcile(Granted(lic, plan.lics, plan.end), {}, {})
      /\ Finish(s)
      /\ UNCHANGED <<owned, requests, standing, now>>

CommitAssign(s, l) ==
  LET plan == slot[s]
      t    == Assigned(lic, l, plan.prod, plan.at)
  IN  /\ plan.op = "assign" /\ l \in plan.lics
      /\ StillLive(l) /\ lic[l].prod = NoProd
      /\ Indexed(t)
      /\ Reconcile(t, {}, {plan.prod})
      /\ Finish(s)
      /\ UNCHANGED <<owned, requests, standing, now>>

(* A plausible bug: the flag lands whatever the license is on by now.      *)
FlagFitsAlways(plan, l) == StillLive(l)

(* Setting the flag also compares the product; clearing it does not.       *)
FlagFits(plan, l) == StillLive(l) /\ (plan.flag => lic[l].prod = plan.prod)

CommitFlag(s, l) ==
  LET plan == slot[s]
  IN  /\ plan.op = "flag" /\ l \in plan.lics
      /\ FlagFits(plan, l)
      /\ Reconcile(Flagged(lic, l, plan.flag), {}, {})
      /\ Finish(s)
      /\ UNCHANGED <<owned, requests, standing, now>>

(* The insert has no guard on the license; the partial unique index allows *)
(* one open request per license.                                           *)
CommitAsk(s, l) ==
  LET plan == slot[s]
  IN  /\ plan.op = "ask" /\ l \in plan.lics
      /\ asks[l] = NoProd
      /\ asked[l] < MaxAsks
      /\ asks'  = [asks EXCEPT ![l] = plan.prod]
      /\ asked' = [asked EXCEPT ![l] = @ + 1]
      /\ Finish(s)
      /\ UNCHANGED <<table, owned, standing, now>>

Decided(plan, l) ==
  /\ l \in plan.lics
  /\ asks[l] # NoProd /\ asked[l] = plan.mark
  /\ asks' = [asks EXCEPT ![l] = NoProd]

CommitApprove(s, l) ==
  LET plan == slot[s]
  IN  /\ plan.op = "approve"
      /\ Decided(plan, l)
      /\ StillLive(l) /\ lic[l].prod = plan.prod
      /\ Reconcile(Unassigned(lic, l), {plan.prod}, {})
      /\ Finish(s)
      /\ UNCHANGED <<owned, asked, standing, now>>

CommitDecline(s, l) ==
  LET plan == slot[s]
  IN  /\ plan.op = "decline"
      /\ Decided(plan, l)
      /\ Finish(s)
      /\ UNCHANGED <<table, owned, asked, standing, now>>

(* A plausible bug: an extend without expectUnchanged.                     *)
TermAsAny(plan, l) == TRUE

(* expectUnchanged: the term read is still the term.                       *)
TermAsRead(plan, l) == lic[l].ends = plan.seen[l].ends

CommitExtend(s, l) ==
  LET plan == slot[s]
  IN  /\ plan.op = "extend" /\ l \in plan.lics
      /\ StillLive(l) /\ TermAsRead(plan, l)
      /\ Reconcile(Extended(lic, l, plan.end), {}, {})
      /\ Finish(s)
      /\ UNCHANGED <<owned, requests, standing, now>>

(* Guarded on ended_at alone: the product that loses its license is the    *)
(* one read, whatever the license is on by now.                            *)
CommitRevoke(s, l) ==
  LET plan == slot[s]
      t    == Ended(lic, {l}, "revoked")
  IN  /\ plan.op = "revoke" /\ l \in plan.lics
      /\ StillLive(l)
      /\ SweepGuard(plan, t)
      /\ Reconcile(t, {plan.prod} \ {NoProd}, {})
      /\ Finish(s)
      /\ UNCHANGED <<owned, requests, standing, now>>

(* A plausible bug: the end is not guarded on the scanned ends_at.         *)
TermUnchangedNoDate(plan) ==
  \A l \in Term(plan.seen, plan.end) :
    StillLive(l) /\ lic[l].prod = plan.seen[l].prod

(* endWrites with expectAssigned.                                          *)
TermUnchanged(plan) ==
  \A l \in Term(plan.seen, plan.end) :
    /\ StillLive(l)
    /\ lic[l].ends    = plan.end
    /\ lic[l].prod    = plan.seen[l].prod
    /\ lic[l].release = plan.seen[l].release

(* An assign's guard on each pool license a product is carried to.         *)
SparesFree(moves) ==
  \A m \in moves : StillLive(m[2]) /\ lic[m[2]].prod = NoProd

CommitLapse(s) ==
  LET plan  == slot[s]
      moves == Carry(plan.seen, plan.end, plan.at, plan.blocked)
      t     == Lapsed(lic, plan.seen, plan.end, moves)
  IN  /\ plan.op = "lapse"
      /\ TermUnchanged(plan)
      /\ SparesFree(moves)
      /\ Indexed(t)
      /\ SweepGuard(plan, t)
      /\ Reconcile(t, {plan.seen[l].prod : l \in plan.lics} \ {NoProd},
                   {plan.seen[m[1]].prod : m \in moves})
      /\ Finish(s)
      /\ UNCHANGED <<owned, requests, standing, now>>

(* The open suspension closes, every seat read is banned and none may be   *)
(* left, every license read ends and none may be left.                     *)
CommitTerminate(s) ==
  LET plan == slot[s]
      t    == Ended(lic, plan.lics, "banned")
  IN  /\ plan.op = "terminate"
      /\ suspended /\ cases = plan.mark
      /\ seats = "active" => plan.flag
      /\ \A l \in plan.lics : StillLive(l)
      /\ Live(t) = {}
      /\ Reconcile(t, {plan.seen[l].prod : l \in plan.lics} \ {NoProd}, {})
      /\ suspended' = FALSE
      /\ seats' = IF seats = "none" THEN "none" ELSE "terminated"
      /\ Finish(s)
      /\ UNCHANGED <<owned, requests, cases, now>>

(* A sentinel or the index refuses the batch, or the worker is evicted:    *)
(* nothing is written.  The one retry some callers make reads afresh, so   *)
(* it is a new plan.                                                       *)
Abandon(s) ==
  /\ slot[s].op # "idle"
  /\ Finish(s)
  /\ UNCHANGED <<table, owned, requests, standing, now>>

-----------------------------------------------------------------------------
(* One guarded statement each, so no plan.                                 *)

Suspend ==
  /\ "terminate" \in Enabled
  /\ ~suspended /\ cases < MaxAsks
  /\ suspended' = TRUE
  /\ cases' = cases + 1
  /\ UNCHANGED <<table, owned, requests, seats, slot, now>>

Lift ==
  /\ suspended
  /\ suspended' = FALSE
  /\ UNCHANGED <<table, owned, requests, seats, cases, slot, now>>

MoveSeats(to) ==
  /\ "seats" \in Enabled
  /\ seats' = to
  /\ UNCHANGED <<table, owned, requests, suspended, cases, slot, now>>

(* A seat is granted to an unbanned profile, or a banned seat is unbanned. *)
Reseat == seats # "active" /\ MoveSeats("active")

(* A vendor with no seat gets one whose profile is banned.                 *)
SeatBannedProfile == seats = "none" /\ MoveSeats("lapsed")

(* The last unbanned seat is revoked or its account erased, with banned    *)
(* ones beside it or none; or the last banned seat is revoked.  The        *)
(* licenses stay.  A ban is no way here: a last unbanned seat's is refused.*)
LoseSeats ==
  \/ seats = "active" /\ \E to \in {"none", "lapsed"} : MoveSeats(to)
  \/ FullyBanned /\ MoveSeats("none")

(* Promote rewrites a product's product_vendors rows.                      *)
Disown(p) ==
  /\ "disown" \in Enabled
  /\ p \in owned
  /\ owned' = owned \ {p}
  /\ UNCHANGED <<table, requests, standing, slot, now>>

Tick ==
  /\ now < MaxTime
  /\ now' = now + 1
  /\ UNCHANGED <<table, owned, requests, standing, slot>>

-----------------------------------------------------------------------------
Read(s) ==
  \/ \E G \in SUBSET Ids, e \in Time : PlanGrant(s, G, e)
  \/ \E l \in Ids, p \in Products : PlanAssign(s, l, p)
  \/ \E l \in Ids, b \in BOOLEAN : PlanFlag(s, l, b)
  \/ \E l \in Ids : PlanAsk(s, l)
  \/ \E l \in Ids : PlanApprove(s, l)
  \/ \E l \in Ids : PlanDecline(s, l)
  \/ \E l \in Ids, e \in Time : PlanExtend(s, l, e)
  \/ \E l \in Ids : PlanRevoke(s, l)
  \/ \E e \in Time : PlanLapse(s, e)
  \/ PlanTerminate(s)

Commit(s) ==
  \/ CommitGrant(s)
  \/ \E l \in Ids : CommitAssign(s, l)
  \/ \E l \in Ids : CommitFlag(s, l)
  \/ \E l \in Ids : CommitAsk(s, l)
  \/ \E l \in Ids : CommitApprove(s, l)
  \/ \E l \in Ids : CommitDecline(s, l)
  \/ \E l \in Ids : CommitExtend(s, l)
  \/ \E l \in Ids : CommitRevoke(s, l)
  \/ CommitLapse(s)
  \/ CommitTerminate(s)

Next ==
  \/ \E s \in Slots : Read(s) \/ Commit(s) \/ Abandon(s)
  \/ Suspend \/ Lift
  \/ Reseat \/ SeatBannedProfile \/ LoseSeats
  \/ \E p \in Products : Disown(p)
  \/ Tick

Spec == Init /\ [][Next]_vars

-----------------------------------------------------------------------------
(* Every row, plan and mirror holds values the code writes.                *)
TypeOK ==
  /\ lic      \in Table
  /\ verified \in BOOLEAN
  /\ managed  \subseteq Products
  /\ owned    \subseteq Products
  /\ asks     \in [Ids -> Products \cup {NoProd}]
  /\ asked    \in [Ids -> 0 .. MaxAsks]
  /\ suspended \in BOOLEAN
  /\ seats    \in Seats
  /\ cases    \in 0 .. MaxAsks
  /\ slot     \in [Slots -> Plan]
  /\ now      \in Time

(* A product a live license is on shows no "until" date, and the vendor is *)
(* verified exactly while it holds a live license, whatever the handlers   *)
(* that moved the licenses had read: reconcileManagedMirror asks the       *)
(* database again for each product of the diff.                            *)
MirrorsAgree ==
  /\ verified = (Live(lic) # {})
  /\ \A p \in managed : OnProduct(lic, p) = {}

(* A live license waits to be released only from a product: a flag and the *)
(* approval of a release request that cross leave no flag on a free        *)
(* license, which the next assign would inherit.                           *)
FlagHasProduct ==
  \A l \in Live(lic) : lic[l].release => lic[l].prod # NoProd

(* No license outlives a termination, or arrives after it, while the       *)
(* vendor has seats and all of them are banned: a grant read before the    *)
(* termination does not commit after it.                                   *)
TerminatedHoldsNone == seats = "terminated" => Live(lic) = {}

(* The handlers keep the promise of Register, whatever each had read.  A   *)
(* vendor with seats, all banned, is granted nothing: one that a           *)
(* termination left so holds nothing either, one that only lost its        *)
(* unbanned seats keeps what it has, and one with no seat at all is        *)
(* grantable.  No two live licenses are on one product, and a carry-over   *)
(* moves each product of the ended term to one free license.               *)
Rights == INSTANCE Register WITH
  phase    <- [l \in Ids |-> lic[l].state],
  on       <- [l \in Ids |-> lic[l].prod],
  standing <- CASE seats = "terminated"         -> "closed"
                [] seats = "lapsed"             -> "barred"
                [] seats \in {"none", "active"} -> "open"

KeepsRegister == Rights!RegisterSpec

(* A license that has ended never changes again: not its product, not its  *)
(* reason, not its term, whichever handlers were in flight.                *)
EndedIsFinal ==
  [][\A l \in Ids : lic[l].state = "ended" => lic'[l] = lic[l]]_vars

(* A live license's end date only moves later, and is never taken away: of *)
(* two crossing extends the shorter never overwrites the longer.           *)
TermNeverShrinks ==
  [][\A l \in Live(lic) :
       lic[l].ends # NoEnd => lic'[l].ends \in lic[l].ends .. MaxTime]_vars

(* The daily job ends only licenses whose own term is over when the batch  *)
(* commits, extended meanwhile or not, and calls it a release exactly when *)
(* the owner's flag, as it stands then, asked for one.                     *)
LapseIsDue ==
  [][\A l \in Live(lic) :
       lic'[l].state = "ended" /\ lic'[l].reason \in {"lapsed", "released"}
         => /\ lic[l].ends <= now
            /\ lic'[l].reason = "released"
                 <=> lic[l].release /\ lic[l].prod # NoProd]_vars

(* A live license leaves its product only by the approval of the open      *)
(* request that names that product, and then it is free: nothing moves a   *)
(* license from one product to another.                                    *)
LeavesOnlyByRequest ==
  [][\A l \in Live(lic) :
       lic'[l].state = "live" /\ lic[l].prod \notin {NoProd, lic'[l].prod}
         => lic'[l].prod = NoProd /\ asks[l] = lic[l].prod
                                  /\ asks'[l] = NoProd]_vars

(* The batch that ends a vendor's last live license is one that planned to *)
(* hand its contests to AECi, and no other batch carries that plan out:    *)
(* two ends that each saw the other's license never both go through.       *)
LastEndSweeps ==
  [][(\E l \in Live(lic) : lic'[l].state = "ended")
       => \E s \in Slots :
            /\ slot[s].op # "idle" /\ slot'[s] = Idle
            /\ slot[s].last <=> Live(lic') = {}]_vars

(* When a term ends with too few spare licenses, no product keeps one that *)
(* was assigned later than a product that loses its own.  It is not        *)
(* promised where requests are approved and three licenses are at stake: a *)
(* product taken off and put back on its license between the job's read    *)
(* and its commit passes the guards with the old assigned_at.              *)
LongestAssignedKeep ==
  [][\A k, l \in Live(lic) :
       (/\ lic'[k].reason = "lapsed" /\ lic'[l].reason = "lapsed"
        /\ {lic[k].prod, lic[l].prod} \subseteq owned
        /\ OnProduct(lic', lic[k].prod) # {}
        /\ OnProduct(lic', lic[l].prod) = {})
         => lic[k].at <= lic[l].at]_vars

-----------------------------------------------------------------------------
(* The daily job runs again until it gets through: an eviction or a lost   *)
(* race costs a run, not the term, and a handler that holds a slot does    *)
(* not hold it for ever.                                                   *)
Fairness ==
  /\ WF_vars(Tick)
  /\ \A s \in Slots : WF_vars(Commit(s) \/ Abandon(s))
  /\ \A e \in Time : SF_vars(\E s \in Slots : PlanLapse(s, e))
  /\ SF_vars(\E s \in Slots : CommitLapse(s))

FairSpec == Spec /\ Fairness

(* A term that is over ends, or is extended past now, however many other   *)
(* handlers cross the job.                                                 *)
DueTermEnds ==
  \A l \in Ids :
    (lic[l].state = "live" /\ lic[l].ends <= now)
      ~> (lic[l].state = "ended" \/ lic[l].ends > now)

(* docs/STAGE_2_PAID_TIERS_SPEC.md:867 "a mirror cannot move without its   *)
(* license", and the drift check of lib/data-quality.ts: a product that    *)
(* an ended license still names and no live one holds shows its date.      *)
PlanEndMirror ==
  \A p \in Products :
    (\E l \in Ids : lic[l].state = "ended" /\ lic[l].prod = p)
      => OnProduct(lic, p) # {} \/ p \in managed
=============================================================================
