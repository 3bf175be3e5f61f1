------------------------------ MODULE Contests ------------------------------
(***************************************************************************)
(* Who decides the open contests on one vendor's claimed integrations: the *)
(* owner, or AECi.  A contest on a connector-powered row is the owner's    *)
(* only while the owner has an unbanned seat and a live license; on any    *)
(* other row the seat is enough.  Submits, decisions, license ends, seat   *)
(* losses and seat returns each read, plan and commit one db.batch, and    *)
(* other handlers commit in between (the slots, as in Licenses).           *)
(*                                                                         *)
(* License ends other than the last, and what becomes of the licenses, are *)
(* in Licenses; here a license is only live or not.  The rows stay claimed *)
(* by this vendor, and no contest is on the owner or mechanism_kind field: *)
(* those route to AECi whatever happens.  A guarded single UPDATE without  *)
(* a decision read before it has no plan.                                  *)
(***************************************************************************)
EXTENDS Integers, FiniteSets

CONSTANTS
  Filed,      \* contests that may ever be submitted
  Powered,    \* those on a connector-powered row
  Licenses,   \* licenses the owner may ever be granted
  Seats,      \* the owner's vendor_admin profiles
  Slots,      \* handlers in flight at once
  Enabled,    \* operations a run explores
  MaxTime     \* bound: the clock stops here

Ops == {"submit", "decide", "answer", "end", "loss", "return"}

ASSUME ContestConstants ==
  /\ IsFiniteSet(Filed) /\ Powered \subseteq Filed
  /\ MaxTime \in Nat
  /\ Enabled \subseteq Ops

VARIABLES
  contest,    \* integration_field_challenges
  live,       \* the owner's live licenses
  spent,      \* licenses granted so far
  seats,      \* the owner's unbanned seats
  slot,       \* each handler's plan
  now,
  collided    \* history: a sweep's guard passed though its set had changed

vars == <<contest, live, spent, seats, slot, now, collided>>
owner == <<live, spent, seats>>

Time == 0 .. MaxTime

Row == [status : {"absent", "open", "withdrawn", "decided"},
        routed : {"owner", "aeci"}, stamped : BOOLEAN, at : Time]

(* What the owner may decide, and what a seat event may send back.         *)
OwnerRouted(t) == {c \in Filed : t[c].status = "open" /\ t[c].routed = "owner"}
SeatStamped(t) == {c \in Filed : t[c].status = "open" /\ t[c].routed = "aeci"
                                                      /\ t[c].stamped}

Newest(t, S) == {t[c].at : c \in {d \in S : \A e \in S : t[e].at <= t[d].at}}

(* The count and the newest updated_at of both sets.                       *)
Fingerprint(t) ==
  [routed  |-> Cardinality(OwnerRouted(t)),
   newest  |-> Newest(t, OwnerRouted(t)),
   stamped |-> Cardinality(SeatStamped(t)),
   stamp   |-> Newest(t, SeatStamped(t))]

Mark == [routed : Nat, newest : SUBSET Time, stamped : Nat, stamp : SUBSET Time]

(* targets: what the plan acts on.  toOwner, toAeci, unstamp: its UPDATEs. *)
Plan == [op : Ops \cup {"idle"}, targets : SUBSET (Filed \cup Licenses \cup Seats),
         route : {"owner", "aeci"}, stamp : BOOLEAN, last : BOOLEAN, at : Time,
         toOwner : SUBSET Filed, toAeci : SUBSET Filed, unstamp : SUBSET Filed,
         mark : Mark, read : SUBSET Filed]

NoMark == [routed |-> 0, newest |-> {}, stamped |-> 0, stamp |-> {}]

Idle == [op |-> "idle", targets |-> {}, route |-> "aeci", stamp |-> FALSE,
         last |-> FALSE, at |-> 0, toOwner |-> {}, toAeci |-> {},
         unstamp |-> {}, mark |-> NoMark, read |-> {}]

Init ==
  /\ contest  = [c \in Filed |-> [status |-> "absent", routed |-> "aeci",
                                  stamped |-> FALSE, at |-> 0]]
  /\ live     = {}
  /\ spent    = {}
  /\ seats    = Seats
  /\ slot     = [s \in Slots |-> Idle]
  /\ now      = 0
  /\ collided = FALSE

-----------------------------------------------------------------------------
(* Reads.                                                                  *)

Begin(s, plan) ==
  /\ slot[s].op = "idle"
  /\ plan.op \in Enabled
  /\ slot' = [slot EXCEPT ![s] = [plan EXCEPT !.at = now]]
  /\ UNCHANGED <<contest, owner, now, collided>>

(* routeContest: an owner of a connector-powered row needs a license.      *)
MayDecide(c) == c \in Powered => live # {}

(* An owner without a seat cannot answer: AECi's, stamped to come back.    *)
PlanSubmit(s, c) ==
  /\ contest[c].status = "absent"
  /\ Begin(s, [Idle EXCEPT !.op = "submit", !.targets = {c},
                 !.route = IF MayDecide(c) /\ seats # {} THEN "owner" ELSE "aeci",
                 !.stamp = MayDecide(c) /\ seats = {}])

(* The owner's decision.                                                   *)
PlanDecide(s, c) ==
  /\ seats # {}
  /\ c \in OwnerRouted(contest)
  /\ MayDecide(c)
  /\ Begin(s, [Idle EXCEPT !.op = "decide", !.targets = {c}])

(* AECi's decision.                                                        *)
PlanAnswer(s, c) ==
  /\ contest[c].status = "open" /\ contest[c].routed = "aeci"
  /\ Begin(s, [Idle EXCEPT !.op = "answer", !.targets = {c}])

(* A revoke or the daily job.  When no other license is live, the plan     *)
(* sweeps the owner's contests on connector-powered rows.                  *)
PlanEnd(s, l) ==
  LET last == live \subseteq {l}
  IN  /\ l \in live
      /\ Begin(s, [Idle EXCEPT !.op = "end", !.targets = {l}, !.last = last,
           !.toAeci  = IF last THEN OwnerRouted(contest) \cap Powered ELSE {},
           !.unstamp = IF last THEN SeatStamped(contest) \cap Powered ELSE {},
           !.mark    = IF last THEN Fingerprint(contest) ELSE NoMark,
           !.read    = OwnerRouted(contest)])

(* A seat revoked, erased or banned; losing the last unbanned one lapses.  *)
PlanLoss(s, seat) ==
  LET last == seats \subseteq {seat}
  IN  /\ seat \in seats
      /\ Begin(s, [Idle EXCEPT !.op = "loss", !.targets = {seat}, !.last = last,
           !.toAeci = IF last THEN OwnerRouted(contest) ELSE {}])

(* A seat granted or unbanned: the stamped contests go back to the owner,  *)
(* or lose the stamp where the owner may not decide them.                  *)
PlanReturn(s, seat) ==
  LET back == {c \in SeatStamped(contest) : MayDecide(c)}
  IN  /\ seat \notin seats
      /\ Begin(s, [Idle EXCEPT !.op = "return", !.targets = {seat},
           !.toOwner = back, !.unstamp = SeatStamped(contest) \ back])

-----------------------------------------------------------------------------
(* Commits.                                                                *)

Finish(s) == slot' = [slot EXCEPT ![s] = Idle]

(* A plausible bug: dated by the write's own clock read, rounded up.       *)
ReroutedAhead(t, S, to, stamp, at) ==
  [c \in Filed |-> IF c \in S
                   THEN [t[c] EXCEPT !.routed = to, !.stamped = stamp, !.at = at + 1]
                   ELSE t[c]]

(* One guarded UPDATE per contest.                                         *)
Rerouted(t, S, to, stamp, at) ==
  [c \in Filed |-> IF c \in S
                   THEN [t[c] EXCEPT !.routed = to, !.stamped = stamp, !.at = at]
                   ELSE t[c]]

(* clearSeatStamp                                                          *)
Unstamped(t, S, at) ==
  [c \in Filed |-> IF c \in S THEN [t[c] EXCEPT !.stamped = FALSE, !.at = at]
                   ELSE t[c]]

(* A plausible bug: the submit trusts the license it read.                 *)
LicensedAsRead(S) == TRUE

(* ownerEntitlementActiveSentinel, when a connector-powered row is the     *)
(* owner's after the batch.                                                *)
Licensed(S) == S \cap Powered # {} => live # {}

CommitSubmit(s, c) ==
  LET plan == slot[s]
  IN  /\ plan.op = "submit" /\ c \in plan.targets
      /\ contest[c].status = "absent"
      /\ plan.route = "owner" => Licensed({c})
      /\ contest' = [contest EXCEPT
                       ![c] = [status |-> "open", routed |-> plan.route,
                               stamped |-> plan.stamp, at |-> plan.at]]
      /\ Finish(s)
      /\ UNCHANGED <<owner, now, collided>>

(* A plausible bug: the WHERE names status alone, as AECi's decision does. *)
StillOwnersIfOpen(c) == contest[c].status = "open"

(* The guarded UPDATE repeats receivedContestsWhere.                       *)
StillOwners(c) == c \in OwnerRouted(contest)

CommitDecide(s, c) ==
  LET plan == slot[s]
  IN  /\ plan.op = "decide" /\ c \in plan.targets
      /\ StillOwners(c)
      /\ contest' = [contest EXCEPT ![c].status = "decided", ![c].at = plan.at]
      /\ Finish(s)
      /\ UNCHANGED <<owner, now, collided>>

(* Guarded on status alone.                                                *)
CommitAnswer(s, c) ==
  LET plan == slot[s]
  IN  /\ plan.op = "answer" /\ c \in plan.targets
      /\ contest[c].status = "open"
      /\ contest' = [contest EXCEPT ![c].status = "decided", ![c].at = plan.at]
      /\ Finish(s)
      /\ UNCHANGED <<owner, now, collided>>

(* noLiveLicenseSentinel, or liveLicenseRemainsSentinel.                   *)
SweepGuard(plan, left) == plan.last <=> left = {}

(* The re-route's WHERE skips what moved meanwhile; each stamp it clears   *)
(* must still be there.                                                    *)
CommitEnd(s, l) ==
  LET plan == slot[s]
      left == live \ {l}
  IN  /\ plan.op = "end" /\ l \in plan.targets
      /\ l \in live
      /\ SweepGuard(plan, left)
      /\ plan.last => Fingerprint(contest) = plan.mark
      /\ plan.unstamp \subseteq SeatStamped(contest)
      /\ contest' = Unstamped(Rerouted(contest,
                                       plan.toAeci \cap OwnerRouted(contest),
                                       "aeci", FALSE, plan.at),
                              plan.unstamp, plan.at)
      /\ live' = left
      /\ collided' = (collided \/ (plan.last /\ plan.read # OwnerRouted(contest)))
      /\ Finish(s)
      /\ UNCHANGED <<spent, seats, now>>

(* seatRaceSentinels: the seat is still there, and what remains is what    *)
(* the plan read.  A contest that moved meanwhile is skipped.              *)
CommitLoss(s, seat) ==
  LET plan == slot[s]
  IN  /\ plan.op = "loss" /\ seat \in plan.targets
      /\ seat \in seats
      /\ plan.last <=> seats \ {seat} = {}
      /\ contest' = Rerouted(contest, plan.toAeci \cap OwnerRouted(contest),
                             "aeci", TRUE, plan.at)
      /\ seats' = seats \ {seat}
      /\ Finish(s)
      /\ UNCHANGED <<live, spent, now, collided>>

(* A plausible bug: the return's WHERE forgets the stamp.                  *)
StillStampedIfAeci(S) ==
  \A c \in S : contest[c].status = "open" /\ contest[c].routed = "aeci"

(* contestRowChangedSentinel after each guarded UPDATE.                    *)
StillStamped(S) == S \subseteq SeatStamped(contest)

CommitReturn(s, seat) ==
  LET plan == slot[s]
  IN  /\ plan.op = "return" /\ seat \in plan.targets
      /\ seat \notin seats
      /\ StillStamped(plan.toOwner \cup plan.unstamp)
      /\ Licensed(plan.toOwner)
      /\ contest' = Unstamped(Rerouted(contest, plan.toOwner, "owner", FALSE,
                                       plan.at),
                              plan.unstamp, plan.at)
      /\ seats' = seats \cup {seat}
      /\ Finish(s)
      /\ UNCHANGED <<live, spent, now, collided>>

(* A sentinel refuses the batch, or the worker is evicted.  A retry reads  *)
(* afresh, so it is a new plan.                                            *)
Abandon(s) ==
  /\ slot[s].op # "idle"
  /\ Finish(s)
  /\ UNCHANGED <<contest, owner, now, collided>>

-----------------------------------------------------------------------------
Withdraw(c) ==
  /\ contest[c].status = "open"
  /\ contest' = [contest EXCEPT ![c].status = "withdrawn", ![c].at = now]
  /\ UNCHANGED <<owner, slot, now, collided>>

(* A vendor without a seat may be granted a license too.                   *)
Grant(l) ==
  /\ l \notin spent
  /\ live'  = live \cup {l}
  /\ spent' = spent \cup {l}
  /\ UNCHANGED <<contest, seats, slot, now, collided>>

Tick ==
  /\ now < MaxTime
  /\ now' = now + 1
  /\ UNCHANGED <<contest, owner, slot, collided>>

Read(s) ==
  \/ \E c \in Filed : PlanSubmit(s, c) \/ PlanDecide(s, c) \/ PlanAnswer(s, c)
  \/ \E l \in Licenses : PlanEnd(s, l)
  \/ \E seat \in Seats : PlanLoss(s, seat) \/ PlanReturn(s, seat)

Commit(s) ==
  \/ \E c \in Filed : CommitSubmit(s, c) \/ CommitDecide(s, c) \/ CommitAnswer(s, c)
  \/ \E l \in Licenses : CommitEnd(s, l)
  \/ \E seat \in Seats : CommitLoss(s, seat) \/ CommitReturn(s, seat)

Next ==
  \/ \E s \in Slots : Read(s) \/ Commit(s) \/ Abandon(s)
  \/ \E c \in Filed : Withdraw(c)
  \/ \E l \in Licenses : Grant(l)
  \/ Tick

Spec == Init /\ [][Next]_vars

-----------------------------------------------------------------------------
(* Every contest, plan and seat holds values the code writes.              *)
TypeOK ==
  /\ contest  \in [Filed -> Row]
  /\ live     \subseteq Licenses
  /\ spent    \subseteq Licenses
  /\ seats    \subseteq Seats
  /\ slot     \in [Slots -> Plan]
  /\ now      \in Time
  /\ collided \in BOOLEAN

(* Contests only the owner may decide, and that the owner may not.         *)
Stranded == {c \in OwnerRouted(contest) \cap Powered : live = {}}

(* Ruling B with the submit's and the return's halves of it: no contest is *)
(* stranded by any crossing of submits, grants, license ends and seat      *)
(* events, unless a sweep's fingerprint took a changed set for the one it  *)
(* had read.                                                               *)
StrandedByCollisionOnly == Stranded # {} => collided

(* A decision the owner read under a license never commits once the        *)
(* license ended and the sweep took the contest away.                      *)
OwnerDecidesLicensed ==
  [][\A s \in Slots, c \in Powered :
       (slot[s].op = "decide" /\ slot'[s] = Idle /\ contest'[c] # contest[c])
         => live # {} \/ collided]_vars

(* Once AECi has a contest for good (routed to it, no stamp), no seat      *)
(* event that was planned before sends it back to the owner.               *)
AeciForGood ==
  [][\A c \in Filed :
       (contest[c].status = "open" /\ contest[c].routed = "aeci"
          /\ ~contest[c].stamped)
         => contest'[c].routed = "aeci" /\ ~contest'[c].stamped]_vars

(* docs/STAGE_2_VENDOR_PORTAL_SPEC.md:3399 "An owner with no active seat    *)
(* gets no owner-routed contest".                                          *)
SeatlessOwnerHasNone == seats = {} => OwnerRouted(contest) = {}
=============================================================================
