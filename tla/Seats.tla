------------------------------- MODULE Seats --------------------------------
(***************************************************************************)
(* Who holds a seat on one vendor: claims, invites, and what AECi does.    *)
(*                                                                         *)
(*   lib/vendor-grant.ts, lib/vendor-seat-invites.ts      the batches      *)
(*   routes/requests.ts, lib/claim-owner-fallback.ts      claims           *)
(*   routes/admin-claims.ts, routes/vendor-seat-claims.ts their decisions  *)
(*   routes/vendor-seat-invites.ts, routes/seat-invites.ts invites         *)
(*   routes/admin-vendors.ts, lib/vendor-termination.ts   AECi             *)
(*                                                                         *)
(* A handler reads, plans, and commits one batch; a desk is a handler in   *)
(* flight.  A person stands for an account and its address.  Suspensions,  *)
(* which only refuse, the daily cap and the resends' count are left out,   *)
(* and an undecided claim is open.                                         *)
(***************************************************************************)
EXTENDS FiniteSets, Naturals

CONSTANTS
  People, Claims, Invites,
  Desks,        \* handlers in flight at once
  NoOne, NoClaim, NoInvite,
  MaxBegun      \* bound: handlers begun

ASSUME SeatConstants ==
  /\ NoOne \notin People /\ NoClaim \notin Claims /\ NoInvite \notin Invites
  /\ MaxBegun \in Nat

VARIABLES
  seat,         \* profiles: here, on another vendor (away) or none
  claim,        \* vendor_requests
  invite,       \* vendor_seat_invites
  desk,         \* the handlers, each with what it read
  begun,
  gave,         \* ghost: what a claim's decision gave its claimant
  uses,         \* ghost: seats an invite made
  sealed        \* ghost: invites live when the vendor was closed

seatsVars == <<seat, claim, invite, desk, begun, gave, uses, sealed>>
ghosts    == <<gave, uses, sealed>>

NoSeat == [at |-> "none", owner |-> FALSE, banned |-> FALSE]
NoTask   == [act |-> "idle", who |-> NoOne, claim |-> NoClaim, invite |-> NoInvite,
           bit |-> FALSE, seats |-> {}, ids |-> {}]

SeatsInit ==
  /\ seat \in [People -> {NoSeat, [NoSeat EXCEPT !.at = "here", !.owner = TRUE]}]
  /\ claim  = [c \in Claims |-> [by |-> NoOne, status |-> "unfiled", routed |-> FALSE]]
  /\ invite = [i \in Invites |-> [to |-> NoOne, state |-> "unsent"]]
  /\ desk   = [d \in Desks |-> NoTask]
  /\ begun  = 0
  /\ gave   = [c \in Claims |-> {}]
  /\ uses   = [i \in Invites |-> 0]
  /\ sealed = {}

-----------------------------------------------------------------------------
Holders == {p \in People : seat[p].at = "here"}
Active  == {p \in Holders : ~seat[p].banned}

(* unbannedOwnerSeatsOf, and who passes requireSeatOwner                   *)
Owners == {p \in Active : seat[p].owner}

(* An invite past its fourteen days is lapsed, and still unspent.          *)
Live    == {i \in Invites : invite[i].state = "live"}
Unspent == {i \in Invites : invite[i].state \in {"live", "lapsed"}}

Undecided(c) == claim[c].status = "open"
Routed(c)    == Undecided(c) /\ claim[c].routed

-----------------------------------------------------------------------------
(* The reads.                                                              *)

Begin(d, h) ==
  /\ desk[d] = NoTask /\ begun < MaxBegun
  /\ desk'  = [desk EXCEPT ![d] = h]
  /\ begun' = begun + 1
  /\ UNCHANGED <<seat, claim, invite, ghosts>>

(* A claimant seated elsewhere is rejected at once, if the lookup worked;  *)
(* the bit says whether it goes to the owners.                             *)
PlanSubmit(d, p) ==
  \/ Begin(d, [NoTask EXCEPT !.act = "submit", !.who = p, !.bit = Owners # {}])
  \/ /\ seat[p].at = "away"
     /\ Begin(d, [NoTask EXCEPT !.act = "turn away", !.who = p])

PlanGrant(d, c) ==
  /\ Undecided(c) /\ seat[claim[c].by].at # "away"
  /\ Begin(d, [NoTask EXCEPT !.act = "grant", !.who = claim[c].by, !.claim = c])

PlanReject(d, c) ==
  /\ Undecided(c)
  /\ Begin(d, [NoTask EXCEPT !.act = "reject", !.claim = c])

(* An owner's accept reuses a live invite to the address; a claimant       *)
(* seated elsewhere by now is declined by the system.                      *)
PlanAccept(d, c) ==
  /\ Owners # {} /\ Routed(c)
  /\ LET p   == claim[c].by
         old == {i \in Live : invite[i].to = p}
     IN  IF seat[p].at = "away"
         THEN Begin(d, [NoTask EXCEPT !.act = "decline", !.claim = c])
         ELSE \E i \in IF old = {} THEN {NoInvite} ELSE old :
                Begin(d, [NoTask EXCEPT !.act = "accept", !.who = p, !.claim = c,
                                      !.invite = i])

PlanDecline(d, c) ==
  /\ Owners # {} /\ Routed(c)
  /\ Begin(d, [NoTask EXCEPT !.act = "decline", !.claim = c])

PlanInvite(d, p) ==
  /\ Owners # {}
  /\ \A i \in Live : invite[i].to # p
  /\ Begin(d, [NoTask EXCEPT !.act = "invite", !.who = p])

PlanResend(d, i) ==
  /\ Owners # {} /\ i \in Live
  /\ Begin(d, [NoTask EXCEPT !.act = "resend", !.invite = i])

(* The bit is the owner bit the profile had.                               *)
PlanRedeem(d, i) ==
  LET p == invite[i].to
  IN  /\ i \in Live
      /\ seat[p].at # "away" /\ ~seat[p].banned
      /\ Begin(d, [NoTask EXCEPT !.act = "redeem", !.who = p, !.invite = i,
                               !.bit = seat[p].owner])

(* By another owner, so the count of owners it also reads is above one.    *)
PlanRemove(d, p) ==
  /\ Owners \ {p} # {} /\ p \in Holders
  /\ Begin(d, [NoTask EXCEPT !.act = "remove", !.who = p])

PlanProvision(d, p) ==
  /\ seat[p].at # "away" /\ ~(p \in Holders /\ seat[p].owner)
  /\ Begin(d, [NoTask EXCEPT !.act = "provision", !.who = p])

(* A grant or an invite of another vendor.                                 *)
PlanElsewhere(d, p) ==
  /\ p \notin Holders
  /\ Begin(d, [NoTask EXCEPT !.act = "elsewhere", !.who = p])

(* A termination, and the return of a vendor without a seat to AECi: both  *)
(* close the vendor.                                                       *)
PlanTerminate(d) ==
  Begin(d, [NoTask EXCEPT !.act = "terminate", !.seats = Active, !.ids = Live])

PlanReturn(d) ==
  /\ Holders = {}
  /\ Begin(d, [NoTask EXCEPT !.act = "return", !.ids = Live])

PlansAct(d) ==
  \/ \E p \in People : PlanSubmit(d, p) \/ PlanInvite(d, p) \/ PlanRemove(d, p)
                         \/ PlanProvision(d, p) \/ PlanElsewhere(d, p)
  \/ \E c \in Claims : PlanGrant(d, c) \/ PlanReject(d, c) \/ PlanAccept(d, c)
                         \/ PlanDecline(d, c)
  \/ \E i \in Invites : PlanResend(d, i) \/ PlanRedeem(d, i)
  \/ PlanTerminate(d) \/ PlanReturn(d)

-----------------------------------------------------------------------------
(* The batches.                                                            *)

Done(d, act) ==
  /\ desk[d].act = act
  /\ desk' = [desk EXCEPT ![d] = NoTask]
  /\ UNCHANGED begun

Sent(p, i) ==
  /\ invite[i].state = "unsent"
  /\ invite' = [invite EXCEPT ![i] = [to |-> p, state |-> "live"]]

CommitSubmit(d, c) ==
  /\ claim[c].status = "unfiled"
  /\ \/ /\ Done(d, "submit")
        /\ claim' = [claim EXCEPT ![c] =
             [by |-> desk[d].who, status |-> "open", routed |-> desk[d].bit]]
     \/ /\ Done(d, "turn away")
        /\ claim' = [claim EXCEPT ![c] =
             [by |-> desk[d].who, status |-> "rejected", routed |-> FALSE]]
  /\ UNCHANGED <<seat, invite, ghosts>>

(* The decision's own UPDATE, which only moves an undecided claim.         *)
Decided(c, status) ==
  claim' = [claim EXCEPT ![c].status = IF @ = "open" THEN status ELSE @]

(* A plausible bug: every reviewed claimant is an owner.                   *)
FirstOwnerAlways == TRUE

(* firstOwnerSql, asked at the commit.                                     *)
FirstOwner == Owners = {}

(* A plausible bug: no sentinel, and only the UPDATE is guarded.           *)
CommitGrantUnguarded(d) ==
  LET p == desk[d].who
      c == desk[d].claim
  IN  /\ Done(d, "grant")
      /\ Decided(c, "resolved")
      /\ seat' = [seat EXCEPT ![p].at = "here",
                    ![p].owner = FirstOwner \/ (p \in Holders /\ seat[p].owner)]
      /\ gave' = [gave EXCEPT ![c] = @ \cup {"seat"}]
      /\ UNCHANGED <<invite, uses, sealed>>

(* AECi approves.  claimUndecidedSentinel first, then the seat: the first  *)
(* owner, an owner already, or a member.                                   *)
CommitGrant(d) ==
  LET p == desk[d].who
      c == desk[d].claim
  IN  /\ Done(d, "grant")
      /\ Undecided(c)
      /\ Decided(c, "resolved")
      /\ seat' = [seat EXCEPT ![p].at = "here",
                    ![p].owner = FirstOwner \/ (p \in Holders /\ seat[p].owner)]
      /\ gave' = [gave EXCEPT ![c] = @ \cup {"seat"}]
      /\ UNCHANGED <<invite, uses, sealed>>

CommitReject(d) ==
  LET c == desk[d].claim
  IN  /\ \/ Done(d, "reject") /\ Undecided(c)
         \/ Done(d, "decline") /\ Routed(c)
      /\ Decided(c, "rejected")
      /\ UNCHANGED <<seat, invite, ghosts>>

(* The sentinel, the decision, and the invite unless one was reused.       *)
CommitAccept(d) ==
  LET c == desk[d].claim
  IN  /\ Done(d, "accept")
      /\ Routed(c)
      /\ Decided(c, "resolved")
      /\ IF desk[d].invite = NoInvite THEN \E i \in Invites : Sent(desk[d].who, i)
                                      ELSE UNCHANGED invite
      /\ gave' = [gave EXCEPT ![c] = @ \cup {"invite"}]
      /\ UNCHANGED <<seat, uses, sealed>>

CommitInvite(d) ==
  /\ Done(d, "invite")
  /\ \E i \in Invites : Sent(desk[d].who, i)
  /\ UNCHANGED <<seat, claim, ghosts>>

(* A guarded UPDATE, and no sentinel.                                      *)
CommitResend(d) ==
  LET i == desk[d].invite
  IN  /\ Done(d, "resend")
      /\ invite' = [invite EXCEPT ![i].state = IF i \in Unspent THEN "live" ELSE @]
      /\ UNCHANGED <<seat, claim, ghosts>>

(* A plausible bug: a spent invite does not abort the batch.               *)
CommitRedeemSpent(d) ==
  LET i == desk[d].invite
      p == desk[d].who
  IN  /\ Done(d, "redeem")
      /\ invite' = [invite EXCEPT ![i].state = IF i \in Unspent THEN "accepted" ELSE @]
      /\ seat'   = [seat EXCEPT ![p].at = "here", ![p].owner = desk[d].bit]
      /\ uses'   = [uses EXCEPT ![i] = @ + 1]
      /\ UNCHANGED <<claim, gave, sealed>>

(* The invite is spent first; inviteSpentSentinel.                         *)
CommitRedeem(d) ==
  LET i == desk[d].invite
      p == desk[d].who
  IN  /\ Done(d, "redeem")
      /\ i \in Unspent
      /\ invite' = [invite EXCEPT ![i].state = "accepted"]
      /\ seat'   = [seat EXCEPT ![p].at = "here", ![p].owner = desk[d].bit]
      /\ uses'   = [uses EXCEPT ![i] = @ + 1]
      /\ UNCHANGED <<claim, gave, sealed>>

(* A plausible bug: the owner bit stays on a row that is no seat.          *)
UnseatedKeepsOwner(p) == [seat EXCEPT ![p].at = "none"]

(* revokeSeatStatements                                                    *)
Unseated(p) ==
  [seat EXCEPT ![p] = IF @.at = "here" THEN [@ EXCEPT !.at = "none", !.owner = FALSE]
                      ELSE @]

CommitRemove(d) ==
  /\ Done(d, "remove")
  /\ seat' = Unseated(desk[d].who)
  /\ UNCHANGED <<claim, invite, ghosts>>

CommitProvision(d) ==
  /\ Done(d, "provision")
  /\ seat' = [seat EXCEPT ![desk[d].who].at = "here", ![desk[d].who].owner = TRUE]
  /\ UNCHANGED <<claim, invite, ghosts>>

CommitElsewhere(d) ==
  /\ Done(d, "elsewhere")
  /\ seat' = [seat EXCEPT ![desk[d].who].at = "away", ![desk[d].who].owner = FALSE]
  /\ UNCHANGED <<claim, invite, ghosts>>

(* A plausible bug: nothing looks for invites made since the read.         *)
NoInviteLeftUnasked(ids) == TRUE

(* pendingInviteRaceSentinel, after the invites read were revoked.         *)
NoInviteLeft(ids) == Live \subseteq ids

Closed(ids) ==
  /\ NoInviteLeft(ids)
  /\ invite' = [i \in Invites |-> IF i \in ids \cap Unspent
                                  THEN [invite[i] EXCEPT !.state = "revoked"] ELSE invite[i]]
  /\ sealed' = sealed \cup Live
  /\ UNCHANGED <<claim, gave, uses>>

(* The seats read are banned, by profile; noUnbannedSeatLeftSentinel.      *)
CommitTerminate(d) ==
  LET h == desk[d]
  IN  /\ Done(d, "terminate")
      /\ Active \subseteq h.seats
      /\ seat' = [p \in People |-> IF p \in h.seats THEN [seat[p] EXCEPT !.banned = TRUE]
                                   ELSE seat[p]]
      /\ Closed(h.ids)

CommitReturn(d) ==
  /\ Done(d, "return")
  /\ Holders = {}
  /\ Closed(desk[d].ids)
  /\ UNCHANGED seat

CommitsAct(d) ==
  \/ \E c \in Claims : CommitSubmit(d, c)
  \/ CommitGrant(d) \/ CommitReject(d) \/ CommitAccept(d) \/ CommitInvite(d)
  \/ CommitResend(d) \/ CommitRedeem(d) \/ CommitRemove(d) \/ CommitProvision(d)
  \/ CommitElsewhere(d) \/ CommitTerminate(d) \/ CommitReturn(d)

(* A sentinel aborts, or the worker ends: nothing was written.             *)
GivesUp(d) ==
  /\ desk[d] # NoTask
  /\ desk' = [desk EXCEPT ![d] = NoTask]
  /\ UNCHANGED <<seat, claim, invite, begun, ghosts>>

-----------------------------------------------------------------------------
(* Acts whose one guarded statement, or sentinels, make them one step.     *)

(* Seven days with the owners, and the claim is AECi's.                    *)
FallBack(c) ==
  /\ Routed(c)
  /\ claim' = [claim EXCEPT ![c].routed = FALSE]
  /\ UNCHANGED <<seat, invite, desk, begun, ghosts>>

RevokeInvite(i) ==
  /\ Owners # {} /\ i \in Unspent
  /\ invite' = [invite EXCEPT ![i].state = "revoked"]
  /\ UNCHANGED <<seat, claim, desk, begun, ghosts>>

Lapse(i) ==
  /\ i \in Live
  /\ invite' = [invite EXCEPT ![i].state = "lapsed"]
  /\ UNCHANGED <<seat, claim, desk, begun, ghosts>>

(* AECi's revoke, or the account deletes itself.                           *)
RevokeSeat(p) ==
  /\ p \in Holders
  /\ seat' = Unseated(p)
  /\ UNCHANGED <<claim, invite, desk, begun, ghosts>>

(* Never the last unbanned seat.                                           *)
Ban(p) ==
  /\ p \in Active /\ Active # {p}
  /\ seat' = [seat EXCEPT ![p].banned = TRUE]
  /\ UNCHANGED <<claim, invite, desk, begun, ghosts>>

Unban(p) ==
  /\ seat[p].banned
  /\ seat' = [seat EXCEPT ![p].banned = FALSE]
  /\ UNCHANGED <<claim, invite, desk, begun, ghosts>>

LeavesElsewhere(p) ==
  /\ seat[p].at = "away"
  /\ seat' = [seat EXCEPT ![p].at = "none"]
  /\ UNCHANGED <<claim, invite, desk, begun, ghosts>>

SeatsNext ==
  \/ \E d \in Desks : PlansAct(d) \/ CommitsAct(d) \/ GivesUp(d)
  \/ \E c \in Claims : FallBack(c)
  \/ \E i \in Invites : RevokeInvite(i) \/ Lapse(i)
  \/ \E p \in People : RevokeSeat(p) \/ Ban(p) \/ Unban(p) \/ LeavesElsewhere(p)

SeatsSpec == SeatsInit /\ [][SeatsNext]_seatsVars

-----------------------------------------------------------------------------
Handler ==
  [act : {"idle", "submit", "turn away", "grant", "reject", "accept", "decline",
          "invite", "resend", "redeem", "remove", "provision", "elsewhere",
          "terminate", "return"},
   who : People \cup {NoOne}, claim : Claims \cup {NoClaim},
   invite : Invites \cup {NoInvite}, bit : BOOLEAN,
   seats : SUBSET People, ids : SUBSET Invites]

(* Every variable holds values the code writes; no row that is not a seat  *)
(* here has the owner bit, or its next grant would bring it back.          *)
SeatsTypeOK ==
  /\ seat \in [People -> [at : {"none", "here", "away"}, owner : BOOLEAN,
                          banned : BOOLEAN]]
  /\ \A p \in People : seat[p].owner => p \in Holders
  /\ claim \in [Claims -> [by : People \cup {NoOne}, routed : BOOLEAN,
                           status : {"unfiled", "open", "resolved", "rejected"}]]
  /\ \A c \in Claims : claim[c].by = NoOne <=> claim[c].status = "unfiled"
  /\ invite \in [Invites -> [to : People \cup {NoOne},
                 state : {"unsent", "live", "lapsed", "accepted", "revoked"}]]
  /\ \A i \in Invites : invite[i].to = NoOne <=> invite[i].state = "unsent"
  /\ desk \in [Desks -> Handler]
  /\ begun \in 0 .. MaxBegun
  /\ gave \in [Claims -> SUBSET {"seat", "invite"}]
  /\ uses \in [Invites -> Nat]
  /\ sealed \subseteq Invites

(* However AECi, two owners and the fallback cross, a claim is decided     *)
(* once: resolved, it gave a seat or an invite and not both; rejected or   *)
(* open, it gave nothing.                                                  *)
VerdictHolds ==
  \A c \in Claims :
    /\ gave[c] # {} <=> claim[c].status = "resolved"
    /\ gave[c] # {"seat", "invite"}

(* An invite makes one seat at most, and none once it was revoked, though  *)
(* the redeem read it before.                                              *)
InviteSpentOnce ==
  \A i \in Invites : uses[i] = IF invite[i].state = "accepted" THEN 1 ELSE 0

(* An invite that was live when the vendor was terminated, or returned to  *)
(* AECi, makes no seat afterwards: whatever crossed that commit, a create, *)
(* a resend, a redeem or an owner's accept.                                *)
SealedStaysShut ==
  [][\A i \in sealed : uses'[i] = uses[i]]_seatsVars

(* The reviewed claimant who comes second is a member: where there is an   *)
(* unbanned owner, a grant makes no other, however many grants were        *)
(* planned while there was none.                                           *)
GrantsOneOwner ==
  [][\A d \in Desks :
       CommitGrant(d) /\ Owners # {} => Owners' \subseteq Owners]_seatsVars
=============================================================================
