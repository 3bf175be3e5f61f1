---------------------------- MODULE SeatsProofs -----------------------------
(***************************************************************************)
(* Proofs about Seats, for any people, claims, invites and handlers in     *)
(* flight.  The invariant is one part per table, with what a handler in    *)
(* flight names, and that what was sealed is revoked: each action is then  *)
(* checked against the parts it writes.                                    *)
(***************************************************************************)
EXTENDS Seats, TLAPS

SeatRow == [at : {"none", "here", "away"}, owner : BOOLEAN, banned : BOOLEAN]

SeatPart ==
  /\ seat \in [People -> SeatRow]
  /\ \A p \in People : seat[p].owner => seat[p].at = "here"

ClaimRow == [by : People \cup {NoOne}, routed : BOOLEAN,
             status : {"unfiled", "open", "resolved", "rejected"}]

ClaimPart ==
  /\ claim \in [Claims -> ClaimRow]
  /\ gave \in [Claims -> SUBSET {"seat", "invite"}]
  /\ \A c \in Claims : claim[c].by = NoOne <=> claim[c].status = "unfiled"
  /\ VerdictHolds

InviteRow == [to : People \cup {NoOne},
              state : {"unsent", "live", "lapsed", "accepted", "revoked"}]

InvitePart ==
  /\ invite \in [Invites -> InviteRow]
  /\ uses \in [Invites -> Nat]
  /\ sealed \subseteq Invites
  /\ \A i \in Invites : invite[i].to = NoOne <=> invite[i].state = "unsent"
  /\ InviteSpentOnce
  /\ \A i \in sealed : invite[i].state = "revoked"

(* A handler names the person, the claim and the invite its batch writes.  *)
Names(h) ==
  /\ h.act \in {"submit", "turn away", "grant", "accept", "invite", "redeem",
                "remove", "provision", "elsewhere"} => h.who \in People
  /\ h.act \in {"grant", "reject", "accept", "decline"} => h.claim \in Claims
  /\ h.act \in {"resend", "redeem"} => h.invite \in Invites

DeskPart ==
  /\ desk \in [Desks -> Handler]
  /\ \A d \in Desks : Names(desk[d])
  /\ begun \in 0 .. MaxBegun

IInv == SeatPart /\ ClaimPart /\ InvitePart /\ DeskPart

LEMMA IInvTyped == IInv => SeatsTypeOK
  BY DEF IInv, SeatPart, ClaimPart, InvitePart, DeskPart, SeatsTypeOK, SeatRow,
         ClaimRow, InviteRow, Holders

-----------------------------------------------------------------------------
LEMMA InitIInv == SeatsInit => IInv
<1> SUFFICES ASSUME SeatsInit PROVE IInv
  OBVIOUS
<1> USE SeatConstants DEF SeatsInit
<1>1. SeatPart
  <2>1. /\ NoSeat \in SeatRow /\ ~NoSeat.owner
        /\ [NoSeat EXCEPT !.at = "here", !.owner = TRUE] \in SeatRow
        /\ [NoSeat EXCEPT !.at = "here", !.owner = TRUE].at = "here"
    BY DEF NoSeat, SeatRow
  <2> QED  BY <2>1 DEF SeatPart
<1>2. ClaimPart
  BY DEF ClaimPart, ClaimRow, VerdictHolds
<1>3. InvitePart
  BY DEF InvitePart, InviteRow, InviteSpentOnce
<1>4. DeskPart
  <2>1. NoTask \in Handler /\ Names(NoTask)
    BY DEF NoTask, Handler, Names
  <2>2. begun \in 0 .. MaxBegun
    OBVIOUS
  <2> QED  BY <2>1, <2>2 DEF DeskPart
<1> QED  BY <1>1, <1>2, <1>3, <1>4 DEF IInv

-----------------------------------------------------------------------------
(* What leaves a table as it was keeps its part.                           *)
LEMMA SeatKept == ASSUME SeatPart, UNCHANGED seat PROVE SeatPart'
  BY DEF SeatPart

LEMMA ClaimKept == ASSUME ClaimPart, UNCHANGED <<claim, gave>> PROVE ClaimPart'
  BY DEF ClaimPart, VerdictHolds

LEMMA InviteKept ==
  ASSUME InvitePart, UNCHANGED <<invite, uses, sealed>> PROVE InvitePart'
  BY DEF InvitePart, InviteSpentOnce

LEMMA DeskKept == ASSUME DeskPart, UNCHANGED <<desk, begun>> PROVE DeskPart'
  BY DEF DeskPart

(* A handler that ends leaves an empty desk.                               *)
LEMMA DeskCleared ==
  ASSUME DeskPart, NEW d \in Desks, desk' = [desk EXCEPT ![d] = NoTask],
         UNCHANGED begun
  PROVE  DeskPart'
<1>1. NoTask \in Handler /\ Names(NoTask)
  BY DEF NoTask, Handler, Names
<1> QED  BY <1>1 DEF DeskPart

(* A handler that begins holds a plan.                                     *)
LEMMA DeskFilled ==
  ASSUME DeskPart, NEW d \in Desks, NEW h \in Handler, Names(h), Begin(d, h)
  PROVE  DeskPart'
<1>1. begun' \in 0 .. MaxBegun
  BY SeatConstants DEF Begin, DeskPart
<1> QED  BY <1>1 DEF Begin, DeskPart

(* Every plan names what it will write.                                    *)
LEMMA PlansKeep ==
  ASSUME IInv, NEW d \in Desks, PlansAct(d)
  PROVE  IInv'
<1> USE SeatConstants
<1>0. SeatPart /\ ClaimPart /\ InvitePart /\ DeskPart
  BY DEF IInv
<1>1. \A c \in Claims : claim[c].by \in People \cup {NoOne}
  BY <1>0 DEF ClaimPart, ClaimRow
<1>2. \A c \in Claims : Undecided(c) => claim[c].by \in People
  BY <1>0, <1>1 DEF ClaimPart, Undecided
<1>3. \A i \in Live : i \in Invites /\ invite[i].to \in People
  BY <1>0 DEF InvitePart, InviteRow, Live
<1>4. Live \subseteq Invites /\ Active \subseteq People /\ (Owners # {}) \in BOOLEAN
  BY DEF Live, Active, Holders
<1>5. \A p \in People : seat[p].owner \in BOOLEAN
  BY <1>0 DEF SeatPart, SeatRow
<1> DEFINE Planned == \E h \in Handler : Names(h) /\ Begin(d, h)
<1>6. Planned
  <2>1. ASSUME NEW p \in People, PlanSubmit(d, p) PROVE Planned
    BY <1>4, <2>1 DEF PlanSubmit, Handler, Names, NoTask
  <2>2. ASSUME NEW p \in People,
               PlanInvite(d, p) \/ PlanRemove(d, p) \/ PlanProvision(d, p)
                 \/ PlanElsewhere(d, p)
        PROVE Planned
    BY <2>2 DEF PlanInvite, PlanRemove, PlanProvision, PlanElsewhere, Handler,
                Names, NoTask
  <2>3. ASSUME NEW c \in Claims, PlanGrant(d, c) \/ PlanReject(d, c) \/ PlanDecline(d, c)
        PROVE Planned
    BY <1>2, <2>3 DEF PlanGrant, PlanReject, PlanDecline, Routed, Handler, Names, NoTask
  <2>4. ASSUME NEW c \in Claims, PlanAccept(d, c) PROVE Planned
    <3>1. claim[c].by \in People
      BY <1>2, <2>4 DEF PlanAccept, Routed
    <3>2. CASE seat[claim[c].by].at = "away"
      BY <2>4, <3>2 DEF PlanAccept, Handler, Names, NoTask
    <3>3. CASE seat[claim[c].by].at # "away"
      <4>1. PICK i \in Invites \cup {NoInvite} :
              Begin(d, [NoTask EXCEPT !.act = "accept", !.who = claim[c].by,
                                      !.claim = c, !.invite = i])
        BY <1>4, <2>4, <3>3 DEF PlanAccept
      <4> QED  BY <3>1, <4>1 DEF Handler, Names, NoTask
    <3> QED  BY <3>2, <3>3
  <2>5. ASSUME NEW i \in Invites, PlanResend(d, i) PROVE Planned
    BY <2>5 DEF PlanResend, Handler, Names, NoTask
  <2>6. ASSUME NEW i \in Invites, PlanRedeem(d, i) PROVE Planned
    BY <1>3, <1>5, <2>6 DEF PlanRedeem, Handler, Names, NoTask
  <2>7. CASE PlanTerminate(d) \/ PlanReturn(d)
    BY <1>4, <2>7 DEF PlanTerminate, PlanReturn, Handler, Names, NoTask
  <2> QED  BY <2>1, <2>2, <2>3, <2>4, <2>5, <2>6, <2>7 DEF PlansAct
<1>7. UNCHANGED <<seat, claim, invite, gave, uses, sealed>>
  BY <1>6 DEF Begin, ghosts
<1> QED  BY <1>0, <1>6, <1>7, SeatKept, ClaimKept, InviteKept, DeskFilled DEF IInv

-----------------------------------------------------------------------------
(* A seat row rewritten: here with some owner bit, or without one.         *)
LEMMA SeatWritten ==
  ASSUME SeatPart, NEW p \in People, NEW row1 \in SeatRow,
         row1.owner => row1.at = "here", seat' = [seat EXCEPT ![p] = row1]
  PROVE  SeatPart'
  BY DEF SeatPart

LEMMA SeatTaken ==
  ASSUME SeatPart, NEW p \in People, NEW o \in BOOLEAN,
         seat' = [seat EXCEPT ![p].at = "here", ![p].owner = o]
  PROVE  SeatPart'
<1>1. seat[p] \in SeatRow
  BY DEF SeatPart
<1> DEFINE r == [seat[p] EXCEPT !.at = "here", !.owner = o]
<1>2. r \in SeatRow /\ r.at = "here"
  BY <1>1 DEF SeatRow
<1>3. seat' = [seat EXCEPT ![p] = r]
  BY DEF SeatPart
<1> HIDE DEF r
<1> QED  BY <1>2, <1>3, SeatWritten

LEMMA SeatLeft ==
  ASSUME SeatPart, NEW p \in People, seat' = Unseated(p)
  PROVE  SeatPart'
<1>1. seat[p] \in SeatRow /\ (seat[p].owner => seat[p].at = "here")
  BY DEF SeatPart
<1> DEFINE r == IF seat[p].at = "here"
                THEN [seat[p] EXCEPT !.at = "none", !.owner = FALSE] ELSE seat[p]
<1>2. r \in SeatRow /\ (r.owner => r.at = "here")
  BY <1>1 DEF SeatRow
<1>3. seat' = [seat EXCEPT ![p] = r]
  BY DEF SeatPart, Unseated
<1> HIDE DEF r
<1> QED  BY <1>2, <1>3, SeatWritten

(* A decision: the claim was open, so it had given nothing.                *)
LEMMA ClaimDecided ==
  ASSUME ClaimPart, NEW c \in Claims, Undecided(c),
         NEW status \in {"resolved", "rejected"}, Decided(c, status),
         NEW gift \in {{}, {"seat"}, {"invite"}},
         gift # {} <=> status = "resolved",
         gave' = [gave EXCEPT ![c] = @ \cup gift]
  PROVE  ClaimPart'
<1>1. /\ claim[c] \in ClaimRow /\ claim[c].status = "open" /\ claim[c].by # NoOne
      /\ gave[c] = {}
  BY DEF ClaimPart, VerdictHolds, Undecided
<1> DEFINE r == [claim[c] EXCEPT !.status = status]
<1>2. r \in ClaimRow /\ r.status = status /\ r.by # NoOne
  BY <1>1 DEF ClaimRow
<1>3. claim' = [claim EXCEPT ![c] = r] /\ gave' = [gave EXCEPT ![c] = gift]
  BY <1>1 DEF Decided, ClaimPart
<1> HIDE DEF r
<1>4. claim' \in [Claims -> ClaimRow] /\ gave' \in [Claims -> SUBSET {"seat", "invite"}]
  BY <1>2, <1>3 DEF ClaimPart
<1>5. ASSUME NEW b \in Claims
      PROVE  /\ claim'[b].by = NoOne <=> claim'[b].status = "unfiled"
             /\ gave'[b] # {} <=> claim'[b].status = "resolved"
             /\ gave'[b] # {"seat", "invite"}
  BY <1>2, <1>3 DEF ClaimPart, VerdictHolds
<1> QED  BY <1>4, <1>5 DEF ClaimPart, VerdictHolds

LEMMA ClaimFiled ==
  ASSUME ClaimPart, NEW c \in Claims, claim[c].status = "unfiled",
         NEW r \in ClaimRow, r.by # NoOne, r.status \in {"open", "rejected"},
         claim' = [claim EXCEPT ![c] = r], UNCHANGED gave
  PROVE  ClaimPart'
  BY DEF ClaimPart, VerdictHolds

(* An invite sent, for the first time.                                     *)
LEMMA InviteSent ==
  ASSUME InvitePart, NEW p \in People, NEW i \in Invites, Sent(p, i),
         UNCHANGED <<uses, sealed>>
  PROVE  InvitePart'
<1> DEFINE r == [to |-> p, state |-> "live"]
<1>1. r \in InviteRow /\ r.to # NoOne /\ r.state = "live"
  BY SeatConstants DEF InviteRow
<1>2. invite' = [invite EXCEPT ![i] = r] /\ invite[i].state = "unsent"
  BY DEF Sent
<1> HIDE DEF r
<1>3. invite' \in [Invites -> InviteRow]
  BY <1>1, <1>2 DEF InvitePart
<1>4. \A k \in Invites : invite'[k].to = NoOne <=> invite'[k].state = "unsent"
  BY <1>1, <1>2 DEF InvitePart
<1>5. \A k \in Invites : uses[k] = IF invite'[k].state = "accepted" THEN 1 ELSE 0
  BY <1>1, <1>2 DEF InvitePart, InviteSpentOnce
<1>6. \A k \in sealed : invite'[k].state = "revoked"
  BY <1>1, <1>2 DEF InvitePart
<1> QED  BY <1>3, <1>4, <1>5, <1>6 DEF InvitePart, InviteSpentOnce

(* An unspent invite that is sent again, lapses, or is revoked.            *)
LEMMA InviteMoved ==
  ASSUME InvitePart, NEW i \in Invites, NEW to \in {"live", "lapsed", "revoked"},
         i \in Unspent, invite' = [invite EXCEPT ![i].state = to],
         UNCHANGED <<uses, sealed>>
  PROVE  InvitePart'
<1>1. invite[i] \in InviteRow /\ invite[i].state \in {"live", "lapsed"}
  BY DEF InvitePart, Unspent
<1> DEFINE r == [invite[i] EXCEPT !.state = to]
<1>2. r \in InviteRow /\ r.to = invite[i].to /\ r.state = to
  BY <1>1 DEF InviteRow
<1>3. invite' = [invite EXCEPT ![i] = r]
  BY DEF InvitePart
<1> HIDE DEF r
<1>4. invite' \in [Invites -> InviteRow]
  BY <1>2, <1>3 DEF InvitePart
<1>5. \A k \in Invites : invite'[k].to = NoOne <=> invite'[k].state = "unsent"
  BY <1>1, <1>2, <1>3 DEF InvitePart
<1>6. \A k \in Invites : uses[k] = IF invite'[k].state = "accepted" THEN 1 ELSE 0
  BY <1>1, <1>2, <1>3 DEF InvitePart, InviteSpentOnce
<1>7. \A k \in sealed : invite'[k].state = "revoked"
  BY <1>1, <1>2, <1>3 DEF InvitePart
<1> QED  BY <1>4, <1>5, <1>6, <1>7 DEF InvitePart, InviteSpentOnce

(* The one redeem of an invite.                                            *)
LEMMA InviteSpent ==
  ASSUME InvitePart, NEW i \in Invites, i \in Unspent,
         invite' = [invite EXCEPT ![i].state = "accepted"],
         uses' = [uses EXCEPT ![i] = @ + 1], UNCHANGED sealed
  PROVE  InvitePart'
<1>1. /\ invite[i] \in InviteRow /\ invite[i].state \in {"live", "lapsed"}
      /\ uses[i] = 0
  BY DEF InvitePart, Unspent, InviteSpentOnce
<1> DEFINE r == [invite[i] EXCEPT !.state = "accepted"]
<1>2. r \in InviteRow /\ r.to = invite[i].to /\ r.state = "accepted"
  BY <1>1 DEF InviteRow
<1>3. invite' = [invite EXCEPT ![i] = r] /\ uses' = [uses EXCEPT ![i] = 1]
  BY <1>1 DEF InvitePart
<1> HIDE DEF r
<1>4. invite' \in [Invites -> InviteRow] /\ uses' \in [Invites -> Nat]
  BY <1>2, <1>3 DEF InvitePart
<1>5. \A k \in Invites : invite'[k].to = NoOne <=> invite'[k].state = "unsent"
  BY <1>1, <1>2, <1>3 DEF InvitePart
<1>6. \A k \in Invites : uses'[k] = IF invite'[k].state = "accepted" THEN 1 ELSE 0
  BY <1>2, <1>3 DEF InvitePart, InviteSpentOnce
<1>7. \A k \in sealed : invite'[k].state = "revoked"
  BY <1>1, <1>2, <1>3 DEF InvitePart
<1> QED  BY <1>4, <1>5, <1>6, <1>7 DEF InvitePart, InviteSpentOnce

(* The vendor is closed: what is live was read, and so is revoked.         *)
LEMMA InviteClosed ==
  ASSUME InvitePart, NEW ids \in SUBSET Invites, Closed(ids)
  PROVE  InvitePart'
<1>1. \A k \in Invites :
        /\ invite'[k] = IF k \in ids \cap Unspent
                        THEN [invite[k] EXCEPT !.state = "revoked"] ELSE invite[k]
        /\ invite[k] \in InviteRow
  BY DEF Closed, InvitePart
<1>2. ASSUME NEW k \in Invites
      PROVE  /\ invite'[k] \in InviteRow /\ invite'[k].to = invite[k].to
             /\ invite'[k].state =
                  IF k \in ids \cap Unspent THEN "revoked" ELSE invite[k].state
  BY <1>1 DEF InviteRow
<1>3. invite' \in [Invites -> InviteRow] /\ sealed' \subseteq Invites
  BY <1>2 DEF Closed, InvitePart, Live
<1>4. \A k \in Invites : invite'[k].to = NoOne <=> invite'[k].state = "unsent"
  BY <1>2 DEF InvitePart, Unspent
<1>5. \A k \in Invites : uses'[k] = IF invite'[k].state = "accepted" THEN 1 ELSE 0
  BY <1>2 DEF InvitePart, InviteSpentOnce, Unspent, Closed
<1>6. ASSUME NEW k \in sealed' PROVE invite'[k].state = "revoked"
  <2>1. CASE k \in Live
    BY <1>2, <2>1 DEF Closed, NoInviteLeft, Live, Unspent
  <2>2. CASE k \in sealed
    BY <1>2, <2>2 DEF InvitePart
  <2> QED  BY <2>1, <2>2 DEF Closed
<1> QED  BY <1>3, <1>4, <1>5, <1>6 DEF InvitePart, InviteSpentOnce, Closed

-----------------------------------------------------------------------------
LEMMA CommitsKeep ==
  ASSUME IInv, NEW d \in Desks, CommitsAct(d)
  PROVE  IInv'
<1> USE DEF ghosts
<1>0. SeatPart /\ ClaimPart /\ InvitePart /\ DeskPart
  BY DEF IInv
<1>1. desk[d] \in Handler /\ Names(desk[d])
  BY <1>0 DEF DeskPart
<1>2. ASSUME NEW act, Done(d, act) PROVE DeskPart'
  BY <1>0, <1>2, DeskCleared DEF Done
<1>3. ASSUME NEW c \in Claims, CommitSubmit(d, c) PROVE IInv'
  <2>1. desk[d].who \in People /\ desk[d].bit \in BOOLEAN
    BY <1>1, <1>3 DEF CommitSubmit, Done, Names, Handler
  <2>2. PICK r \in ClaimRow : /\ claim' = [claim EXCEPT ![c] = r]
                              /\ r.by = desk[d].who /\ r.status \in {"open", "rejected"}
    <3>1. \A st \in {"open", "rejected"}, b \in BOOLEAN :
            LET r == [by |-> desk[d].who, status |-> st, routed |-> b]
            IN  r \in ClaimRow /\ r.by = desk[d].who /\ r.status = st
      BY <2>1 DEF ClaimRow
    <3>2. \E st \in {"open", "rejected"}, b \in BOOLEAN :
            claim' = [claim EXCEPT ![c] =
                        [by |-> desk[d].who, status |-> st, routed |-> b]]
      BY <1>3, <2>1 DEF CommitSubmit
    <3>3. PICK st \in {"open", "rejected"}, b \in BOOLEAN :
            claim' = [claim EXCEPT ![c] =
                        [by |-> desk[d].who, status |-> st, routed |-> b]]
      BY <3>2
    <3> DEFINE q == [by |-> desk[d].who, status |-> st, routed |-> b]
    <3>4. q \in ClaimRow /\ q.by = desk[d].who /\ q.status \in {"open", "rejected"}
      BY <3>1
    <3>5. claim' = [claim EXCEPT ![c] = q]
      BY <3>3
    <3> HIDE DEF q
    <3> QED  BY <3>4, <3>5
  <2>3. r.by # NoOne
    BY <2>1, <2>2, SeatConstants
  <2>4. ClaimPart'
    BY <1>0, <1>3, <2>2, <2>3, ClaimFiled DEF CommitSubmit
  <2> QED  BY <1>0, <1>2, <1>3, <2>4, SeatKept, InviteKept DEF CommitSubmit, IInv
<1>4. CASE CommitGrant(d)
  <2>1. /\ desk[d].who \in People /\ desk[d].claim \in Claims
        /\ seat \in [People -> SeatRow]
    BY <1>0, <1>1, <1>4 DEF CommitGrant, Done, Names, SeatPart
  <2>2. PICK o \in BOOLEAN : seat' = [seat EXCEPT ![desk[d].who].at = "here",
                                                ![desk[d].who].owner = o]
    BY <1>4, <2>1 DEF CommitGrant, FirstOwner, SeatRow
  <2>3. SeatPart'
    BY <1>0, <2>1, <2>2, SeatTaken
  <2>4. ClaimPart'
    BY <1>0, <1>4, <2>1, ClaimDecided DEF CommitGrant
  <2> QED  BY <1>0, <1>2, <1>4, <2>3, <2>4, InviteKept DEF CommitGrant, IInv
<1>5. CASE CommitReject(d)
  <2>1. desk[d].claim \in Claims /\ Undecided(desk[d].claim)
    BY <1>1, <1>5 DEF CommitReject, Done, Names, Routed
  <2>2. gave' = [gave EXCEPT ![desk[d].claim] = @ \cup {}]
    BY <1>0, <1>5, <2>1 DEF CommitReject, ClaimPart
  <2>3. ClaimPart'
    BY <1>0, <1>5, <2>1, <2>2, ClaimDecided DEF CommitReject
  <2> QED  BY <1>0, <1>2, <1>5, <2>3, SeatKept, InviteKept DEF CommitReject, IInv
<1>6. CASE CommitAccept(d)
  <2>1. /\ desk[d].who \in People /\ desk[d].claim \in Claims
        /\ Undecided(desk[d].claim)
    BY <1>1, <1>6 DEF CommitAccept, Done, Names, Routed
  <2>2. ClaimPart'
    BY <1>0, <1>6, <2>1, ClaimDecided DEF CommitAccept
  <2>3. InvitePart'
    BY <1>0, <1>6, <2>1, InviteSent, InviteKept DEF CommitAccept
  <2> QED  BY <1>0, <1>2, <1>6, <2>2, <2>3, SeatKept DEF CommitAccept, IInv
<1>7. CASE CommitInvite(d)
  <2>1. desk[d].who \in People
    BY <1>1, <1>7 DEF CommitInvite, Done, Names
  <2>2. InvitePart'
    BY <1>0, <1>7, <2>1, InviteSent DEF CommitInvite
  <2> QED  BY <1>0, <1>2, <1>7, <2>2, SeatKept, ClaimKept DEF CommitInvite, IInv
<1>8. CASE CommitResend(d)
  <2>1. desk[d].invite \in Invites
    BY <1>1, <1>8 DEF CommitResend, Done, Names
  <2>2. CASE desk[d].invite \in Unspent
    <3>1. invite' = [invite EXCEPT ![desk[d].invite].state = "live"]
      BY <1>8, <2>2 DEF CommitResend
    <3>2. InvitePart'
      BY <1>0, <1>8, <2>1, <2>2, <3>1, InviteMoved DEF CommitResend
    <3> QED  BY <1>0, <1>2, <1>8, <3>2, SeatKept, ClaimKept DEF CommitResend, IInv
  <2>3. CASE desk[d].invite \notin Unspent
    <3>1. invite' = invite
      BY <1>0, <1>8, <2>1, <2>3 DEF CommitResend, InvitePart, InviteRow
    <3> QED  BY <1>0, <1>2, <1>8, <3>1, SeatKept, ClaimKept, InviteKept
             DEF CommitResend, IInv
  <2> QED  BY <2>2, <2>3
<1>9. CASE CommitRedeem(d)
  <2>1. /\ desk[d].who \in People /\ desk[d].invite \in Invites
        /\ desk[d].bit \in BOOLEAN
    BY <1>1, <1>9 DEF CommitRedeem, Done, Names, Handler
  <2>2. SeatPart'
    BY <1>0, <1>9, <2>1, SeatTaken DEF CommitRedeem
  <2>3. InvitePart'
    BY <1>0, <1>9, <2>1, InviteSpent DEF CommitRedeem
  <2> QED  BY <1>0, <1>2, <1>9, <2>2, <2>3, ClaimKept DEF CommitRedeem, IInv
<1>10. CASE CommitRemove(d)
  <2>1. desk[d].who \in People
    BY <1>1, <1>10 DEF CommitRemove, Done, Names
  <2>2. SeatPart'
    BY <1>0, <1>10, <2>1, SeatLeft DEF CommitRemove
  <2> QED  BY <1>0, <1>2, <1>10, <2>2, ClaimKept, InviteKept DEF CommitRemove, IInv
<1>11. CASE CommitProvision(d)
  <2>1. desk[d].who \in People
    BY <1>1, <1>11 DEF CommitProvision, Done, Names
  <2>2. SeatPart'
    BY <1>0, <1>11, <2>1, SeatTaken DEF CommitProvision
  <2> QED  BY <1>0, <1>2, <1>11, <2>2, ClaimKept, InviteKept DEF CommitProvision, IInv
<1>12. CASE CommitElsewhere(d)
  <2>1. desk[d].who \in People /\ seat[desk[d].who] \in SeatRow
    BY <1>0, <1>1, <1>12 DEF CommitElsewhere, Done, Names, SeatPart
  <2>2. PICK r \in SeatRow : ~r.owner /\ seat' = [seat EXCEPT ![desk[d].who] = r]
    <3> DEFINE r == [seat[desk[d].who] EXCEPT !.at = "away", !.owner = FALSE]
    <3>1. r \in SeatRow /\ ~r.owner
      BY <2>1 DEF SeatRow
    <3>2. seat' = [seat EXCEPT ![desk[d].who] = r]
      BY <1>0, <1>12, <2>1 DEF CommitElsewhere, SeatPart
    <3> HIDE DEF r
    <3> QED  BY <3>1, <3>2
  <2>3. SeatPart'
    BY <1>0, <2>1, <2>2, SeatWritten
  <2> QED  BY <1>0, <1>2, <1>12, <2>3, ClaimKept, InviteKept DEF CommitElsewhere, IInv
<1>13. CASE CommitTerminate(d)
  <2>1. desk[d].ids \in SUBSET Invites
    BY <1>1 DEF Handler
  <2>2. ASSUME NEW p \in People
        PROVE  /\ seat'[p] \in SeatRow
               /\ seat'[p].owner => seat'[p].at = "here"
    <3>1. seat[p] \in SeatRow /\ (seat[p].owner => seat[p].at = "here")
      BY <1>0 DEF SeatPart
    <3>2. seat'[p] = IF p \in desk[d].seats THEN [seat[p] EXCEPT !.banned = TRUE]
                     ELSE seat[p]
      BY <1>13 DEF CommitTerminate
    <3> QED  BY <3>1, <3>2 DEF SeatRow
  <2>3. SeatPart'
    BY <1>13, <2>2 DEF CommitTerminate, SeatPart
  <2>4. InvitePart'
    BY <1>0, <1>13, <2>1, InviteClosed DEF CommitTerminate
  <2>5. ClaimPart'
    BY <1>0, <1>13, ClaimKept DEF CommitTerminate, Closed
  <2> QED  BY <1>2, <1>13, <2>3, <2>4, <2>5 DEF CommitTerminate, IInv
<1>14. CASE CommitReturn(d)
  <2>1. desk[d].ids \in SUBSET Invites
    BY <1>1 DEF Handler
  <2>2. InvitePart'
    BY <1>0, <1>14, <2>1, InviteClosed DEF CommitReturn
  <2>3. ClaimPart'
    BY <1>0, <1>14, ClaimKept DEF CommitReturn, Closed
  <2> QED  BY <1>0, <1>2, <1>14, <2>2, <2>3, SeatKept DEF CommitReturn, IInv
<1> QED  BY <1>3, <1>4, <1>5, <1>6, <1>7, <1>8, <1>9, <1>10, <1>11, <1>12, <1>13,
            <1>14 DEF CommitsAct

(* A ban or its lift moves one bit of one row.                             *)
LEMMA BanMoves ==
  ASSUME SeatPart, NEW p \in People, NEW b \in BOOLEAN,
         seat' = [seat EXCEPT ![p].banned = b]
  PROVE  SeatPart'
<1>1. seat[p] \in SeatRow /\ (seat[p].owner => seat[p].at = "here")
  BY DEF SeatPart
<1> DEFINE r == [seat[p] EXCEPT !.banned = b]
<1>2. r \in SeatRow /\ (r.owner => r.at = "here")
  BY <1>1 DEF SeatRow
<1>3. seat' = [seat EXCEPT ![p] = r]
  BY DEF SeatPart
<1> HIDE DEF r
<1> QED  BY <1>2, <1>3, SeatWritten

LEMMA NextIInv == IInv /\ [SeatsNext]_seatsVars => IInv'
<1> SUFFICES ASSUME IInv, [SeatsNext]_seatsVars PROVE IInv'
  OBVIOUS
<1> USE DEF ghosts
<1>0. SeatPart /\ ClaimPart /\ InvitePart /\ DeskPart
  BY DEF IInv
<1>1. CASE UNCHANGED seatsVars
  BY <1>0, <1>1, SeatKept, ClaimKept, InviteKept, DeskKept DEF seatsVars, IInv
<1>2. ASSUME NEW d \in Desks, PlansAct(d) \/ CommitsAct(d) \/ GivesUp(d) PROVE IInv'
  <2>1. CASE GivesUp(d)
    BY <1>0, <2>1, SeatKept, ClaimKept, InviteKept, DeskCleared DEF GivesUp, IInv
  <2> QED  BY <1>2, <2>1, PlansKeep, CommitsKeep
<1>3. ASSUME NEW c \in Claims, FallBack(c) PROVE IInv'
  <2>1. claim[c] \in ClaimRow
    BY <1>0 DEF ClaimPart
  <2>2. claim' \in [Claims -> ClaimRow]
    BY <1>0, <1>3, <2>1 DEF FallBack, ClaimPart, ClaimRow
  <2>3. \A b \in Claims : claim'[b].by = claim[b].by /\ claim'[b].status = claim[b].status
    BY <1>0, <1>3, <2>1 DEF FallBack, ClaimPart, ClaimRow
  <2>4. ClaimPart'
    BY <1>0, <1>3, <2>2, <2>3 DEF FallBack, ClaimPart, VerdictHolds
  <2> QED  BY <1>0, <1>3, <2>4, SeatKept, InviteKept, DeskKept DEF FallBack, IInv
<1>4. ASSUME NEW i \in Invites, RevokeInvite(i) PROVE IInv'
  <2>1. InvitePart'
    BY <1>0, <1>4, InviteMoved DEF RevokeInvite
  <2> QED  BY <1>0, <1>4, <2>1, SeatKept, ClaimKept, DeskKept DEF RevokeInvite, IInv
<1>5. ASSUME NEW i \in Invites, Lapse(i) PROVE IInv'
  <2>1. i \in Unspent
    BY <1>5 DEF Lapse, Live, Unspent
  <2>2. InvitePart'
    BY <1>0, <1>5, <2>1, InviteMoved DEF Lapse
  <2> QED  BY <1>0, <1>5, <2>2, SeatKept, ClaimKept, DeskKept DEF Lapse, IInv
<1>6. ASSUME NEW p \in People,
             RevokeSeat(p) \/ Ban(p) \/ Unban(p) \/ LeavesElsewhere(p)
      PROVE  IInv'
  <2>1. UNCHANGED <<claim, invite, desk, begun, gave, uses, sealed>>
    BY <1>6 DEF RevokeSeat, Ban, Unban, LeavesElsewhere
  <2>2. CASE RevokeSeat(p)
    BY <1>0, <2>1, <2>2, SeatLeft, ClaimKept, InviteKept, DeskKept DEF RevokeSeat, IInv
  <2>3. CASE Ban(p) \/ Unban(p)
    BY <1>0, <2>1, <2>3, BanMoves, ClaimKept, InviteKept, DeskKept DEF Ban, Unban, IInv
  <2>4. CASE LeavesElsewhere(p)
    <3>1. seat[p] \in SeatRow /\ ~seat[p].owner
      BY <1>0, <2>4 DEF SeatPart, LeavesElsewhere
    <3> DEFINE r == [seat[p] EXCEPT !.at = "none"]
    <3>2. r \in SeatRow /\ ~r.owner
      BY <3>1 DEF SeatRow
    <3>3. seat' = [seat EXCEPT ![p] = r]
      BY <1>0, <2>4 DEF LeavesElsewhere, SeatPart
    <3> HIDE DEF r
    <3>4. SeatPart'
      BY <1>0, <3>2, <3>3, SeatWritten
    <3> QED  BY <1>0, <2>1, <3>4, ClaimKept, InviteKept, DeskKept DEF IInv
  <2> QED  BY <1>6, <2>2, <2>3, <2>4
<1> QED  BY <1>1, <1>2, <1>3, <1>4, <1>5, <1>6 DEF SeatsNext

THEOREM Inductive == SeatsSpec => []IInv
  BY InitIInv, NextIInv, PTL DEF SeatsSpec

-----------------------------------------------------------------------------
(* Seats, claims, invites and the handlers keep their types, and no row    *)
(* but a seat here has the owner bit (vendor-grant.ts, revokeSeat).        *)
THEOREM SeatsTyped == SeatsSpec => []SeatsTypeOK
  BY Inductive, IInvTyped, PTL

(* A claim is decided once, by whoever decides it first (vendor-grant.ts,  *)
(* claimUndecidedSentinel).                                                *)
THEOREM OneVerdict == SeatsSpec => []VerdictHolds
<1>1. IInv => VerdictHolds
  BY DEF IInv, ClaimPart
<1> QED  BY <1>1, Inductive, PTL

(* An invite makes one seat at most (vendor-seat-invites.ts,               *)
(* inviteSpentSentinel).                                                   *)
THEOREM OneSeatAnInvite == SeatsSpec => []InviteSpentOnce
<1>1. IInv => InviteSpentOnce
  BY DEF IInv, InvitePart
<1> QED  BY <1>1, Inductive, PTL

(* What was live when the vendor was closed seats nobody: it was revoked   *)
(* with it, and a redeem needs it unspent (pendingInviteRaceSentinel).     *)
THEOREM ClosedForGood == SeatsSpec => SealedStaysShut
<1>1. ASSUME IInv, [SeatsNext]_seatsVars
      PROVE  [\A i \in sealed : uses'[i] = uses[i]]_seatsVars
  <2> SUFFICES ASSUME NEW i \in sealed, SeatsNext PROVE uses'[i] = uses[i]
    BY <1>1
  <2>1. /\ i \in Invites /\ i \notin Unspent
        /\ uses \in [Invites -> Nat]
    BY <1>1 DEF IInv, InvitePart, Unspent
  <2>2. ASSUME NEW d \in Desks, CommitRedeem(d) PROVE uses'[i] = uses[i]
    BY <2>1, <2>2 DEF CommitRedeem
  <2>3. ASSUME NEW d \in Desks, CommitsAct(d), ~CommitRedeem(d) PROVE UNCHANGED uses
    BY <2>3 DEF CommitsAct, CommitSubmit, CommitGrant, CommitReject, CommitAccept,
                CommitInvite, CommitResend, CommitRemove, CommitProvision,
                CommitElsewhere, CommitTerminate, CommitReturn, Closed, ghosts
  <2>4. ASSUME NEW d \in Desks, PlansAct(d) PROVE UNCHANGED uses
    BY <2>4 DEF PlansAct, PlanSubmit, PlanGrant, PlanReject, PlanAccept, PlanDecline,
                PlanInvite, PlanResend, PlanRedeem, PlanRemove, PlanProvision,
                PlanElsewhere, PlanTerminate, PlanReturn, Begin, ghosts
  <2>5. ASSUME NEW d \in Desks, GivesUp(d) PROVE UNCHANGED uses
    BY <2>5 DEF GivesUp, ghosts
  <2>6. ASSUME \/ \E c \in Claims : FallBack(c)
               \/ \E k \in Invites : RevokeInvite(k) \/ Lapse(k)
               \/ \E p \in People :
                    RevokeSeat(p) \/ Ban(p) \/ Unban(p) \/ LeavesElsewhere(p)
        PROVE  UNCHANGED uses
    BY <2>6 DEF FallBack, RevokeInvite, Lapse, RevokeSeat, Ban, Unban,
                LeavesElsewhere, ghosts
  <2> QED  BY <2>2, <2>3, <2>4, <2>5, <2>6 DEF SeatsNext
<1> QED  BY <1>1, Inductive, PTL DEF SeatsSpec, SealedStaysShut

(* A claimant granted beside an unbanned owner is a member, whatever was   *)
(* read when the grant was planned (firstOwnerSql, keepOwnerSql).          *)
THEOREM SecondIsMember == SeatsSpec => GrantsOneOwner
<1>1. ASSUME IInv, NEW d \in Desks, CommitGrant(d), Owners # {}
      PROVE  Owners' \subseteq Owners
  <2>1. desk[d].who \in People /\ seat \in [People -> SeatRow] /\ ~FirstOwner
    BY <1>1 DEF IInv, SeatPart, DeskPart, CommitGrant, Done, Names, FirstOwner
  <2>2. ASSUME NEW q \in Owners' PROVE q \in Owners
    <3>1. CASE q = desk[d].who
      BY <1>1, <2>1, <2>2, <3>1
      DEF CommitGrant, Owners, Active, Holders, SeatRow
    <3>2. CASE q # desk[d].who
      BY <1>1, <2>1, <2>2, <3>2
      DEF CommitGrant, Owners, Active, Holders, SeatRow
    <3> QED  BY <3>1, <3>2
  <2> QED  BY <2>2
<1>2. IInv /\ [SeatsNext]_seatsVars =>
        [\A d \in Desks : CommitGrant(d) /\ Owners # {} => Owners' \subseteq Owners]_seatsVars
  BY <1>1
<1> QED  BY <1>2, Inductive, PTL DEF SeatsSpec, GrantsOneOwner
-----------------------------------------------------------------------------
(* A decided claim is never touched again: no later verdict, and nothing   *)
(* more given, though its claimant, AECi, two owners and the fallback all  *)
(* had read it open (claimUndecidedSentinel, and the guarded decision).    *)
THEOREM VerdictIsFinal ==
  SeatsSpec => [][\A c \in Claims :
                    claim[c].status \in {"resolved", "rejected"}
                      => claim'[c] = claim[c] /\ gave'[c] = gave[c]]_seatsVars
<1>1. ASSUME IInv, SeatsNext, NEW c \in Claims,
             claim[c].status \in {"resolved", "rejected"}
      PROVE  claim'[c] = claim[c] /\ gave'[c] = gave[c]
  <2>1. /\ ~Undecided(c) /\ ~Routed(c) /\ claim[c].status # "unfiled"
        /\ claim \in [Claims -> ClaimRow] /\ gave \in [Claims -> SUBSET {"seat", "invite"}]
    BY <1>1 DEF Undecided, Routed, IInv, ClaimPart
  <2>2. ASSUME NEW d \in Desks, NEW b \in Claims, CommitSubmit(d, b)
        PROVE  claim'[c] = claim[c] /\ gave'[c] = gave[c]
    BY <2>1, <2>2 DEF CommitSubmit, ghosts
  <2>3. ASSUME NEW d \in Desks, CommitGrant(d) \/ CommitReject(d) \/ CommitAccept(d)
        PROVE  claim'[c] = claim[c] /\ gave'[c] = gave[c]
    <3>1. c # desk[d].claim
      BY <2>1, <2>3 DEF CommitGrant, CommitReject, CommitAccept, Routed
    <3> QED
      BY <2>1, <2>3, <3>1 DEF CommitGrant, CommitReject, CommitAccept, Decided, ghosts
  <2>4. ASSUME NEW d \in Desks,
               \/ CommitInvite(d) \/ CommitResend(d) \/ CommitRedeem(d)
               \/ CommitRemove(d) \/ CommitProvision(d) \/ CommitElsewhere(d)
               \/ CommitTerminate(d) \/ CommitReturn(d) \/ GivesUp(d)
        PROVE  UNCHANGED <<claim, gave>>
    BY <2>4 DEF CommitInvite, CommitResend, CommitRedeem, CommitRemove,
                CommitProvision, CommitElsewhere, CommitTerminate, CommitReturn,
                Closed, GivesUp, ghosts
  <2>5. ASSUME NEW d \in Desks, PlansAct(d) PROVE UNCHANGED <<claim, gave>>
    BY <2>5 DEF PlansAct, PlanSubmit, PlanGrant, PlanReject, PlanAccept, PlanDecline,
                PlanInvite, PlanResend, PlanRedeem, PlanRemove, PlanProvision,
                PlanElsewhere, PlanTerminate, PlanReturn, Begin, ghosts
  <2>6. ASSUME NEW b \in Claims, FallBack(b)
        PROVE  claim'[c] = claim[c] /\ gave'[c] = gave[c]
    BY <2>1, <2>6 DEF FallBack, ghosts
  <2>7. ASSUME \/ \E i \in Invites : RevokeInvite(i) \/ Lapse(i)
               \/ \E p \in People :
                    RevokeSeat(p) \/ Ban(p) \/ Unban(p) \/ LeavesElsewhere(p)
        PROVE  UNCHANGED <<claim, gave>>
    BY <2>7 DEF RevokeInvite, Lapse, RevokeSeat, Ban, Unban, LeavesElsewhere, ghosts
  <2> QED
    BY <1>1, <2>2, <2>3, <2>4, <2>5, <2>6, <2>7 DEF SeatsNext, CommitsAct
<1>2. IInv /\ [SeatsNext]_seatsVars
        => [\A c \in Claims :
              claim[c].status \in {"resolved", "rejected"}
                => claim'[c] = claim[c] /\ gave'[c] = gave[c]]_seatsVars
  BY <1>1
<1> QED  BY <1>2, Inductive, PTL DEF SeatsSpec

(* A row gets the owner bit in three ways: the first grant of a vendor     *)
(* without an unbanned owner, AECi's provision, and a redeem that had read *)
(* the bit on that row: the one of the three that does not ask the row at  *)
(* its commit, and may give back a bit that a removal took in between      *)
(* (vendor-seat-invites.ts, redeem).                                       *)
THEOREM OwnersHaveCause ==
  SeatsSpec => [][\A p \in People :
                    seat'[p].owner /\ ~seat[p].owner
                      => \E d \in Desks :
                           /\ desk[d].who = p
                           /\ \/ CommitGrant(d) /\ Owners = {}
                              \/ CommitProvision(d)
                              \/ CommitRedeem(d) /\ desk[d].bit]_seatsVars
<1> DEFINE Cause(p) == \E d \in Desks :
                         /\ desk[d].who = p
                         /\ \/ CommitGrant(d) /\ Owners = {}
                            \/ CommitProvision(d)
                            \/ CommitRedeem(d) /\ desk[d].bit
<1>1. ASSUME IInv, SeatsNext, NEW p \in People, seat'[p].owner, ~seat[p].owner
      PROVE  Cause(p)
  <2>1. seat \in [People -> SeatRow]
    BY <1>1 DEF IInv, SeatPart
  <2>2. ASSUME NEW d \in Desks, desk[d].act \in {"grant", "provision", "redeem", "remove",
                                                 "elsewhere"}
        PROVE  desk[d].who \in People
    BY <1>1, <2>2 DEF IInv, DeskPart, Names
  <2>3. ASSUME NEW d \in Desks, CommitGrant(d) PROVE Cause(p)
    BY <1>1, <2>1, <2>2, <2>3 DEF CommitGrant, Done, FirstOwner, SeatRow
  <2>4. ASSUME NEW d \in Desks, CommitProvision(d) PROVE Cause(p)
    BY <1>1, <2>1, <2>2, <2>4 DEF CommitProvision, Done, SeatRow
  <2>5. ASSUME NEW d \in Desks, CommitRedeem(d) PROVE Cause(p)
    BY <1>1, <2>1, <2>2, <2>5 DEF CommitRedeem, Done, SeatRow
  <2>6. ASSUME NEW d \in Desks, CommitRemove(d) \/ CommitElsewhere(d) PROVE FALSE
    <3> DEFINE q == desk[d].who
    <3>1. q \in People /\ seat[q] \in SeatRow
      BY <2>1, <2>2, <2>6 DEF CommitRemove, CommitElsewhere, Done
    <3>2. CASE CommitRemove(d)
      <4>1. seat' = Unseated(q)
        BY <3>2 DEF CommitRemove
      <4> HIDE DEF q
      <4> QED  BY <1>1, <2>1, <3>1, <4>1 DEF Unseated, SeatRow
    <3>3. CASE CommitElsewhere(d)
      <4>1. seat' = [seat EXCEPT ![q].at = "away", ![q].owner = FALSE]
        BY <3>3 DEF CommitElsewhere
      <4> HIDE DEF q
      <4> QED  BY <1>1, <2>1, <3>1, <4>1 DEF SeatRow
    <3> QED  BY <2>6, <3>2, <3>3
  <2>7. ASSUME NEW d \in Desks, CommitTerminate(d) PROVE FALSE
    BY <1>1, <2>1, <2>7 DEF CommitTerminate, SeatRow
  <2>8. ASSUME NEW d \in Desks,
               \/ \E c \in Claims : CommitSubmit(d, c)
               \/ CommitReject(d) \/ CommitAccept(d) \/ CommitInvite(d)
               \/ CommitResend(d) \/ CommitReturn(d) \/ GivesUp(d)
        PROVE  UNCHANGED seat
    BY <2>8 DEF CommitSubmit, CommitReject, CommitAccept, CommitInvite, CommitResend,
                CommitReturn, GivesUp
  <2>9. ASSUME NEW d \in Desks, PlansAct(d) PROVE UNCHANGED seat
    BY <2>9 DEF PlansAct, PlanSubmit, PlanGrant, PlanReject, PlanAccept, PlanDecline,
                PlanInvite, PlanResend, PlanRedeem, PlanRemove, PlanProvision,
                PlanElsewhere, PlanTerminate, PlanReturn, Begin
  <2>10. ASSUME \/ \E c \in Claims : FallBack(c)
                \/ \E i \in Invites : RevokeInvite(i) \/ Lapse(i)
         PROVE  UNCHANGED seat
    BY <2>10 DEF FallBack, RevokeInvite, Lapse
  <2>11. ASSUME NEW q \in People,
                RevokeSeat(q) \/ Ban(q) \/ Unban(q) \/ LeavesElsewhere(q)
         PROVE  FALSE
    BY <1>1, <2>1, <2>11 DEF RevokeSeat, Ban, Unban, LeavesElsewhere, Unseated, SeatRow
  <2> QED
    BY <1>1, <2>3, <2>4, <2>5, <2>6, <2>7, <2>8, <2>9, <2>10, <2>11
       DEF SeatsNext, CommitsAct
<1>2. IInv /\ [SeatsNext]_seatsVars
        => [\A p \in People :
              seat'[p].owner /\ ~seat[p].owner
                => \E d \in Desks :
                     /\ desk[d].who = p
                     /\ \/ CommitGrant(d) /\ Owners = {}
                        \/ CommitProvision(d)
                        \/ CommitRedeem(d) /\ desk[d].bit]_seatsVars
  BY <1>1
<1> QED  BY <1>2, Inductive, PTL DEF SeatsSpec
=============================================================================
