--------------------------- MODULE ContestsProofs ---------------------------
(* What Contests keeps for any number of contests, licenses, seats and     *)
(* handlers.                                                               *)
EXTENDS Contests, FiniteSetTheorems, TLAPS

(* A sweep's plan moves all it read on connector-powered rows.             *)
PlanSound ==
  \A s \in Slots :
    slot[s].op = "end" /\ slot[s].last
      => slot[s].toAeci = slot[s].read \cap Powered

IInv == TypeOK /\ PlanSound /\ StrandedByCollisionOnly

-----------------------------------------------------------------------------
(* What a handler reads of the contests is a value of a plan.              *)

LEMMA FingerprintType ==
  ASSUME contest \in [Filed -> Row]
  PROVE  Fingerprint(contest) \in Mark
<1>1. /\ IsFiniteSet(OwnerRouted(contest))
      /\ IsFiniteSet(SeatStamped(contest))
  BY FS_Subset, ContestConstants DEF OwnerRouted, SeatStamped
<1>2. /\ Cardinality(OwnerRouted(contest)) \in Nat
      /\ Cardinality(SeatStamped(contest)) \in Nat
  BY <1>1, FS_CardinalityType
<1>3. ASSUME NEW S \in SUBSET Filed
      PROVE  Newest(contest, S) \subseteq Time
  BY DEF Newest, Row
<1>4. /\ OwnerRouted(contest) \subseteq Filed
      /\ SeatStamped(contest) \subseteq Filed
  BY DEF OwnerRouted, SeatStamped
<1> QED BY <1>2, <1>3, <1>4 DEF Fingerprint, Mark

LEMMA IdleType == Idle \in Plan /\ Idle.op = "idle" /\ ~Idle.last /\ NoMark \in Mark
  BY ContestConstants DEF Idle, Plan, Ops, Time, Mark, NoMark

LEMMA BeginKeeps ==
  ASSUME IInv, NEW s \in Slots, NEW plan \in Plan,
         plan.op = "end" /\ plan.last => plan.toAeci = plan.read \cap Powered,
         Begin(s, plan)
  PROVE  IInv'
<1> DEFINE p == [plan EXCEPT !.at = now]
<1>1. p \in Plan /\ p.op = plan.op /\ p.last = plan.last
      /\ p.toAeci = plan.toAeci /\ p.read = plan.read
  BY DEF IInv, TypeOK, Plan
<1>2. slot' = [slot EXCEPT ![s] = p] /\ UNCHANGED <<contest, owner, now, collided>>
  BY DEF Begin
<1>3. TypeOK'
  BY <1>1, <1>2 DEF IInv, TypeOK, owner
<1>4. PlanSound'
  BY <1>1, <1>2 DEF IInv, TypeOK, PlanSound
<1>5. StrandedByCollisionOnly'
  BY <1>2 DEF IInv, StrandedByCollisionOnly, Stranded, OwnerRouted, owner
<1> QED BY <1>3, <1>4, <1>5 DEF IInv

LEMMA ReadKeeps ==
  ASSUME IInv, NEW s \in Slots, Read(s)
  PROVE  IInv'
<1> USE DEF IInv, TypeOK
<1>0. /\ Idle \in Plan /\ Idle.op = "idle" /\ ~Idle.last /\ NoMark \in Mark
      /\ Fingerprint(contest) \in Mark
      /\ OwnerRouted(contest) \subseteq Filed
      /\ SeatStamped(contest) \subseteq Filed
  BY IdleType, FingerprintType DEF OwnerRouted, SeatStamped
<1>1. ASSUME NEW c \in Filed, PlanSubmit(s, c) PROVE IInv'
  <2> DEFINE p == [Idle EXCEPT !.op = "submit", !.targets = {c},
                     !.route = IF MayDecide(c) /\ seats # {} THEN "owner" ELSE "aeci",
                     !.stamp = MayDecide(c) /\ seats = {}]
  <2>1. Begin(s, p) BY <1>1 DEF PlanSubmit
  <2>2. p \in Plan /\ p.op = "submit" BY <1>0 DEF Plan, Ops, Idle, MayDecide
  <2> QED BY <2>1, <2>2, BeginKeeps
<1>2. ASSUME NEW c \in Filed, PlanDecide(s, c) PROVE IInv'
  <2> DEFINE p == [Idle EXCEPT !.op = "decide", !.targets = {c}]
  <2>1. Begin(s, p) BY <1>2 DEF PlanDecide
  <2>2. p \in Plan /\ p.op = "decide" BY <1>0 DEF Plan, Ops, Idle
  <2> QED BY <2>1, <2>2, BeginKeeps
<1>3. ASSUME NEW c \in Filed, PlanAnswer(s, c) PROVE IInv'
  <2> DEFINE p == [Idle EXCEPT !.op = "answer", !.targets = {c}]
  <2>1. Begin(s, p) BY <1>3 DEF PlanAnswer
  <2>2. p \in Plan /\ p.op = "answer" BY <1>0 DEF Plan, Ops, Idle
  <2> QED BY <2>1, <2>2, BeginKeeps
<1>4. ASSUME NEW l \in Licenses, PlanEnd(s, l) PROVE IInv'
  <2> DEFINE last == live \subseteq {l}
             aeci == IF last THEN OwnerRouted(contest) \cap Powered ELSE {}
             uns  == IF last THEN SeatStamped(contest) \cap Powered ELSE {}
             mark == IF last THEN Fingerprint(contest) ELSE NoMark
             p == [Idle EXCEPT !.op = "end", !.targets = {l}, !.last = last,
                     !.toAeci = aeci, !.unstamp = uns, !.mark = mark,
                     !.read = OwnerRouted(contest)]
  <2>1. Begin(s, p) BY <1>4 DEF PlanEnd
  <2>2. /\ last \in BOOLEAN /\ mark \in Mark
        /\ aeci \in SUBSET Filed /\ uns \in SUBSET Filed
        /\ last => aeci = OwnerRouted(contest) \cap Powered
        /\ {l} \in SUBSET (Filed \cup Licenses \cup Seats)
    BY <1>0
  <2> HIDE DEF last, aeci, uns, mark
  <2>3. p \in Plan BY <1>0, <2>2 DEF Plan, Ops
  <2>4. p.op = "end" /\ p.last => p.toAeci = p.read \cap Powered
    BY <1>0, <2>2 DEF Plan
  <2> QED BY <2>1, <2>3, <2>4, BeginKeeps
<1>5. ASSUME NEW seat \in Seats, PlanLoss(s, seat) PROVE IInv'
  <2> DEFINE last == seats \subseteq {seat}
             p == [Idle EXCEPT !.op = "loss", !.targets = {seat}, !.last = last,
                     !.toAeci = IF last THEN OwnerRouted(contest) ELSE {}]
  <2>1. Begin(s, p) BY <1>5 DEF PlanLoss
  <2>2. p \in Plan /\ p.op = "loss" BY <1>0 DEF Plan, Ops, Idle
  <2> QED BY <2>1, <2>2, BeginKeeps
<1>6. ASSUME NEW seat \in Seats, PlanReturn(s, seat) PROVE IInv'
  <2> DEFINE back == {c \in SeatStamped(contest) : MayDecide(c)}
             p == [Idle EXCEPT !.op = "return", !.targets = {seat},
                     !.toOwner = back, !.unstamp = SeatStamped(contest) \ back]
  <2>1. Begin(s, p) BY <1>6 DEF PlanReturn
  <2>2. p \in Plan /\ p.op = "return" BY <1>0 DEF Plan, Ops, Idle
  <2> QED BY <2>1, <2>2, BeginKeeps
<1> QED BY <1>1, <1>2, <1>3, <1>4, <1>5, <1>6 DEF Read

-----------------------------------------------------------------------------
(* Commits.  A slot that commits is idle after it, and its plan was sound. *)

LEMMA FinishKeeps ==
  ASSUME IInv, NEW s \in Slots, Finish(s)
  PROVE  slot' \in [Slots -> Plan] /\ PlanSound'
  BY IdleType DEF IInv, TypeOK, Finish, PlanSound

(* Without a license, a commit after which no contest on a                 *)
(* connector-powered row is newly the owner's strands nothing new.         *)
LEMMA StrandsNothing ==
  ASSUME IInv, live = {}, collided' = collided,
         OwnerRouted(contest)' \cap Powered \subseteq OwnerRouted(contest)
  PROVE  StrandedByCollisionOnly'
  BY DEF IInv, TypeOK, StrandedByCollisionOnly, Stranded

LEMMA UnstampedRows ==
  ASSUME NEW at \in Time, NEW S \in SUBSET Filed, NEW t \in [Filed -> Row]
  PROVE  /\ Unstamped(t, S, at) \in [Filed -> Row]
         /\ \A c \in Filed : /\ Unstamped(t, S, at)[c].status = t[c].status
                              /\ Unstamped(t, S, at)[c].routed = t[c].routed
         /\ \A c \in Filed \ S : Unstamped(t, S, at)[c] = t[c]
  BY DEF Unstamped, Row

(* The three commits on one contest.                                       *)
LEMMA OneContestKeeps ==
  ASSUME IInv, NEW s \in Slots, NEW c \in Filed,
         CommitSubmit(s, c) \/ CommitDecide(s, c) \/ CommitAnswer(s, c)
  PROVE  IInv'
<1>0. slot[s] \in Plan BY DEF IInv, TypeOK
<1>1. CASE CommitSubmit(s, c)
  <2>1. TypeOK' /\ PlanSound'
    BY <1>0, <1>1, FinishKeeps DEF CommitSubmit, IInv, TypeOK, owner, Row, Plan
  <2>2. CASE live # {}
    BY <1>1, <2>1, <2>2 DEF CommitSubmit, owner, IInv, StrandedByCollisionOnly,
                            Stranded
  <2>3. CASE live = {}
    <3>1. c \in OwnerRouted(contest)' => c \notin Powered
      BY <1>1, <2>3 DEF CommitSubmit, OwnerRouted, Licensed, IInv, TypeOK
    <3>2. \A d \in Filed \ {c} : contest'[d] = contest[d]
      BY <1>1 DEF CommitSubmit, IInv, TypeOK
    <3>3. OwnerRouted(contest)' \cap Powered \subseteq OwnerRouted(contest) \cap Powered
      BY <3>1, <3>2 DEF OwnerRouted
    <3> QED BY <1>1, <2>1, <2>3, <3>3, StrandsNothing DEF CommitSubmit, IInv
  <2> QED BY <2>2, <2>3
<1>2. CASE CommitDecide(s, c) \/ CommitAnswer(s, c)
  <2>1. /\ contest' = [contest EXCEPT ![c].status = "decided", ![c].at = slot[s].at]
        /\ Finish(s) /\ UNCHANGED <<owner, now, collided>>
    BY <1>2 DEF CommitDecide, CommitAnswer
  <2>2. TypeOK' /\ PlanSound'
    <3>1. slot[s].at \in Time /\ contest \in [Filed -> Row]
      BY <1>0 DEF Plan, IInv, TypeOK
    <3>2. contest' \in [Filed -> Row] BY <2>1, <3>1 DEF Row
    <3> QED BY <2>1, <3>2, FinishKeeps DEF IInv, TypeOK, owner
  <2>3. OwnerRouted(contest)' \subseteq OwnerRouted(contest)
    BY <2>1 DEF OwnerRouted, IInv, TypeOK, Row
  <2> QED BY <2>1, <2>2, <2>3 DEF IInv, StrandedByCollisionOnly, Stranded, owner
<1> QED BY <1>1, <1>2

(* A sweep that read the set it found strands nothing.                     *)
LEMMA EndKeeps ==
  ASSUME IInv, NEW s \in Slots, NEW l \in Licenses, CommitEnd(s, l)
  PROVE  IInv'
<1> DEFINE plan == slot[s]
           S    == plan.toAeci \cap OwnerRouted(contest)
           t    == Rerouted(contest, S, "aeci", FALSE, plan.at)
<1>1. plan \in Plan /\ S \in SUBSET Filed /\ plan.unstamp \in SUBSET Filed
      /\ plan.at \in Time /\ contest \in [Filed -> Row]
  BY DEF IInv, TypeOK, Plan, OwnerRouted
<1>2. contest' = Unstamped(t, plan.unstamp, plan.at) /\ live' = live \ {l}
      /\ Finish(s) /\ UNCHANGED <<spent, seats, now>>
      /\ SweepGuard(plan, live \ {l})
      /\ collided' = (collided \/ (plan.last /\ plan.read # OwnerRouted(contest)))
      /\ plan.op = "end"
  BY DEF CommitEnd
<1>3. /\ t \in [Filed -> Row]
      /\ \A c \in S : t[c].routed = "aeci"
      /\ \A c \in Filed \ S : t[c] = contest[c]
  BY <1>1 DEF Rerouted, Row
<1>4. contest' \in [Filed -> Row] /\ \A c \in Filed :
        contest'[c].status = t[c].status /\ contest'[c].routed = t[c].routed
  <2>1. contest' = Unstamped(t, plan.unstamp, plan.at) BY <1>2
  <2> QED BY ONLY <1>1, <1>3, <2>1, UnstampedRows
<1>5. TypeOK' /\ PlanSound'
  BY <1>1, <1>2, <1>4, FinishKeeps DEF IInv, TypeOK
<1>6. StrandedByCollisionOnly'
  <2>1. SUFFICES ASSUME ~collided', live' = {}, NEW c \in OwnerRouted(contest)' \cap Powered
                 PROVE  FALSE
    BY <1>5 DEF StrandedByCollisionOnly, Stranded, TypeOK
  <2>2. plan.last /\ plan.read = OwnerRouted(contest)
    BY <1>1, <1>2, <2>1 DEF SweepGuard, Plan
  <2>3. plan.toAeci = OwnerRouted(contest) \cap Powered
    BY <1>2, <2>2 DEF IInv, PlanSound
  <2>4. c \in Filed /\ contest'[c].status = "open" /\ contest'[c].routed = "owner"
    BY <2>1 DEF OwnerRouted
  <2>5. contest'[c].status = t[c].status /\ contest'[c].routed = t[c].routed
    BY <1>4, <2>4
  <2>6. c \notin S
    BY <1>3, <2>4, <2>5
  <2>7. c \in OwnerRouted(contest)
    BY <1>3, <2>4, <2>5, <2>6 DEF OwnerRouted
  <2> QED BY <2>1, <2>3, <2>6, <2>7
<1> QED BY <1>5, <1>6 DEF IInv

LEMMA LossKeeps ==
  ASSUME IInv, NEW s \in Slots, NEW seat \in Seats, CommitLoss(s, seat)
  PROVE  IInv'
<1> DEFINE plan == slot[s]
           S    == plan.toAeci \cap OwnerRouted(contest)
<1>1. plan \in Plan /\ S \in SUBSET Filed /\ plan.at \in Time
      /\ contest \in [Filed -> Row]
  BY DEF IInv, TypeOK, Plan, OwnerRouted
<1>2. /\ contest' = Rerouted(contest, S, "aeci", TRUE, plan.at)
      /\ seats' = seats \ {seat} /\ Finish(s)
      /\ UNCHANGED <<live, spent, now, collided>>
  BY DEF CommitLoss
<1>3. /\ contest' \in [Filed -> Row]
      /\ \A c \in S : contest'[c].routed = "aeci"
      /\ \A c \in Filed \ S : contest'[c] = contest[c]
  BY <1>1, <1>2 DEF Rerouted, Row
<1>4. TypeOK' /\ PlanSound'
  BY <1>2, <1>3, FinishKeeps DEF IInv, TypeOK
<1>5. OwnerRouted(contest)' \subseteq OwnerRouted(contest)
  <2>1. SUFFICES ASSUME NEW c \in Filed, contest'[c].status = "open",
                        contest'[c].routed = "owner"
                 PROVE  c \in OwnerRouted(contest)
    BY DEF OwnerRouted
  <2>2. c \notin S BY <1>3, <2>1
  <2>3. contest'[c] = contest[c] BY <1>3, <2>1, <2>2
  <2> QED BY <2>1, <2>3 DEF OwnerRouted
<1> QED BY <1>2, <1>4, <1>5 DEF IInv, StrandedByCollisionOnly, Stranded

LEMMA ReturnKeeps ==
  ASSUME IInv, NEW s \in Slots, NEW seat \in Seats, CommitReturn(s, seat)
  PROVE  IInv'
<1> DEFINE plan == slot[s]
           t    == Rerouted(contest, plan.toOwner, "owner", FALSE, plan.at)
<1>1. plan \in Plan /\ plan.toOwner \in SUBSET Filed
      /\ plan.unstamp \in SUBSET Filed /\ plan.at \in Time
      /\ contest \in [Filed -> Row]
  BY DEF IInv, TypeOK, Plan
<1>2. /\ contest' = Unstamped(t, plan.unstamp, plan.at)
      /\ Licensed(plan.toOwner)
      /\ seats' = seats \cup {seat} /\ Finish(s)
      /\ UNCHANGED <<live, spent, now, collided>>
  BY DEF CommitReturn
<1>3. /\ t \in [Filed -> Row]
      /\ \A c \in Filed \ plan.toOwner : t[c] = contest[c]
  BY <1>1 DEF Rerouted, Row
<1>4. contest' \in [Filed -> Row] /\ \A c \in Filed :
        contest'[c].status = t[c].status /\ contest'[c].routed = t[c].routed
  BY ONLY <1>1, <1>2, <1>3, UnstampedRows
<1>5. TypeOK' /\ PlanSound'
  BY <1>2, <1>4, FinishKeeps DEF IInv, TypeOK
<1>6. StrandedByCollisionOnly'
  <2>1. CASE live # {}
    BY <1>2, <2>1 DEF StrandedByCollisionOnly, Stranded
  <2>2. CASE live = {}
    <3>1. SUFFICES ASSUME NEW c \in OwnerRouted(contest)' \cap Powered
                   PROVE  c \in OwnerRouted(contest)
      BY <1>2, <2>2, StrandsNothing
    <3>2. c \in Filed /\ contest'[c].status = "open" /\ contest'[c].routed = "owner"
      BY <3>1 DEF OwnerRouted
    <3>3. c \notin plan.toOwner BY <1>2, <2>2, <3>1 DEF Licensed
    <3>4. contest'[c].status = t[c].status /\ contest'[c].routed = t[c].routed
      BY <1>4, <3>2
    <3>5. t[c] = contest[c] BY <1>3, <3>2, <3>3
    <3> QED BY <3>2, <3>4, <3>5 DEF OwnerRouted
  <2> QED BY <2>1, <2>2
<1> QED BY <1>5, <1>6 DEF IInv

-----------------------------------------------------------------------------
(* Steps without a plan, and the whole.                                    *)

LEMMA NextKeeps ==
  ASSUME IInv, [Next]_vars
  PROVE  IInv'
<1>1. ASSUME NEW s \in Slots, Read(s) PROVE IInv'
  BY <1>1, ReadKeeps
<1>2. ASSUME NEW s \in Slots, Commit(s) PROVE IInv'
  BY <1>2, OneContestKeeps, EndKeeps, LossKeeps, ReturnKeeps DEF Commit
<1>3. ASSUME NEW s \in Slots, Abandon(s) PROVE IInv'
  BY <1>3, FinishKeeps
     DEF Abandon, IInv, TypeOK, owner, StrandedByCollisionOnly, Stranded, OwnerRouted
<1>4. ASSUME NEW c \in Filed, Withdraw(c) PROVE IInv'
  <2>1. TypeOK' /\ PlanSound'
    BY <1>4 DEF Withdraw, IInv, TypeOK, owner, Row, PlanSound
  <2>2. OwnerRouted(contest)' \subseteq OwnerRouted(contest)
    BY <1>4 DEF Withdraw, OwnerRouted, IInv, TypeOK, Row
  <2> QED BY <1>4, <2>1, <2>2
          DEF Withdraw, IInv, StrandedByCollisionOnly, Stranded, owner
<1>5. ASSUME NEW l \in Licenses, Grant(l) PROVE IInv'
  BY <1>5 DEF Grant, IInv, TypeOK, PlanSound, StrandedByCollisionOnly, Stranded
<1>6. CASE Tick
  <2>1. now' \in Time
    BY <1>6, ContestConstants DEF Tick, Time, IInv, TypeOK
  <2>2. UNCHANGED <<contest, live, spent, seats, slot, collided>>
    BY <1>6 DEF Tick, owner
  <2> QED BY <2>1, <2>2 DEF IInv, TypeOK, PlanSound, StrandedByCollisionOnly,
                            Stranded, OwnerRouted
<1>7. CASE UNCHANGED vars
  BY <1>7 DEF vars, IInv, TypeOK, PlanSound, StrandedByCollisionOnly, Stranded,
              OwnerRouted
<1> QED BY <1>1, <1>2, <1>3, <1>4, <1>5, <1>6, <1>7 DEF Next

THEOREM Invariant == Spec => []IInv
<1>1. Init => IInv
  <2> SUFFICES ASSUME Init PROVE IInv
    OBVIOUS
  <2>1. 0 \in Time
    BY ContestConstants DEF Time
  <2>2. TypeOK
    BY <2>1, IdleType DEF Init, TypeOK, Row
  <2>3. PlanSound
    BY IdleType DEF Init, PlanSound
  <2>4. StrandedByCollisionOnly
    BY DEF Init, StrandedByCollisionOnly, Stranded, OwnerRouted
  <2> QED BY <2>2, <2>3, <2>4 DEF IInv
<1>2. IInv /\ [Next]_vars => IInv'
  BY NextKeeps
<1> QED BY <1>1, <1>2, PTL DEF Spec

(* Type correctness, for any contests, licenses, seats and handlers.       *)
THEOREM Typed == Spec => []TypeOK
<1>1. IInv => TypeOK BY DEF IInv
<1> QED BY <1>1, Invariant, PTL

(* Ruling B holds but for the fingerprint: the sentinels of the submit,    *)
(* the return and the license end leave no other way to strand a contest   *)
(* with an owner that has no license.                                      *)
THEOREM SweepSound == Spec => []StrandedByCollisionOnly
<1>1. IInv => StrandedByCollisionOnly BY DEF IInv
<1> QED BY <1>1, Invariant, PTL

(* The owner's decision on a connector-powered row commits under a license.*)
THEOREM DecidesLicensed == Spec => OwnerDecidesLicensed
<1> DEFINE P == \A s \in Slots, c \in Powered :
                 (slot[s].op = "decide" /\ slot'[s] = Idle /\ contest'[c] # contest[c])
                   => live # {} \/ collided
<1>1. IInv /\ [Next]_vars => [P]_vars
  <2> SUFFICES ASSUME IInv, Next, NEW s \in Slots, NEW c \in Powered,
                      slot[s].op = "decide", slot'[s] = Idle,
                      contest'[c] # contest[c]
               PROVE  live # {} \/ collided
    OBVIOUS
  <2>1. /\ c \in Filed /\ slot'[s] # slot[s]
        /\ contest \in [Filed -> Row] /\ slot \in [Slots -> Plan]
    BY IdleType, ContestConstants DEF IInv, TypeOK
  <2>2. PICK r \in Slots : Read(r) \/ Commit(r) \/ Abandon(r)
    BY <2>1 DEF Next, Withdraw, Grant, Tick
  <2>3. contest' = contest \/ Commit(r)
    BY <2>2 DEF Read, Begin, PlanSubmit, PlanDecide, PlanAnswer, PlanEnd, PlanLoss,
                PlanReturn, Abandon
  <2>4. Commit(r) /\ Finish(r)
    BY <2>1, <2>3 DEF Commit, CommitSubmit, CommitDecide, CommitAnswer, CommitEnd,
                      CommitLoss, CommitReturn
  <2>5. r = s
    BY <2>1, <2>4 DEF Finish
  <2>6. PICK d \in Filed : CommitDecide(s, d)
    BY <2>4, <2>5 DEF Commit, CommitSubmit, CommitAnswer, CommitEnd, CommitLoss,
                      CommitReturn
  <2>7. c = d
    BY <2>1, <2>6 DEF CommitDecide
  <2>8. c \in OwnerRouted(contest)
    BY <2>6, <2>7 DEF CommitDecide, StillOwners
  <2> QED BY <2>8 DEF IInv, StrandedByCollisionOnly, Stranded
<1> QED BY <1>1, Invariant, PTL DEF Spec, OwnerDecidesLicensed

(* What AECi has for good stays with it, whatever seat events were planned.*)
THEOREM StaysWithAeci == Spec => AeciForGood
<1> DEFINE P == \A c \in Filed :
                 (contest[c].status = "open" /\ contest[c].routed = "aeci"
                    /\ ~contest[c].stamped)
                   => contest'[c].routed = "aeci" /\ ~contest'[c].stamped
<1>1. IInv /\ [Next]_vars => [P]_vars
  <2> SUFFICES ASSUME IInv, Next, NEW c \in Filed, contest[c].status = "open",
                      contest[c].routed = "aeci", ~contest[c].stamped
               PROVE  contest'[c].routed = "aeci" /\ ~contest'[c].stamped
    OBVIOUS
  <2>1. contest \in [Filed -> Row] /\ slot \in [Slots -> Plan]
        /\ c \notin OwnerRouted(contest) /\ c \notin SeatStamped(contest)
    BY DEF IInv, TypeOK, OwnerRouted, SeatStamped
  <2>2. CASE contest' = contest
    BY <2>2
  <2>3. ASSUME NEW d \in Filed, Withdraw(d)
        PROVE  contest'[c].routed = "aeci" /\ ~contest'[c].stamped
    BY <2>1, <2>3 DEF Withdraw, Row
  <2>4. ASSUME NEW r \in Slots, NEW d \in Filed,
               CommitSubmit(r, d) \/ CommitDecide(r, d) \/ CommitAnswer(r, d)
        PROVE  contest'[c].routed = "aeci" /\ ~contest'[c].stamped
    BY <2>1, <2>4 DEF CommitSubmit, CommitDecide, CommitAnswer, Row
  <2>5. ASSUME NEW r \in Slots, NEW l \in Licenses, CommitEnd(r, l)
        PROVE  contest'[c].routed = "aeci" /\ ~contest'[c].stamped
    BY <2>1, <2>5 DEF CommitEnd, Rerouted, Unstamped
  <2>6. ASSUME NEW r \in Slots, NEW seat \in Seats, CommitLoss(r, seat)
        PROVE  contest'[c].routed = "aeci" /\ ~contest'[c].stamped
    BY <2>1, <2>6 DEF CommitLoss, Rerouted
  <2>7. ASSUME NEW r \in Slots, NEW seat \in Seats, CommitReturn(r, seat)
        PROVE  contest'[c].routed = "aeci" /\ ~contest'[c].stamped
    BY <2>1, <2>7 DEF CommitReturn, StillStamped, Rerouted, Unstamped
  <2>8. ASSUME NEW r \in Slots, Read(r) \/ Abandon(r) PROVE contest' = contest
    BY <2>8 DEF Read, Begin, PlanSubmit, PlanDecide, PlanAnswer, PlanEnd, PlanLoss,
                PlanReturn, Abandon
  <2> QED BY <2>2, <2>3, <2>4, <2>5, <2>6, <2>7, <2>8 DEF Next, Commit, Grant, Tick
<1> QED BY <1>1, Invariant, PTL DEF Spec, AeciForGood
-----------------------------------------------------------------------------
(* An owner without a seat.                                                *)

(* Contests that wait for an owner nobody can act for.                     *)
SeatlessOwned == IF seats = {} THEN OwnerRouted(contest) ELSE {}

(* A step that is no commit of a plan makes none: it routes nothing to the *)
(* owner and takes no seat.                                                *)
LEMMA OnlyCommitsRoute ==
  ASSUME IInv, [Next]_vars, ~\E s \in Slots : Commit(s)
  PROVE  OwnerRouted(contest)' \subseteq OwnerRouted(contest) /\ seats' = seats
<1>1. ASSUME NEW s \in Slots, Read(s) \/ Abandon(s)
      PROVE  contest' = contest /\ seats' = seats
  BY <1>1 DEF Read, Begin, PlanSubmit, PlanDecide, PlanAnswer, PlanEnd, PlanLoss,
              PlanReturn, Abandon, owner
<1>2. ASSUME NEW c \in Filed, Withdraw(c)
      PROVE  OwnerRouted(contest)' \subseteq OwnerRouted(contest) /\ seats' = seats
  BY <1>2 DEF Withdraw, OwnerRouted, IInv, TypeOK, Row, owner
<1>3. CASE UNCHANGED <<contest, seats>>
  BY <1>3 DEF OwnerRouted
<1> QED
  BY <1>1, <1>2, <1>3 DEF Next, Grant, Tick, owner, vars, OwnerRouted

(* A contest comes to wait for an owner without a seat in two ways only: a *)
(* submit that had read a seat commits after the last was lost, or the     *)
(* loss of the last seat commits without having planned that contest's     *)
(* re-route.  License ends, decisions and seat returns never do it, for    *)
(* any number of contests, seats and handlers.                             *)
THEOREM OnlyCrossingsSeatless ==
  Spec => [][\A c \in SeatlessOwned' \ SeatlessOwned :
               \E s \in Slots :
                 \/ CommitSubmit(s, c) /\ slot[s].route = "owner"
                 \/ \E seat \in Seats : CommitLoss(s, seat)
                                         /\ c \notin slot[s].toAeci]_vars
<1> DEFINE Way(c) == \E s \in Slots :
                       \/ CommitSubmit(s, c) /\ slot[s].route = "owner"
                       \/ \E seat \in Seats : CommitLoss(s, seat)
                                               /\ c \notin slot[s].toAeci
<1>1. ASSUME IInv, [Next]_vars, NEW c \in SeatlessOwned' \ SeatlessOwned
      PROVE  Way(c)
  <2>1. /\ seats' = {} /\ c \in OwnerRouted(contest)' /\ c \in Filed
        /\ contest'[c].status = "open" /\ contest'[c].routed = "owner"
    BY <1>1 DEF SeatlessOwned, OwnerRouted
  <2>2. seats # {} \/ c \notin OwnerRouted(contest)
    BY <1>1 DEF SeatlessOwned
  <2>3. contest \in [Filed -> Row] /\ slot \in [Slots -> Plan]
    BY <1>1 DEF IInv, TypeOK
  <2>4. PICK s \in Slots : Commit(s)
    BY <1>1, <2>1, <2>2, OnlyCommitsRoute
  <2>5. ASSUME NEW d \in Filed, CommitSubmit(s, d) PROVE Way(c)
    <3>1. seats' = seats /\ contest' = [contest EXCEPT
            ![d] = [status |-> "open", routed |-> slot[s].route,
                    stamped |-> slot[s].stamp, at |-> slot[s].at]]
      BY <2>5 DEF CommitSubmit, owner
    <3>2. c = d
      BY <2>1, <2>2, <2>3, <3>1 DEF OwnerRouted
    <3> QED
      BY <2>1, <2>3, <2>5, <3>1, <3>2
  <2>6. ASSUME NEW d \in Filed, CommitDecide(s, d) \/ CommitAnswer(s, d)
        PROVE  FALSE
    BY <2>1, <2>2, <2>3, <2>6 DEF CommitDecide, CommitAnswer, owner, OwnerRouted, Row
  <2>7. ASSUME NEW l \in Licenses, CommitEnd(s, l) PROVE FALSE
    <3>1. seats' = seats /\ contest'[c].routed \in {contest[c].routed, "aeci"}
                         /\ contest'[c].status = contest[c].status
      BY <2>1, <2>3, <2>7 DEF CommitEnd, Unstamped, Rerouted, Row
    <3> QED
      BY <2>1, <2>2, <3>1 DEF OwnerRouted
  <2>8. ASSUME NEW seat \in Seats, CommitLoss(s, seat) PROVE Way(c)
    <3>1. c \notin slot[s].toAeci \cap OwnerRouted(contest)
          /\ contest'[c] = contest[c]
      BY <2>1, <2>3, <2>8 DEF CommitLoss, Rerouted, Row
    <3>2. c \in OwnerRouted(contest)
      BY <2>1, <3>1 DEF OwnerRouted
    <3> QED
      BY <2>8, <3>1, <3>2
  <2>9. ASSUME NEW seat \in Seats, CommitReturn(s, seat) PROVE FALSE
    BY <2>1, <2>9 DEF CommitReturn
  <2> QED
    BY <2>4, <2>5, <2>6, <2>7, <2>8, <2>9 DEF Commit
<1>2. IInv /\ [Next]_vars
        => [\A c \in SeatlessOwned' \ SeatlessOwned :
              \E s \in Slots :
                \/ CommitSubmit(s, c) /\ slot[s].route = "owner"
                \/ \E seat \in Seats : CommitLoss(s, seat)
                                        /\ c \notin slot[s].toAeci]_vars
  BY <1>1
<1> QED
  BY <1>2, Invariant, PTL DEF Spec
-----------------------------------------------------------------------------
(* A sweep that nothing crosses.                                           *)

(* The end of l, planned from the rows, the licenses and the stamps as     *)
(* they are.                                                               *)
UncrossedEnd(s, l) ==
  LET plan == slot[s]
  IN  /\ plan.op = "end" /\ plan.targets = {l} /\ l \in live
      /\ plan.last = (live \subseteq {l})
      /\ plan.toAeci  = IF plan.last THEN OwnerRouted(contest) \cap Powered ELSE {}
      /\ plan.unstamp = IF plan.last THEN SeatStamped(contest) \cap Powered ELSE {}
      /\ plan.last => plan.mark = Fingerprint(contest)
      /\ plan.read = OwnerRouted(contest)

(* What the batch of an end asks the database.                             *)
EndFits(s, l) ==
  /\ SweepGuard(slot[s], live \ {l})
  /\ slot[s].last => Fingerprint(contest) = slot[s].mark
  /\ slot[s].unstamp \subseteq SeatStamped(contest)

LEMMA PlansUncrossedEnd ==
  ASSUME IInv, NEW s \in Slots, NEW l \in Licenses, PlanEnd(s, l)
  PROVE  UncrossedEnd(s, l)'
<1> DEFINE last == live \subseteq {l}
           aeci == IF last THEN OwnerRouted(contest) \cap Powered ELSE {}
           uns  == IF last THEN SeatStamped(contest) \cap Powered ELSE {}
           mark == IF last THEN Fingerprint(contest) ELSE NoMark
           read == OwnerRouted(contest)
           p == [Idle EXCEPT !.op = "end", !.targets = {l}, !.last = last,
                   !.toAeci = aeci, !.unstamp = uns, !.mark = mark, !.read = read]
<1>1. Begin(s, p) /\ l \in live
  BY DEF PlanEnd
<1>2. contest' = contest /\ live' = live /\ slot' = [slot EXCEPT ![s] = [p EXCEPT !.at = now]]
  BY <1>1 DEF Begin, owner
<1>3. /\ OwnerRouted(contest)' = OwnerRouted(contest)
      /\ SeatStamped(contest)' = SeatStamped(contest)
      /\ Fingerprint(contest)' = Fingerprint(contest)
  BY <1>2 DEF Fingerprint, Newest, OwnerRouted, SeatStamped
<1> HIDE DEF last, aeci, uns, mark, read
<1>4. slot'[s] = [p EXCEPT !.at = now]
  BY <1>2 DEF IInv, TypeOK
<1>5. /\ slot'[s].op = "end" /\ slot'[s].targets = {l} /\ slot'[s].last = last
      /\ slot'[s].toAeci = aeci /\ slot'[s].unstamp = uns
      /\ slot'[s].mark = mark /\ slot'[s].read = read
  BY <1>4 DEF Idle
<1> QED
  BY <1>1, <1>2, <1>3, <1>5 DEF UncrossedEnd, last, aeci, uns, mark, read

LEMMA UncrossedEndFits ==
  ASSUME NEW s \in Slots, NEW l \in Licenses, UncrossedEnd(s, l)
  PROVE  EndFits(s, l)
  BY DEF UncrossedEnd, EndFits, SweepGuard

LEMMA UncrossedEndSweeps ==
  ASSUME IInv, NEW s \in Slots, NEW l \in Licenses, UncrossedEnd(s, l),
         CommitEnd(s, l), live = {l}
  PROVE  /\ (OwnerRouted(contest)' \cup SeatStamped(contest)') \cap Powered = {}
         /\ collided' = collided
<1> DEFINE plan == slot[s]
           S    == plan.toAeci \cap OwnerRouted(contest)
           t    == Rerouted(contest, S, "aeci", FALSE, plan.at)
<1>1. /\ plan.last /\ plan.read = OwnerRouted(contest)
      /\ plan.unstamp = SeatStamped(contest) \cap Powered
      /\ S = OwnerRouted(contest) \cap Powered
  BY DEF UncrossedEnd
<1>2. /\ S \in SUBSET Filed /\ plan.unstamp \in SUBSET Filed /\ plan.at \in Time
      /\ contest \in [Filed -> Row]
  BY DEF IInv, TypeOK, Plan, OwnerRouted
<1>3. /\ contest' = Unstamped(t, plan.unstamp, plan.at)
      /\ collided' = (collided \/ (plan.last /\ plan.read # OwnerRouted(contest)))
  BY DEF CommitEnd
<1>4. collided' = collided
  BY <1>1, <1>3 DEF IInv, TypeOK
<1>5. \A c \in Filed :
        t[c] = IF c \in S THEN [contest[c] EXCEPT !.routed = "aeci", !.stamped = FALSE,
                                                  !.at = plan.at]
               ELSE contest[c]
  BY DEF Rerouted
<1>6. \A c \in Filed :
        contest'[c] = IF c \in plan.unstamp
                      THEN [t[c] EXCEPT !.stamped = FALSE, !.at = plan.at] ELSE t[c]
  BY <1>3 DEF Unstamped
<1> HIDE DEF plan, S, t
<1>7. ASSUME NEW c \in Filed, c \in Powered, contest'[c].status = "open"
      PROVE  contest'[c].routed # "owner" /\ ~contest'[c].stamped
  <2>1. contest[c] \in Row /\ t[c] \in Row
    BY <1>2, <1>5, <1>7 DEF Row
  <2>2. CASE c \in S
    BY <1>5, <1>6, <1>7, <2>1, <2>2 DEF Row
  <2>3. CASE c \notin S
    <3>1. /\ t[c] = contest[c] /\ contest[c].status = "open"
          /\ contest[c].routed = contest'[c].routed
      BY <1>5, <1>6, <1>7, <2>1, <2>3 DEF Row
    <3>2. contest[c].routed = "aeci"
      BY <1>1, <1>7, <2>1, <2>3, <3>1 DEF OwnerRouted, Row
    <3>3. contest[c].stamped => c \in plan.unstamp
      BY <1>1, <1>7, <3>1, <3>2 DEF SeatStamped
    <3> QED
      BY <1>6, <1>7, <2>1, <3>1, <3>2, <3>3 DEF Row
  <2> QED
    BY <2>2, <2>3
<1> QED
  BY <1>4, <1>7 DEF OwnerRouted, SeatStamped

(* A license end that nothing crosses is not refused, and when it ends the *)
(* last license it takes every contest on a connector-powered row from the *)
(* owner and clears every stamp that would send one back, and its guard    *)
(* has seen no changed set: Ruling B in full, for any number of contests.  *)
THEOREM UncrossedSweeps ==
  Spec => /\ [][\A s \in Slots, l \in Licenses :
                  PlanEnd(s, l) => UncrossedEnd(s, l)']_vars
          /\ [](\A s \in Slots, l \in Licenses : UncrossedEnd(s, l) => EndFits(s, l))
          /\ [][\A s \in Slots, l \in Licenses :
                  UncrossedEnd(s, l) /\ CommitEnd(s, l) /\ live = {l}
                    => /\ (OwnerRouted(contest)' \cup SeatStamped(contest)')
                            \cap Powered = {}
                       /\ collided' = collided]_vars
<1>1. IInv /\ [Next]_vars
        => [\A s \in Slots, l \in Licenses :
              PlanEnd(s, l) => UncrossedEnd(s, l)']_vars
  BY PlansUncrossedEnd
<1>2. IInv => \A s \in Slots, l \in Licenses : UncrossedEnd(s, l) => EndFits(s, l)
  BY UncrossedEndFits
<1>3. IInv /\ [Next]_vars
        => [\A s \in Slots, l \in Licenses :
              UncrossedEnd(s, l) /\ CommitEnd(s, l) /\ live = {l}
                => /\ (OwnerRouted(contest)' \cup SeatStamped(contest)')
                        \cap Powered = {}
                   /\ collided' = collided]_vars
  BY UncrossedEndSweeps
<1> QED
  BY <1>1, <1>2, <1>3, Invariant, PTL DEF Spec
=============================================================================
