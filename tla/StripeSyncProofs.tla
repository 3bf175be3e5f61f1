-------------------------- MODULE StripeSyncProofs --------------------------
(***************************************************************************)
(* What holds of StripeSync for every set of handlers in flight and every  *)
(* bound.                                                                  *)
(*                                                                         *)
(* Only a handler's commit can make a license live, and only the ids it    *)
(* planned to grant.  A handler whose read saw a ban plans no grant        *)
(* (SawBanGrantsNone); any other is refused once there is a ban.  The ids  *)
(* it grants are the next ordinals after the rows it read, so when they    *)
(* are still free no one granted in between, and the licenses it counted   *)
(* have at most ended (GrantFits).                                         *)
(***************************************************************************)
EXTENDS StripeSync, LicenseTableProofs

-----------------------------------------------------------------------------
(* Stripe's last event is the cancel.                                      *)
CancelIsLast == sub.status # "canceled" => emitted <= MaxEvents

SawBanGrantsNone ==
  \A s \in Slots :
    slot[s].stage = "planned" /\ slot[s].sawBan => slot[s].count = 0

IInv == TypeOK /\ CancelIsLast /\ SawBanGrantsNone /\ BannedIsLast
               /\ DeadVendorHoldsNone

-----------------------------------------------------------------------------
LEMMA IdsFinite ==
  /\ IsFiniteSet(Ids)
  /\ Cardinality(Ids) \in Nat
  /\ \A S \in SUBSET Ids : /\ IsFiniteSet(S)
                           /\ Cardinality(S) \in 0 .. Cardinality(Ids)
<1>1. IsFiniteSet(Ids) /\ Cardinality(Ids) \in Nat
  BY TableConstants, FS_CardinalityType
<1>2. ASSUME NEW S \in SUBSET Ids
      PROVE  /\ IsFiniteSet(S)
             /\ Cardinality(S) \in 0 .. Cardinality(Ids)
  <2>1. IsFiniteSet(S) /\ Cardinality(S) <= Cardinality(Ids)
    BY <1>1, <1>2, FS_Subset
  <2> QED
    BY <1>1, <2>1, FS_CardinalityType
<1> QED
  BY <1>1, <1>2

(* The rows a commit leaves, whatever it planned.                          *)
LEMMA SyncedRows ==
  ASSUME lic \in Table, NEW h \in Handler
  PROVE  /\ Synced(h) \in Table
         /\ \A l \in Ids :
              /\ Synced(h)[l].state = "live"
                   => l \notin h.out /\ (lic[l].state = "live" \/ l \in Grants(h))
              /\ Synced(h)[l].state = "absent" => lic[l].state = "absent"
              /\ Synced(h)[l].state # "absent"
                   => lic[l].state # "absent" \/ l \in Grants(h) \/ l \in h.out
              /\ l \in Grants(h) => Synced(h)[l].state # "absent"
              /\ Synced(h)[l].reason = "banned" => lic[l].reason = "banned"
         /\ \A l \in Ids :
              /\ Synced(h)[l].state = IF l \in h.out THEN "ended"
                                     ELSE IF l \in Grants(h) THEN "live"
                                     ELSE lic[l].state
              /\ Synced(h)[l].prod = IF l \in Grants(h) THEN NoProd
                                    ELSE lic[l].prod
              /\ Synced(h)[l].ends = IF l \in h.moves \cup Grants(h)
                                    THEN h.snap.period ELSE lic[l].ends
<1> DEFINE g == Granted(lic, Grants(h), h.snap.period)
           f == Ended(g, Releases(h), "released")
           t == Ended(f, h.out \ Releases(h), "lapsed")
<1>0. /\ h.snap.period \in Time
      /\ Releases(h) \subseteq h.out /\ h.out \subseteq Ids
  BY DEF Handler, Sub, Releases
<1>1. /\ g \in Table
      /\ \A l \in Ids : g[l] = IF l \in Grants(h)
                               THEN [Blank EXCEPT !.state = "live", !.ends = h.snap.period]
                               ELSE lic[l]
  BY <1>0, BlankRow DEF Granted, Table, Row, Ends, States
<1>2. /\ f \in Table
      /\ \A l \in Ids :
           /\ f[l].state = IF l \in Releases(h) THEN "ended" ELSE g[l].state
           /\ f[l].reason = IF l \in Releases(h) THEN "released" ELSE g[l].reason
           /\ f[l].prod = g[l].prod /\ f[l].ends = g[l].ends
  <2>1. Releases(h) \in SUBSET Ids /\ "released" \in Reasons
    BY <1>0 DEF Reasons
  <2> HIDE DEF g
  <2> QED
    BY <1>1, <2>1, EndedRows
<1>3. /\ t \in Table
      /\ \A l \in Ids :
           /\ t[l].state = IF l \in h.out \ Releases(h) THEN "ended" ELSE f[l].state
           /\ t[l].reason = IF l \in h.out \ Releases(h) THEN "lapsed" ELSE f[l].reason
           /\ t[l].prod = f[l].prod /\ t[l].ends = f[l].ends
  <2> DEFINE rest == h.out \ Releases(h)
  <2>1. rest \in SUBSET Ids /\ "lapsed" \in Reasons
    BY <1>0 DEF Reasons
  <2> HIDE DEF f, rest
  <2>2. /\ Ended(f, rest, "lapsed") \in Table
        /\ \A l \in Ids :
             /\ Ended(f, rest, "lapsed")[l].state = IF l \in rest THEN "ended" ELSE f[l].state
             /\ Ended(f, rest, "lapsed")[l].reason = IF l \in rest THEN "lapsed" ELSE f[l].reason
             /\ Ended(f, rest, "lapsed")[l].prod = f[l].prod
             /\ Ended(f, rest, "lapsed")[l].ends = f[l].ends
    BY <1>2, <2>1, LapsedEndRows
  <2> QED
    BY <2>2 DEF rest
<1>4. \A l \in Ids :
        /\ t[l].state = "live"
             => l \notin h.out /\ (lic[l].state = "live" \/ l \in Grants(h))
        /\ t[l].state = "absent" => lic[l].state = "absent"
        /\ t[l].state # "absent"
             => lic[l].state # "absent" \/ l \in Grants(h) \/ l \in h.out
        /\ l \in Grants(h) => t[l].state # "absent"
        /\ t[l].reason = "banned" => lic[l].reason = "banned"
        /\ t[l].state = IF l \in h.out THEN "ended"
                        ELSE IF l \in Grants(h) THEN "live" ELSE lic[l].state
        /\ t[l].prod = IF l \in Grants(h) THEN NoProd ELSE lic[l].prod
        /\ t[l].ends = IF l \in Grants(h) THEN h.snap.period ELSE lic[l].ends
  <2> SUFFICES ASSUME NEW l \in Ids
      PROVE  /\ t[l].state = "live"
                  => l \notin h.out /\ (lic[l].state = "live" \/ l \in Grants(h))
             /\ t[l].state = "absent" => lic[l].state = "absent"
             /\ t[l].state # "absent"
                  => lic[l].state # "absent" \/ l \in Grants(h) \/ l \in h.out
             /\ l \in Grants(h) => t[l].state # "absent"
             /\ t[l].reason = "banned" => lic[l].reason = "banned"
             /\ t[l].state = IF l \in h.out THEN "ended"
                             ELSE IF l \in Grants(h) THEN "live" ELSE lic[l].state
             /\ t[l].prod = IF l \in Grants(h) THEN NoProd ELSE lic[l].prod
             /\ t[l].ends = IF l \in Grants(h) THEN h.snap.period ELSE lic[l].ends
    OBVIOUS
  <2>1. /\ g[l].state = IF l \in Grants(h) THEN "live" ELSE lic[l].state
        /\ g[l].reason = IF l \in Grants(h) THEN "none" ELSE lic[l].reason
        /\ g[l].prod = IF l \in Grants(h) THEN NoProd ELSE lic[l].prod
        /\ g[l].ends = IF l \in Grants(h) THEN h.snap.period ELSE lic[l].ends
        /\ g[l] \in Row
    BY <1>1 DEF Blank, Table
  <2> HIDE DEF g, f, t
  <2> QED
    BY <1>0, <1>2, <1>3, <2>1
<1>5. \A l \in Ids : /\ Synced(h)[l] = IF l \in h.moves
                                       THEN [t[l] EXCEPT !.ends = h.snap.period]
                                       ELSE t[l]
                     /\ Synced(h)[l].state = t[l].state
                     /\ Synced(h)[l].reason = t[l].reason
                     /\ Synced(h)[l].prod = t[l].prod
                     /\ Synced(h)[l].ends = IF l \in h.moves THEN h.snap.period
                                            ELSE t[l].ends
  BY <1>3 DEF Synced, Table, Row, Ends
<1>6. Synced(h) \in Table
  <2>1. ASSUME NEW l \in Ids PROVE Synced(h)[l] \in Row
    <3>1. t[l] \in Row /\ h.snap.period \in Ends
      BY <1>0, <1>3 DEF Table, Ends
    <3> HIDE DEF t
    <3> QED
      BY <1>5, <3>1 DEF Row
  <2>2. Synced(h) = [l \in Ids |-> Synced(h)[l]]
    BY DEF Synced
  <2> QED
    BY <2>1, <2>2 DEF Table
<1> HIDE DEF t
<1>7. \A l \in Ids : Synced(h)[l].ends = IF l \in h.moves \cup Grants(h)
                                         THEN h.snap.period ELSE lic[l].ends
  BY <1>4, <1>5
<1>8. \A l \in Ids :
        /\ Synced(h)[l].state = "live"
             => l \notin h.out /\ (lic[l].state = "live" \/ l \in Grants(h))
        /\ Synced(h)[l].state = "absent" => lic[l].state = "absent"
        /\ Synced(h)[l].state # "absent"
             => lic[l].state # "absent" \/ l \in Grants(h) \/ l \in h.out
        /\ l \in Grants(h) => Synced(h)[l].state # "absent"
        /\ Synced(h)[l].reason = "banned" => lic[l].reason = "banned"
  BY <1>4, <1>5
<1>9. \A l \in Ids :
        /\ Synced(h)[l].state = IF l \in h.out THEN "ended"
                               ELSE IF l \in Grants(h) THEN "live" ELSE lic[l].state
        /\ Synced(h)[l].prod = IF l \in Grants(h) THEN NoProd ELSE lic[l].prod
  BY <1>4, <1>5
<1> QED
  BY <1>6, <1>7, <1>8, <1>9

-----------------------------------------------------------------------------
(* Types.                                                                  *)

LEMMA IdleType == MaxQty > 0 => Idle \in Handler
<1> SUFFICES ASSUME MaxQty > 0 PROVE Idle \in Handler
  OBVIOUS
<1>1. NoSub \in Sub
  BY TableConstants, StripeConstants DEF NoSub, Sub, Statuses, Time
<1>2. Unread \in Table
  BY BlankRow DEF Unread, Table
<1>3. 0 \in 0 .. Cardinality(Ids) /\ 0 \in 0 .. MaxQty
  BY IdsFinite, StripeConstants
<1> QED
  BY <1>1, <1>2, <1>3 DEF Idle, Handler

LEMMA DeltaType ==
  ASSUME NEW t \in Table, NEW snap \in Sub
  PROVE  Delta(t, snap) \in 0 .. MaxQty
<1>1. Cardinality(Live(t)) \in Nat
  BY IdsFinite DEF Live
<1> QED
  BY <1>1, StripeConstants DEF Delta, Sub

LEMMA PlanBatchType ==
  ASSUME TypeOK, NEW s \in Slots, PlanBatch(s)
  PROVE  slot' \in [Slots -> Handler]
<1> DEFINE h == slot[s]
           out == Ending(lic, h.snap)
<1>1. h \in Handler /\ h.snap \in Sub /\ lic \in Table
  BY DEF TypeOK, Handler
<1>2. Delta(lic, h.snap) \in 0 .. MaxQty
  BY <1>1, DeltaType
<1>3. Cardinality(Rows(lic)) \in 0 .. Cardinality(Ids)
  BY IdsFinite DEF Rows
<1>4. out \in SUBSET Ids
  BY DEF Ending, Surplus, Live
<1>5. [l \in Ids |-> IF l \in out THEN lic[l] ELSE Blank] \in Table
  BY <1>1, BlankRow DEF Table
<1>6. /\ flagged \cap out \in SUBSET Ids
      /\ {l \in Kept(lic, h.snap) : lic[l].ends # h.snap.period} \in SUBSET Ids
      /\ {l \in Kept(lic, h.snap) : (l \in flagged) # h.snap.cancel} \in SUBSET Ids
  BY <1>4 DEF Kept, Live
<1>7. (Banned(lic) # {}) \in BOOLEAN
  OBVIOUS
<1> HIDE DEF h, out
<1>8. [h EXCEPT
         !.stage  = "planned",
         !.from   = Cardinality(Rows(lic)),
         !.count  = Delta(lic, h.snap),
         !.out    = out,
         !.read   = [l \in Ids |-> IF l \in out THEN lic[l] ELSE Blank],
         !.marked = flagged \cap out,
         !.moves  = {l \in Kept(lic, h.snap) : lic[l].ends # h.snap.period},
         !.flips  = {l \in Kept(lic, h.snap) : (l \in flagged) # h.snap.cancel},
         !.sawBan = Banned(lic) # {}] \in Handler
  BY <1>1, <1>2, <1>3, <1>4, <1>5, <1>6, <1>7 DEF Handler
<1> QED
  BY <1>8 DEF PlanBatch, Put, TypeOK, h, out

LEMMA CancelledNowType ==
  ASSUME TypeOK, CancelIsLast, CancelledNow
  PROVE  sub' \in Sub /\ emitted' \in 0 .. MaxEvents + 1 /\ CancelIsLast'
BY StripeConstants
DEF TypeOK, CancelIsLast, CancelledNow, Cancellable, stripe, Sub, Statuses

LEMMA CommitType ==
  ASSUME TypeOK, NEW s \in Slots, Commit(s)
  PROVE  lic' \in Table /\ flagged' \subseteq Ids /\ ledger' \subseteq EventIds
<1>1. slot[s] \in Handler /\ lic \in Table
  BY DEF TypeOK
<1>2. lic' \in Table
  BY <1>1, SyncedRows DEF Commit
<1>3. flagged' \subseteq Ids
  BY <1>1 DEF Commit, Handler, Grants, LicenseIds, TypeOK
<1>4. ledger' \subseteq EventIds
  BY <1>1 DEF Commit, Recorded, Handler, TypeOK
<1> QED
  BY <1>2, <1>3, <1>4

LEMMA SendsType ==
  ASSUME TypeOK, Sends
  PROVE  emitted' \in 0 .. MaxEvents + 1 /\ CancelIsLast'
BY StripeConstants DEF TypeOK, Sends, CancelIsLast

LEMMA TypeInductive ==
  TypeOK /\ CancelIsLast /\ [Next]_vars => TypeOK' /\ CancelIsLast'
<1> SUFFICES ASSUME TypeOK, CancelIsLast, [Next]_vars
             PROVE  TypeOK' /\ CancelIsLast'
  OBVIOUS
<1> USE DEF stripe, rows, vendor
<1>0. MaxQty > 0 /\ Idle \in Handler
  <2>1. MaxQty > 0
    BY StripeConstants DEF TypeOK, Sub
  <2> QED
    BY <2>1, IdleType
<1>1. ASSUME NEW to \in Statuses, ChangeStatus(to) PROVE TypeOK' /\ CancelIsLast'
  BY <1>1, SendsType DEF ChangeStatus, Sends, TypeOK, Sub
<1>2. ASSUME NEW q \in 1 .. MaxQty, ChangeQuantity(q) PROVE TypeOK' /\ CancelIsLast'
  BY <1>2, SendsType DEF ChangeQuantity, Sends, TypeOK, Sub
<1>3. CASE Renew
  BY <1>3, SendsType, TableConstants DEF Renew, Sends, TypeOK, Sub, Time
<1>4. CASE ToggleCancel
  BY <1>4, SendsType DEF ToggleCancel, Sends, TypeOK, Sub
<1>5. ASSUME NEW s \in Slots, NEW e \in 0 .. MaxEvents + 1, Fetch(s, e)
      PROVE  TypeOK' /\ CancelIsLast'
  <2>1. [Idle EXCEPT !.stage = "fetched", !.event = e, !.snap = sub] \in Handler
    <3>1. e \in EventIds \cup {0} /\ sub \in Sub
      BY StripeConstants DEF EventIds, TypeOK
    <3> QED
      BY <1>0, <3>1 DEF Handler
  <2> QED
    BY <1>5, <2>1 DEF Fetch, Put, TypeOK, CancelIsLast
<1>6. ASSUME NEW s \in Slots, Plan(s) PROVE TypeOK' /\ CancelIsLast'
  <2>1. slot' \in [Slots -> Handler]
    <3>1. CASE PlanBatch(s)
      BY <3>1, PlanBatchType
    <3>2. CASE Put(s, [Idle EXCEPT !.stage = "cancel", !.event = slot[s].event])
      BY <3>2, <1>0 DEF Put, TypeOK, Handler
    <3> QED
      BY <1>6, <3>1, <3>2 DEF Plan
  <2> QED
    BY <1>6, <2>1 DEF Plan, TypeOK, CancelIsLast
<1>7. ASSUME NEW s \in Slots, Commit(s) PROVE TypeOK' /\ CancelIsLast'
  BY <1>0, <1>7, CommitType DEF Commit, Put, TypeOK, CancelIsLast
<1>8. ASSUME NEW s \in Slots, LoseRace(s) PROVE TypeOK' /\ CancelIsLast'
  <2>1. [Idle EXCEPT !.stage = "fetched", !.event = slot[s].event,
                     !.snap = slot[s].snap, !.again = TRUE] \in Handler
    BY <1>0 DEF Handler, TypeOK
  <2> QED
    BY <1>0, <1>8, <2>1 DEF LoseRace, Put, TypeOK, CancelIsLast
<1>9. ASSUME NEW s \in Slots, Replay(s) PROVE TypeOK' /\ CancelIsLast'
  BY <1>0, <1>9 DEF Replay, Put, TypeOK, CancelIsLast
<1>10. ASSUME NEW s \in Slots, Cancel(s) PROVE TypeOK' /\ CancelIsLast'
  <2>1. [slot[s] EXCEPT !.stage = "record"] \in Handler
    BY DEF Handler, TypeOK
  <2> QED
    BY <1>10, <2>1, CancelledNowType DEF Cancel, Put, TypeOK
<1>11. ASSUME NEW s \in Slots, Record(s) PROVE TypeOK' /\ CancelIsLast'
  <2>1. slot[s].event \in EventIds \cup {0}
    BY DEF TypeOK, Handler
  <2> QED
    BY <1>0, <1>11, <2>1 DEF Record, Recorded, Put, TypeOK, CancelIsLast
<1>12. ASSUME NEW s \in Slots, Evict(s) PROVE TypeOK' /\ CancelIsLast'
  BY <1>0, <1>12 DEF Evict, Put, TypeOK, CancelIsLast
<1>13. ASSUME NEW l \in Ids, NEW p \in Products, Assign(l, p)
       PROVE  TypeOK' /\ CancelIsLast'
  <2>1. lic' \in Table
    <3>1. 0 \in Time
      BY TableConstants DEF Time
    <3> QED
      BY <1>13, <3>1 DEF Assign, Assigned, TypeOK, Table, Row
  <2> QED
    BY <1>13, <2>1 DEF Assign, TypeOK, CancelIsLast
<1>14. ASSUME NEW l \in Ids, Flag(l) PROVE TypeOK' /\ CancelIsLast'
  <2>1. lic' \in Table
    BY <1>14 DEF Flag, Flagged, TypeOK, Table, Row
  <2> QED
    BY <1>14, <2>1 DEF Flag, TypeOK, CancelIsLast
<1>15. CASE Terminate
  <2>1. lic' \in Table
    BY <1>15, EndedRows DEF Terminate, TypeOK, Live, Reasons
  <2> QED
    BY <1>15, <2>1 DEF Terminate, TypeOK, CancelIsLast
<1>16. CASE FollowUp
  BY <1>16, CancelledNowType DEF FollowUp, TypeOK
<1>17. CASE BanPasses
  BY <1>17 DEF BanPasses, TypeOK, CancelIsLast
<1>18. CASE UNCHANGED vars
  BY <1>18 DEF vars, TypeOK, CancelIsLast
<1> QED
  BY <1>1, <1>2, <1>3, <1>4, <1>5, <1>6, <1>7, <1>8, <1>9, <1>10, <1>11,
     <1>12, <1>13, <1>14, <1>15, <1>16, <1>17, <1>18 DEF Next, Handle

-----------------------------------------------------------------------------
(* What a step does to the rows.                                           *)

LEMMA CommitRows ==
  ASSUME TypeOK, NEW s \in Slots, Commit(s)
  PROVE  /\ Live(lic)' \subseteq (Live(lic) \ slot[s].out) \cup Grants(slot[s])
         /\ Banned(lic)' \subseteq Banned(lic)
         /\ Rows(lic)' = Rows(lic) \cup Grants(slot[s])
         /\ Rows(lic) \cap Grants(slot[s]) = {}
<1>1. slot[s] \in Handler /\ lic \in Table /\ lic' = Synced(slot[s])
  BY DEF TypeOK, Commit
<1>2. \A l \in Ids :
        /\ lic'[l].state = "live"
             => l \notin slot[s].out /\ (lic[l].state = "live" \/ l \in Grants(slot[s]))
        /\ lic'[l].state = "absent" => lic[l].state = "absent"
        /\ lic'[l].state # "absent"
             => lic[l].state # "absent" \/ l \in Grants(slot[s]) \/ l \in slot[s].out
        /\ l \in Grants(slot[s]) => lic'[l].state # "absent"
        /\ lic'[l].reason = "banned" => lic[l].reason = "banned"
  BY <1>1, SyncedRows
<1>3. /\ \A l \in Grants(slot[s]) : lic[l].state = "absent"
      /\ \A l \in slot[s].out : lic[l].state = "live"
      /\ Grants(slot[s]) \subseteq Ids /\ slot[s].out \subseteq Ids
  BY <1>1 DEF Commit, RowsAsRead, Grants, LicenseIds, Handler
<1> QED
  BY <1>2, <1>3 DEF Live, Banned, Rows

(* No other step makes a license live, adds a row or flags one; a          *)
(* termination leaves none live.                                           *)
OtherStep ==
  /\ Live(lic)' \subseteq Live(lic)
  /\ Rows(lic)' = Rows(lic)
  /\ flagged' = flagged
  /\ \/ Banned(lic)' = Banned(lic) /\ (ban' = "dead" => ban = "dead")
     \/ Live(lic)' = {}

LEMMA OtherRows ==
  ASSUME TypeOK, [Next]_vars
  PROVE  (\E s \in Slots : Commit(s)) \/ OtherStep
<1> USE DEF stripe, rows, vendor
<1>1. ASSUME lic' = lic, flagged' = flagged, ban' = "dead" => ban = "dead"
      PROVE  OtherStep
  BY <1>1 DEF OtherStep, Live, Rows, Banned
<1>2. ASSUME NEW l \in Ids, NEW p \in Products, Assign(l, p) PROVE OtherStep
  <2>1. \A k \in Ids : /\ lic'[k].state = lic[k].state
                       /\ lic'[k].reason = lic[k].reason
    BY <1>2 DEF Assign, Assigned, TypeOK, Table, Row
  <2> QED
    BY <1>2, <2>1 DEF OtherStep, Live, Rows, Banned, Assign
<1>3. ASSUME NEW l \in Ids, Flag(l) PROVE OtherStep
  <2>1. \A k \in Ids : /\ lic'[k].state = lic[k].state
                       /\ lic'[k].reason = lic[k].reason
    BY <1>3 DEF Flag, Flagged, TypeOK, Table, Row
  <2> QED
    BY <1>3, <2>1 DEF OtherStep, Live, Rows, Banned, Flag
<1>4. CASE Terminate
  <2>1. \A k \in Ids : lic'[k].state = IF lic[k].state = "live" THEN "ended"
                                       ELSE lic[k].state
    <3>1. Live(lic) \in SUBSET Ids /\ "banned" \in Reasons /\ lic \in Table
      BY DEF Live, Reasons, TypeOK
    <3>2. \A k \in Ids : lic'[k].state = IF k \in Live(lic) THEN "ended"
                                         ELSE lic[k].state
      BY <1>4, <3>1, EndedRows DEF Terminate
    <3> QED
      BY <3>2 DEF Live
  <2> QED
    BY <1>4, <2>1 DEF OtherStep, Live, Rows, Terminate
<1>5. ASSUME NEW s \in Slots, Handle(s) \/ Evict(s)
      PROVE  (\E q \in Slots : Commit(q)) \/ OtherStep
  BY <1>1, <1>5 DEF Handle, Evict, Plan, LoseRace, Replay, Cancel, Record
<1>6. CASE BanPasses \/ FollowUp \/ Renew \/ ToggleCancel
  BY <1>1, <1>6 DEF BanPasses, FollowUp, Renew, ToggleCancel, Sends
<1>7. CASE (\E to \in Statuses : ChangeStatus(to))
             \/ (\E q \in 1 .. MaxQty : ChangeQuantity(q))
  BY <1>1, <1>7 DEF ChangeStatus, ChangeQuantity, Sends
<1>8. CASE \E s \in Slots, e \in 0 .. MaxEvents + 1 : Fetch(s, e)
  BY <1>1, <1>8 DEF Fetch
<1>9. CASE UNCHANGED vars
  BY <1>1, <1>9 DEF vars
<1> QED
  BY <1>2, <1>3, <1>4, <1>5, <1>6, <1>7, <1>8, <1>9 DEF Next

(* A slot's batch is new only from PlanBatch.                              *)
LEMMA PlannedSlot ==
  ASSUME TypeOK, [Next]_vars, NEW q \in Slots, slot'[q].stage = "planned"
  PROVE  slot'[q] = slot[q] \/ (Plan(q) /\ PlanBatch(q))
<1> USE DEF Put, stripe, rows, vendor
<1>0. Idle.stage = "idle"
  BY DEF Idle
<1>1. ASSUME NEW s \in Slots, Plan(s)
      PROVE  slot'[q] = slot[q] \/ (Plan(q) /\ PlanBatch(q))
  <2>1. CASE s # q
    BY <1>1, <2>1 DEF Plan, PlanBatch, TypeOK
  <2>2. CASE s = q /\ PlanBatch(s)
    BY <1>1, <2>2 DEF Plan
  <2>3. CASE s = q /\ Put(s, [Idle EXCEPT !.stage = "cancel", !.event = slot[s].event])
    BY <2>3 DEF TypeOK, Idle
  <2> QED
    BY <1>1, <2>1, <2>2, <2>3 DEF Plan
<1>2. ASSUME NEW s \in Slots,
             Commit(s) \/ LoseRace(s) \/ Replay(s) \/ Record(s) \/ Evict(s)
      PROVE  slot'[q] = slot[q]
  BY <1>0, <1>2 DEF Commit, LoseRace, Replay, Record, Evict, TypeOK, Idle
<1>3. ASSUME NEW s \in Slots, Cancel(s) PROVE slot'[q] = slot[q]
  BY <1>3 DEF Cancel, TypeOK, Handler
<1>4. ASSUME NEW s \in Slots, NEW e \in 0 .. MaxEvents + 1, Fetch(s, e)
      PROVE  slot'[q] = slot[q]
  BY <1>4 DEF Fetch, TypeOK, Idle
<1>5. ASSUME UNCHANGED slot PROVE slot'[q] = slot[q]
  BY <1>5
<1> QED
  BY <1>1, <1>2, <1>3, <1>4, <1>5
  DEF Next, Handle, ChangeStatus, ChangeQuantity, Renew, ToggleCancel, Sends,
      Assign, Flag, Terminate, FollowUp, BanPasses, vars

-----------------------------------------------------------------------------
(* The ban.                                                                *)

LEMMA SawBanInductive ==
  TypeOK /\ BannedIsLast /\ SawBanGrantsNone /\ [Next]_vars => SawBanGrantsNone'
<1> SUFFICES ASSUME TypeOK, BannedIsLast, SawBanGrantsNone, [Next]_vars,
                    NEW q \in Slots, slot'[q].stage = "planned", slot'[q].sawBan
             PROVE  slot'[q].count = 0
  BY DEF SawBanGrantsNone
<1>1. CASE slot'[q] = slot[q]
  BY <1>1 DEF SawBanGrantsNone
<1>2. CASE Plan(q) /\ PlanBatch(q)
  <2>1. /\ slot'[q].sawBan = (Banned(lic) # {})
        /\ slot'[q].count = Delta(lic, slot[q].snap)
    BY <1>2 DEF PlanBatch, Put, TypeOK, Handler
  <2>2. BanDeadSub(lic)
    BY <2>1 DEF BannedIsLast, BanDeadSub
  <2>3. slot[q].snap.status = "canceled"
    <3>1. ASSUME Cancellable(slot[q].snap.status) PROVE FALSE
      <4>1. Put(q, [Idle EXCEPT !.stage = "cancel", !.event = slot[q].event])
        BY <1>2, <2>2, <3>1 DEF Plan
      <4> QED
        BY <4>1 DEF Put, TypeOK, Idle
    <3> QED
      BY <3>1 DEF Cancellable
  <2> QED
    BY <2>1, <2>3 DEF Delta, Mode
<1> QED
  BY <1>1, <1>2, PlannedSlot

LEMMA NoCount ==
  ASSUME TypeOK, NEW s \in Slots, slot[s].count = 0
  PROVE  Grants(slot[s]) = {}
<1>1. slot[s].from \in Nat
  BY IdsFinite DEF TypeOK, Handler
<1>2. Ids \subseteq Nat
  BY TableConstants
<1>3. ASSUME NEW l \in Ids, slot[s].from < l, l <= slot[s].from + slot[s].count
      PROVE  FALSE
  BY <1>1, <1>2, <1>3
<1> QED
  BY <1>3 DEF Grants, LicenseIds

(* A commit that meets a ban, or a dead vendor, grants nothing.            *)
LEMMA BanGrantsNone ==
  ASSUME TypeOK, SawBanGrantsNone, NEW s \in Slots, Commit(s),
         Banned(lic) # {} \/ ban = "dead"
  PROVE  Grants(slot[s]) = {}
<1>1. CASE slot[s].sawBan
  BY <1>1, NoCount DEF Commit, SawBanGrantsNone
<1>2. CASE ~slot[s].sawBan
  BY <1>2 DEF Commit, NoBan, Writes
<1> QED
  BY <1>1, <1>2

LEMMA BanInductive ==
  TypeOK /\ SawBanGrantsNone /\ BannedIsLast /\ DeadVendorHoldsNone /\ [Next]_vars
    => BannedIsLast' /\ DeadVendorHoldsNone'
<1> SUFFICES ASSUME TypeOK, SawBanGrantsNone, BannedIsLast, DeadVendorHoldsNone,
                    [Next]_vars
             PROVE  BannedIsLast' /\ DeadVendorHoldsNone'
  OBVIOUS
<1>1. ASSUME NEW s \in Slots, Commit(s) PROVE BannedIsLast' /\ DeadVendorHoldsNone'
  <2>1. ban' = ban
    BY <1>1 DEF Commit, vendor
  <2>2. CASE Banned(lic)' = {} /\ ban # "dead"
    BY <2>1, <2>2 DEF BannedIsLast, DeadVendorHoldsNone
  <2>3. CASE Banned(lic)' # {} \/ ban = "dead"
    <3>1. Banned(lic) # {} \/ ban = "dead"
      BY <1>1, <2>3, CommitRows
    <3>2. Live(lic) = {} /\ Grants(slot[s]) = {}
      BY <1>1, <3>1, BanGrantsNone DEF BannedIsLast, DeadVendorHoldsNone
    <3> QED
      BY <1>1, <3>2, CommitRows DEF BannedIsLast, DeadVendorHoldsNone
  <2> QED
    BY <2>2, <2>3
<1>2. CASE OtherStep
  BY <1>2 DEF OtherStep, BannedIsLast, DeadVendorHoldsNone
<1> QED
  BY <1>1, <1>2, OtherRows

LEMMA InitIInv == Init => IInv
<1> SUFFICES ASSUME Init PROVE IInv
  OBVIOUS
<1>1. \A l \in Ids : lic[l] = Blank
  BY DEF Init, Unread
<1>2. Live(lic) = {} /\ Banned(lic) = {}
  BY <1>1 DEF Live, Banned, Blank
<1>3. MaxQty > 0 /\ Idle \in Handler
  <2>1. MaxQty > 0
    BY StripeConstants DEF Init
  <2> QED
    BY <2>1, IdleType
<1>4. sub \in Sub
  <2>1. 0 \in Time
    BY TableConstants DEF Time
  <2> QED
    BY <2>1 DEF Init, Sub, Statuses
<1>5. lic \in Table
  BY BlankRow DEF Init, Unread, Table
<1>6. TypeOK
  <2>1. emitted \in 0 .. MaxEvents + 1
    BY StripeConstants DEF Init
  <2>2. slot \in [Slots -> Handler]
    BY <1>3 DEF Init
  <2> QED
    BY <1>4, <1>5, <2>1, <2>2 DEF Init, TypeOK
<1>7. SawBanGrantsNone
  BY DEF Init, SawBanGrantsNone, Idle
<1>8. CancelIsLast
  BY StripeConstants DEF Init, CancelIsLast
<1> QED
  BY <1>2, <1>6, <1>7, <1>8 DEF IInv, BannedIsLast, DeadVendorHoldsNone

THEOREM Invariance == Spec => []IInv
<1>1. IInv /\ [Next]_vars => IInv'
  BY TypeInductive, SawBanInductive, BanInductive DEF IInv
<1> QED
  BY <1>1, InitIInv, PTL DEF Spec

(* Every variable holds values the code writes.                            *)
THEOREM TypeCorrect == Spec => []TypeOK
<1>1. IInv => TypeOK
  BY DEF IInv
<1> QED
  BY <1>1, Invariance, PTL

(* Once a license of the subscription ended banned, none is live again,    *)
(* however many handlers were in flight when the termination came.         *)
THEOREM BanIsLast == Spec => []BannedIsLast
<1>1. IInv => BannedIsLast
  BY DEF IInv
<1> QED
  BY <1>1, Invariance, PTL

(* A vendor that is ban-dead holds no license of the subscription.         *)
THEOREM DeadVendorStaysBare == Spec => []DeadVendorHoldsNone
<1>1. IInv => DeadVendorHoldsNone
  BY DEF IInv
<1> QED
  BY <1>1, Invariance, PTL

-----------------------------------------------------------------------------
(* The quantity.                                                           *)

(* Rows take the ordinals in order.                                        *)
RowsFirst == Rows(lic) = 1 .. Cardinality(Rows(lic))

Among(n) == {l \in Live(lic) : l <= n}

(* What a batch grants fits the quantity it is for, with what is still     *)
(* live of the rows it read.                                               *)
GrantFits ==
  \A s \in Slots :
    LET h == slot[s]
    IN  h.stage = "planned" /\ h.count # 0
          => /\ h.from <= Cardinality(Rows(lic))
             /\ h.from + h.count <= Cardinality(Ids)
             /\ Cardinality(Among(h.from)) + h.count <= h.snap.qty

GInv == IInv /\ RowsFirst /\ GrantFits

LEMMA Cards ==
  /\ Cardinality(Rows(lic)) \in Nat /\ Cardinality(Live(lic)) \in Nat
  /\ Cardinality(Ids) \in Nat /\ Ids = 1 .. Cardinality(Ids)
  /\ \A n : Cardinality(Among(n)) \in Nat /\ IsFiniteSet(Among(n))
  /\ Live(lic) \subseteq Rows(lic) /\ Rows(lic) \subseteq Ids
<1>1. Live(lic) \subseteq Ids /\ Rows(lic) \subseteq Ids
  BY DEF Live, Rows
<1>2. \A n : Among(n) \subseteq Ids
  BY <1>1 DEF Among
<1>3. Live(lic) \subseteq Rows(lic)
  BY DEF Live, Rows
<1> QED
  BY <1>1, <1>2, <1>3, IdsFinite, StripeConstants

(* The ids a batch grants, when they are free, follow the last row.        *)
LEMMA GrantsFollow ==
  ASSUME IInv, RowsFirst, GrantFits, NEW s \in Slots, Commit(s),
         Grants(slot[s]) # {}
  PROVE  /\ slot[s].count \in Nat \ {0}
         /\ slot[s].from = Cardinality(Rows(lic))
         /\ Grants(slot[s]) = slot[s].from + 1 .. slot[s].from + slot[s].count
         /\ Cardinality(Grants(slot[s])) = slot[s].count
<1> DEFINE h == slot[s]
           n == Cardinality(Rows(lic))
<1>1. h \in Handler /\ h.stage = "planned"
  BY DEF IInv, TypeOK, Commit
<1>2. h.from \in Nat /\ h.count \in Nat
  BY <1>1, Cards, StripeConstants DEF Handler
<1>3. h.count # 0
  <2>1. ASSUME h.count = 0, NEW l \in Ids, h.from < l, l <= h.from + h.count
        PROVE  FALSE
    <3>1. l \in Nat
      BY TableConstants
    <3> QED
      BY <1>2, <2>1, <3>1
  <2> QED
    BY <2>1 DEF Grants, LicenseIds
<1>4. h.from <= n /\ h.from + h.count <= Cardinality(Ids)
  BY <1>1, <1>3 DEF GrantFits
<1>5. Grants(h) = h.from + 1 .. h.from + h.count
  BY <1>2, <1>4, Cards DEF Grants, LicenseIds
<1>6. h.from + 1 \in Grants(h)
  BY <1>2, <1>3, <1>5
<1>7. h.from + 1 \notin Rows(lic)
  BY <1>6, CommitRows DEF IInv
<1>8. h.from = n
  <2>1. n \in Nat
    BY Cards
  <2>2. CASE h.from < n
    <3>1. h.from + 1 \in 1 .. n
      BY <1>2, <2>1, <2>2
    <3> QED
      BY <1>7, <3>1 DEF RowsFirst
  <2> QED
    BY <1>2, <1>4, <2>1, <2>2
<1>9. Cardinality(Grants(h)) = h.count
  <2>1. h.from + 1 \in Int /\ h.from + h.count \in Int
    BY <1>2
  <2>2. Cardinality(h.from + 1 .. h.from + h.count)
          = IF h.from + 1 > h.from + h.count THEN 0
            ELSE (h.from + h.count) - (h.from + 1) + 1
    BY <2>1, FS_Interval
  <2> QED
    BY <1>2, <1>3, <1>5, <2>2
<1> QED
  BY <1>2, <1>3, <1>5, <1>8, <1>9

LEMMA CommitFits ==
  ASSUME IInv, RowsFirst, GrantFits, NEW s \in Slots, Commit(s),
         ~(Live(lic)' \subseteq Live(lic))
  PROVE  Cardinality(Live(lic)') <= slot[s].snap.qty
<1> DEFINE h == slot[s]
<1>1. Live(lic)' \subseteq Live(lic) \cup Grants(h)
  BY CommitRows DEF IInv
<1>2. Grants(h) # {}
  BY <1>1
<1>3. /\ h.count \in Nat \ {0}
      /\ h.from = Cardinality(Rows(lic))
      /\ Cardinality(Grants(h)) = h.count
      /\ Grants(h) = h.from + 1 .. h.from + h.count
  BY <1>2, GrantsFollow
<1>4. Live(lic) = Among(h.from)
  BY <1>3, Cards DEF Among, RowsFirst
<1>5. Cardinality(Among(h.from)) + h.count <= h.snap.qty
  BY <1>3 DEF GrantFits, Commit
<1>6. IsFiniteSet(Grants(h)) /\ IsFiniteSet(Live(lic))
  BY IdsFinite DEF Grants, LicenseIds, Live
<1>7. /\ IsFiniteSet(Live(lic) \cup Grants(h))
      /\ Cardinality(Live(lic) \cup Grants(h))
           = Cardinality(Live(lic)) + Cardinality(Grants(h))
               - Cardinality(Live(lic) \cap Grants(h))
  BY <1>6, FS_Union
<1>8. Cardinality(Live(lic) \cap Grants(h)) \in Nat
  BY IdsFinite DEF Live
<1>9. Cardinality(Live(lic)') <= Cardinality(Live(lic) \cup Grants(h))
  BY <1>1, <1>7, FS_Subset
<1>10. Cardinality(Live(lic)') \in Nat
  BY IdsFinite DEF Live
<1>11. h.snap.qty \in Nat /\ Cardinality(Live(lic)) \in Nat
  BY Cards, StripeConstants DEF IInv, TypeOK, Handler, Sub
<1>12. Cardinality(Live(lic) \cup Grants(h)) \in Nat
  BY <1>7, FS_CardinalityType
<1>13. Cardinality(Live(lic)) + h.count <= h.snap.qty
  BY <1>4, <1>5
<1> DEFINE after == Cardinality(Live(lic)')
           both  == Cardinality(Live(lic) \cup Grants(h))
           live  == Cardinality(Live(lic))
           twice == Cardinality(Live(lic) \cap Grants(h))
<1>14. /\ after <= both /\ both = live + h.count - twice /\ live + h.count <= h.snap.qty
       /\ after \in Nat /\ both \in Nat /\ live \in Nat /\ twice \in Nat
       /\ h.count \in Nat /\ h.snap.qty \in Nat
  BY <1>3, <1>7, <1>8, <1>9, <1>10, <1>11, <1>12, <1>13
<1> HIDE DEF after, both, live, twice
<1>15. after <= h.snap.qty
  BY <1>14
<1> QED
  BY <1>15 DEF after

(* Rows only grow, in order, and what is live among the first n of them    *)
(* only shrinks.                                                           *)
LEMMA RowsGrow ==
  ASSUME IInv, RowsFirst, GrantFits, [Next]_vars
  PROVE  /\ RowsFirst'
         /\ Cardinality(Rows(lic)) <= Cardinality(Rows(lic)')
         /\ \A l \in Live(lic)' : l <= Cardinality(Rows(lic)) => l \in Live(lic)
<1> DEFINE n == Cardinality(Rows(lic))
<1>0. n \in Nat /\ Rows(lic) = 1 .. n
  BY Cards DEF RowsFirst
<1>1. CASE OtherStep
  BY <1>0, <1>1 DEF OtherStep, RowsFirst
<1>2. ASSUME NEW s \in Slots, Commit(s)
      PROVE  /\ RowsFirst'
             /\ n <= Cardinality(Rows(lic)')
             /\ \A l \in Live(lic)' : l <= n => l \in Live(lic)
  <2>1. CASE Grants(slot[s]) = {}
    <3>1. Rows(lic)' = Rows(lic) /\ Live(lic)' \subseteq Live(lic)
      BY <1>2, <2>1, CommitRows DEF IInv
    <3> QED
      BY <1>0, <3>1 DEF RowsFirst
  <2>2. CASE Grants(slot[s]) # {}
    <3> DEFINE c == slot[s].count
    <3>1. c \in Nat \ {0} /\ Grants(slot[s]) = n + 1 .. n + c
      BY <1>2, <2>2, GrantsFollow
    <3>2. Rows(lic)' = 1 .. n + c
      <4>1. Rows(lic)' = Rows(lic) \cup Grants(slot[s])
        BY <1>2, CommitRows DEF IInv
      <4>2. (1 .. n) \cup (n + 1 .. n + c) = 1 .. n + c
        BY <1>0, <3>1
      <4> HIDE DEF n, c
      <4> QED
        BY <1>0, <3>1, <4>1, <4>2
    <3>3. Cardinality(1 .. n + c) = n + c
      <4>1. 1 \in Int /\ n + c \in Int
        BY <1>0, <3>1
      <4>2. Cardinality(1 .. n + c) = IF 1 > n + c THEN 0 ELSE (n + c) - 1 + 1
        BY <4>1, FS_Interval
      <4> QED
        BY <1>0, <3>1, <4>2
    <3>4. Cardinality(Rows(lic)') = n + c
      BY <3>2, <3>3
    <3>5. RowsFirst'
      BY <3>2, <3>4 DEF RowsFirst
    <3>6. \A l \in Live(lic)' : l <= n => l \in Live(lic)
      <4>1. \A l \in Grants(slot[s]) : ~(l <= n)
        BY <1>0, <3>1
      <4>2. Live(lic)' \subseteq Live(lic) \cup Grants(slot[s])
        BY <1>2, CommitRows DEF IInv
      <4> QED
        BY <4>1, <4>2
    <3> QED
      BY <1>0, <3>1, <3>4, <3>5, <3>6
  <2> QED
    BY <2>1, <2>2
<1> QED
  BY <1>1, <1>2, OtherRows DEF IInv

LEMMA GrantFitsInductive ==
  IInv /\ RowsFirst /\ GrantFits /\ [Next]_vars => GrantFits'
<1> SUFFICES ASSUME IInv, RowsFirst, GrantFits, [Next]_vars,
                    NEW q \in Slots, slot'[q].stage = "planned", slot'[q].count # 0
             PROVE  /\ slot'[q].from <= Cardinality(Rows(lic)')
                    /\ slot'[q].from + slot'[q].count <= Cardinality(Ids)
                    /\ Cardinality({l \in Live(lic)' : l <= slot'[q].from}) + slot'[q].count
                         <= slot'[q].snap.qty
  BY DEF GrantFits, Among
<1> DEFINE n == Cardinality(Rows(lic))
           from == slot'[q].from
           count == slot'[q].count
           qty == slot'[q].snap.qty
           left == {l \in Live(lic)' : l <= from}
<1>1. /\ n \in Nat /\ Cardinality(Rows(lic)') \in Nat
      /\ n <= Cardinality(Rows(lic)')
  BY Cards, RowsGrow, IdsFinite DEF Rows
<1>2. from \in Nat /\ count \in Nat /\ qty \in Nat
  <2>1. slot'[q] \in Handler
    BY TypeInductive DEF IInv, TypeOK
  <2> QED
    BY <2>1, Cards, StripeConstants DEF Handler, Sub
<1>3. from <= n /\ from + count <= Cardinality(Ids)
        /\ Cardinality(Among(from)) + count <= qty
  <2>1. CASE slot'[q] = slot[q]
    BY <2>1 DEF GrantFits
  <2>2. CASE Plan(q) /\ PlanBatch(q)
    <3>1. /\ from = n /\ count = Delta(lic, slot[q].snap)
          /\ n + count <= Cardinality(Ids)
          /\ qty = slot[q].snap.qty
      BY <2>2 DEF PlanBatch, Put, IInv, TypeOK, Handler
    <3>2. slot[q].snap.qty \in Nat
      BY StripeConstants DEF IInv, TypeOK, Handler, Sub
    <3>3. Cardinality(Live(lic)) + count = qty
      BY <3>1, <3>2, Cards DEF Delta
    <3>4. Cardinality(Among(from)) <= Cardinality(Live(lic))
      <4>1. IsFiniteSet(Live(lic)) /\ Among(from) \subseteq Live(lic)
        BY IdsFinite DEF Live, Among
      <4> QED
        BY <4>1, FS_Subset
    <3>5. Cardinality(Among(from)) \in Nat
      BY Cards
    <3> HIDE DEF from, count, qty
    <3> QED
      BY <1>1, <1>2, <3>1, <3>3, <3>4, <3>5, Cards
  <2> QED
    BY <2>1, <2>2, PlannedSlot DEF IInv
<1>4. left \subseteq Among(from)
  <2>1. ASSUME NEW l \in Live(lic)', l <= from PROVE l \in Live(lic)
    <3>1. l \in Nat
      BY TableConstants DEF Live
    <3>2. l <= n
      BY <1>1, <1>2, <1>3, <2>1, <3>1
    <3> QED
      BY <2>1, <3>2, RowsGrow
  <2>2. \A l \in left : l \in Live(lic) /\ l <= from
    BY <2>1
  <2> QED
    BY <2>2 DEF Among
<1>5. /\ Cardinality(left) <= Cardinality(Among(from))
      /\ Cardinality(left) \in Nat /\ Cardinality(Among(from)) \in Nat
  <2>1. IsFiniteSet(Among(from))
    BY Cards
  <2>2. IsFiniteSet(left) /\ Cardinality(left) <= Cardinality(Among(from))
    BY <1>4, <2>1, FS_Subset
  <2> QED
    BY <2>1, <2>2, FS_CardinalityType
<1> HIDE DEF from, count, qty, n, left
<1>6. from <= Cardinality(Rows(lic)') /\ Cardinality(left) + count <= qty
  BY <1>1, <1>2, <1>3, <1>5
<1> QED
  BY <1>3, <1>6 DEF from, count, qty, left

LEMMA InitGInv == Init => GInv
<1> SUFFICES ASSUME Init PROVE GInv
  OBVIOUS
<1>1. Rows(lic) = {}
  BY DEF Init, Unread, Rows, Blank
<1>2. Rows(lic) = 1 .. 0 /\ Cardinality(Rows(lic)) = 0
  BY <1>1, FS_EmptySet
<1>3. GrantFits
  BY DEF Init, GrantFits, Idle
<1> QED
  BY <1>2, <1>3, InitIInv DEF GInv, RowsFirst

LEMMA GInvInductive == GInv /\ [Next]_vars => GInv'
<1>1. IInv /\ [Next]_vars => IInv'
  BY TypeInductive, SawBanInductive, BanInductive DEF IInv
<1> QED
  BY <1>1, RowsGrow, GrantFitsInductive DEF GInv

(* Whoever makes a license live leaves at most as many live as its own     *)
(* snapshot of the subscription asked for, however many handlers read the  *)
(* same rows before it.                                                    *)
THEOREM NeverTwice == Spec => GrantsUpToQuantity
<1>1. GInv /\ [Next]_vars
        => [~(Live(lic)' \subseteq Live(lic))
              => \E s \in Slots : /\ Commit(s)
                                  /\ Cardinality(Live(lic)') <= slot[s].snap.qty]_vars
  <2> SUFFICES ASSUME GInv, [Next]_vars, ~(Live(lic)' \subseteq Live(lic))
               PROVE  \E s \in Slots : /\ Commit(s)
                                       /\ Cardinality(Live(lic)') <= slot[s].snap.qty
    OBVIOUS
  <2>1. PICK s \in Slots : Commit(s)
    BY OtherRows DEF GInv, IInv, OtherStep
  <2> QED
    BY <2>1, CommitFits DEF GInv
<1> QED
  BY <1>1, InitGInv, GInvInductive, PTL DEF Spec, GrantsUpToQuantity
-----------------------------------------------------------------------------
(* StripeSync implements Register.  A commit grants or ends, never both,   *)
(* since a snapshot asks for more licenses or for fewer; so it maps to one *)
(* step.                                                                   *)

GrantsOrEnds ==
  \A s \in Slots :
    slot[s].stage = "planned" => slot[s].count = 0 \/ slot[s].out = {}

LEMMA GrantsOrEndsKept ==
  TypeOK /\ GrantsOrEnds /\ [Next]_vars => GrantsOrEnds'
<1> SUFFICES ASSUME TypeOK, GrantsOrEnds, [Next]_vars,
                    NEW q \in Slots, slot'[q].stage = "planned"
             PROVE  slot'[q].count = 0 \/ slot'[q].out = {}
  BY DEF GrantsOrEnds
<1>1. CASE slot'[q] = slot[q]
  BY <1>1 DEF GrantsOrEnds
<1>2. CASE PlanBatch(q)
  <2>1. PICK snap \in Sub : snap = slot[q].snap
    BY DEF TypeOK, Handler
  <2>2. slot'[q].count = Delta(lic, snap) /\ slot'[q].out = Ending(lic, snap)
    BY <1>2, <2>1 DEF PlanBatch, Put, TypeOK, Handler
  <2>3. CASE Delta(lic, snap) = 0
    BY <2>2, <2>3
  <2>4. CASE Delta(lic, snap) # 0
    <3> DEFINE n == Cardinality(Live(lic))
    <3>1. Mode(snap.status) = "live" /\ ~(n >= snap.qty)
      BY <2>4 DEF Delta
    <3>2. n \in Nat /\ snap.qty \in Nat
      BY Cards, StripeConstants DEF Sub
    <3>3. ASSUME NEW l \in Live(lic)
          PROVE  ~(Cardinality({k \in Live(lic) : Spared(lic, l, k)}) < n - snap.qty)
      <4>1. {k \in Live(lic) : Spared(lic, l, k)} \in SUBSET Ids
        BY DEF Live
      <4>2. Cardinality({k \in Live(lic) : Spared(lic, l, k)}) \in Nat
        BY <4>1, IdsFinite
      <4> QED
        BY <3>1, <3>2, <4>2
    <3>4. Ending(lic, snap) = {}
      BY <3>1, <3>3 DEF Ending, Surplus
    <3> QED
      BY <2>2, <3>4
  <2> QED
    BY <2>3, <2>4
<1> QED
  BY <1>1, <1>2, PlannedSlot

LEMMA CommitMaps ==
  ASSUME TypeOK, GrantsOrEnds, NEW s \in Slots, Commit(s)
  PROVE  Rights!RegisterNext
<1>1. PICK h \in Handler : h = slot[s]
  BY DEF TypeOK
<1>2. /\ lic' = Synced(h) /\ lic \in Table /\ ban' = ban
      /\ \A l \in Grants(h) : lic[l].state = "absent"
      /\ \A l \in h.out : lic[l].state = "live"
      /\ Grants(h) # {} => ban # "dead"
      /\ h.count = 0 \/ h.out = {}
  BY <1>1 DEF Commit, RowsAsRead, NoBan, TypeOK, vendor, GrantsOrEnds
<1>3. \A l \in Ids : /\ lic'[l].state = IF l \in h.out THEN "ended"
                                        ELSE IF l \in Grants(h) THEN "live"
                                        ELSE lic[l].state
                     /\ lic'[l].prod = IF l \in Grants(h) THEN NoProd
                                       ELSE lic[l].prod
  BY <1>2, SyncedRows
<1>4. CASE Grants(h) = {}
  <2> DEFINE none == [k \in {} |-> k]
  <2>1. PICK S \in SUBSET Ids, T \in SUBSET Ids : S = h.out /\ T = {}
    BY DEF Handler
  <2>2. PICK heir \in [T -> S] : TRUE
    <3>1. none \in [T -> S]
      BY <2>1
    <3> QED
      BY <3>1
  <2>3. Rights!End(S, heir)
    BY <1>2, <1>3, <1>4, <2>1 DEF Rights!End, Rights!InForce, Rights!Free
  <2> QED
    BY <2>2, <2>3 DEF Rights!RegisterNext, Rights!End
<1>5. CASE Grants(h) # {}
  <2>1. PICK G \in SUBSET Ids : G = Grants(h)
    BY DEF Grants, LicenseIds
  <2>2. h.out = {}
    BY <1>1, <1>2, <1>5, NoCount
  <2>3. Rights!Grant(G)
    BY <1>2, <1>3, <1>5, <2>1, <2>2 DEF Rights!Grant
  <2> QED
    BY <2>3 DEF Rights!RegisterNext
<1> QED
  BY <1>4, <1>5

LEMMA NextMaps ==
  ASSUME TypeOK, GrantsOrEnds, [Next]_vars
  PROVE  [Rights!RegisterNext]_(Rights!registerVars)
<1> USE DEF stripe, rows, vendor
<1>1. ASSUME lic' = lic, ban' = ban PROVE UNCHANGED Rights!registerVars
  BY <1>1 DEF Rights!registerVars
<1>2. ASSUME NEW l \in Ids, NEW p \in Products, Assign(l, p)
      PROVE  Rights!RegisterNext
  <2>1. /\ lic[l].state = "live" /\ lic[l].prod = NoProd /\ ban' = ban
        /\ \A k \in Ids : lic[k].state = "live" => lic[k].prod # p
        /\ lic' = Assigned(lic, l, p, 0) /\ lic \in Table
    BY <1>2 DEF Assign, OnProduct, Live, TypeOK
  <2>2. /\ \A k \in Ids : k # l => lic'[k] = lic[k]
        /\ lic'[l].state = lic[l].state /\ lic'[l].prod = p
    <3>1. 0 \in Time
      BY TableConstants DEF Time
    <3> QED
      BY <2>1, <3>1, AssignedRows
  <2>3. Rights!Assign(l, p)
    BY <2>1, <2>2 DEF Rights!Assign, Rights!Free, Rights!InForce
  <2> QED
    BY <2>3 DEF Rights!RegisterNext
<1>3. ASSUME NEW l \in Ids, Flag(l) PROVE UNCHANGED Rights!registerVars
  <2>1. \A k \in Ids : lic'[k].state = lic[k].state /\ lic'[k].prod = lic[k].prod
    BY <1>3 DEF Flag, Flagged, TypeOK, Table, Row
  <2> QED
    BY <1>3, <2>1 DEF Flag, Rights!registerVars
<1>4. ASSUME Terminate PROVE Rights!RegisterNext
  <2>1. Live(lic) \in SUBSET Ids /\ "banned" \in Reasons /\ lic \in Table
    BY DEF Live, Reasons, TypeOK
  <2>2. \A k \in Ids : /\ lic'[k].state = IF k \in Live(lic) THEN "ended"
                                          ELSE lic[k].state
                       /\ lic'[k].prod = lic[k].prod
    BY <1>4, <2>1, EndedRows DEF Terminate
  <2>3. Rights!Close
    BY <1>4, <2>2 DEF Terminate, Rights!Close, Rights!InForce, Live
  <2> QED
    BY <2>3 DEF Rights!RegisterNext
<1>5. ASSUME BanPasses PROVE Rights!RegisterNext
  <2>1. Rights!Reopen
    BY <1>5 DEF BanPasses, Rights!Reopen
  <2> QED
    BY <2>1 DEF Rights!RegisterNext
<1>6. ASSUME NEW s \in Slots, Handle(s) \/ Evict(s)
      PROVE  [Rights!RegisterNext]_(Rights!registerVars)
  BY <1>1, <1>6, CommitMaps DEF Handle, Evict, Plan, LoseRace, Replay, Cancel, Record
<1>7. ASSUME \/ FollowUp \/ Renew \/ ToggleCancel
             \/ \E to \in Statuses : ChangeStatus(to)
             \/ \E q \in 1 .. MaxQty : ChangeQuantity(q)
             \/ \E s \in Slots, e \in 0 .. MaxEvents + 1 : Fetch(s, e)
             \/ UNCHANGED vars
      PROVE  lic' = lic /\ ban' = ban
  BY <1>7 DEF FollowUp, Renew, ToggleCancel, ChangeStatus, ChangeQuantity,
     Sends, Fetch, vars
<1> QED
  BY <1>1, <1>2, <1>3, <1>4, <1>5, <1>6, <1>7 DEF Next

(* Handlers that cross, a vendor who assigns and a termination move the    *)
(* licenses of a subscription only as Register allows: a ban-dead vendor   *)
(* is granted nothing, and no license is granted or ended twice.           *)
THEOREM ImplementsRegister == Spec => KeepsRegister
<1>1. Init => Rights!RegisterInit /\ GrantsOrEnds
  <2> SUFFICES ASSUME Init PROVE Rights!RegisterInit /\ GrantsOrEnds
    OBVIOUS
  <2>1. \A l \in Ids : lic[l].state = "absent" /\ lic[l].prod = NoProd
    BY DEF Init, Unread, Blank
  <2>2. ban = "none"
    BY DEF Init
  <2>3. Rights!RegisterInit
    BY <2>1, <2>2 DEF Rights!RegisterInit, Rights!InForce, Rights!Free
  <2>4. GrantsOrEnds
    BY DEF Init, GrantsOrEnds, Idle
  <2> QED
    BY <2>3, <2>4
<1>2. TypeOK /\ GrantsOrEnds /\ [Next]_vars
        => [Rights!RegisterNext]_(Rights!registerVars)
  BY NextMaps
<1> QED
  BY <1>1, <1>2, GrantsOrEndsKept, TypeCorrect, PTL
     DEF Spec, KeepsRegister, Rights!RegisterSpec
-----------------------------------------------------------------------------
(* What nothing crosses.  Settles is that the licenses become those of the *)
(* subscription some day; what a commit does towards it is proved here.    *)

(* cancel_at_term_end is of rows there are.                                *)
FlaggedHaveRows == flagged \subseteq Rows(lic)

LEMMA FlaggedHaveRowsKept ==
  TypeOK /\ FlaggedHaveRows /\ [Next]_vars => FlaggedHaveRows'
<1> SUFFICES ASSUME TypeOK, FlaggedHaveRows, [Next]_vars PROVE FlaggedHaveRows'
  OBVIOUS
<1>1. ASSUME NEW s \in Slots, Commit(s) PROVE FlaggedHaveRows'
  <2>1. Rows(lic)' = Rows(lic) \cup Grants(slot[s])
    BY <1>1, CommitRows
  <2>2. slot[s].flips \subseteq Rows(lic)
    BY <1>1 DEF Commit, RowsAsRead, Rows, TypeOK, Handler
  <2>3. flagged' \subseteq flagged \cup slot[s].flips \cup Grants(slot[s])
    BY <1>1 DEF Commit
  <2> QED
    BY <2>1, <2>2, <2>3 DEF FlaggedHaveRows
<1>2. CASE OtherStep
  BY <1>2 DEF OtherStep, FlaggedHaveRows
<1> QED
  BY <1>1, <1>2, OtherRows

(* surplusOf ends the licenses in an order with no ties.                   *)
EndsFirst(t) == {p \in Live(t) \X Live(t) : Spared(t, p[2], p[1])}

LEMMA EndsInOrder ==
  ASSUME NEW t \in Table
  PROVE  IsFiniteSet(Live(t)) /\ StrictOrder(EndsFirst(t), Live(t))
<1> DEFINE class(m) == IF t[m].prod = NoProd THEN 0 ELSE IF t[m].release THEN 1 ELSE 2
           S == Live(t)
<1>1. IsFiniteSet(S)
  BY IdsFinite DEF Live
<1>2. \A k \in S : k \in Int /\ t[k].at \in Int /\ class(k) \in {0, 1, 2}
  BY TableConstants DEF Live, Table, Row, Time, Ends, NoEnd
<1>3. \A k, l \in S : <<l, k>> \in EndsFirst(t)
                        <=> \/ class(l) < class(k)
                            \/ /\ class(l) = class(k)
                               /\ IF class(k) = 2 THEN Senior(t, k, l) ELSE k < l
  BY DEF EndsFirst, Spared
<1> HIDE DEF class, S
<1>4. \A k \in S : <<k, k>> \notin EndsFirst(t)
  BY <1>2, <1>3 DEF Senior
<1>5. \A k, l \in S : k = l \/ <<k, l>> \in EndsFirst(t) \/ <<l, k>> \in EndsFirst(t)
  <2> SUFFICES ASSUME NEW k \in S, NEW l \in S, k # l
               PROVE  <<k, l>> \in EndsFirst(t) \/ <<l, k>> \in EndsFirst(t)
    OBVIOUS
  <2>1. CASE class(k) # class(l)
    BY <1>2, <1>3, <2>1
  <2>2. CASE class(k) = class(l) /\ class(k) = 2
    BY <1>2, <1>3, <2>2 DEF Senior
  <2>3. CASE class(k) = class(l) /\ class(k) # 2
    BY <1>2, <1>3, <2>3
  <2> QED
    BY <2>1, <2>2, <2>3
<1>6. \A j, k, l \in S : <<j, k>> \in EndsFirst(t) /\ <<k, l>> \in EndsFirst(t)
                           => <<j, l>> \in EndsFirst(t)
  BY <1>2, <1>3 DEF Senior
<1> QED
  BY <1>1, <1>4, <1>5, <1>6 DEF StrictOrder, S

(* It ends as many as there are too many.                                  *)
LEMMA SurplusCount ==
  ASSUME NEW t \in Table, NEW n \in Nat
  PROVE  /\ n <= Cardinality(Live(t))
              => Cardinality(Live(t) \ Surplus(t, n)) = n
         /\ Cardinality(Live(t)) <= n => Surplus(t, n) = {}
<1> DEFINE S == Live(t)
           R == EndsFirst(t)
           c == Cardinality(S)
<1>1. IsFiniteSet(S) /\ StrictOrder(R, S) /\ c \in Nat
  BY EndsInOrder, FS_CardinalityType
<1>2. \A l \in S : Before(R, S, l) = {k \in S : Spared(t, l, k)}
  BY DEF Before, EndsFirst
<1>3. Surplus(t, n) = {l \in S : Rank(R, S, l) < c - n}
  BY <1>2 DEF Surplus, Rank
<1> HIDE DEF S, R
<1>4. \A l \in S : Rank(R, S, l) \in 0 .. c - 1
  BY <1>1, RankOnto
<1>5. ASSUME n <= c PROVE Cardinality(S \ Surplus(t, n)) = n
  <2>1. c - n \in 0 .. c
    BY <1>1, <1>5
  <2>2. Cardinality({l \in S : Rank(R, S, l) < c - n}) = c - n
    BY <1>1, <2>1, RankFirst
  <2>3. Surplus(t, n) \in SUBSET S
    BY <1>3
  <2>4. /\ IsFiniteSet(S \ Surplus(t, n)) /\ IsFiniteSet(Surplus(t, n))
        /\ Cardinality(S \ Surplus(t, n)) \in Nat
    BY <1>1, <2>3, FS_Subset, FS_CardinalityType
  <2>5. /\ (S \ Surplus(t, n)) \cup Surplus(t, n) = S
        /\ (S \ Surplus(t, n)) \cap Surplus(t, n) = {}
    BY <2>3
  <2>6. c = Cardinality(S \ Surplus(t, n)) + Cardinality(Surplus(t, n)) - Cardinality({})
    BY <2>4, <2>5, FS_Union
  <2>7. Cardinality(Surplus(t, n)) = c - n
    BY <1>3, <2>2
  <2>8. Cardinality({}) = 0
    BY FS_EmptySet
  <2> DEFINE rest == Cardinality(S \ Surplus(t, n))
  <2>9. rest \in Nat /\ c \in Nat /\ c = rest + (c - n) - 0
    BY <1>1, <2>4, <2>6, <2>7, <2>8
  <2> HIDE DEF rest, c
  <2>10. rest = n
    BY <2>9
  <2> QED
    BY <2>10 DEF rest
<1>6. ASSUME c <= n PROVE Surplus(t, n) = {}
  <2>1. \A l \in S : ~(Rank(R, S, l) < c - n)
    BY <1>1, <1>4, <1>6
  <2> QED
    BY <1>3, <2>1
<1> QED
  BY <1>5, <1>6 DEF S
(* The batch is what a handler that reads now would plan: the subscription *)
(* is as it was retrieved, the rows and the seats as they were read.       *)
Uncrossed(s) ==
  LET h == slot[s]
  IN  /\ h.stage = "planned" /\ h.snap = sub
      /\ ~(Cancellable(sub.status) /\ (ban = "dead" \/ BanDeadSub(lic)))
      /\ h.from = Cardinality(Rows(lic)) /\ h.count = Delta(lic, sub)
      /\ h.from + h.count <= Cardinality(Ids)
      /\ h.out = Ending(lic, sub)
      /\ \A l \in h.out : h.read[l] = lic[l]
      /\ h.marked = flagged \cap h.out
      /\ h.moves = {l \in Kept(lic, sub) : lic[l].ends # sub.period}
      /\ h.flips = {l \in Kept(lic, sub) : (l \in flagged) # sub.cancel}
      /\ h.sawBan = (Banned(lic) # {})

LEMMA PlansUncrossed ==
  ASSUME TypeOK, NEW s \in Slots, Plan(s), PlanBatch(s), slot[s].snap = sub
  PROVE  Uncrossed(s)'
<1>1. /\ lic' = lic /\ flagged' = flagged /\ sub' = sub /\ ban' = ban
  BY DEF Plan, stripe, rows, vendor
<1>2. PICK h \in Handler : h = slot[s]
  BY DEF TypeOK
<1>3. PICK out : out = Ending(lic, sub)
  OBVIOUS
<1>4. out \subseteq Ids
  BY <1>3 DEF Ending, Surplus, Live
<1>5. slot'[s] = [h EXCEPT
           !.stage  = "planned",
           !.from   = Cardinality(Rows(lic)),
           !.count  = Delta(lic, sub),
           !.out    = out,
           !.read   = [l \in Ids |-> IF l \in out THEN lic[l] ELSE Blank],
           !.marked = flagged \cap out,
           !.moves  = {l \in Kept(lic, sub) : lic[l].ends # sub.period},
           !.flips  = {l \in Kept(lic, sub) : (l \in flagged) # sub.cancel},
           !.sawBan = Banned(lic) # {}]
  BY <1>2, <1>3 DEF PlanBatch, Put, TypeOK
<1>6. slot'[s].stage = "planned" /\ slot'[s].snap = sub
  BY <1>2, <1>5 DEF Handler
<1>7. ~(Cancellable(sub.status) /\ (ban = "dead" \/ BanDeadSub(lic)))
  <2>1. [Idle EXCEPT !.stage = "cancel", !.event = slot[s].event].stage = "cancel"
    BY DEF Idle
  <2> QED
    BY <1>6, <2>1 DEF Plan, Put, TypeOK
<1>8. Cardinality(Rows(lic)) + Delta(lic, sub) <= Cardinality(Ids)
  BY DEF PlanBatch
<1>9. /\ slot'[s].from = Cardinality(Rows(lic)) /\ slot'[s].count = Delta(lic, sub)
      /\ slot'[s].out = out /\ slot'[s].marked = flagged \cap out
      /\ slot'[s].read = [l \in Ids |-> IF l \in out THEN lic[l] ELSE Blank]
      /\ slot'[s].moves = {l \in Kept(lic, sub) : lic[l].ends # sub.period}
      /\ slot'[s].flips = {l \in Kept(lic, sub) : (l \in flagged) # sub.cancel}
  BY <1>5 DEF Handler
<1>10. slot'[s].sawBan = (Banned(lic) # {})
  BY <1>5 DEF Handler
<1>11. \A l \in out : slot'[s].read[l] = lic[l]
  BY <1>4, <1>9
<1> QED
  BY <1>1, <1>3, <1>6, <1>7, <1>8, <1>9, <1>10, <1>11
     DEF Uncrossed, BanDeadSub, Banned, Live, Rows, Delta, Ending, Kept, Surplus

(* The database does not refuse it.                                        *)
LEMMA UncrossedFits ==
  ASSUME TypeOK, RowsFirst, NEW s \in Slots, Uncrossed(s)
  PROVE  RowsAsRead(slot[s]) /\ NoBan(slot[s])
<1>1. PICK h \in Handler : h = slot[s]
  BY DEF TypeOK
<1>2. h.from \in Nat /\ h.count \in Nat
  BY StripeConstants, IdsFinite DEF Handler
<1>3. \A l \in Grants(h) : l \in Ids /\ h.from < l
  BY DEF Grants, LicenseIds
<1>4. \A l \in Ids : l \in Rows(lic) => l <= h.from
  BY <1>1, Cards DEF RowsFirst, Uncrossed
<1>5. \A l \in Grants(h) : lic[l].state = "absent"
  <2> SUFFICES ASSUME NEW l \in Grants(h) PROVE l \notin Rows(lic)
    BY <1>3 DEF Rows
  <2>1. l \in Nat
    BY <1>3, TableConstants
  <2> QED
    BY <1>2, <1>3, <1>4, <2>1
<1>6. h.out \subseteq Live(lic) /\ h.moves \subseteq Live(lic) /\ h.flips \subseteq Live(lic)
  BY <1>1 DEF Uncrossed, Ending, Surplus, Kept
<1>7. RowsAsRead(h)
  BY <1>1, <1>5, <1>6 DEF RowsAsRead, Uncrossed, Live
<1>8. ASSUME Grants(h) # {} PROVE ban # "dead"
  <2>1. h.count # 0
    BY <1>1, <1>8, NoCount
  <2>2. Mode(sub.status) = "live"
    BY <1>1, <2>1 DEF Uncrossed, Delta
  <2>3. Cancellable(sub.status)
    BY <2>2 DEF Mode, Cancellable
  <2> QED
    BY <2>3 DEF Uncrossed
<1>9. NoBan(h)
  BY <1>1, <1>8 DEF NoBan, Uncrossed
<1> QED
  BY <1>1, <1>7, <1>9

LEMMA UncrossedCounts ==
  ASSUME TypeOK, RowsFirst, NEW s \in Slots, Uncrossed(s), Commit(s),
         sub.status = "active"
  PROVE  Cardinality(Live(lic)') = sub.qty
<1>1. PICK h \in Handler : h = slot[s]
  BY DEF TypeOK
<1>2. /\ h.from \in Nat /\ h.count \in Nat /\ h.count = Delta(lic, sub)
      /\ h.from + h.count <= Cardinality(Ids) /\ sub.qty \in Nat
      /\ h.out = Surplus(lic, sub.qty) /\ Mode(sub.status) = "live"
  BY <1>1, StripeConstants, IdsFinite
     DEF Handler, Uncrossed, Ending, Mode, TypeOK, Sub
<1>3. PICK n \in Nat : n = Cardinality(Live(lic))
  BY Cards
<1>4. Live(lic)' = (Live(lic) \ h.out) \cup Grants(h)
  <2>1. \A l \in Ids : lic'[l].state = IF l \in h.out THEN "ended"
                                       ELSE IF l \in Grants(h) THEN "live"
                                       ELSE lic[l].state
    BY <1>1, SyncedRows DEF Commit, TypeOK
  <2>2. h.out \cap Grants(h) = {} /\ Grants(h) \subseteq Ids
    BY <1>1 DEF Commit, RowsAsRead, Grants, LicenseIds
  <2> QED
    BY <2>1, <2>2 DEF Live
<1>5. CASE n >= sub.qty
  <2>1. h.count = 0
    BY <1>2, <1>3, <1>5 DEF Delta
  <2>2. Grants(h) = {}
    BY <1>1, <2>1, NoCount
  <2>3. Cardinality(Live(lic) \ h.out) = sub.qty
    BY <1>2, <1>3, <1>5, SurplusCount DEF TypeOK
  <2> QED
    BY <1>4, <2>2, <2>3
<1>6. CASE n < sub.qty
  <2>1. h.count = sub.qty - n
    BY <1>2, <1>3, <1>6 DEF Delta
  <2>2. h.out = {}
    <3>1. lic \in Table /\ sub.qty \in Nat /\ Cardinality(Live(lic)) <= sub.qty
      BY <1>2, <1>3, <1>6 DEF TypeOK
    <3>2. Surplus(lic, sub.qty) = {}
      BY <3>1, SurplusCount
    <3> QED
      BY <1>2, <3>2
  <2>3. Grants(h) = h.from + 1 .. h.from + h.count
    BY <1>2, Cards DEF Grants, LicenseIds
  <2>4. Cardinality(Grants(h)) = h.count
    <3>1. h.from + 1 \in Int /\ h.from + h.count \in Int
      BY <1>2
    <3>2. Cardinality(h.from + 1 .. h.from + h.count)
            = IF h.from + 1 > h.from + h.count THEN 0
              ELSE (h.from + h.count) - (h.from + 1) + 1
      BY <3>1, FS_Interval
    <3> QED
      BY <1>2, <1>3, <1>6, <2>1, <2>3, <3>2
  <2>5. /\ IsFiniteSet(Live(lic)) /\ IsFiniteSet(Grants(h))
        /\ Live(lic) \cap Grants(h) = {}
    BY <1>1, IdsFinite DEF Live, Grants, LicenseIds, Commit, RowsAsRead
  <2>6. Cardinality(Live(lic) \cup Grants(h))
          = Cardinality(Live(lic)) + Cardinality(Grants(h)) - Cardinality({})
    BY <2>5, FS_Union
  <2>7. Live(lic)' = Live(lic) \cup Grants(h)
    BY <1>4, <2>2
  <2>8. Cardinality({}) = 0
    BY FS_EmptySet
  <2>9. Cardinality(Live(lic)') = n + h.count - 0
    BY <1>3, <2>4, <2>6, <2>7, <2>8
  <2> QED
    BY <1>2, <1>3, <2>1, <2>9
<1> QED
  BY <1>2, <1>3, <1>5, <1>6

LEMMA UncrossedMatches ==
  ASSUME TypeOK, RowsFirst, FlaggedHaveRows, NEW s \in Slots, Uncrossed(s), Commit(s)
  PROVE  Matched'
<1>1. PICK h \in Handler : h = slot[s]
  BY DEF TypeOK
<1>2. /\ sub' = sub /\ lic' = Synced(h) /\ lic \in Table
      /\ flagged' = IF sub.cancel THEN flagged \cup h.flips \cup Grants(h)
                    ELSE flagged \ h.flips
      /\ h.snap = sub /\ sub \in Sub /\ h.out = Ending(lic, sub)
  BY <1>1 DEF Commit, TypeOK, stripe, Uncrossed
<1>3. \A l \in Ids : /\ lic'[l].state = IF l \in h.out THEN "ended"
                                        ELSE IF l \in Grants(h) THEN "live"
                                        ELSE lic[l].state
                     /\ lic'[l].ends = IF l \in h.moves \cup Grants(h)
                                       THEN sub.period ELSE lic[l].ends
  BY <1>2, SyncedRows
<1>4. CASE sub.status = "active"
  <2>1. Cardinality(Live(lic)') = sub.qty
    BY <1>4, UncrossedCounts
  <2>2. ASSUME NEW l \in Live(lic)'
        PROVE  lic'[l].ends = sub.period /\ (l \in flagged' <=> sub.cancel)
    <3>1. l \in Ids /\ l \notin h.out /\ (l \in Grants(h) \/ l \in Live(lic))
      BY <1>3, <2>2 DEF Live
    <3>2. CASE l \in Grants(h)
      <4>1. l \notin Rows(lic)
        BY <1>1, <3>2 DEF Commit, RowsAsRead, Rows
      <4> QED
        BY <1>2, <1>3, <3>1, <3>2, <4>1 DEF FlaggedHaveRows
    <3>3. CASE l \notin Grants(h)
      <4>1. l \in Kept(lic, sub)
        BY <1>2, <1>4, <3>1, <3>3 DEF Kept, Mode
      <4>2. /\ l \in h.moves <=> lic[l].ends # sub.period
            /\ l \in h.flips <=> (l \in flagged) # sub.cancel
        BY <1>1, <4>1 DEF Uncrossed
      <4>3. lic'[l].ends = sub.period
        BY <1>3, <3>1, <3>3, <4>2
      <4>4. sub.cancel \in BOOLEAN
        BY <1>2 DEF Sub
      <4> QED
        BY <1>2, <3>3, <4>2, <4>3, <4>4
    <3> QED
      BY <3>2, <3>3
  <2> QED
    BY <1>2, <1>4, <2>1, <2>2 DEF Matched
<1>5. CASE sub.status # "active"
  <2>1. ASSUME sub.status \in {"unpaid", "canceled"} PROVE Live(lic)' = {}
    <3>1. Mode(sub.status) = "terminal" /\ h.out = Live(lic)
      BY <1>2, <2>1 DEF Mode, Ending
    <3>2. Grants(h) = {}
      <4>1. h.count = 0
        BY <1>1, <3>1 DEF Uncrossed, Delta
      <4> QED
        BY <1>1, <4>1, NoCount
    <3> QED
      BY <1>3, <3>1, <3>2 DEF Live
  <2> QED
    BY <1>2, <1>5, <2>1 DEF Matched
<1> QED
  BY <1>4, <1>5

(* One run that nothing crosses is enough: the batch a handler plans from  *)
(* the subscription as it is is not refused as long as nobody writes, and  *)
(* its commit leaves the licenses as many as the subscription asks for, to *)
(* the period's end, with its cancellation on each, or none if it is dead. *)
THEOREM UncrossedSettles ==
  Spec => /\ [][\A s \in Slots : Plan(s) /\ PlanBatch(s) /\ slot[s].snap = sub
                                   => Uncrossed(s)']_vars
          /\ [](\A s \in Slots : Uncrossed(s) => RowsAsRead(slot[s]) /\ NoBan(slot[s]))
          /\ [][\A s \in Slots : Uncrossed(s) /\ Commit(s) => Matched']_vars
<1>1. Init => FlaggedHaveRows
  BY DEF Init, FlaggedHaveRows
<1>2. GInv => TypeOK /\ RowsFirst
  BY DEF GInv, IInv
<1>3. TypeOK /\ [Next]_vars
        => [\A s \in Slots : Plan(s) /\ PlanBatch(s) /\ slot[s].snap = sub
                               => Uncrossed(s)']_vars
  BY PlansUncrossed
<1>4. TypeOK /\ RowsFirst
        => \A s \in Slots : Uncrossed(s) => RowsAsRead(slot[s]) /\ NoBan(slot[s])
  BY UncrossedFits
<1>5. TypeOK /\ RowsFirst /\ FlaggedHaveRows /\ [Next]_vars
        => [\A s \in Slots : Uncrossed(s) /\ Commit(s) => Matched']_vars
  BY UncrossedMatches
<1> QED
  BY <1>1, <1>2, <1>3, <1>4, <1>5, InitGInv, GInvInductive, FlaggedHaveRowsKept, PTL
     DEF Spec
=============================================================================
