------------------------------ MODULE BanTerm -------------------------------
(***************************************************************************)
(* POST /api/admin/vendors/:id/licenses/ban-term: after a ban is undone,   *)
(* AECi grants a complimentary license for each product whose license the  *)
(* ban ended.  The handler (routes/admin-licenses.ts) checks everything on *)
(* one read and writes one batch; what may happen to the vendor in between *)
(* is what this module is about.                                           *)
(*                                                                         *)
(* One product of one vendor is followed, with every license that was ever *)
(* on it.  A request names one item.  Time is the number of writes so far. *)
(***************************************************************************)
EXTENDS Naturals, Sequences

CONSTANTS
  Calls,        \* requests the handler may serve at one time
  Grants,       \* grant_id, made by the form and sent again on a retry
  NoGrant,      \* of a license that no ban-term grant made
  MaxLicenses,  \* bound: licenses the product ever has
  MaxWrites     \* bound: time

VARIABLES
  licenses,     \* in the order they were created
  seated,       \* the vendor has an unbanned owner seat
  call,         \* each request: its place, and what it read
  writes        \* committed so far

banVars == <<licenses, seated, call, writes>>

NoCall == [at |-> "idle", grant |-> NoGrant, from |-> 0, now |-> 0]

(* from is the entry of restored_from_license_ids in the audit row.        *)
Row(g, from, now) ==
  [grant |-> g, from |-> from, assigned |-> TRUE, created |-> now,
   ended |-> 0, reason |-> "none"]

Ids      == DOMAIN licenses
LiveOnes == {i \in Ids : licenses[i].reason = "none"}
Assigned == {i \in Ids : licenses[i].assigned}
Licensed == LiveOnes \cap Assigned # {}

BanInit ==
  /\ licenses = <<Row(NoGrant, 0, 0)>>
  /\ seated   = TRUE
  /\ call     = [c \in Calls |-> NoCall]
  /\ writes   = 1

Written == writes < MaxWrites /\ writes' = writes + 1

(* An ended license keeps its assignment as history.                       *)
End(I, reason) ==
  licenses' = [i \in Ids |->
                 IF i \in I
                 THEN [licenses[i] EXCEPT !.ended = writes', !.reason = reason]
                 ELSE licenses[i]]

-----------------------------------------------------------------------------
(* An ended license may be restored as long as no license assigned to its  *)
(* product was created after it ended.                                     *)
Restorable(e) ==
  /\ e \in Assigned /\ licenses[e].reason = "banned"
  /\ \A i \in Assigned \ {e} : licenses[i].created <= licenses[e].ended

(* The license id is derived from the grant id.                            *)
Stored(g) == \E i \in Ids : licenses[i].grant = g

(* The handler reads.  A replay of a stored grant is answered, every other *)
(* condition refuses, and neither writes.                                  *)
Read(c, g, e) ==
  /\ call[c] = NoCall
  /\ ~Stored(g)
  /\ seated
  /\ Restorable(e)
  /\ ~Licensed
  /\ call' = [call EXCEPT ![c] = [at |-> "commit", grant |-> g, from |-> e,
                                  now |-> writes]]
  /\ UNCHANGED <<licenses, seated, writes>>

(* A plausible bug: ids drawn at random, so that only the read knows a     *)
(* repeated request.                                                       *)
BatchHoldsAnyId(g) == ~Licensed /\ seated

(* What the batch itself enforces: the primary key, the index of live      *)
(* licenses by product, and unbannedSeatExistsSentinel.                    *)
BatchHolds(g) == ~Stored(g) /\ ~Licensed /\ seated

(* The license keeps the time its request took at its start.               *)
Commit(c) ==
  /\ call[c].at = "commit"
  /\ BatchHolds(call[c].grant)
  /\ Len(licenses) < MaxLicenses
  /\ licenses' = Append(licenses,
                        Row(call[c].grant, call[c].from, call[c].now))
  /\ call' = [call EXCEPT ![c] = NoCall]
  /\ Written
  /\ UNCHANGED seated

(* The batch aborts, or the request dies before it.                        *)
GiveUp(c) ==
  /\ call[c].at = "commit"
  /\ call' = [call EXCEPT ![c] = NoCall]
  /\ UNCHANGED <<licenses, seated, writes>>

-----------------------------------------------------------------------------
(* The last seat is banned and every live license ends with it: the batch  *)
(* leaves no seat and no license, or aborts.                               *)
Terminate ==
  /\ seated
  /\ Written
  /\ seated' = FALSE
  /\ End(LiveOnes, "banned")
  /\ UNCHANGED call

Reinstate ==
  /\ ~seated
  /\ seated' = TRUE
  /\ Written
  /\ UNCHANGED <<licenses, call>>

(* A license is revoked by AECi, or its term ends.                         *)
EndOne ==
  /\ Written
  /\ \E i \in LiveOnes, reason \in {"revoked", "lapsed"} : End({i}, reason)
  /\ UNCHANGED <<seated, call>>

(* AECi approves a release: the license leaves the product and stays live. *)
Release ==
  /\ Written
  /\ \E i \in LiveOnes \cap Assigned :
       licenses' = [licenses EXCEPT ![i].assigned = FALSE]
  /\ UNCHANGED <<seated, call>>

(* The owner puts a license that was released back on the product.         *)
Assign ==
  /\ seated /\ ~Licensed
  /\ Written
  /\ \E i \in LiveOnes \ Assigned :
       licenses' = [licenses EXCEPT ![i].assigned = TRUE]
  /\ UNCHANGED <<seated, call>>

(* A license is bought or granted and assigned to the product.             *)
Replace ==
  /\ seated /\ ~Licensed
  /\ Len(licenses) < MaxLicenses
  /\ Written
  /\ licenses' = Append(licenses, Row(NoGrant, 0, writes'))
  /\ UNCHANGED <<seated, call>>

BanNext ==
  \/ \E c \in Calls, g \in Grants, e \in Ids : Read(c, g, e)
  \/ \E c \in Calls : Commit(c) \/ GiveUp(c)
  \/ Terminate
  \/ Reinstate
  \/ EndOne
  \/ Release
  \/ Assign
  \/ Replace

BanSpec == BanInit /\ [][BanNext]_banVars

-----------------------------------------------------------------------------
(* A grant id makes one license, however often its request is repeated and *)
(* even when the license of the first was revoked before the repeat wrote: *)
(* "Idempotent on grant_id, as the grant is".                              *)
GrantedOnce ==
  \A i, j \in Ids :
    licenses[i].grant = licenses[j].grant /\ i # j => licenses[i].grant = NoGrant

(* A ban's end is made good once: what the handler's tests say of a banned *)
(* license, "Once a later license on its product exists, the row is spent".*)
(* The later license is looked for on the product, which it may leave      *)
(* alive, and on the read only, which two grants may pass together.        *)
RestoredOnce ==
  \A i, j \in Ids :
    licenses[i].from = licenses[j].from /\ i # j => licenses[i].from = 0
=============================================================================
