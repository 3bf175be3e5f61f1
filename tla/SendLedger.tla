----------------------------- MODULE SendLedger -----------------------------
(***************************************************************************)
(* The notification send ledger: one row of notification_sends per send    *)
(* attempt, a dedupe key reserved before the provider (Resend) is called   *)
(* and settled after it answers.                                           *)
(*                                                                         *)
(*   lib/notifications/send-ledger.ts   reserveSend, finalizeSend,         *)
(*                                      recordSend                         *)
(*   lib/email.ts                       sendTransactionalEmail             *)
(*                                                                         *)
(* Every ledger call is one SQL statement, so one step.  Between two steps *)
(* of an attempt any other attempt may move, the database may be down (the *)
(* ledger fails open), and the worker may be evicted.                      *)
(***************************************************************************)
EXTENDS FiniteSets

CONSTANTS
  Attempts,   \* calls of sendTransactionalEmail, each made at most once
  Keys,       \* dedupe keys callers pass
  Bodies,     \* bodies without the row id: what the provider key hashes
  NoKey,      \* a call without a dedupeKey, or a NULL column
  NoBody      \* the body of a call not made yet

ASSUME SendConstants == NoKey \notin Keys /\ NoBody \notin Bodies

VARIABLES
  pc,         \* where each attempt stands
  key,        \* the dedupeKey it was called with
  body,       \* the body it sends
  outcome,    \* notification_sends.outcome of its row, "none" without a row
  held,       \* notification_sends.dedupe_key of its row
  known,      \* the attempt holds its row's id (rowId is not null)
  answer,     \* what the provider call came to
  mailed,     \* ghost: the attempts the provider sent a mail for
  seen,       \* the provider's memory of idempotency keys
  open,       \* ghost: keys some attempt sent while the ledger was down
  forgot      \* ghost: the provider has dropped its memory once

ledger == <<outcome, held, known>>
call   == <<key, body>>
world  == <<mailed, seen, forgot>>
vars   == <<pc, key, body, outcome, held, known, answer, mailed, seen, open,
            forgot>>

Unsettled == {"sending", "sent", "unknown"}    \* outcomes countHeldSends counts
Withheld  == {"skipped", "paused", "suppressed"}
Outcomes  == Unsettled \cup Withheld \cup {"none", "failed", "duplicate"}

Init ==
  /\ pc      = [a \in Attempts |-> "idle"]
  /\ key     = [a \in Attempts |-> NoKey]
  /\ body    = [a \in Attempts |-> NoBody]
  /\ outcome = [a \in Attempts |-> "none"]
  /\ held    = [a \in Attempts |-> NoKey]
  /\ known   = [a \in Attempts |-> FALSE]
  /\ answer  = [a \in Attempts |-> "none"]
  /\ mailed  = {}
  /\ seen    = {}
  /\ open    = {}
  /\ forgot  = FALSE

-----------------------------------------------------------------------------
(* A row whose statement may fail: the row is written, or the error is     *)
(* swallowed and nothing is.                                               *)
RecordSend(a, o) ==
  outcome' \in {[outcome EXCEPT ![a] = o], outcome}

(* The unique index on dedupe_key: NULL never conflicts.                   *)
KeyTaken(k) == k # NoKey /\ \E b \in Attempts : held[b] = k

(* No API key, no recipient, the operator's pause, or the tier policy: one *)
(* settled row without a key, and no provider call.                        *)
Withhold(a, o) ==
  /\ pc[a] = "idle"
  /\ pc' = [pc EXCEPT ![a] = "done"]
  /\ RecordSend(a, o)
  /\ UNCHANGED <<call, held, known, answer, open, world>>

Begin(a, k, b) ==
  /\ pc[a] = "idle"
  /\ pc'   = [pc EXCEPT ![a] = "reserving"]
  /\ key'  = [key EXCEPT ![a] = k]
  /\ body' = [body EXCEPT ![a] = b]
  /\ UNCHANGED <<ledger, answer, open, world>>

(* INSERT ... ON CONFLICT(dedupe_key) DO NOTHING RETURNING id, row back.   *)
Reserve(a) ==
  /\ pc[a] = "reserving"
  /\ ~KeyTaken(key[a])
  /\ pc'      = [pc EXCEPT ![a] = "calling"]
  /\ outcome' = [outcome EXCEPT ![a] = "sending"]
  /\ held'    = [held EXCEPT ![a] = key[a]]
  /\ known'   = [known EXCEPT ![a] = TRUE]
  /\ UNCHANGED <<call, answer, open, world>>

(* No row back: another send holds the key.  The refusal is recorded with  *)
(* a NULL key, and nothing is sent.                                        *)
ReserveDuplicate(a) ==
  /\ pc[a] = "reserving"
  /\ KeyTaken(key[a])
  /\ pc' = [pc EXCEPT ![a] = "done"]
  /\ RecordSend(a, "duplicate")
  /\ UNCHANGED <<call, held, known, answer, open, world>>

(* The INSERT threw: fail open, send without a row id.  The statement may  *)
(* still have committed when only its answer was lost.                     *)
ReserveFailsOpen(a) ==
  /\ pc[a] = "reserving"
  /\ pc'   = [pc EXCEPT ![a] = "calling"]
  /\ open' = open \cup {key[a]}
  /\ \/ UNCHANGED <<outcome, held>>
     \/ /\ ~KeyTaken(key[a])
        /\ outcome' = [outcome EXCEPT ![a] = "sending"]
        /\ held'    = [held EXCEPT ![a] = key[a]]
  /\ UNCHANGED <<call, known, answer, world>>

-----------------------------------------------------------------------------
Answered(a, o) ==
  /\ pc'     = [pc EXCEPT ![a] = "finalizing"]
  /\ answer' = [answer EXCEPT ![a] = o]
  /\ UNCHANGED <<call, ledger, open>>

(* A body that does not render settles as a refused send does.             *)
RenderFails(a) ==
  /\ pc[a] = "calling"
  /\ Answered(a, "failed")
  /\ UNCHANGED world

(* Mutant: the idempotency key hashes the body with the row id in its      *)
(* links, so no two requests carry the same key.                           *)
DeliverTagged(a) ==
  /\ mailed' = mailed \cup {a}
  /\ UNCHANGED <<seen, forgot>>

(* The provider takes the request: a keyed request it has already seen is  *)
(* answered from its memory and mails nothing.                             *)
Deliver(a) ==
  LET id == <<key[a], body[a]>>
  IN  /\ mailed' = IF key[a] = NoKey \/ id \notin seen
                    THEN mailed \cup {a} ELSE mailed
      /\ seen'   = IF key[a] = NoKey THEN seen ELSE seen \cup {id}
      /\ UNCHANGED forgot

CallAccepted(a) ==
  /\ pc[a] = "calling"
  /\ Answered(a, "sent")
  /\ Deliver(a)

CallRefused(a) ==
  /\ pc[a] = "calling"
  /\ Answered(a, "failed")
  /\ UNCHANGED world

(* Mutant: a timeout is taken for a refusal.                               *)
CallTimeoutIsFailed(a) ==
  /\ pc[a] = "calling"
  /\ Answered(a, "failed")
  /\ Deliver(a) \/ UNCHANGED world

(* Timeout or network error: the request may have reached the provider.    *)
CallUnknown(a) ==
  /\ pc[a] = "calling"
  /\ Answered(a, "unknown")
  /\ Deliver(a) \/ UNCHANGED world

(* The worker is evicted during the call.                                  *)
CrashCalling(a) ==
  /\ pc[a] = "calling"
  /\ pc' = [pc EXCEPT ![a] = "crashed"]
  /\ Deliver(a) \/ UNCHANGED world
  /\ UNCHANGED <<call, ledger, answer, open>>

-----------------------------------------------------------------------------
(* Mutants: the columns swapped; the key released on every answer but      *)
(* "sent"; the key never released.                                         *)
SettleSwapped(a, o) ==
  /\ outcome' = [outcome EXCEPT ![a] = key[a]]
  /\ UNCHANGED held

SettleReleasesUnknown(a, o) ==
  /\ outcome' = [outcome EXCEPT ![a] = o]
  /\ held'    = [held EXCEPT ![a] = IF o = "sent" THEN @ ELSE NoKey]

SettleKeepsKey(a, o) ==
  /\ outcome' = [outcome EXCEPT ![a] = o]
  /\ UNCHANGED held

(* Only "failed" sets dedupe_key to NULL.                                  *)
Settle(a, o) ==
  /\ outcome' = [outcome EXCEPT ![a] = o]
  /\ held'    = [held EXCEPT ![a] = IF o = "failed" THEN NoKey ELSE @]

FinalizeSend(a) ==
  /\ pc[a] = "finalizing"
  /\ pc' = [pc EXCEPT ![a] = "done"]
  /\ IF known[a] THEN Settle(a, answer[a]) ELSE UNCHANGED <<outcome, held>>
  /\ UNCHANGED <<call, known, answer, open, world>>

(* finalizeSend's UPDATE throws, or the worker is evicted before it: the   *)
(* row stays "sending" and keeps the key.                                  *)
FinalizeLost(a) ==
  /\ pc[a] = "finalizing"
  /\ pc' = [pc EXCEPT ![a] = "crashed"]
  /\ UNCHANGED <<call, ledger, answer, open, world>>

(* Resend keeps an idempotency key for a day.                              *)
ProviderForgets ==
  /\ seen # {}
  /\ seen'   = {}
  /\ forgot' = TRUE
  /\ UNCHANGED <<pc, call, ledger, answer, mailed, open>>

AllOver == \A a \in Attempts : pc[a] \in {"done", "crashed"}

Step(a) ==
  \/ \E o \in Withheld : Withhold(a, o)
  \/ \E k \in Keys \cup {NoKey}, b \in Bodies : Begin(a, k, b)
  \/ Reserve(a)
  \/ ReserveDuplicate(a)
  \/ ReserveFailsOpen(a)
  \/ RenderFails(a)
  \/ CallAccepted(a)
  \/ CallRefused(a)
  \/ CallUnknown(a)
  \/ CrashCalling(a)
  \/ FinalizeSend(a)
  \/ FinalizeLost(a)

Next ==
  \/ \E a \in Attempts : Step(a)
  \/ ProviderForgets
  \/ AllOver /\ UNCHANGED vars

Spec == Init /\ [][Next]_vars

-----------------------------------------------------------------------------
(* The columns of a row and the places an attempt can be in hold values    *)
(* the code writes.                                                        *)
TypeOK ==
  /\ pc \in [Attempts ->
       {"idle", "reserving", "calling", "finalizing", "done", "crashed"}]
  /\ key     \in [Attempts -> Keys \cup {NoKey}]
  /\ body    \in [Attempts -> Bodies \cup {NoBody}]
  /\ outcome \in [Attempts -> Outcomes]
  /\ held    \in [Attempts -> Keys \cup {NoKey}]
  /\ known   \in [Attempts -> BOOLEAN]
  /\ answer  \in [Attempts -> {"none", "sent", "failed", "unknown"}]
  /\ mailed  \subseteq Attempts
  /\ seen    \subseteq Keys \X (Bodies \cup {NoBody})
  /\ open    \subseteq Keys \cup {NoKey}
  /\ forgot  \in BOOLEAN

(* At most once: two attempts with one dedupe key never both put a mail in *)
(* the recipient's inbox, whatever the crashes, timeouts and retries,      *)
(* unless some attempt of that key sent while the ledger was down          *)
(* (send-ledger.ts header, points 1 to 7).                                 *)
AtMostOnce ==
  \A a, b \in Attempts :
    /\ a \in mailed /\ b \in mailed
    /\ key[a] = key[b] /\ key[a] # NoKey
    /\ key[a] \notin open
    => a = b

(* Even with the ledger down, an identical retry is not a second mail      *)
(* while the provider remembers the idempotency key (email.ts: "Every      *)
(* keyed send carries the header, ledger up or down").                     *)
IdenticalRetryOnce ==
  forgot \/ \A a, b \in Attempts :
    /\ a \in mailed /\ b \in mailed
    /\ key[a] = key[b] /\ key[a] # NoKey
    /\ body[a] = body[b]
    => a = b

(* The ledger never says a mail did not go when it did: a row whose        *)
(* attempt mailed counts for countHeldSends, so the daily bound and the    *)
(* support page never undercount.                                          *)
MailedRowsCount ==
  \A a \in Attempts :
    a \in mailed /\ outcome[a] # "none" => outcome[a] \in Unsettled

(* A key is never lost to a mail that did not go: a holder has mailed, may *)
(* still mail, was answered "unknown", got the provider's repeat of an     *)
(* earlier answer, or lost its worker or its settling write.               *)
HeldKeyIsOwed ==
  \A a \in Attempts :
    held[a] # NoKey =>
      \/ a \in mailed
      \/ pc[a] \in {"calling", "finalizing", "crashed"}
      \/ answer[a] \in {"unknown", "sent"}
      \/ ~known[a]
=============================================================================
