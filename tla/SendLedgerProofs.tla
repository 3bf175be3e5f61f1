-------------------------- MODULE SendLedgerProofs --------------------------
(***************************************************************************)
(* AtMostOnce for any set of attempts, keys and bodies.                    *)
(***************************************************************************)
EXTENDS SendLedger, TLAPS

(* The unique index: two rows never hold one key.                          *)
OneHolder ==
  \A a, b \in Attempts : held[a] = held[b] /\ held[a] # NoKey => a = b

(* An attempt that may still mail, or has, holds its key, unless its key   *)
(* failed open.  An attempt that has not reached the provider has mailed   *)
(* nothing, and a refused one neither.                                     *)
MailersHold ==
  \A a \in Attempts :
    /\ \/ pc[a] = "calling"
       \/ a \in mailed
       \/ pc[a] = "finalizing" /\ answer[a] # "failed"
       => key[a] = NoKey \/ key[a] \in open \/ held[a] = key[a]
    /\ pc[a] \in {"idle", "reserving", "calling"} =>
         a \notin mailed /\ answer[a] = "none"
    /\ answer[a] = "failed" => a \notin mailed
    /\ pc[a] \in {"idle", "reserving"} => held[a] = NoKey

IInv == TypeOK /\ OneHolder /\ MailersHold

USE SendConstants

LEMMA InitInv == Init => IInv
BY DEF Init, IInv, TypeOK, OneHolder, MailersHold, Outcomes, Unsettled, Withheld

LEMMA StepTypeOK == TypeOK /\ [Next]_vars => TypeOK'
<1> SUFFICES ASSUME TypeOK, [Next]_vars PROVE TypeOK'
  OBVIOUS
<1> USE DEF TypeOK, call, ledger, world, Outcomes, Unsettled, Withheld
<1>1. ASSUME NEW a \in Attempts, NEW o \in Withheld, Withhold(a, o)
      PROVE  TypeOK'
  BY <1>1 DEF Withhold, RecordSend
<1>2. ASSUME NEW a \in Attempts, NEW k \in Keys \cup {NoKey},
             NEW b \in Bodies, Begin(a, k, b)
      PROVE  TypeOK'
  BY <1>2 DEF Begin
<1>3. ASSUME NEW a \in Attempts, Reserve(a) PROVE TypeOK'
  BY <1>3 DEF Reserve
<1>4. ASSUME NEW a \in Attempts, ReserveDuplicate(a) PROVE TypeOK'
  BY <1>4 DEF ReserveDuplicate, RecordSend
<1>5. ASSUME NEW a \in Attempts, ReserveFailsOpen(a) PROVE TypeOK'
  BY <1>5 DEF ReserveFailsOpen
<1>6. ASSUME NEW a \in Attempts, RenderFails(a) PROVE TypeOK'
  BY <1>6 DEF RenderFails, Answered
<1>7. ASSUME NEW a \in Attempts, CallAccepted(a) PROVE TypeOK'
  BY <1>7 DEF CallAccepted, Answered, Deliver
<1>8. ASSUME NEW a \in Attempts, CallRefused(a) PROVE TypeOK'
  BY <1>8 DEF CallRefused, Answered
<1>9. ASSUME NEW a \in Attempts, CallUnknown(a) PROVE TypeOK'
  BY <1>9 DEF CallUnknown, Answered, Deliver
<1>10. ASSUME NEW a \in Attempts, CrashCalling(a) PROVE TypeOK'
  BY <1>10 DEF CrashCalling, Deliver
<1>11. ASSUME NEW a \in Attempts, FinalizeSend(a) PROVE TypeOK'
  BY <1>11 DEF FinalizeSend, Settle
<1>12. ASSUME NEW a \in Attempts, FinalizeLost(a) PROVE TypeOK'
  BY <1>12 DEF FinalizeLost
<1>13. CASE ProviderForgets
  BY <1>13 DEF ProviderForgets
<1>14. CASE UNCHANGED vars
  BY <1>14 DEF vars
<1>15. QED
  BY <1>1, <1>2, <1>3, <1>4, <1>5, <1>6, <1>7, <1>8, <1>9, <1>10, <1>11,
     <1>12, <1>13, <1>14 DEF Next, Step

(* Only Reserve, ReserveFailsOpen and FinalizeSend write a dedupe key.     *)
LEMMA StepOneHolder == IInv /\ [Next]_vars => OneHolder'
<1> SUFFICES ASSUME IInv, [Next]_vars PROVE OneHolder'
  OBVIOUS
<1> USE DEF IInv, TypeOK, OneHolder, call, ledger, world
<1>1. ASSUME NEW a \in Attempts, Reserve(a) PROVE OneHolder'
  BY <1>1 DEF Reserve, KeyTaken
<1>2. ASSUME NEW a \in Attempts, ReserveFailsOpen(a) PROVE OneHolder'
  BY <1>2 DEF ReserveFailsOpen, KeyTaken
<1>3. ASSUME NEW a \in Attempts, FinalizeSend(a) PROVE OneHolder'
  BY <1>3 DEF FinalizeSend, Settle
<1>4. ASSUME UNCHANGED held PROVE OneHolder'
  BY <1>4
<1>5. QED
  BY <1>1, <1>2, <1>3, <1>4 DEF Next, Step, vars, Withhold, Begin,
     ReserveDuplicate, RenderFails, CallAccepted, CallRefused, CallUnknown,
     CrashCalling, FinalizeLost, ProviderForgets, Answered

LEMMA StepMailersHold == IInv /\ [Next]_vars => MailersHold'
<1> SUFFICES ASSUME IInv, [Next]_vars PROVE MailersHold'
  OBVIOUS
<1> USE DEF IInv, TypeOK, MailersHold, call, ledger, world
<1>1. ASSUME NEW a \in Attempts, NEW o \in Withheld, Withhold(a, o)
      PROVE  MailersHold'
  BY <1>1 DEF Withhold
<1>2. ASSUME NEW a \in Attempts, NEW k \in Keys \cup {NoKey},
             NEW b \in Bodies, Begin(a, k, b)
      PROVE  MailersHold'
  BY <1>2 DEF Begin
<1>3. ASSUME NEW a \in Attempts, Reserve(a) PROVE MailersHold'
  BY <1>3 DEF Reserve
<1>4. ASSUME NEW a \in Attempts, ReserveDuplicate(a) PROVE MailersHold'
  BY <1>4 DEF ReserveDuplicate
<1>5. ASSUME NEW a \in Attempts, ReserveFailsOpen(a) PROVE MailersHold'
  BY <1>5 DEF ReserveFailsOpen
<1>6. ASSUME NEW a \in Attempts, RenderFails(a) PROVE MailersHold'
  BY <1>6 DEF RenderFails, Answered
<1>7. ASSUME NEW a \in Attempts, CallAccepted(a) PROVE MailersHold'
  BY <1>7 DEF CallAccepted, Answered, Deliver
<1>8. ASSUME NEW a \in Attempts, CallRefused(a) PROVE MailersHold'
  BY <1>8 DEF CallRefused, Answered
<1>9. ASSUME NEW a \in Attempts, CallUnknown(a) PROVE MailersHold'
  BY <1>9 DEF CallUnknown, Answered, Deliver
<1>10. ASSUME NEW a \in Attempts, CrashCalling(a) PROVE MailersHold'
  BY <1>10 DEF CrashCalling, Deliver
<1>11. ASSUME NEW a \in Attempts, FinalizeSend(a) PROVE MailersHold'
  BY <1>11 DEF FinalizeSend, Settle
<1>12. ASSUME NEW a \in Attempts, FinalizeLost(a) PROVE MailersHold'
  BY <1>12 DEF FinalizeLost
<1>13. CASE ProviderForgets
  BY <1>13 DEF ProviderForgets
<1>14. CASE UNCHANGED vars
  BY <1>14 DEF vars
<1>15. QED
  BY <1>1, <1>2, <1>3, <1>4, <1>5, <1>6, <1>7, <1>8, <1>9, <1>10, <1>11,
     <1>12, <1>13, <1>14 DEF Next, Step

LEMMA SpecIInv == Spec => []IInv
<1>1. IInv /\ [Next]_vars => IInv'
  BY StepTypeOK, StepOneHolder, StepMailersHold DEF IInv
<1>2. QED
  BY InitInv, <1>1, PTL DEF Spec

(* The ledger's columns keep their types for any set of attempts.          *)
THEOREM TypeCorrect == Spec => []TypeOK
<1>1. IInv => TypeOK
  BY DEF IInv
<1>2. QED
  BY SpecIInv, <1>1, PTL

(* Two mails for one dedupe key need a send that found the ledger down,    *)
(* for any number of attempts, keys and bodies: both mailers hold the key, *)
(* and the unique index gives a key one holder.                            *)
THEOREM NoSecondMail == Spec => []AtMostOnce
<1>1. IInv => AtMostOnce
  BY DEF IInv, OneHolder, MailersHold, AtMostOnce
<1>2. QED
  BY SpecIInv, <1>1, PTL

-----------------------------------------------------------------------------
(* What a row says of its attempt.                                         *)

(* A row is settled by its attempt only, and after an answer.              *)
Stages ==
  \A a \in Attempts :
    /\ pc[a] \in {"idle", "reserving"} => outcome[a] = "none"
    /\ pc[a] \in {"calling", "finalizing"} => outcome[a] \in {"none", "sending"}
    /\ pc[a] = "finalizing" => answer[a] # "none"

Told == Stages /\ MailedRowsCount /\ HeldKeyIsOwed

LEMMA StepTold == IInv /\ Told /\ [Next]_vars => Told'
<1> SUFFICES ASSUME IInv, Told, [Next]_vars PROVE Told'
  OBVIOUS
<1> USE DEF IInv, TypeOK, MailersHold, Told, Stages, MailedRowsCount,
        HeldKeyIsOwed, Unsettled, Withheld, call, ledger, world
<1>1. ASSUME NEW a \in Attempts, NEW o \in Withheld, Withhold(a, o)
      PROVE  Told'
  BY <1>1 DEF Withhold, RecordSend
<1>2. ASSUME NEW a \in Attempts, NEW k \in Keys \cup {NoKey}, NEW b \in Bodies,
             Begin(a, k, b)
      PROVE  Told'
  BY <1>2 DEF Begin
<1>3. ASSUME NEW a \in Attempts, Reserve(a)
      PROVE  Told'
  BY <1>3 DEF Reserve
<1>4. ASSUME NEW a \in Attempts, ReserveDuplicate(a)
      PROVE  Told'
  BY <1>4 DEF ReserveDuplicate, RecordSend
<1>5. ASSUME NEW a \in Attempts, ReserveFailsOpen(a)
      PROVE  Told'
  BY <1>5 DEF ReserveFailsOpen
<1>6. ASSUME NEW a \in Attempts, RenderFails(a)
      PROVE  Told'
  BY <1>6 DEF RenderFails, Answered
<1>7. ASSUME NEW a \in Attempts, CallAccepted(a)
      PROVE  Told'
  BY <1>7 DEF CallAccepted, Answered, Deliver
<1>8. ASSUME NEW a \in Attempts, CallRefused(a)
      PROVE  Told'
  BY <1>8 DEF CallRefused, Answered
<1>9. ASSUME NEW a \in Attempts, CallUnknown(a)
      PROVE  Told'
  BY <1>9 DEF CallUnknown, Answered, Deliver
<1>10. ASSUME NEW a \in Attempts, CrashCalling(a)
      PROVE  Told'
  BY <1>10 DEF CrashCalling, Deliver
<1>11. ASSUME NEW a \in Attempts, FinalizeSend(a)
      PROVE  Told'
  BY <1>11 DEF FinalizeSend, Settle
<1>12. ASSUME NEW a \in Attempts, FinalizeLost(a)
      PROVE  Told'
  BY <1>12 DEF FinalizeLost
<1>13. CASE ProviderForgets
  BY <1>13 DEF ProviderForgets
<1>14. CASE UNCHANGED vars
  BY <1>14 DEF vars
<1>15. QED
  BY <1>1, <1>2, <1>3, <1>4, <1>5, <1>6, <1>7, <1>8, <1>9, <1>10, <1>11,
     <1>12, <1>13, <1>14 DEF Next, Step

LEMMA SpecTold == Spec => [](IInv /\ Told)
<1>1. Init => IInv /\ Told
  BY InitInv DEF Init, Told, Stages, MailedRowsCount, HeldKeyIsOwed
<1>2. IInv /\ Told /\ [Next]_vars => (IInv /\ Told)'
  BY StepTypeOK, StepOneHolder, StepMailersHold, StepTold DEF IInv
<1>3. QED
  BY <1>1, <1>2, PTL DEF Spec

(* The daily bound and the support page never undercount: the row of a     *)
(* mail that went is never a withheld, failed or refused one.              *)
THEOREM MailedCounts == Spec => []MailedRowsCount
<1>1. Told => MailedRowsCount
  BY DEF Told
<1>2. QED
  BY SpecTold, <1>1, PTL

(* A key is not lost to a mail that did not go.                            *)
THEOREM HeldIsOwed == Spec => []HeldKeyIsOwed
<1>1. Told => HeldKeyIsOwed
  BY DEF Told
<1>2. QED
  BY SpecTold, <1>1, PTL

-----------------------------------------------------------------------------
(* The provider's memory.                                                  *)

(* Until it forgets, it knows every keyed mail it sent.                    *)
Remembers ==
  forgot \/ \A a \in mailed : key[a] # NoKey => <<key[a], body[a]>> \in seen

RepeatsOnce == Remembers /\ IdenticalRetryOnce

LEMMA StepOnce == IInv /\ RepeatsOnce /\ [Next]_vars => RepeatsOnce'
<1> SUFFICES ASSUME IInv, RepeatsOnce, [Next]_vars PROVE RepeatsOnce'
  OBVIOUS
<1> USE DEF IInv, TypeOK, MailersHold, RepeatsOnce, Remembers, IdenticalRetryOnce,
        call, ledger, world
<1>1. ASSUME NEW a \in Attempts, NEW o \in Withheld, Withhold(a, o)
      PROVE  RepeatsOnce'
  BY <1>1 DEF Withhold, RecordSend
<1>2. ASSUME NEW a \in Attempts, NEW k \in Keys \cup {NoKey}, NEW b \in Bodies,
             Begin(a, k, b)
      PROVE  RepeatsOnce'
  BY <1>2 DEF Begin
<1>3. ASSUME NEW a \in Attempts, Reserve(a)
      PROVE  RepeatsOnce'
  BY <1>3 DEF Reserve
<1>4. ASSUME NEW a \in Attempts, ReserveDuplicate(a)
      PROVE  RepeatsOnce'
  BY <1>4 DEF ReserveDuplicate, RecordSend
<1>5. ASSUME NEW a \in Attempts, ReserveFailsOpen(a)
      PROVE  RepeatsOnce'
  BY <1>5 DEF ReserveFailsOpen
<1>6. ASSUME NEW a \in Attempts, RenderFails(a)
      PROVE  RepeatsOnce'
  BY <1>6 DEF RenderFails, Answered
<1>7. ASSUME NEW a \in Attempts, CallAccepted(a)
      PROVE  RepeatsOnce'
  BY <1>7 DEF CallAccepted, Answered, Deliver
<1>8. ASSUME NEW a \in Attempts, CallRefused(a)
      PROVE  RepeatsOnce'
  BY <1>8 DEF CallRefused, Answered
<1>9. ASSUME NEW a \in Attempts, CallUnknown(a)
      PROVE  RepeatsOnce'
  BY <1>9 DEF CallUnknown, Answered, Deliver
<1>10. ASSUME NEW a \in Attempts, CrashCalling(a)
      PROVE  RepeatsOnce'
  BY <1>10 DEF CrashCalling, Deliver
<1>11. ASSUME NEW a \in Attempts, FinalizeSend(a)
      PROVE  RepeatsOnce'
  BY <1>11 DEF FinalizeSend, Settle
<1>12. ASSUME NEW a \in Attempts, FinalizeLost(a)
      PROVE  RepeatsOnce'
  BY <1>12 DEF FinalizeLost
<1>13. CASE ProviderForgets
  BY <1>13 DEF ProviderForgets
<1>14. CASE UNCHANGED vars
  BY <1>14 DEF vars
<1>15. QED
  BY <1>1, <1>2, <1>3, <1>4, <1>5, <1>6, <1>7, <1>8, <1>9, <1>10, <1>11,
     <1>12, <1>13, <1>14 DEF Next, Step

(* With the ledger down or up, a retry with the same body is not a second  *)
(* mail for as long as the provider remembers.                             *)
THEOREM RetryOnce == Spec => []IdenticalRetryOnce
<1>1. Init => IInv /\ RepeatsOnce
  BY InitInv DEF Init, RepeatsOnce, Remembers, IdenticalRetryOnce
<1>2. IInv /\ RepeatsOnce /\ [Next]_vars => (IInv /\ RepeatsOnce)'
  BY StepTypeOK, StepOneHolder, StepMailersHold, StepOnce DEF IInv
<1>3. RepeatsOnce => IdenticalRetryOnce
  BY DEF RepeatsOnce
<1>4. QED
  BY <1>1, <1>2, <1>3, PTL DEF Spec
=============================================================================
