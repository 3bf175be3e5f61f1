---------------------------- MODULE MCSendLedger ----------------------------
(* Bounds for SendLedger.                                                  *)
EXTENDS SendLedger, TLC

AttemptSymmetry == Permutations(Attempts)
=============================================================================
