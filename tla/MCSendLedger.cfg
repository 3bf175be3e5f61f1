SPECIFICATION Spec
CONSTANTS
  Attempts = {a1, a2, a3}
  Keys = {k1}
  Bodies = {b1, b2}
  NoKey = NoKey
  NoBody = NoBody
SYMMETRY AttemptSymmetry
INVARIANTS
  TypeOK
  AtMostOnce
  IdenticalRetryOnce
  MailedRowsCount
  HeldKeyIsOwed
