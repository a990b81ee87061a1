SPECIFICATION Spec
CONSTANTS
  a1 = a1
  a2 = a2
  b1 = b1
  A = A
  B = B
  Sessions <- MCSessions
  Npubs = {A, B}
  NpubOf <- MCNpubOf
  Callers = {t1, t2}
  Commands = {c1}
  Endpoints = {e1, e2, e3}
  MaxWipes = 2
  WipeCanFail = FALSE
  NONE = NONE
CHECK_DEADLOCK FALSE
INVARIANTS PlaneServesLiveKeys
