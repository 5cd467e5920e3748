SPECIFICATION Spec
CONSTANTS
  g1 = g1
  g2 = g2
  r1 = r1
  r2 = r2
  ann = ann
  None = None
  Goals = {g1, g2}
  Users = {ann}
  Rounds = {r1, r2}
  Saliences = {0, 2}
  MaxActive = 1
  MaxPromote = 1
  ReviewLimit = 1
  FaultLimit = 1
  KillLimit = 1
INVARIANTS
  LedgerExplainsGoals
  CapWithOverlap
PROPERTIES
  FadesOncePerInterval
CHECK_DEADLOCK FALSE
