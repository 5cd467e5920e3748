SPECIFICATION Spec
CONSTANTS
  ann = ann
  bob = bob
  m1 = m1
  none = none
  hi = hi
  tale = tale
  Persons = {ann, bob}
  Sources = {m1}
  Author <- MCAuthor
  NoSource = none
  Bodies = {hi, tale}
  LongBodies = {tale}
  KeywordLimit = 2
  VectorLimit = 2
  CleanupLimit = 1
  MaxWrites = 2
  MaxFaults = 1
INVARIANTS
  SearchFindsOwn
PROPERTIES
  ForgetsOnlyOldAndMinor
CHECK_DEADLOCK FALSE
