SPECIFICATION FairSpec
CONSTANTS
  u1 = u1
  u2 = u2
  Users = {u1, u2}
  MinFrames = 2
  MaxFrames = 3
  BurstFrames = 1
  SilenceFrames = 2
  QueueCap = 1
  FrameBound = 3
  MaxTurns = 2
  MaxCommands = 2
INVARIANTS
  LockCoversTurn
  FreezesOnlyWithCause
PROPERTY TurnsEnd
CHECK_DEADLOCK FALSE
