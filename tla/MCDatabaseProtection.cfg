CONSTANTS
    OldBackups = 10
    MaxNames = 12
    MaxBackups = 12
    MaxFaults = 2
SPECIFICATION ProtectionSpec
INVARIANTS
    ListedIsWhole
    ReportsWholeBackup
PROPERTIES
    StartsSound
    BackedUpBeforeRepair
CHECK_DEADLOCK FALSE
