\* One backup, and one restoration of it.
SPECIFICATION BackupsSpec
CONSTANTS
    MaxBackups = 2
    MaxWrites = 1
    MaxBackupFaults = 0
INVARIANT RollbackPossible
CHECK_DEADLOCK FALSE
