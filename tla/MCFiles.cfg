SPECIFICATION FilesSpec
CONSTANTS
    MaxBatches = 2
    MaxNumber = 9
    MaxOutputs = 2
    MaxCrashes = 2
    ApplyFails = FALSE
    CrashInNewDB = FALSE
INVARIANTS LogKept RecoveryHolds RepairKeeps
PROPERTY NothingOverwritten
CHECK_DEADLOCK FALSE
