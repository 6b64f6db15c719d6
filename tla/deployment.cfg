SPECIFICATION DeploymentSpec
CONSTANTS
    Procs = {"backend", "setup", "pod"}
    Forced = {"pod"}
    Upgraders = {"backend", "setup"}
    NoSyncModels = {"setup"}
    Files = 1
    Chunks = 2
    Migrations = 2
    MaxRuns <- MCMaxRuns
    MaxFaults = 1
INVARIANTS DeploymentTypeOK OneWriterUnlessUnlinked SyncedFilesAreWhole ServesWhatItNeeds
PROPERTIES RolloutEnds SomeUpgradeCompletes
CHECK_DEADLOCK FALSE
