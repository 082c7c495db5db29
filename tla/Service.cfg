CONSTANTS
    Release = {"r1", "r2"}
    NumOptions = 2
    Threshold = 2
    WithDog = TRUE
    MaxOps = 4
    MaxFaults = 1
    MaxHangs = 2
SPECIFICATION Spec
INVARIANTS ReleasesWhole OperationsEndClean
PROPERTY HungRecovers
CHECK_DEADLOCK FALSE
