CONSTANTS
    Kernels = {k1, k2}
    Cores = {0, 1, 2, 3}
    NodeOf <- MCNodeOf
    ReqCores = 2
    MaxRestarts = 1
    MaxDestroys = 2
    MaxCrashes = 1
    MaxFailures = 1
    MaxExecs = 0
    MaxShutdowns = 0
    MaxReconnects = 1
    MaxStats = 0
SPECIFICATION Spec
INVARIANT TypeOK
INVARIANT TerminatedIsFinal
CHECK_DEADLOCK FALSE
