SPECIFICATION Spec
CONSTANTS
    Apis = {a1, a2}
    Workers = {w1}
    Environments <- MCEnvironments
    Requests = {r1, r2}
    Grace = 3
    ErrorGrace = 1
    Jobs = {j1, j2}
    None = None
    MaxAttempts = 3
    MaxFaults = 2
INVARIANTS TypeOK CutOnlyAfterGrace PoolClosedLast FailureIsReported CleanExitCutNothing JobSurvivesStop StopCostsOneAttempt RunningHasStores
PROPERTIES StopsWhenTold StopsWhenSignalled LossIsRepaired FailsOnlyIfDown EveryProcessStarts
CHECK_DEADLOCK FALSE
