\* A started run settles; re-index requests during and after two runs.
SPECIFICATION FairSpec
CONSTANTS
    Task <- Description
    PhaseOf <- PhaseOfTasks
    LastPhase = 5
    DependsOn <- DependsOnTasks
    ModelTask = {"vision", "embedding"}
    MayNotApply = {}
    Reindexed = "embedding"
    MaxRuns = 2
    MaxReindex = 2
INVARIANT FailureIsRetryable
 
