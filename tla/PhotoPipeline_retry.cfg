\* Three runs of the document chain: every outcome, retry, resume, crash.
SPECIFICATION Spec
CONSTANTS
    Task <- DocumentChain
    PhaseOf <- PhaseOfTasks
    LastPhase = 5
    DependsOn <- DependsOnTasks
    ModelTask = {"isdoc", "ocr", "doctext"}
    MayNotApply = {"ocr", "doctext"}
    Reindexed = "embedding"
    MaxRuns = 3
    MaxReindex = 0
INVARIANT CompletedIsHonest
INVARIANT DoneOnPrerequisites
INVARIANT NothingLeftOpen
INVARIANT RetryFollowsRoots
