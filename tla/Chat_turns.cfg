\* Two messages while the chat model is configured anew twice and the backend restarts once.
SPECIFICATION Spec
CONSTANTS
    t1 = t1
    t2 = t2
    Turn = {t1, t2}
    MaxVersions = 3
    MaxThreads = 2
    MaxRounds = 1
    MaxRestarts = 1
    None = None
INVARIANTS ResetGoverns
PROPERTY AnsweredThreadGoesOn
CHECK_DEADLOCK FALSE
