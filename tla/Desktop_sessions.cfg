\* Three sessions of the app, orderly or not, on Windows and elsewhere.
SPECIFICATION ShellFairSpec
CONSTANTS
    MaxLaunches = 3
    MaxCrashes = 2
    MaxPulls = 2
INVARIANTS PullsAreCancellable
PROPERTIES SpawnsAlone QuitStopsBackend
CHECK_DEADLOCK FALSE
