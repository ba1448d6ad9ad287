\* Two watchers and a scan of one of their folders find copies of the same pictures; an exception
\* and a kill at any step (no symmetry: liveness).
SPECIFICATION FairSpec
CONSTANTS
    c1 = c1
    c2 = c2
    w1 = w1
    w2 = w2
    Content = {c1, c2}
    Watcher = {w1, w2}
    Incoming = {"in/a", "in/b"}
    WatcherOf <- TwoFolders
    Dest <- OwnNames
    Scanned = {"in/a", "scan/a"}
    MaxScans = 2
    MaxKills = 1
    MaxFaults = 1
    NoContent = NoContent
    NoPath = NoPath
    NoRow = NoRow
INVARIANT AdmittedOnce
INVARIANT AdmissionFollowsRow
PROPERTY RecordedIsAdmitted
PROPERTY ListedIsRecorded
CHECK_DEADLOCK FALSE
