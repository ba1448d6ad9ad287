SPECIFICATION FairSpec
CONSTANTS
    r = r
    s = s
    t = t
    server = server
    w1 = w1
    w2 = w2
    Call = {r, s, t}
    RunCall = {r}
    ChatCall = {t}
    Loop = {server}
    LoopOf <- MCLoopOf
    Worker = {w1, w2}
    Sticky = FALSE
    EnvMode = "local"
    MaxVersions = 2
    MaxStops = 1
    None = None
INVARIANTS WarmupGoverns WaitersArePolled GatedInference
PROPERTIES CallsAreAnswered
CHECK_DEADLOCK FALSE
