\* Nobody waits for ever while the backend serves (no symmetry: liveness).
SPECIFICATION FairSpec
CONSTANTS
    p1 = p1
    p2 = p2
    p3 = p3
    b1 = b1
    b2 = b2
    chat = chat
    vision = vision
    Photo = {p1, p2}
    Backend = {b1}
    ModelType = {vision}
    ChatType = chat
    MaxConcurrent = 0
    MaxRuns = 2
    MaxRetranslations = 1
    NoPhoto = NoPhoto
    NoBackend = NoBackend
PROPERTY QueuedIsServed
