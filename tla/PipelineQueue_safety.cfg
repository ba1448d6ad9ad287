\* Two backends compete for the database: crashes, restarts, resumes, retries, a re-translation.
SPECIFICATION Spec
CONSTANTS
    p1 = p1
    p2 = p2
    p3 = p3
    b1 = b1
    b2 = b2
    chat = chat
    vision = vision
    Photo = {p1, p2}
    Backend = {b1, b2}
    ModelType = {vision}
    ChatType = chat
    MaxConcurrent = 2
    MaxRuns = 3
    MaxRetranslations = 1
    NoPhoto = NoPhoto
    NoBackend = NoBackend
SYMMETRY PhotoSymmetry
INVARIANT OneActiveRun
INVARIANT OwnerExecutes
INVARIANT LocalRunsAlone
 
PROPERTY RunsFormLedger
