\* Moves, archives and undos of photos two of which share a base name.
SPECIFICATION ActionSpec
CONSTANTS
    p1 = p1
    p2 = p2
    p3 = p3
    dA = dA
    dB = dB
    m = m
    n = n
    Photo = {p1, p2, p3}
    Folder = {dA, dB}
    NameOf <- BaseNames
    Home <- Folders
    MaxActions = 3
    MaxFaults = 2
    NoPhoto = NoPhoto
    NoFolder = NoFolder
INVARIANT PicturesSurvive
INVARIANT RowsMatchFiles
PROPERTY UndoRestores
CHECK_DEADLOCK FALSE
