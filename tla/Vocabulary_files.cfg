\* Two edits, a change of the model, two failures or ends of a process.
SPECIFICATION Spec
CONSTANTS
    a = a
    b = b
    Name = {a, b}
    Defaults <- Shipped
    Model = {1, 2}
    FirstModel = 1
    NoFile = NoFile
    NoModel = NoModel
    MaxEdits = 2
    MaxSwitches = 1
    MaxFaults = 2
INVARIANT FilesAgree
INVARIANT WorkerPairs
INVARIANT HashNamesModel
INVARIANT StatusSettles
CHECK_DEADLOCK FALSE
