SPECIFICATION Spec
CONSTANTS
    MaxPhotos = 2
    MaxRows = 2
    Writer = {run1, reindex}
    Run = {run1}
    Model = {known, unknown}
    Width <- MCWidth
    TableWidth <- MCTableWidth
    known = known
    unknown = unknown
    None = None
INVARIANTS SearchIsHonest OneRowPerPhoto StatusIsHonest
PROPERTIES StoreReplaces
