\* Two ids, two pictures, two sessions, three operations.
SPECIFICATION Spec
CONSTANTS
    MaxPhotos = 2
    Picture = {p1, p2}
    Tag = {t}
    Category = {c}
    Place = {here, there}
    NoPicture = NoPicture
    NoPlace = NoPlace
    Nobody = Nobody
    Session = {s1, s2}
    MaxOps = 3
SYMMETRY Symmetry
INVARIANT RowsDescribeTheirPhotos
INVARIANT TagSavesSucceed
INVARIANT PairsAreFound
INVARIANT PlacesFollowHistory
CHECK_DEADLOCK FALSE
