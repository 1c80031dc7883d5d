SPECIFICATION Spec
CONSTANTS
    Name = {n1, n2}
    Ip = {a, b}
    MaxId = 3
    NewCount = 2
    BeatCount = 1
INVARIANTS
    TypeOK
    IdsAreIndices
    RowsAreTrue
    AbortsAreExplained
    CommandsNameTheirClient
    SavedAreDistinct
PROPERTIES
    FirstErasureIsRight
    SilentIsShownLost
