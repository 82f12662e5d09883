SPECIFICATION UploadsSpec
SYMMETRY Symmetry
CHECK_DEADLOCK FALSE
CONSTANTS
    None = None
    Images = {i1, i2}
    Users = {u1, u2}
    Environments <- ConfiguredOrMoved
INVARIANTS
    RowsHaveObjects
    PreviewsAreRight
    ImagesAreSeen
    OptionsAreHonoured
