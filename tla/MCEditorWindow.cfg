SPECIFICATION WindowSpec

CONSTANTS
    RowsPerPage = 2
    MaxRows = 5
    MaxLaunches = 2
    Downloads = {d1, d2}
    NoLogo = NoLogo

INVARIANTS
    PaneTypeOK
    DrawnInBounds
    LogoTypeOK
    TexturesReal
    OneBlankFrame

PROPERTIES
    LogoStays
    LogoShown
    LabelTells
