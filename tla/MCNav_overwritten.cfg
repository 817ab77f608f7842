SPECIFICATION NavSpec
CONSTANTS
    crate = crate
    guard = guard
    none = none
    Height = 1
    Width = 3
    Rows = 4
    Cols = 3
    Passable <- Row
    Dests <- RowDests
    Sources <- RowSources
    Objects = {crate}
    Covers <- RowCovers
    None = none
    MaxChanges = 2
    MaxDisplaced = 0
INVARIANT
    DestinationFieldKept
CHECK_DEADLOCK FALSE
