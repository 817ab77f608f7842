SPECIFICATION NavSpec
CONSTANTS
    crate = crate
    guard = guard
    none = none
    Height = 2
    Width = 2
    Rows = 4
    Cols = 3
    Passable <- Ring
    Dests <- RingDests
    Sources <- RingSources
    Objects = {crate, guard}
    Covers <- RingCovers
    None = none
    MaxChanges = 4
    MaxDisplaced = 1
INVARIANTS
    
    Served
    WaysFound
CHECK_DEADLOCK FALSE
