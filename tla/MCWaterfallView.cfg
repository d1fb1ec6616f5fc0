CONSTANTS
    Queue = 2
    Height = 3
    PerFrame = 1
    PendingCap = 2
    Widths <- MCWidths
    MaxBatch = 2
    MaxRow = 5
    MaxChange = 1
SPECIFICATION ViewSpec
INVARIANTS RowsKeepUp ScreenInOrder
PROPERTY WidthAdopted
