SPECIFICATION ToolkitSpec
CONSTANTS
    Procs = {1, 2, 3, 4}
    Plans <- MCPlans
    VCOUNT = 2
    Rowcount <- MCRowcount
    Threshold <- MCThreshold
    DaySize <- MCDaySize
    QueryFiles <- MCQueryFiles
    OptionFiles <- MCOptionFiles
    DistFile <- MCDistFile
INVARIANTS
    RowsAsSerial
    LateOnlyAtDayBoundary
    OwnRevision
    NothingLostOrTwice
    LinesFitSchema
    CalendarSound
    RefreshDays
    OptionsAsGiven
    DistributionsKept
    
    AmountsAddUp
    KeysAndLines
PROPERTIES
    NoOverwrite
    AlwaysEnds
    ImplementsDataSet
