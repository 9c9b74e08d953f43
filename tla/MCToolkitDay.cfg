SPECIFICATION ToolkitSpec
CONSTANTS
    Procs = {1, 2, 3, 4}
    Plans <- MCPlans
    VCOUNT = 2
    Rowcount <- MCRowcount
    Threshold <- MCThreshold
    DaySize <- MCDaySize
    QueryFiles <- MCQueryFiles
    OptionFiles <- MCOptionFiles
    DistFile <- MCDistFile
INVARIANT SoldDayAsSerial
