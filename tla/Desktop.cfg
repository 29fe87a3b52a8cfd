SPECIFICATION Spec
CONSTANTS
    MaxStarts = 2
    MaxRecords = 3
    RingCapacity = 2
    MaxCalls = 2
    Oses = {"macos", "windows", "linux"}
    None = None
INVARIANTS AuthoritySound ExitLeavesNoProxy
PROPERTIES FeedComplete StopStops
