\* Two requests across a reload, a failed write, or a crash and restart.  No
\* symmetry: liveness is checked.
CONSTANTS
    Emitters = {a, b}
    Capacities = {0, 2}
    MaxSinks = 2
    WriteOutcomes = {"ok", "failed"}
    None = None
SPECIFICATION Spec
INVARIANTS RingIsRecent FileOrder TrailTold
PROPERTY AuditReachesFile
\* A process that died and may open no further sink stays down.
CHECK_DEADLOCK FALSE
