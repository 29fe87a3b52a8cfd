\* Crashes and torn appends; two tickets are enough for a glued line.
CONSTANTS
    TicketIds = {t1, t2}
    Fingerprints = {f1, f2}
    Principals = {alice}
    PostActions = {"allow"}
    Capacities = {0, 2}
    Ttls = {1}
    WriteOutcomes = {"ok", "refused", "killed", "unterminated", "cut", "cut_utf8"}
    MaxTime = 1
    MaxLines = 3
    None = None
SYMMETRY Symmetry
SPECIFICATION Spec
INVARIANTS TypeOK IndexSound QueueExact VerdictFinal OverrideAsked
