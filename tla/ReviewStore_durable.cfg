\* Appends complete or write nothing, crashes come anywhere between two methods,
\* and the queue has room for every ticket, as in review_crash it has not.
CONSTANTS
    TicketIds = {t1, t2, t3}
    Fingerprints = {f1, f2}
    Principals = {alice}
    PostActions = {"allow"}
    Capacities = {3}
    Ttls = {1}
    WriteOutcomes = {"ok", "refused"}
    MaxTime = 1
    MaxLines = 4
    None = None
SYMMETRY Symmetry
SPECIFICATION Spec
INVARIANTS AckedSurvives OneTicketPerRequest
PROPERTIES LedgerSpec RestartRestoresOverride
