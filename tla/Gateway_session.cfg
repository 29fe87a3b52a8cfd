\* Requests of one session with one label each, OPA in both failure modes,
\* reloads between their steps.
CONSTANTS
    alice = alice bob = bob acme = acme ka = ka kb = kb
    email = email phone = phone c1 = c1 c2 = c2
    None = None
    Requests = {r1, r2}
    Keys = {ka}
    Names = {alice}
    Tenants = {acme}
    Labels = {email, phone}
    Contents = {c1, c2}
    SessionIds = {s1}
    Findings <- SessionFindings
    Responses = {{}}
    Configs <- SessionConfigs
    OpaAnswers = {"allow", "redact", "review", "no_result", "error"}
    TicketIds = {t1, t2}
    Capacity = 2
    WriteOutcomes = {"ok"}
    MaxTime = 1
    MaxLines = 3
SYMMETRY Symmetry
SPECIFICATION Spec
INVARIANTS StrictestHolds SplitDefeated
