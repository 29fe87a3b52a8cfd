\* Review, verdict and replay, across reloads and refused appends; the
\* stricter configuration asks OPA, about responses too.
CONSTANTS
    alice = alice bob = bob acme = acme ka = ka kb = kb
    email = email phone = phone c1 = c1 c2 = c2
    None = None
    Requests = {r1, r2}
    Keys = {ka, kb}
    Names = {alice, bob}
    Tenants = {acme}
    Labels = {email, phone}
    Contents = {c1, c2}
    SessionIds = {}
    Findings <- ReviewFindings
    Responses = {{phone}, {email, phone}}
    Configs <- ReviewConfigs
    OpaAnswers = {"allow", "redact", "block", "no_result", "error"}
    TicketIds = {t1, t2}
    Capacity = 1
    WriteOutcomes = {"ok", "refused"}
    MaxTime = 1
    MaxLines = 4
SYMMETRY Symmetry
SPECIFICATION Spec
INVARIANTS NoUnapprovedExposure AuditTrail ResponseContained
PROPERTY ToldTicketDecidable
