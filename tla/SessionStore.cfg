\* Three sessions in a table of two, so that eviction happens; a pause of two
\* ticks outlives the TTL of one.
CONSTANTS
    SessionIds = {s1, s2, s3}
    Labels = {email, phone}
    None = None
    Config <- TightConfig
    MaxTime = 2
    MaxCalls = 4
SYMMETRY Symmetry
SPECIFICATION Spec
INVARIANTS EscalationExact TableBounded
