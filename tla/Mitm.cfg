\* Every kind of body and attachment through both front ends, in every
\* configuration, while rule-sets arrive in any order.
CONSTANTS
    None = None
    email = email card = card memo = memo name = name id = id
    Exchanges = {e1}
    Hosts <- SomeHosts
    Baked <- SomeBaked
    BakedSigns <- SomeSigning
    Static <- Operator
    Feeds <- SomeFeeds
    Settings <- SomeSettings
    Bodies <- SomeBodies
    Replies <- SomeReplies
    Caller <- Someone
SPECIFICATION Spec
INVARIANTS FoundIsMasked MissedOnlyBeyondLimit FailureStopsAll FloorHeld LatestSigned AuditAgrees TokensReturn
