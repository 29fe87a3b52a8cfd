\* Three calls of the page, the isolated script injected at any moment or never.
\* No symmetry: liveness is checked.
CONSTANTS
    None = None
    email = email name = name
    r1 = r1 r2 = r2 r3 = r3
    Requests = {r1, r2, r3}
    BodyOf <- SomeBodies
    Loads <- SomeLoads
SPECIFICATION Spec
INVARIANTS NoRawBody OwnBody
PROPERTIES SettledOnce EverySettles
\* The page has made its calls and every message is delivered.
CHECK_DEADLOCK FALSE
