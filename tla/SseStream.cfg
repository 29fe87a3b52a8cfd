\* Every way to cut the streams into chunks, with every reply of OPA.
CONSTANTS
    email = email phone = phone card = card
    Labels = {email, phone, card}
    Streams <- SomeStreams
    Rules <- SomeRules
    principal <- Caller
    Opa = "fail_closed"
    OpaAnswers = {"allow", "redact", "review", "block", "no_result", "error"}
SPECIFICATION Spec
INVARIANTS StreamFiltered StreamConserved StreamAudited
PROPERTY StreamEndsAudited
\* A stream ends.
CHECK_DEADLOCK FALSE
