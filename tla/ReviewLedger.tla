----------------------------- MODULE ReviewLedger -----------------------------
(***************************************************************************)
(* What the review queue promises about verdicts, restarts included: a     *)
(* ticket is filed once, decided at most once, and a verdict is never      *)
(* withdrawn or changed.  Queue, indexes, overrides, log and process life  *)
(* do not appear here; ReviewStore implements this on its event log.       *)
(***************************************************************************)
CONSTANT TicketIds

VARIABLE verdict

Init == verdict = [t \in TicketIds |-> "none"]

File(t) ==
    /\ verdict[t] = "none"
    /\ verdict' = [verdict EXCEPT ![t] = "pending"]

Decide(t, v) ==
    /\ verdict[t] = "pending"
    /\ verdict' = [verdict EXCEPT ![t] = v]

Next ==
    \E t \in TicketIds :
        \/ File(t)
        \/ \E v \in {"approved", "rejected"} : Decide(t, v)

Spec == Init /\ [][Next]_verdict
================================================================================
