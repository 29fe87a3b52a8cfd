------------------------------- MODULE MCGateway -------------------------------
(* Instances of Gateway for TLC.                                            *)
EXTENDS Gateway, TLC

CONSTANTS alice, bob, acme, ka, kb, email, phone, c1, c2

\* alice administers, too.
Staff(key, name, allowed) ==
    [secret |-> key,
     principal |-> [name |-> name, tenant |-> acme, clearance |-> 1, allowed_labels |-> allowed,
                    role |-> IF name = alice THEN "admin" ELSE "user"]]

RuleOf(authorized, unauthorized) ==
    [min_clearance |-> 1, authorized |-> authorized, unauthorized |-> unauthorized]

NoSessions ==
    [enabled |-> FALSE, ttl |-> 0, max_entries |-> 1, threshold |-> 1,
     trigger_action |-> "review"]

\* Two colleagues, neither of whom may send an e-mail address unreviewed; an
\* entry of alice's under bob's secret is overridden.
ReviewConfig ==
    [auth |-> <<Staff(ka, alice, {phone}), Staff(kb, alice, {email}), Staff(kb, bob, {phone})>>,
     rules |-> (email :> RuleOf("allow", "review") @@ phone :> RuleOf("allow", "redact")),
     session |-> NoSessions, opa |-> "off", response_filtering |-> TRUE,
     approval_ttl |-> 1]

\* The same after a reload: bob is gone, an e-mail address is masked, and OPA
\* is asked.
StricterConfig ==
    [ReviewConfig EXCEPT
       !.opa   = "fail_closed",
       !.auth  = <<Staff(ka, alice, {phone})>>,
       !.rules = email :> RuleOf("allow", "redact") @@ phone :> RuleOf("allow", "redact")]

ReviewConfigs == {ReviewConfig, StricterConfig}
ReviewFindings == c1 :> {email, phone} @@ c2 :> {email}

\* Both labels are allowed one at a time; two in a session are not.
SessionsOn(action, opa) ==
    [auth |-> <<Staff(ka, alice, {email, phone})>>,
     rules |-> (email :> RuleOf("allow", "review") @@ phone :> RuleOf("allow", "redact")),
     session |-> [enabled |-> TRUE, ttl |-> 1, max_entries |-> 2, threshold |-> 2,
                  trigger_action |-> action],
     opa |-> opa, response_filtering |-> TRUE, approval_ttl |-> 1]

SessionConfigs ==
    {SessionsOn("block", "fail_open"), SessionsOn("redact", "fail_closed")}
SessionFindings == c1 :> {email} @@ c2 :> {phone}

Symmetry == Permutations(Requests) \cup Permutations(TicketIds)
================================================================================
