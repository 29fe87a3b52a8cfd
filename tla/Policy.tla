--------------------------------- MODULE Policy ---------------------------------
(***************************************************************************)
(* How a verdict is reached: the four actions and their order (types.rs),  *)
(* the built-in decision per finding (policy.rs), the merge with OPA       *)
(* (opa.rs, apply_opa_policy) and what becomes of a response (proxy.rs).   *)
(*                                                                         *)
(* A payload is the set of labels it shows in clear.  A rule is            *)
(* [min_clearance, authorized, unauthorized], a principal                  *)
(* [name, tenant, clearance, allowed_labels], an outcome [decision,        *)
(* source].                                                                *)
(***************************************************************************)
EXTENDS Naturals

Actions == {"allow", "redact", "review", "block"}

rank(a) == CASE a = "allow"  -> 0
             [] a = "redact" -> 1
             [] a = "review" -> 2
             [] a = "block"  -> 3

combine(a, b) == IF rank(a) >= rank(b) THEN a ELSE b

\* combine folded over a set of actions, from Allow.
strictest(S) ==
    CHOOSE a \in S \cup {"allow"} : \A b \in S : rank(b) <= rank(a)

--------------------------------------------------------------------------------
(* The built-in policy                                                      *)

\* What the rule of a label says about one principal.
action_for(rules, principal, label) ==
    IF /\ principal.clearance >= rules[label].min_clearance
       /\ label \in principal.allowed_labels
    THEN rules[label].authorized
    ELSE rules[label].unauthorized

resolve(rules, principal, labels) ==
    [decision |-> strictest({action_for(rules, principal, l) : l \in labels}),
     source   |-> "builtin"]

\* What redact_text leaves in clear: every finding whose action is not Allow
\* is masked, whatever the action, in both directions.
redact_text(rules, principal, labels) ==
    {l \in labels : action_for(rules, principal, l) = "allow"}

--------------------------------------------------------------------------------
(* OPA                                                                      *)

\* What evaluate may return: a decision, no result, or an error (timeout,
\* refused connection, bad status, bad JSON).
OpaReplies == Actions \cup {"no_result", "error"}

\* "off": no OPA is configured; otherwise what fail_open says of an error.
OpaModes == {"off", "fail_open", "fail_closed"}

\* Mutant: OPA's action replaces the built-in decision.
merge_replacing(action, base) == [decision |-> action, source |-> "opa"]

merge(action, base) ==
    [decision |-> combine(base.decision, action), source |-> "opa"]

opa_fails(opa, reply) == opa = "fail_closed" /\ reply = "error"

\* apply_opa_policy where it returns Ok.
apply_opa_policy(opa, reply, base) ==
    CASE opa = "off" \/ reply = "no_result" -> base
      [] opa # "off" /\ reply \in Actions   -> merge(reply, base)
      [] opa # "off" /\ reply = "error"     -> [base EXCEPT !.source = "builtin_fail_open"]

--------------------------------------------------------------------------------
(* Responses                                                                *)

normalize_response_decision(d) == IF d = "allow" THEN "allow" ELSE "redact"

finalize_response_policy(opa, reply, base) ==
    IF opa_fails(opa, reply)
    THEN [decision |-> "redact", source |-> "opa_error_fallback"]
    ELSE apply_opa_policy(opa, reply, base)

\* Mutant: an escalation counts only if it changes the normalized decision.
should_force_if_allowed(base, final) ==
    normalize_response_decision(final) # normalize_response_decision(base)

should_force_full_response_redaction(base, final) ==
    final # "allow" /\ rank(final) > rank(base)

\* The labels the client sees; the generic body shows none.
resolve_buffered_response_body(original, sanitized, base, final) ==
    IF normalize_response_decision(final) = "allow" THEN original
    ELSE IF should_force_full_response_redaction(base, final) THEN {}
         ELSE sanitized

================================================================================
