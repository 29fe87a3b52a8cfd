--------------------------------- MODULE Gateway ---------------------------------
(***************************************************************************)
(* The reverse proxy (src/proxy.rs, src/app.rs): concurrent requests, each *)
(* with the runtime it took a snapshot of, over the session store and the  *)
(* review store they share, beside administrators who decide tickets and   *)
(* reload the configuration.                                               *)
(*                                                                         *)
(* An action of a request runs up to its next access to shared state.      *)
(* Waiting for the body, Presidio, OPA or the upstream happens inside one  *)
(* action where nothing shared is read before it and used after it.        *)
(*                                                                         *)
(* The review store is the module ReviewStore itself, kept running and     *)
(* with appends that complete or write nothing: crashes and torn lines     *)
(* are that module's own subject.                                          *)
(***************************************************************************)
EXTENDS SessionOps, Policy, Sequences

CONSTANTS
    Requests,       \* the calls of proxy_handler that may run
    Keys,           \* the credentials a client may present
    Names,          \* Principal::name
    Tenants,        \* Principal::tenant_id
    Contents,       \* path and body bytes, as the client sends them
    Findings,       \* [Contents -> SUBSET Labels]: what the detectors report
    Responses,      \* label sets of upstream responses
    Configs,        \* the configurations an operator may load
    OpaAnswers,     \* the replies OPA may give
    TicketIds, Capacity, WriteOutcomes, MaxTime, MaxLines

VARIABLES
    runtime,        \* AppState::runtime, swapped by a reload
    sessions,       \* AppState::sessions
    req,            \* the local state of each request
    audits,         \* the records each request emitted, in order
    mode, inner, cursor, log, openLine, now, issued, acked, asked

Fingerprints == Tenants \X Contents

RS == INSTANCE ReviewStore WITH
        Principals  <- Names,
        PostActions <- {"allow", "redact"},
        Capacities  <- {Capacity},
        Ttls        <- {c.approval_ttl : c \in Configs}

reviewVars == <<mode, inner, cursor, log, openLine, now, issued, acked, asked>>
vars == <<runtime, sessions, req, audits, reviewVars>>

--------------------------------------------------------------------------------
(* Data                                                                     *)

Principal ==
    [name: Names, tenant: Tenants, role: {"admin", "user"}, clearance: Nat,
     allowed_labels: SUBSET Labels]

Rule == [min_clearance: Nat, authorized: Actions, unauthorized: Actions]

SessionConfig ==
    [enabled: BOOLEAN, ttl: Nat, max_entries: Nat, threshold: Nat, trigger_action: Actions]

AppConfig ==
    [auth: Seq([secret: Keys, principal: Principal]), rules: [Labels -> Rule],
     session: SessionConfig, opa: OpaModes, response_filtering: BOOLEAN,
     approval_ttl: Nat]

ASSUME GatewayAssumption ==
    /\ Findings \in [Contents -> SUBSET Labels]
    /\ IsFiniteSet(Labels)
    /\ Responses \subseteq SUBSET Labels
    /\ Configs \subseteq AppConfig
    /\ "no_result" \in OpaAnswers
    /\ OpaAnswers \subseteq OpaReplies
    /\ Capacity \in Nat /\ MaxTime \in Nat /\ MaxLines \in Nat
    /\ WriteOutcomes \subseteq {"ok", "refused"}
    /\ None \notin TicketIds \cup RS!ReviewTicket \cup RS!StoredOverride
    /\ None \notin SessionIds /\ None \notin SessionEntry(0..MaxTime)
    /\ None \notin Principal /\ \A clear \in SUBSET Labels : clear # None

\* The stages of a request, named for what it does next.
Stages == {"idle", "authenticate", "scan", "opa", "ticket", "override",
           "verdict", "awaiting", "done"}

Idle ==
    [stage |-> "idle", rt |-> None, key |-> None, content |-> None,
     session |-> None, header |-> None, principal |-> None, base |-> None,
     escalated |-> FALSE, policy |-> None, opa |-> None, via |-> None,
     sent |-> None, status |-> 0, ticket |-> None, reply |-> None]

fingerprint(q) == <<q.principal.tenant, q.content>>

\* The request moves on: the fields of upd change, the others stay.
Step(r, upd) ==
    req' = [req EXCEPT ![r] =
              [f \in DOMAIN Idle |-> IF f \in DOMAIN upd THEN upd[f] ELSE req[r][f]]]

Answer(r, status) == Step(r, [stage |-> "done", status |-> status])

emit(r, record) == audits' = [audits EXCEPT ![r] = Append(@, record)]

AuditRecord(direction, decision, source) ==
    [direction |-> direction, decision |-> decision, source |-> source]

\* proxy_handler's error arm: 502, and a skeleton record for the errors
\* should_emit_request_pre_upstream_error_audit names; RuntimeIo is not one.
SkeletonRecord == AuditRecord("request", "block", "request_pre_upstream_error")

--------------------------------------------------------------------------------
(* Authentication                                                           *)

\* Authenticator: of entries with the same secret the last one counts.
principal_by_hash(auth, key) ==
    LET at == {i \in DOMAIN auth : auth[i].secret = key}
    IN  IF at = {} THEN None ELSE auth[CHOOSE i \in at : \A j \in at : j <= i].principal

\* Against the runtime of the moment, whatever snapshot the caller holds.
authenticate_request(key) == principal_by_hash(runtime.auth, key)

is_admin(key) ==
    authenticate_request(key) # None /\ authenticate_request(key).role = "admin"

--------------------------------------------------------------------------------
(* One request                                                              *)

\* proxy_handler takes its snapshot; the session header counts only if the
\* snapshot enables sessions.
accept(r, key, content, session, header) ==
    /\ req[r].stage = "idle"
    /\ Step(r, [stage |-> "authenticate", rt |-> runtime, key |-> key,
                content |-> content, header |-> header,
                session |-> IF runtime.session.enabled THEN session ELSE None])
    /\ UNCHANGED <<runtime, sessions, audits, reviewVars>>

\* The runtime may no longer be that of the snapshot.
authenticate(r) ==
    LET principal == authenticate_request(req[r].key)
    IN  /\ req[r].stage = "authenticate"
        /\ IF principal = None
           THEN Answer(r, 401)
           ELSE Step(r, [stage |-> "scan", principal |-> principal])
        /\ UNCHANGED <<runtime, sessions, audits, reviewVars>>

\* The body cannot be read (RuntimeIo), or process_payload fails.
scan_fails(r, audited) ==
    /\ req[r].stage = "scan"
    /\ Answer(r, 502)
    /\ IF audited THEN emit(r, SkeletonRecord) ELSE UNCHANGED audits
    /\ UNCHANGED <<runtime, sessions, reviewVars>>

\* process_payload, the session store, and the two gauges read after it.
scan(r) ==
    LET q    == req[r]
        base == resolve(q.rt.rules, q.principal, Findings[q.content])
        hot(s) == q.session # None /\ escalates(s, q.session, q.rt.session)
    IN  /\ q.stage = "scan"
        /\ sessions' \in
             IF q.session # None
             THEN recorded(sessions, q.session, Findings[q.content], q.rt.session, now)
             ELSE {IF q.rt.session.enabled
                   THEN retain(sessions, q.rt.session, now) ELSE sessions}
        /\ Step(r, [stage |-> "opa", base |-> base.decision, escalated |-> hot(sessions'),
                    policy |-> IF hot(sessions')
                               THEN [base EXCEPT !.decision =
                                       combine(@, q.rt.session.trigger_action)]
                               ELSE base])
        /\ RS!query
        /\ UNCHANGED <<runtime, audits>>

\* apply_opa_policy on the request; an error that is not ignored ends it.
consult_opa(r, reply) ==
    LET q == req[r]
    IN  /\ q.stage = "opa"
        /\ q.rt.opa = "off" => reply = "no_result"
        /\ IF opa_fails(q.rt.opa, reply)
           THEN Answer(r, 502) /\ emit(r, SkeletonRecord)
           ELSE /\ Step(r, [stage |-> "ticket", opa |-> reply,
                            policy |-> apply_opa_policy(q.rt.opa, reply, q.policy)])
                /\ UNCHANGED audits
        /\ UNCHANGED <<runtime, sessions, reviewVars>>

\* What a verdict of an administrator makes of the policy outcome.
overridden(status, action) ==
    IF status = "approved"
    THEN [decision |-> action, source |-> "review_override_approved"]
    ELSE [decision |-> "block", source |-> "review_override_rejected"]

\* Mutant: the body of the ticket is not compared.
ticket_applies_to_any_body(q, ticket) ==
    /\ ticket # None
    /\ ticket.status # "pending"
    /\ ticket.principal = q.principal.name

\* The ticket named by the header counts once it is decided and if it is of
\* the same principal, path and body.  Its TTL is not looked at.
ticket_applies(q, ticket) ==
    /\ ticket # None
    /\ ticket.status # "pending"
    /\ ticket.principal = q.principal.name
    /\ ticket.fp[2] = q.content

check_ticket(r) ==
    LET q      == req[r]
        ticket == inner.tickets[q.header]
    IN  /\ q.stage = "ticket"
        /\ IF q.header # None
           THEN /\ RS!query
                /\ IF ticket_applies(q, ticket)
                   THEN Step(r, [stage |-> "verdict", via |-> q.header,
                                 policy |-> overridden(ticket.status, ticket.post)])
                   ELSE Step(r, [stage |-> "override"])
           ELSE Step(r, [stage |-> "override"]) /\ UNCHANGED reviewVars
        /\ UNCHANGED <<runtime, sessions, audits>>

\* lookup_override by fingerprint: tenant, path and body.
check_override(r) ==
    LET q == req[r]
        o == RS!prune_expired_overrides(inner).overrides[fingerprint(q)]
    IN  /\ q.stage = "override"
        /\ RS!query
        /\ IF o # None
           THEN Step(r, [stage |-> "verdict", via |-> o.ticket,
                         policy |-> overridden(o.status, o.action)])
           ELSE Step(r, [stage |-> "verdict"])
        /\ UNCHANGED <<runtime, sessions, audits>>

Verdict(r, decisions) ==
    req[r].stage = "verdict" /\ req[r].policy.decision \in decisions

RequestRecord(r) ==
    AuditRecord("request", req[r].policy.decision, req[r].policy.source)

block(r) ==
    /\ Verdict(r, {"block"})
    /\ emit(r, RequestRecord(r))
    /\ Answer(r, 403)
    /\ UNCHANGED <<runtime, sessions, reviewVars>>

post_review_action(q) == IF q.base = "redact" THEN "redact" ELSE "allow"

\* The request already waits: it is answered with the ticket it waits under.
review_again(r) ==
    LET fp == fingerprint(req[r])
    IN  /\ Verdict(r, {"review"})
        /\ RS!upsert_pending_existing(fp)
        /\ emit(r, RequestRecord(r))
        /\ Step(r, [stage |-> "done", status |-> 409, ticket |-> inner.pending[fp]])
        /\ UNCHANGED <<runtime, sessions>>

review_new(r, id, out) ==
    LET q == req[r]
    IN  /\ Verdict(r, {"review"})
        /\ RS!upsert_pending_new(id, fingerprint(q), q.principal.name,
                                 post_review_action(q), out)
        /\ IF out = "ok"
           THEN /\ emit(r, RequestRecord(r))
                /\ Step(r, [stage |-> "done", status |-> 409, ticket |-> id])
           ELSE /\ emit(r, SkeletonRecord)
                /\ Answer(r, 502)
        /\ UNCHANGED <<runtime, sessions>>

outbound_body(q) ==
    IF q.policy.decision = "redact"
    THEN redact_text(q.rt.rules, q.principal, Findings[q.content])
    ELSE Findings[q.content]

\* Mutant: the body goes out unaudited.
forward_unaudited(r) ==
    /\ Verdict(r, {"allow", "redact"})
    /\ Step(r, [stage |-> "awaiting", sent |-> outbound_body(req[r])])
    /\ UNCHANGED <<runtime, sessions, audits, reviewVars>>

\* The record is emitted, then the body goes out.
forward(r) ==
    /\ Verdict(r, {"allow", "redact"})
    /\ emit(r, RequestRecord(r))
    /\ Step(r, [stage |-> "awaiting", sent |-> outbound_body(req[r])])
    /\ UNCHANGED <<runtime, sessions, reviewVars>>

\* After the record is emitted the path turns out not to make a URL with the
\* upstream's: InvalidUpstreamUrl, for which there is no skeleton record.
upstream_url_fails(r) ==
    /\ Verdict(r, {"allow", "redact"})
    /\ emit(r, RequestRecord(r))
    /\ Answer(r, 502)
    /\ UNCHANGED <<runtime, sessions, reviewVars>>

\* The upstream refuses, times out, or its body cannot be read: RuntimeIo or
\* upstream_read_failed, neither of which is audited.
upstream_fails(r) ==
    /\ req[r].stage = "awaiting"
    /\ Answer(r, 502)
    /\ UNCHANGED <<runtime, sessions, audits, reviewVars>>

\* What process_payload, or its error_fallback when it fails (~scanned), makes
\* of a response: the labels left in clear and the outcome.  Unfiltered
\* responses pass as they are.
processed(q, body, scanned) ==
    IF ~q.rt.response_filtering
    THEN [clear |-> body, outcome |-> [decision |-> "allow", source |-> "builtin"]]
    ELSE IF scanned
         THEN [clear   |-> redact_text(q.rt.rules, q.principal, body),
               outcome |-> resolve(q.rt.rules, q.principal, body)]
         ELSE [clear   |-> {},
               outcome |-> [decision |-> "redact", source |-> "processing_error_fallback"]]

\* response_from_buffered_body
respond(r, body, scanned, reply) ==
    LET q     == req[r]
        p     == processed(q, body, scanned)
        base  == p.outcome.decision
        final == finalize_response_policy(q.rt.opa, reply, p.outcome)
    IN  /\ q.stage = "awaiting"
        /\ q.rt.opa = "off" => reply = "no_result"
        /\ emit(r, AuditRecord("response", normalize_response_decision(final.decision),
                               final.source))
        /\ Step(r, [stage |-> "done", status |-> 200,
                    reply |-> [body |-> body, base |-> base, final |-> final.decision,
                               clear |-> resolve_buffered_response_body(
                                           body, p.clear, base, final.decision)]])
        /\ UNCHANGED <<runtime, sessions, reviewVars>>

--------------------------------------------------------------------------------
(* Administrators and time                                                  *)

\* The TTL is that of the current runtime.
admin_reviews_resolve(key, id, status, out) ==
    /\ is_admin(key)
    /\ RS!resolve(id, status, runtime.approval_ttl, out)
    /\ UNCHANGED <<runtime, sessions, req, audits>>

\* AppState::reload with a file that loads; one that does not changes nothing.
admin_reload(key, config) ==
    /\ is_admin(key)
    /\ runtime' = config
    /\ UNCHANGED <<sessions, req, audits, reviewVars>>

\* Counting drops what has expired: active_sessions under the session settings
\* of the moment, pending_count among the overrides.
refresh_metrics ==
    /\ sessions' = IF runtime.session.enabled
                   THEN retain(sessions, runtime.session, now) ELSE sessions
    /\ RS!query
    /\ UNCHANGED <<runtime, req, audits>>

\* The same counts for whoever asks whether the gateway is ready.
readyz == refresh_metrics

admin_status(key) == is_admin(key) /\ refresh_metrics

\* The places of the queue that hold a ticket of a status.
of_status(status) ==
    {i \in DOMAIN inner.order : status \in {"all", inner.tickets[inner.order[i]].status}}

\* The newest tickets of a status, as many as the limit allows.
list(status, limit) ==
    {inner.order[i] : i \in {j \in of_status(status) :
         Cardinality({k \in of_status(status) : k > j}) < limit}}

admin_reviews(key) ==
    /\ is_admin(key)
    /\ RS!query
    /\ UNCHANGED <<runtime, sessions, req, audits>>

tick ==
    /\ RS!tick
    /\ UNCHANGED <<runtime, sessions, req, audits>>

--------------------------------------------------------------------------------
\* build_state with an empty review log.
Init ==
    /\ runtime \in Configs
    /\ sessions = [id \in SessionIds |-> None]
    /\ req = [r \in Requests |-> Idle]
    /\ audits = [r \in Requests |-> <<>>]
    /\ mode = "up"
    /\ inner = RS!EmptyInner(RS!AtLeastOne(Capacity))
    /\ cursor = 0
    /\ log = <<>>
    /\ openLine = FALSE
    /\ now = 0
    /\ issued = {}
    /\ acked = {}
    /\ asked = {}

\* A client can only name a ticket that was drawn.
Handle(r) ==
    \/ \E key \in Keys, content \in Contents, session \in SessionIds \cup {None},
         header \in issued \cup {None} : accept(r, key, content, session, header)
    \/ authenticate(r)
    \/ \E audited \in BOOLEAN : scan_fails(r, audited)
    \/ scan(r)
    \/ \E reply \in OpaAnswers : consult_opa(r, reply)
    \/ check_ticket(r)
    \/ check_override(r)
    \/ block(r)
    \/ review_again(r)
    \/ \E id \in TicketIds, out \in WriteOutcomes : review_new(r, id, out)
    \/ forward(r)
    \/ upstream_url_fails(r)
    \/ upstream_fails(r)
    \/ \E body \in Responses, scanned \in BOOLEAN, reply \in OpaAnswers :
         respond(r, body, scanned, reply)

Administer(key) ==
    \/ \E id \in TicketIds, v \in RS!Verdicts, out \in WriteOutcomes :
         admin_reviews_resolve(key, id, v, out)
    \/ \E config \in Configs : admin_reload(key, config)
    \/ admin_status(key)
    \/ admin_reviews(key)

Next ==
    \/ \E r \in Requests : Handle(r)
    \/ \E key \in Keys : Administer(key)
    \/ refresh_metrics \/ readyz \/ tick

Spec == Init /\ [][Next]_vars
--------------------------------------------------------------------------------
(* Properties                                                               *)

\* The types of the shared state and of every request; a request has at most
\* one record per direction, and answers only with the codes of proxy_handler.
TypeOK ==
    /\ runtime \in Configs
    /\ sessions \in [SessionIds -> SessionEntry(0..MaxTime) \cup {None}]
    /\ \A r \in Requests :
         /\ req[r].stage \in Stages
         /\ req[r].rt \in Configs \cup {None}
         /\ req[r].header \in TicketIds \cup {None}
         /\ req[r].sent \in (SUBSET Labels) \cup {None}
         /\ req[r].status \in {0, 200, 401, 403, 409, 502}
         /\ Len(audits[r]) <= 2
    /\ RS!TypeOK

Forwarded(r) == req[r].sent # None
Approved(r)  == req[r].policy.source = "review_override_approved"

\* The log's record of the creation of ticket id (at most one).
Filed(id) ==
    {log[i] : i \in {j \in 1..Len(log) : log[j].type = "created" /\ log[j].id = id}}

\* An administrator asked to approve a ticket filed for this path and body,
\* by this principal or another of its tenant.
ApprovalAsked(q) ==
    \E e \in asked :
        /\ e.status = "approved"
        /\ \E c \in Filed(e.id) :
             /\ c.fp[2] = q.content
             /\ c.fp[1] = q.principal.tenant \/ c.principal = q.principal.name

\* Nothing the built-in policy does not allow in clear leaves the perimeter
\* unless an administrator approved that very request: whatever the order of
\* concurrent requests, verdicts, expiries and reloads (handle_proxy).
NoUnapprovedExposure ==
    \A r \in Requests : Forwarded(r) =>
        \/ ApprovalAsked(req[r])
        \/ \A l \in req[r].sent :
             action_for(req[r].rt.rules, req[r].principal, l) = "allow"

\* What the built-in policy, an escalated session or OPA wants reviewed or
\* blocked is never forwarded without an approval, whichever of the three
\* says so (combine, merge).
StrictestHolds ==
    \A r \in Requests : (Forwarded(r) /\ ~Approved(r)) =>
        /\ rank(req[r].base) <= rank("redact")
        /\ req[r].escalated =>
             rank(req[r].rt.session.trigger_action) <= rank("redact")
        /\ req[r].opa \in Actions => rank(req[r].opa) <= rank("redact")

\* The configurations keep a session for as long as the model runs.
SessionsKept ==
    IsFiniteSet(SessionIds) /\ \A c \in Configs : c.session.enabled =>
        /\ c.session.ttl >= MaxTime
        /\ c.session.max_entries >= Cardinality(SessionIds)

\* "aggregates labels across turns to defeat split-payload exfil": while
\* sessions are kept, the requests of one session that went out without being
\* escalated hold, together, fewer labels than some threshold in force; they
\* may overlap and straddle reloads.
SplitDefeated ==
    SessionsKept => \A id \in SessionIds :
        LET free == {r \in Requests :
                       req[r].session = id /\ Forwarded(r) /\ ~req[r].escalated}
        IN  free # {} => \E c \in Configs :
              Cardinality(UNION {Findings[req[r].content] : r \in free})
                  < c.session.threshold

\* The audit trail tells what happened: every answer is one of proxy_handler's
\* and has its records, at most one per direction (TypeOK), a body
\* never leaves before its record, and one that left under a "redact" record
\* shows nothing the policy masks.  A request that ended with a 502 before it
\* was forwarded never has a "review" record, as its client knows of no ticket;
\* it may say "allow" or "redact", if its path made no URL.
AuditTrail ==
    TypeOK /\ \A r \in Requests :
        LET said == [i \in DOMAIN audits[r] |-> audits[r][i].decision]
            by(status) == req[r].status = status
        IN  /\ by(401) => said = <<>>
            /\ by(403) => said = <<"block">>
            /\ by(409) => said = <<"review">>
            /\ by(200) => Len(said) = 2 /\ said[2] \in {"allow", "redact"}
            /\ by(502) /\ ~Forwarded(r) => said \in {<<>>, <<"block">>, <<"allow">>, <<"redact">>}
            /\ Forwarded(r) =>
                 /\ said # <<>>
                 /\ said[1] \in {"allow", "redact"}
                 /\ said[1] = "redact" =>
                      \A l \in req[r].sent :
                          action_for(req[r].rt.rules, req[r].principal, l) = "allow"

\* The ticket of a 409 is in the log, filed for the tenant, path and body of
\* the request, so that it survives a restart (upsert_pending); and it can be
\* decided and is listed as pending to whoever asks for as many tickets as the
\* queue may hold (list, resolve), except where a verdict on it was asked for
\* and its append failed (resolve keeps the verdict in memory then, and the
\* ticket in the pending index).
ToldTicketDecidable ==
    [][\A r \in Requests :
        (req[r].status = 0 /\ req'[r].status = 409) =>
            LET id == req'[r].ticket
            IN  /\ \E i \in 1..Len(log') :
                     /\ log'[i].type = "created" /\ log'[i].id = id
                     /\ log'[i].fp = fingerprint(req[r])
                /\ \/ id \in list("pending", inner.capacity)'
                   \/ \E e \in asked : e.id = id /\ \A i \in 1..Len(log) : log[i] # e]_vars

\* A filtered response shows only what the principal may see, an escalation
\* by OPA (or its failure) changes what the client really gets, and a changed
\* body is never recorded as "allow" (response_from_buffered_body).
ResponseContained ==
    \A r \in Requests : req[r].status = 200 =>
        LET a == req[r].reply
        IN  /\ req[r].rt.response_filtering =>
                 \A l \in a.clear :
                     action_for(req[r].rt.rules, req[r].principal, l) = "allow"
            /\ rank(a.final) > rank(a.base) => a.clear = {}
            /\ a.clear # a.body => audits[r][2].decision = "redact"

--------------------------------------------------------------------------------
(* What the documentation says of review, and the code does not do           *)

\* "review replay ... principal + path + raw request body hash": an approval
\* serves the principal whose request it was.
ReplayMatchesPrincipal ==
    \A r \in Requests : (Forwarded(r) /\ Approved(r)) =>
        \A c \in Filed(req[r].via) : c.principal = req[r].principal.name
================================================================================
