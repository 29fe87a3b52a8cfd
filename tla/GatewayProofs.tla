------------------------------ MODULE GatewayProofs ------------------------------
(***************************************************************************)
(* Proofs about the reverse proxy, for any number of requests, principals, *)
(* sessions, tickets and configurations, and whatever OPA and upstreams    *)
(* answer.                                                                 *)
(*                                                                         *)
(* What the gateway needs of its review store is taken from the proofs     *)
(* about that store: every step of the gateway is one of its steps.        *)
(***************************************************************************)
EXTENDS Gateway, FiniteSetTheorems, TLAPS

RSP == INSTANCE ReviewStoreProofs WITH
         Principals  <- Names,
         PostActions <- {"allow", "redact"},
         Capacities  <- {Capacity},
         Ttls        <- {c.approval_ttl : c \in Configs}

--------------------------------------------------------------------------------
(* The review store of the gateway is the one of module ReviewStore         *)

LEMMA StoreAssumption == RSP!ReviewStoreAssumption
<1>1. \A c \in Configs : c.approval_ttl \in Nat
  BY GatewayAssumption DEF AppConfig
<1>2. None \notin TicketIds \cup RSP!ReviewTicket \cup RSP!StoredOverride
  BY GatewayAssumption DEF RS!ReviewTicket, RS!StoredOverride, RSP!ReviewTicket,
       RSP!StoredOverride, RS!Verdicts, RSP!Verdicts, RS!ReviewStatus, RSP!ReviewStatus
<1> QED BY <1>1, <1>2, GatewayAssumption DEF RSP!ReviewStoreAssumption, RSP!Outcomes

LEMMA SameTypes == RSP!TypeOK => RS!TypeOK
BY DEF RS!TypeOK, RSP!TypeOK, RS!ReviewStoreInner, RSP!ReviewStoreInner, RS!ReviewTicket,
       RSP!ReviewTicket, RS!StoredOverride, RSP!StoredOverride, RS!Lines, RSP!Lines,
       RS!CreatedEvents, RSP!CreatedEvents, RS!ResolvedEvents, RSP!ResolvedEvents,
       RS!Garbage, RSP!Garbage, RS!BadUtf8, RSP!BadUtf8, RS!Verdicts, RSP!Verdicts,
       RS!ReviewStatus, RSP!ReviewStatus

LEMMA SameQuery == RS!query => RSP!query
BY DEF RS!query, RSP!query, RS!prune_expired_overrides, RSP!prune_expired_overrides

LEMMA SameTick == RS!tick => RSP!tick
BY DEF RS!tick, RSP!tick

LEMMA SameExisting ==
    ASSUME NEW fp, RS!upsert_pending_existing(fp)
    PROVE  RSP!upsert_pending_existing(fp)
BY DEF RS!upsert_pending_existing, RSP!upsert_pending_existing, RS!prune_expired_overrides,
       RSP!prune_expired_overrides, RS!HasPending, RSP!HasPending

LEMMA SameUpsert ==
    ASSUME NEW id, NEW fp, NEW p, NEW post, NEW out, RS!upsert_pending_new(id, fp, p, post, out)
    PROVE  RSP!upsert_pending_new(id, fp, p, post, out)
BY DEF RS!upsert_pending_new, RSP!upsert_pending_new, RS!prune_expired_overrides,
       RSP!prune_expired_overrides, RS!HasPending, RSP!HasPending,
       RS!append_review_event, RSP!append_review_event, RS!WriteLine, RSP!WriteLine,
       RS!AfterAppend, RSP!AfterAppend, RS!WithTicket, RSP!WithTicket,
       RS!trim_to_capacity, RSP!trim_to_capacity, RS!EmptyInner, RSP!EmptyInner,
       RS!Garbage, RSP!Garbage, RS!BadUtf8, RSP!BadUtf8

LEMMA SameResolve ==
    ASSUME NEW id, NEW v, NEW ttl, NEW out, RS!resolve(id, v, ttl, out)
    PROVE  RSP!resolve(id, v, ttl, out)
BY DEF RS!resolve, RSP!resolve, RS!prune_expired_overrides, RSP!prune_expired_overrides,
       RS!append_review_event, RSP!append_review_event, RS!WriteLine, RSP!WriteLine,
       RS!AfterAppend, RSP!AfterAppend, RS!WithStatus, RSP!WithStatus,
       RS!WithOverride, RSP!WithOverride, RS!EmptyInner, RSP!EmptyInner,
       RS!Garbage, RSP!Garbage, RS!BadUtf8, RSP!BadUtf8

--------------------------------------------------------------------------------
(* The review store while the gateway runs                                  *)

\* The log records the filing of ticket t as memory has it.
OnFile(t) ==
    \E i \in 1..Len(log) :
        /\ log[i].type = "created" /\ log[i].id = t
        /\ log[i].fp = inner.tickets[t].fp /\ log[i].principal = inner.tickets[t].principal

\* A decided ticket was decided by an administrator.
DecidedByAdmin(t) ==
    inner.tickets[t].status # "pending" =>
        \E e \in asked : e.id = t /\ e.status = inner.tickets[t].status

StoreOK ==
    /\ RSP!IInv
    /\ mode = "up"
    /\ openLine = FALSE
    /\ now <= MaxTime
    /\ \A t \in TicketIds : inner.tickets[t] # None => OnFile(t) /\ DecidedByAdmin(t)

\* What the log and the administrators have said stays said.
Grows ==
    /\ asked \subseteq asked'
    /\ Len(log) <= Len(log')
    /\ \A i \in 1..Len(log) : log'[i] = log[i]

\* Tickets that were there before, as they were.
LEMMA TicketsKept ==
    ASSUME StoreOK, Grows, RSP!IInv', mode' = "up", openLine' = FALSE, now' <= MaxTime,
           \A t \in TicketIds : inner'.tickets[t] # None =>
               \/ inner'.tickets[t] = inner.tickets[t]
               \/ (OnFile(t) /\ DecidedByAdmin(t))'
    PROVE  StoreOK'
<1>1. Len(log) \in Nat /\ Len(log') \in Nat
  BY DEF StoreOK, RSP!IInv, RSP!TypeOK
<1>2. ASSUME NEW t \in TicketIds, inner'.tickets[t] # None, inner'.tickets[t] = inner.tickets[t]
      PROVE  (OnFile(t) /\ DecidedByAdmin(t))'
  <2>1. OnFile(t) /\ DecidedByAdmin(t)
    BY <1>2 DEF StoreOK
  <2>2. PICK i \in 1..Len(log) :
           /\ log[i].type = "created" /\ log[i].id = t
           /\ log[i].fp = inner.tickets[t].fp /\ log[i].principal = inner.tickets[t].principal
    BY <2>1 DEF OnFile
  <2>3. i \in 1..Len(log') /\ log'[i] = log[i]
    BY <1>1 DEF Grows
  <2>4. OnFile(t)'
    BY <1>2, <2>2, <2>3 DEF OnFile
  <2>5. DecidedByAdmin(t)'
    BY <1>2, <2>1 DEF DecidedByAdmin, Grows
  <2> QED BY <2>4, <2>5
<1> QED BY <1>2 DEF StoreOK

\* A method that only drops expired overrides.
LEMMA StoreQuery ==
    ASSUME StoreOK, RS!query \/ \E fp \in Fingerprints : RS!upsert_pending_existing(fp)
    PROVE  StoreOK' /\ Grows
<1>1. RSP!query \/ \E fp \in Fingerprints : RSP!upsert_pending_existing(fp)
  BY SameQuery, SameExisting
<1>2. RSP!IInv'
  BY <1>1, RSP!StepQuery, StoreAssumption DEF StoreOK
<1>3. /\ inner' = RSP!prune_expired_overrides(inner)
      /\ UNCHANGED <<mode, cursor, log, openLine, now, issued, acked, asked>>
  BY <1>1 DEF RSP!query, RSP!upsert_pending_existing
<1>4. inner'.tickets = inner.tickets
  BY <1>3, RSP!PruneFields, StoreAssumption DEF StoreOK, RSP!IInv, RSP!TypeOK
<1>5. Grows /\ Len(log) \in Nat
  BY <1>3 DEF Grows, StoreOK, RSP!IInv, RSP!TypeOK
<1> QED BY <1>2, <1>3, <1>4, <1>5, TicketsKept DEF StoreOK

LEMMA StoreTick ==
    ASSUME StoreOK, RS!tick
    PROVE  StoreOK' /\ Grows
<1>1. RSP!tick
  BY SameTick
<1>2. RSP!IInv'
  BY <1>1, RSP!StepTick, StoreAssumption DEF StoreOK
<1>3. Grows /\ now' <= MaxTime
  BY <1>1, GatewayAssumption DEF RSP!tick, Grows, StoreOK, RSP!IInv, RSP!TypeOK
<1> QED BY <1>1, <1>2, <1>3, TicketsKept DEF RSP!tick, StoreOK

\* What an append leaves in the log.
LEMMA Appending ==
    ASSUME StoreOK, NEW e, NEW out \in WriteOutcomes, e \in RSP!Lines,
           RSP!append_review_event(e, out)
    PROVE  /\ out \in {"ok", "refused"}
           /\ mode' = mode /\ openLine' = FALSE
           /\ log' = IF out = "ok" THEN Append(log, e) ELSE log
           /\ asked \subseteq asked' => Grows
           /\ out = "ok" => Len(log) + 1 \in 1..Len(log') /\ log'[Len(log) + 1] = e
<1>1. out \in {"ok", "refused"} /\ openLine = FALSE /\ log \in Seq(RSP!Lines)
  BY GatewayAssumption DEF StoreOK, RSP!IInv, RSP!TypeOK
<1>2. /\ mode' = mode /\ openLine' = FALSE
      /\ log' = IF out = "ok" THEN Append(log, e) ELSE log
  BY <1>1 DEF RSP!append_review_event, RSP!WriteLine
<1>3. asked \subseteq asked' => Grows
  BY <1>1, <1>2 DEF Grows
<1>4. out = "ok" => Len(log) + 1 \in 1..Len(log') /\ log'[Len(log) + 1] = e
  BY <1>1, <1>2
<1> QED BY <1>1, <1>2, <1>3, <1>4

\* A new ticket is filed.
LEMMA StoreUpsert ==
    ASSUME StoreOK, NEW id \in TicketIds, NEW fp \in Fingerprints, NEW p \in Names,
           NEW post \in {"allow", "redact"}, NEW out \in WriteOutcomes,
           RS!upsert_pending_new(id, fp, p, post, out)
    PROVE  StoreOK' /\ Grows
<1> DEFINE e == [type |-> "created", id |-> id, fp |-> fp, principal |-> p, post |-> post]
           s == RSP!prune_expired_overrides(inner)
           w == RSP!WithTicket(s, e)
<1>1. RSP!upsert_pending_new(id, fp, p, post, out)
  BY SameUpsert
<1>2. RSP!IInv'
  BY <1>1, RSP!StepUpsertNew, StoreAssumption DEF StoreOK
<1>3. /\ RSP!append_review_event(e, out)
      /\ inner' = RSP!AfterAppend(out, RSP!trim_to_capacity(w), s)
      /\ UNCHANGED <<cursor, now, asked>>
  BY <1>1 DEF RSP!upsert_pending_new
<1>4. e \in RSP!CreatedEvents /\ e \in RSP!Lines
  BY DEF RSP!CreatedEvents, RSP!Lines
<1>5. s \in RSP!ReviewStoreInner /\ s.tickets = inner.tickets
  BY RSP!PruneFields, StoreAssumption DEF StoreOK, RSP!IInv, RSP!TypeOK
<1>e. e.id = id /\ e.fp = fp /\ e.principal = p /\ e.type = "created"
  OBVIOUS
<1> HIDE DEF e, s
<1>6. /\ w \in RSP!ReviewStoreInner
      /\ \A t \in TicketIds \ {id} : w.tickets[t] = inner.tickets[t]
      /\ w.tickets[id].fp = fp /\ w.tickets[id].principal = p
      /\ w.tickets[id].status = "pending"
  BY <1>4, <1>5, <1>e, RSP!WithTicketFields, StoreAssumption
<1> HIDE DEF w
<1>7. \A t \in TicketIds : RSP!trim_to_capacity(w).tickets[t] \in {w.tickets[t], None}
  BY <1>6, RSP!TrimFields, StoreAssumption
<1>8. /\ out \in {"ok", "refused"} /\ mode' = mode /\ openLine' = FALSE /\ Grows
      /\ out = "ok" => Len(log) + 1 \in 1..Len(log') /\ log'[Len(log) + 1] = e
  BY <1>3, <1>4, Appending
<1>9. CASE out = "refused"
  <2>1. inner' = s
    BY <1>3, <1>9 DEF RSP!AfterAppend
  <2> QED BY <1>2, <1>3, <1>5, <1>8, <2>1, TicketsKept DEF StoreOK
<1>10. CASE out = "ok"
  <2>1. inner' = RSP!trim_to_capacity(w)
    BY <1>3, <1>10 DEF RSP!AfterAppend
  <2>2. ASSUME inner'.tickets[id] # None
        PROVE  (OnFile(id) /\ DecidedByAdmin(id))'
    <3>1. inner'.tickets[id] = w.tickets[id]
      BY <1>7, <2>1, <2>2
    <3>2. OnFile(id)'
      BY <1>6, <1>8, <1>10, <1>e, <3>1 DEF OnFile
    <3>3. DecidedByAdmin(id)'
      BY <1>6, <3>1 DEF DecidedByAdmin
    <3> QED BY <3>2, <3>3
  <2>3. \A t \in TicketIds : inner'.tickets[t] # None =>
          \/ inner'.tickets[t] = inner.tickets[t]
          \/ (OnFile(t) /\ DecidedByAdmin(t))'
    BY <1>6, <1>7, <2>1, <2>2
  <2> QED BY <1>2, <1>3, <1>8, <2>3, TicketsKept DEF StoreOK
<1> QED BY <1>8, <1>9, <1>10

\* An administrator decides a ticket.
LEMMA StoreResolve ==
    ASSUME StoreOK, NEW id \in TicketIds, NEW v \in RS!Verdicts, NEW out \in WriteOutcomes,
           NEW ttl \in {c.approval_ttl : c \in Configs}, RS!resolve(id, v, ttl, out)
    PROVE  StoreOK' /\ Grows
<1> DEFINE e == [type |-> "resolved", id |-> id, status |-> v, expires |-> now + ttl]
           s == RSP!prune_expired_overrides(inner)
           w == RSP!WithStatus(s, e)
<1>1. RSP!resolve(id, v, ttl, out) /\ v \in RSP!Verdicts
  BY SameResolve DEF RS!Verdicts, RSP!Verdicts
<1>2. RSP!IInv'
  BY <1>1, RSP!StepResolve, StoreAssumption DEF StoreOK
<1>3. /\ RSP!append_review_event(e, out)
      /\ inner' = RSP!AfterAppend(out, RSP!WithOverride(w, e), w)
      /\ asked' = asked \cup {e} /\ inner.tickets[id] # None
      /\ UNCHANGED <<cursor, now>>
  BY <1>1 DEF RSP!resolve
<1>4. e \in RSP!ResolvedEvents /\ e \in RSP!Lines
  <2>1. now \in Nat /\ ttl \in Nat
    BY GatewayAssumption DEF StoreOK, RSP!IInv, RSP!TypeOK, AppConfig
  <2> QED BY <1>1, <2>1 DEF RSP!ResolvedEvents, RSP!Lines
<1>5. s \in RSP!ReviewStoreInner /\ s.tickets = inner.tickets
  BY RSP!PruneFields, StoreAssumption DEF StoreOK, RSP!IInv, RSP!TypeOK
<1>e. e.id = id /\ e.status = v
  OBVIOUS
<1> HIDE DEF e, s
<1>6. /\ w \in RSP!ReviewStoreInner /\ w.tickets[id] \in RSP!ReviewTicket
      /\ \A t \in TicketIds \ {id} : w.tickets[t] = inner.tickets[t]
      /\ w.tickets[id].fp = inner.tickets[id].fp
      /\ w.tickets[id].principal = inner.tickets[id].principal
      /\ w.tickets[id].status = v
  BY <1>3, <1>4, <1>5, <1>e, RSP!WithStatusFields, StoreAssumption
<1> HIDE DEF w
<1>7. RSP!WithOverride(w, e).tickets = w.tickets
  BY <1>4, <1>6, <1>e, RSP!WithOverrideFields, StoreAssumption
<1>8. out \in {"ok", "refused"} /\ mode' = mode /\ openLine' = FALSE /\ Grows
  BY <1>3, <1>4, Appending
<1>9. inner'.tickets = w.tickets
  BY <1>3, <1>7, <1>8 DEF RSP!AfterAppend
<1>10. (OnFile(id) /\ DecidedByAdmin(id))'
  <2>1. PICK i \in 1..Len(log) :
           /\ log[i].type = "created" /\ log[i].id = id
           /\ log[i].fp = inner.tickets[id].fp /\ log[i].principal = inner.tickets[id].principal
    BY <1>3 DEF StoreOK, OnFile
  <2>2. i \in 1..Len(log') /\ log'[i] = log[i]
    <3>1. Len(log) \in Nat /\ Len(log') \in Nat
      BY <1>2 DEF StoreOK, RSP!IInv, RSP!TypeOK
    <3> QED BY <1>8, <3>1 DEF Grows
  <2>3. OnFile(id)'
    BY <1>6, <1>9, <2>1, <2>2 DEF OnFile
  <2>4. DecidedByAdmin(id)'
    BY <1>3, <1>6, <1>9, <1>e DEF DecidedByAdmin
  <2> QED BY <2>3, <2>4
<1>11. \A t \in TicketIds : inner'.tickets[t] # None =>
         \/ inner'.tickets[t] = inner.tickets[t]
         \/ (OnFile(t) /\ DecidedByAdmin(t))'
  BY <1>6, <1>9, <1>10
<1> QED BY <1>2, <1>3, <1>8, <1>11, TicketsKept DEF StoreOK

--------------------------------------------------------------------------------
(* The policy                                                               *)

Sources ==
    {"builtin", "opa", "builtin_fail_open", "opa_error_fallback", "processing_error_fallback",
     "request_pre_upstream_error", "review_override_approved", "review_override_rejected"}

Outcome == [decision : Actions, source : Sources]

\* The four actions are ordered, and combine takes the stricter.
LEMMA Ranks ==
    /\ rank("allow") = 0 /\ rank("redact") = 1 /\ rank("review") = 2 /\ rank("block") = 3
    /\ \A a \in Actions : rank(a) \in 0..3
    /\ \A a \in Actions : (rank(a) <= 1 => a \in {"allow", "redact"}) /\ (rank(a) <= 0 => a = "allow")
BY DEF rank, Actions

LEMMA Combined ==
    ASSUME NEW a \in Actions, NEW b \in Actions
    PROVE  combine(a, b) \in Actions /\ rank(a) <= rank(combine(a, b)) /\ rank(b) <= rank(combine(a, b))
BY Ranks DEF combine

\* The strictest of a set of actions is an action, and none is stricter.
LEMMA StrictestIs ==
    ASSUME NEW S \in SUBSET Actions
    PROVE  /\ strictest(S) \in Actions
           /\ \A b \in S : rank(b) <= rank(strictest(S))
<1> DEFINE Top(a) == a \in S \cup {"allow"} /\ \A b \in S : rank(b) <= rank(a)
<1>1. \E a : Top(a)
  <2>1. CASE "block" \in S
    <3>1. Top("block")
      BY <2>1 DEF Actions, rank
    <3> QED BY <3>1
  <2>2. CASE "block" \notin S /\ "review" \in S
    <3>1. Top("review")
      BY <2>2 DEF Actions, rank
    <3> QED BY <3>1
  <2>3. CASE S \cap {"block", "review"} = {} /\ "redact" \in S
    <3>1. Top("redact")
      BY <2>3 DEF Actions, rank
    <3> QED BY <3>1
  <2>4. CASE S \subseteq {"allow"}
    <3>1. Top("allow")
      BY <2>4 DEF Actions, rank
    <3> QED BY <3>1
  <2> QED BY <2>1, <2>2, <2>3, <2>4 DEF Actions
<1>2. strictest(S) \in S \cup {"allow"} /\ \A b \in S : rank(b) <= rank(strictest(S))
  BY <1>1 DEF strictest
<1> QED BY <1>2 DEF Actions

\* What a configuration says of a principal, and what it decides: if all is
\* allowed, each label is.
LEMMA Resolved ==
    ASSUME NEW c \in Configs, NEW p \in Principal, NEW labels \in SUBSET Labels
    PROVE  /\ \A l \in labels : action_for(c.rules, p, l) \in Actions
           /\ resolve(c.rules, p, labels) \in Outcome
           /\ resolve(c.rules, p, labels).decision = "allow" =>
                \A l \in labels : action_for(c.rules, p, l) = "allow"
<1>1. \A l \in labels : action_for(c.rules, p, l) \in Actions
  BY GatewayAssumption DEF AppConfig, Rule, action_for
<1> DEFINE S == {action_for(c.rules, p, l) : l \in labels}
<1>2. S \in SUBSET Actions
  BY <1>1
<1>3. strictest(S) \in Actions /\ \A b \in S : rank(b) <= rank(strictest(S))
  BY <1>2, StrictestIs
<1>4. resolve(c.rules, p, labels) \in Outcome
  BY <1>3 DEF resolve, Outcome, Sources
<1>5. ASSUME strictest(S) = "allow", NEW l \in labels
      PROVE  action_for(c.rules, p, l) = "allow"
  <2>1. action_for(c.rules, p, l) \in S
    OBVIOUS
  <2> QED BY <1>2, <1>3, <1>5, <2>1, Ranks
<1> QED BY <1>1, <1>4, <1>5 DEF resolve

\* apply_opa_policy never relaxes what it is given, and takes OPA's action in.
LEMMA OpaApplied ==
    ASSUME NEW opa \in OpaModes, NEW reply \in OpaAnswers, NEW base \in Outcome,
           opa = "off" => reply = "no_result", ~opa_fails(opa, reply)
    PROVE  LET out == apply_opa_policy(opa, reply, base)
           IN  /\ out \in Outcome
               /\ rank(base.decision) <= rank(out.decision)
               /\ reply \in Actions => rank(reply) <= rank(out.decision)
<1> DEFINE out == apply_opa_policy(opa, reply, base)
<1>0. reply \in OpaReplies /\ base.decision \in Actions /\ base.source \in Sources
  BY GatewayAssumption DEF Outcome
<1>1. CASE opa = "off" \/ reply = "no_result"
  <2>1. out = base /\ reply \notin Actions
    BY <1>1 DEF apply_opa_policy, Actions
  <2> QED BY <1>0, <2>1, Ranks
<1>2. CASE opa # "off" /\ reply \in Actions
  <2>1. out = merge(reply, base)
    BY <1>2 DEF apply_opa_policy, Actions
  <2>2. out.decision = combine(base.decision, reply) /\ out \in Outcome
    BY <1>0, <1>2, <2>1, Combined DEF merge, Outcome, Sources
  <2> QED BY <1>0, <1>2, <2>2, Combined
<1>3. CASE opa # "off" /\ reply = "error"
  <2>1. out = [base EXCEPT !.source = "builtin_fail_open"] /\ reply \notin Actions
    BY <1>3 DEF apply_opa_policy, Actions
  <2>2. out.decision = base.decision /\ out \in Outcome
    BY <2>1 DEF Outcome, Sources
  <2> QED BY <1>0, <2>1, <2>2, Ranks
<1> QED BY <1>0, <1>1, <1>2, <1>3 DEF OpaReplies

--------------------------------------------------------------------------------
(* The inductive invariant                                                  *)

Record == [direction : {"request", "response"}, decision : Actions, source : Sources]

Identified(q) == q.rt \in Configs /\ q.content \in Contents /\ q.principal \in Principal

\* The decision is as strict as the built-in policy and the session ask for.
Weighed(q) ==
    /\ q.policy \in Outcome
    /\ q.base = resolve(q.rt.rules, q.principal, Findings[q.content]).decision
    /\ rank(q.base) <= rank(q.policy.decision)
    /\ q.escalated => rank(q.rt.session.trigger_action) <= rank(q.policy.decision)

\* And as OPA asks for.
Judged(q) ==
    Weighed(q) /\ (q.opa \in Actions => rank(q.opa) <= rank(q.policy.decision))

\* ApprovalAsked of a log L and the verdicts A asked for.
ApprovedIn(q, A, L) ==
    \E e \in A : e.status = "approved" /\ \E i \in 1..Len(L) :
        /\ L[i].type = "created" /\ L[i].id = e.id
        /\ L[i].fp[2] = q.content
        /\ L[i].fp[1] = q.principal.tenant \/ L[i].principal = q.principal.name

\* Or an administrator has decided.
Overridden(q, A, L) ==
    /\ q.policy \in Outcome
    /\ \/ q.policy.decision = "block"
       \/ /\ q.policy.source = "review_override_approved"
          /\ q.policy.decision \in {"allow", "redact"}
          /\ ApprovedIn(q, A, L)

\* All that was sent may be shown.
Cleared(q) == \A l \in q.sent : action_for(q.rt.rules, q.principal, l) = "allow"

\* What each stage knows of its request.
Staged(q, a) ==
    /\ DOMAIN q = DOMAIN Idle
    /\ q.stage \in Stages /\ q.rt \in Configs \cup {None}
    /\ q.header \in TicketIds \cup {None} /\ q.session \in SessionIds \cup {None}
    /\ a \in Seq(Record)
    /\ q.stage # "idle" => q.rt \in Configs /\ q.content \in Contents
    /\ q.stage # "idle" /\ q.session # None => q.rt.session.enabled
    /\ q.stage \notin {"idle", "authenticate", "done"} => Identified(q)
    /\ q.stage \notin {"awaiting", "done"} => q.sent = None /\ a = <<>>
    /\ q.stage # "done" => q.status = 0

Verdicts(q, A, L) ==
    /\ q.stage = "opa" => Weighed(q)
    /\ q.stage \in {"ticket", "override"} => Judged(q)
    /\ q.stage = "verdict" => Judged(q) \/ Overridden(q, A, L)

\* What was sent, and its record.
Sent(q, a, A, L) ==
    q.sent # None =>
        /\ Identified(q)
        /\ q.sent \in SUBSET Labels
        /\ ApprovedIn(q, A, L) \/ Cleared(q)
        /\ q.policy.source # "review_override_approved" =>
             /\ rank(q.base) <= 1
             /\ q.escalated => rank(q.rt.session.trigger_action) <= 1
             /\ q.opa \in Actions => rank(q.opa) <= 1
        /\ Len(a) >= 1
        /\ a[1].decision \in {"allow", "redact"}
        /\ a[1].decision = "redact" => Cleared(q)

\* What the client was shown of the response.
Contained(q, a) ==
    /\ q.rt.response_filtering =>
         \A l \in q.reply.clear : action_for(q.rt.rules, q.principal, l) = "allow"
    /\ rank(q.reply.final) > rank(q.reply.base) => q.reply.clear = {}
    /\ q.reply.clear # q.reply.body => a[2].decision = "redact"

\* The answers, with their records.
Answered(q, a) ==
    /\ q.stage = "awaiting" => q.sent # None /\ Len(a) = 1
    /\ q.status \in {0, 200, 401, 403, 409, 502}
    /\ q.stage = "done" => q.status # 0
    /\ q.status = 401 => a = <<>> /\ q.sent = None
    /\ q.status = 403 => Len(a) = 1 /\ a[1].decision = "block" /\ q.sent = None
    /\ q.status = 409 => Len(a) = 1 /\ a[1].decision = "review" /\ q.sent = None
    /\ q.status = 502 => IF q.sent = None
                         THEN a = <<>> \/ (Len(a) = 1 /\ a[1].decision \in {"block", "allow", "redact"})
                         ELSE Len(a) = 1
    /\ q.status = 200 => Len(a) = 2 /\ a[2].decision \in {"allow", "redact"} /\ Contained(q, a)

RequestOK(q, a, A, L) ==
    Staged(q, a) /\ Verdicts(q, A, L) /\ Sent(q, a, A, L) /\ Answered(q, a)

\* The labels of the request are in its session.
Scanned(q) == q.stage \in {"opa", "ticket", "override", "verdict", "awaiting"} \/ q.sent # None

Free(q, id) == Scanned(q) /\ q.session = id /\ ~q.escalated

\* Where sessions are kept, all labels of a session are in the table, and the
\* requests that did not escalate found fewer there than their threshold.
SplitOK ==
    SessionsKept => \A id \in SessionIds :
        /\ \A r \in Requests : Scanned(req[r]) /\ req[r].session = id =>
             sessions[id] # None /\ Findings[req[r].content] \subseteq sessions[id].labels
        /\ (\E r \in Requests : Free(req[r], id)) =>
             \E c \in Configs, U \in SUBSET Labels :
                 /\ Cardinality(U) < c.session.threshold
                 /\ \A r \in Requests : Free(req[r], id) => Findings[req[r].content] \subseteq U

IInv ==
    /\ runtime \in Configs
    /\ sessions \in [SessionIds -> SessionEntry(0..MaxTime) \cup {None}]
    /\ StoreOK
    /\ DOMAIN req = Requests /\ DOMAIN audits = Requests
    /\ \A r \in Requests : RequestOK(req[r], audits[r], asked, log)
    /\ SplitOK

--------------------------------------------------------------------------------
(* What a step leaves alone                                                 *)

LEMMA SameApproval ==
    ASSUME NEW q
    PROVE  ApprovalAsked(q) <=> ApprovedIn(q, asked, log)
BY DEF ApprovalAsked, ApprovedIn, Filed

\* An approval stays one, so a request that was in order stays in order.
LEMMA StillOK ==
    ASSUME NEW q, NEW a, NEW A, NEW L, NEW A2, NEW L2, RequestOK(q, a, A, L),
           A \subseteq A2, Len(L) \in Nat, Len(L2) \in Nat, Len(L) <= Len(L2),
           \A i \in 1..Len(L) : L2[i] = L[i]
    PROVE  RequestOK(q, a, A2, L2)
<1>1. ApprovedIn(q, A, L) => ApprovedIn(q, A2, L2)
  <2> SUFFICES ASSUME ApprovedIn(q, A, L) PROVE ApprovedIn(q, A2, L2)
    OBVIOUS
  <2>1. PICK e \in A, i \in 1..Len(L) :
          /\ e.status = "approved"
          /\ L[i].type = "created" /\ L[i].id = e.id
          /\ L[i].fp[2] = q.content
          /\ L[i].fp[1] = q.principal.tenant \/ L[i].principal = q.principal.name
    BY DEF ApprovedIn
  <2>2. i \in 1..Len(L2) /\ L2[i] = L[i] /\ e \in A2
    OBVIOUS
  <2> QED BY <2>1, <2>2 DEF ApprovedIn
<1>2. Verdicts(q, A, L) => Verdicts(q, A2, L2)
  BY <1>1 DEF Verdicts, Overridden
<1>3. Sent(q, a, A, L) => Sent(q, a, A2, L2)
  BY <1>1 DEF Sent
<1> QED BY <1>2, <1>3 DEF RequestOK

\* A step of one request, on the stores as they grow.
LEMMA OneRequest ==
    ASSUME IInv, StoreOK', Grows, runtime' \in Configs,
           sessions' \in [SessionIds -> SessionEntry(0..MaxTime) \cup {None}],
           NEW r \in Requests, DOMAIN req' = Requests, DOMAIN audits' = Requests,
           \A d \in Requests \ {r} : req'[d] = req[d] /\ audits'[d] = audits[d],
           RequestOK(req'[r], audits'[r], asked', log'), SplitOK'
    PROVE  IInv'
<1>1. Len(log) \in Nat /\ Len(log') \in Nat
  BY DEF IInv, StoreOK, RSP!IInv, RSP!TypeOK
<1>2. ASSUME NEW d \in Requests \ {r}
      PROVE  RequestOK(req'[d], audits'[d], asked', log')
  <2>1. RequestOK(req[d], audits[d], asked, log)
    BY DEF IInv
  <2>2. RequestOK(req[d], audits[d], asked', log')
    BY <1>1, <2>1, StillOK DEF Grows
  <2> QED BY <2>2
<1> QED BY <1>2 DEF IInv

\* What a step that scans nothing keeps of the sessions.
LEMMA SplitKept ==
    ASSUME IInv,
           \A d \in Requests : Scanned(req'[d]) =>
               /\ Scanned(req[d]) /\ req'[d].session = req[d].session
               /\ req'[d].content = req[d].content /\ req'[d].escalated = req[d].escalated,
           SessionsKept => \A id \in SessionIds : sessions[id] # None => sessions'[id] = sessions[id]
    PROVE  SplitOK'
<1> SUFFICES ASSUME SessionsKept, NEW id \in SessionIds
             PROVE  /\ \A r \in Requests : Scanned(req'[r]) /\ req'[r].session = id =>
                         /\ sessions'[id] # None
                         /\ Findings[req'[r].content] \subseteq sessions'[id].labels
                    /\ (\E r \in Requests : Free(req'[r], id)) =>
                         \E c \in Configs, U \in SUBSET Labels :
                           /\ Cardinality(U) < c.session.threshold
                           /\ \A r \in Requests : Free(req'[r], id) =>
                                Findings[req'[r].content] \subseteq U
  BY DEF SplitOK
<1>1. /\ \A r \in Requests : Scanned(req[r]) /\ req[r].session = id =>
           sessions[id] # None /\ Findings[req[r].content] \subseteq sessions[id].labels
      /\ (\E r \in Requests : Free(req[r], id)) =>
           \E c \in Configs, U \in SUBSET Labels :
               /\ Cardinality(U) < c.session.threshold
               /\ \A r \in Requests : Free(req[r], id) => Findings[req[r].content] \subseteq U
  BY DEF IInv, SplitOK
<1>2. \A r \in Requests : Free(req'[r], id) =>
         Free(req[r], id) /\ req'[r].content = req[r].content
  BY DEF Free
<1>3. \A r \in Requests : Scanned(req'[r]) /\ req'[r].session = id =>
         /\ sessions'[id] # None
         /\ Findings[req'[r].content] \subseteq sessions'[id].labels
  BY <1>1
<1>4. ASSUME NEW r \in Requests, Free(req'[r], id)
      PROVE  \E c \in Configs, U \in SUBSET Labels :
                 /\ Cardinality(U) < c.session.threshold
                 /\ \A d \in Requests : Free(req'[d], id) => Findings[req'[d].content] \subseteq U
  <2>1. PICK c \in Configs, U \in SUBSET Labels :
           /\ Cardinality(U) < c.session.threshold
           /\ \A d \in Requests : Free(req[d], id) => Findings[req[d].content] \subseteq U
    BY <1>1, <1>2, <1>4
  <2> QED BY <1>2, <2>1
<1> QED BY <1>3, <1>4

\* The fields a request changes, and those it keeps.
LEMMA Moved ==
    ASSUME IInv, NEW r \in Requests, NEW upd, Step(r, upd)
    PROVE  /\ DOMAIN req' = Requests
           /\ \A d \in Requests \ {r} : req'[d] = req[d]
           /\ DOMAIN req'[r] = DOMAIN Idle
           /\ \A f \in DOMAIN Idle :
                req'[r][f] = IF f \in DOMAIN upd THEN upd[f] ELSE req[r][f]
BY DEF IInv, Step

LEMMA Answers ==
    ASSUME IInv, NEW r \in Requests, NEW status, Answer(r, status)
    PROVE  /\ DOMAIN req' = Requests
           /\ \A d \in Requests \ {r} : req'[d] = req[d]
           /\ DOMAIN req'[r] = DOMAIN Idle
           /\ req'[r].stage = "done" /\ req'[r].status = status
           /\ req'[r].rt = req[r].rt /\ req'[r].content = req[r].content
           /\ req'[r].session = req[r].session /\ req'[r].header = req[r].header
           /\ req'[r].principal = req[r].principal /\ req'[r].base = req[r].base
           /\ req'[r].escalated = req[r].escalated /\ req'[r].policy = req[r].policy
           /\ req'[r].opa = req[r].opa /\ req'[r].sent = req[r].sent
<1> DEFINE upd == [stage |-> "done", status |-> status]
<1>1. Step(r, upd)
  BY DEF Answer
<1>2. DOMAIN upd = {"stage", "status"} /\ upd["stage"] = "done" /\ upd["status"] = status
  OBVIOUS
<1> HIDE DEF upd
<1>3. /\ DOMAIN req' = Requests
      /\ \A d \in Requests \ {r} : req'[d] = req[d]
      /\ DOMAIN req'[r] = DOMAIN Idle
      /\ \A f \in DOMAIN Idle :
           req'[r][f] = IF f \in {"stage", "status"} THEN upd[f] ELSE req[r][f]
  BY <1>1, <1>2, Moved
<1> QED BY <1>2, <1>3 DEF Idle

\* One record is added for this request.
LEMMA Emitted ==
    ASSUME IInv, NEW r \in Requests, NEW record \in Record, emit(r, record)
    PROVE  /\ DOMAIN audits' = Requests
           /\ \A d \in Requests \ {r} : audits'[d] = audits[d]
           /\ audits'[r] \in Seq(Record) /\ Len(audits'[r]) = Len(audits[r]) + 1
           /\ audits'[r][Len(audits[r]) + 1] = record
           /\ \A i \in 1..Len(audits[r]) : audits'[r][i] = audits[r][i]
<1>1. audits[r] \in Seq(Record)
  BY DEF IInv, RequestOK, Staged
<1>2. /\ DOMAIN audits' = Requests
      /\ \A d \in Requests \ {r} : audits'[d] = audits[d]
      /\ audits'[r] = Append(audits[r], record)
  BY DEF IInv, emit
<1> QED BY <1>1, <1>2

LEMMA StoreSame ==
    ASSUME StoreOK, UNCHANGED reviewVars
    PROVE  StoreOK' /\ Grows
<1>1. UNCHANGED <<mode, inner, cursor, log, openLine, now, issued, acked, asked>>
  BY DEF reviewVars
<1>2. RSP!IInv'
  BY <1>1 DEF StoreOK, RSP!IInv, RSP!TypeOK, RSP!LogSound, RSP!MemorySound, RSP!VerdictFinal,
              RSP!IndexSound, RSP!OverrideAsked, RSP!Seen, RSP!Readable, RSP!IsCreated, RSP!IsResolved
<1>3. Grows
  BY <1>1 DEF Grows, StoreOK, RSP!IInv, RSP!TypeOK
<1> QED BY <1>1, <1>2, <1>3 DEF StoreOK, OnFile, DecidedByAdmin

\* A step of a request that scans nothing and leaves runtime and sessions.
LEMMA QuietStep ==
    ASSUME IInv, NEW r \in Requests, StoreOK', Grows, UNCHANGED <<runtime, sessions>>,
           DOMAIN req' = Requests, DOMAIN audits' = Requests,
           \A d \in Requests \ {r} : req'[d] = req[d],
           \A d \in Requests \ {r} : audits'[d] = audits[d],
           RequestOK(req'[r], audits'[r], asked', log'),
           Scanned(req'[r]) =>
               /\ Scanned(req[r]) /\ req'[r].session = req[r].session
               /\ req'[r].content = req[r].content /\ req'[r].escalated = req[r].escalated
    PROVE  IInv'
<1>1. SplitOK'
  <2>1. \A d \in Requests : Scanned(req'[d]) =>
          /\ Scanned(req[d]) /\ req'[d].session = req[d].session
          /\ req'[d].content = req[d].content /\ req'[d].escalated = req[d].escalated
    OBVIOUS
  <2> QED BY <2>1, SplitKept
<1> QED BY <1>1, OneRequest DEF IInv

\* Nothing was sent, recorded or answered yet.
LEMMA Unsent ==
    ASSUME NEW p, NEW a, NEW A, NEW L, p.sent = None, a = <<>>, p.status = 0,
           p.stage \notin {"awaiting", "done"}
    PROVE  Sent(p, a, A, L) /\ Answered(p, a)
BY DEF Sent, Answered

--------------------------------------------------------------------------------
(* Each step of a request preserves it                                      *)

LEMMA StepAccept ==
    ASSUME IInv, NEW r \in Requests, NEW key, NEW content \in Contents,
           NEW session \in SessionIds \cup {None}, NEW header \in issued \cup {None},
           accept(r, key, content, session, header)
    PROVE  IInv'
<1> DEFINE q == req[r]
           p == req'[r]
           chosen == IF runtime.session.enabled THEN session ELSE None
           upd == [stage |-> "authenticate", rt |-> runtime, key |-> key, content |-> content,
                   header |-> header, session |-> chosen]
<1>1. Step(r, upd) /\ UNCHANGED <<runtime, sessions, audits, reviewVars>> /\ q.stage = "idle"
  BY DEF accept
<1>2. /\ DOMAIN upd = {"stage", "rt", "key", "content", "header", "session"}
      /\ upd["stage"] = "authenticate" /\ upd["rt"] = runtime /\ upd["content"] = content
      /\ upd["header"] = header /\ upd["session"] = chosen
  OBVIOUS
<1> HIDE DEF upd
<1>3. /\ DOMAIN req' = Requests
      /\ \A d \in Requests \ {r} : req'[d] = req[d]
      /\ DOMAIN p = DOMAIN Idle
      /\ \A f \in DOMAIN Idle :
           p[f] = IF f \in {"stage", "rt", "key", "content", "header", "session"}
                  THEN upd[f] ELSE q[f]
  BY <1>1, <1>2, Moved
<1>4. /\ p.stage = "authenticate" /\ p.rt = runtime /\ p.content = content
      /\ p.header = header /\ p.session = chosen
      /\ p.sent = q.sent /\ p.status = q.status
  BY <1>2, <1>3 DEF Idle
<1>5. /\ q.sent = None /\ audits[r] = <<>> /\ q.status = 0 /\ audits[r] \in Seq(Record)
  BY <1>1 DEF IInv, RequestOK, Staged
<1>6. runtime \in Configs /\ header \in TicketIds \cup {None}
  BY DEF IInv, StoreOK, RSP!IInv, RSP!TypeOK
<1>7. StoreOK' /\ Grows
  BY <1>1, StoreSame DEF IInv
<1> HIDE DEF q, p
<1>8. Staged(p, audits'[r])
  BY <1>1, <1>3, <1>4, <1>5, <1>6 DEF Staged, Stages
<1>9. RequestOK(p, audits'[r], asked', log')
  BY <1>1, <1>4, <1>5, <1>8, Unsent DEF RequestOK, Verdicts
<1>10. ~Scanned(p)
  BY <1>4, <1>5 DEF Scanned
<1> QED BY <1>1, <1>3, <1>7, <1>9, <1>10, QuietStep DEF p, q, IInv

\* Every set of numbers has a least.
LEMMA Least ==
    ASSUME NEW T \in SUBSET Nat, T # {}
    PROVE  \E x \in T : \A y \in T : x <= y
<1> DEFINE R == {ss \in Nat \X Nat : ss[1] < ss[2]}
<1>1. IsWellFoundedOn(R, Nat)
  BY NatLessThanWellFounded DEF OpToRel
<1>2. \A x, y \in Nat : x < y => <<x, y>> \in R
  OBVIOUS
<1> HIDE DEF R
<1>3. PICK x \in T : \A y \in T : <<y, x>> \notin R
  BY <1>1, WFMin
<1>4. \A y \in T : ~(y < x)
  BY <1>2, <1>3
<1> QED BY <1>3, <1>4

\* Of a set of numbers up to n one is the largest.
LEMMA Largest ==
    ASSUME NEW n \in Nat, NEW S \in SUBSET (1..n), S # {}
    PROVE  \E i \in S : \A j \in S : j <= i
<1> DEFINE T == {n - i : i \in S}
<1>1. \A i \in S : n - i \in Nat
  OBVIOUS
<1>2. T \in SUBSET Nat /\ T # {}
  BY <1>1
<1> HIDE DEF T
<1>3. PICK x \in T : \A y \in T : x <= y
  BY <1>2, Least
<1>4. PICK i \in S : x = n - i
  BY <1>3 DEF T
<1>5. \A j \in S : n - i <= n - j
  BY <1>3, <1>4 DEF T
<1> QED BY <1>1, <1>5

\* The authenticator of the moment knows the key, or the client gets a 401.
LEMMA Authenticated ==
    ASSUME NEW c \in Configs, NEW key, principal_by_hash(c.auth, key) # None
    PROVE  principal_by_hash(c.auth, key) \in Principal
<1> DEFINE auth == c.auth
           at == {i \in DOMAIN auth : auth[i].secret = key}
<1>1. auth \in Seq([secret: Keys, principal: Principal])
  BY GatewayAssumption DEF AppConfig
<1>2. at # {}
  BY DEF principal_by_hash
<1>3. \E i \in at : \A j \in at : j <= i
  <2>1. Len(auth) \in Nat /\ at \in SUBSET (1..Len(auth))
    BY <1>1
  <2> QED BY <1>2, <2>1, Largest
<1>4. PICK i \in at : principal_by_hash(c.auth, key) = auth[i].principal
  BY <1>2, <1>3 DEF principal_by_hash
<1>5. auth[i] \in [secret: Keys, principal: Principal]
  <2> DEFINE Entry == [secret: Keys, principal: Principal]
  <2>1. i \in 1..Len(auth) /\ auth \in Seq(Entry)
    BY <1>1
  <2> HIDE DEF auth, at, Entry
  <2>2. auth[i] \in Entry
    BY <2>1
  <2> QED BY <2>2 DEF Entry
<1> QED BY <1>4, <1>5

LEMMA StepAuthenticate ==
    ASSUME IInv, NEW r \in Requests, authenticate(r)
    PROVE  IInv'
<1> DEFINE q == req[r]
           p == req'[r]
           who == authenticate_request(q.key)
           upd == [stage |-> "scan", principal |-> who]
<1>1. UNCHANGED <<runtime, sessions, audits, reviewVars>> /\ q.stage = "authenticate"
  BY DEF authenticate
<1>2. /\ q.sent = None /\ audits[r] = <<>> /\ q.status = 0 /\ Staged(q, audits[r])
  BY <1>1 DEF IInv, RequestOK, Staged
<1>3. StoreOK' /\ Grows
  BY <1>1, StoreSame DEF IInv
<1>4. CASE who = None
  <2>1. Answer(r, 401)
    BY <1>4 DEF authenticate
  <2>2. /\ DOMAIN req' = Requests
        /\ \A d \in Requests \ {r} : req'[d] = req[d]
        /\ DOMAIN p = DOMAIN Idle /\ p.stage = "done" /\ p.status = 401
        /\ p.rt = q.rt /\ p.content = q.content /\ p.session = q.session /\ p.header = q.header
        /\ p.sent = q.sent
    BY <2>1, Answers
  <2> HIDE DEF q, p
  <2>3. Staged(p, audits'[r])
    BY <1>1, <1>2, <2>2 DEF Staged, Stages
  <2>4. Verdicts(p, asked', log') /\ Sent(p, audits'[r], asked', log') /\ Answered(p, audits'[r])
    BY <1>1, <1>2, <2>2 DEF Verdicts, Sent, Answered
  <2>5. ~Scanned(p)
    BY <1>2, <2>2 DEF Scanned
  <2> QED BY <1>1, <1>3, <2>2, <2>3, <2>4, <2>5, QuietStep DEF RequestOK, p, q, IInv
<1>5. CASE who # None
  <2>1. Step(r, upd)
    BY <1>5 DEF authenticate
  <2>2. /\ DOMAIN upd = {"stage", "principal"}
        /\ upd["stage"] = "scan" /\ upd["principal"] = who
    OBVIOUS
  <2>3. who \in Principal
    BY <1>5, Authenticated DEF authenticate_request, IInv
  <2> HIDE DEF upd, who
  <2>4. /\ DOMAIN req' = Requests
        /\ \A d \in Requests \ {r} : req'[d] = req[d]
        /\ DOMAIN p = DOMAIN Idle
        /\ \A f \in DOMAIN Idle : p[f] = IF f \in {"stage", "principal"} THEN upd[f] ELSE q[f]
    BY <2>1, <2>2, Moved
  <2>5. /\ p.stage = "scan" /\ p.principal = who /\ p.rt = q.rt /\ p.content = q.content
        /\ p.header = q.header /\ p.session = q.session /\ p.sent = q.sent /\ p.status = q.status
    BY <2>2, <2>4 DEF Idle
  <2> HIDE DEF q, p
  <2>6. Staged(p, audits'[r])
    BY <1>1, <1>2, <2>3, <2>4, <2>5 DEF Staged, Stages, Identified
  <2>7. RequestOK(p, audits'[r], asked', log')
    BY <1>1, <1>2, <2>5, <2>6, Unsent DEF RequestOK, Verdicts
  <2>8. ~Scanned(p)
    BY <1>2, <2>5 DEF Scanned
  <2> QED BY <1>1, <1>3, <2>4, <2>7, <2>8, QuietStep DEF p, q, IInv
<1> QED BY <1>4, <1>5

\* The skeleton record says block.
LEMMA Skeleton == SkeletonRecord \in Record /\ SkeletonRecord.decision = "block"
BY DEF SkeletonRecord, AuditRecord, Record, Actions, Sources

\* A request that ends with a 502 before anything left, with or without a record.
LEMMA Fails ==
    ASSUME IInv, NEW r \in Requests, req[r].stage \in {"scan", "opa", "verdict"}, StoreOK', Grows,
           NEW e \in Record, e.decision \in {"block", "allow", "redact"},
           Answer(r, 502), emit(r, e) \/ UNCHANGED audits,
           UNCHANGED <<runtime, sessions>>
    PROVE  IInv'
<1> DEFINE q == req[r]
           p == req'[r]
           a == audits'[r]
<1>1. q.sent = None /\ audits[r] = <<>> /\ Staged(q, audits[r])
  BY DEF IInv, RequestOK, Staged
<1>2. /\ DOMAIN req' = Requests
      /\ \A d \in Requests \ {r} : req'[d] = req[d]
      /\ DOMAIN p = DOMAIN Idle /\ p.stage = "done" /\ p.status = 502
      /\ p.rt = q.rt /\ p.content = q.content /\ p.session = q.session /\ p.header = q.header
      /\ p.sent = q.sent
  BY Answers
<1>3. /\ DOMAIN audits' = Requests
      /\ \A d \in Requests \ {r} : audits'[d] = audits[d]
      /\ a \in Seq(Record)
      /\ a = <<>> \/ (Len(a) = 1 /\ a[1].decision \in {"block", "allow", "redact"})
  <2>1. CASE UNCHANGED audits
    BY <1>1, <2>1 DEF IInv, Staged
  <2>2. CASE emit(r, e)
    <3>1. Len(audits[r]) = 0
      BY <1>1
    <3>2. /\ DOMAIN audits' = Requests
          /\ \A d \in Requests \ {r} : audits'[d] = audits[d]
          /\ a \in Seq(Record) /\ Len(a) = Len(audits[r]) + 1
          /\ a[Len(audits[r]) + 1] = e
      BY <2>2, Emitted
    <3> QED BY <3>1, <3>2
  <2> QED BY <2>1, <2>2
<1> HIDE DEF q, p, a
<1>4. Staged(p, a)
  BY <1>1, <1>2, <1>3 DEF Staged, Stages, q
<1>5. Verdicts(p, asked', log') /\ Sent(p, a, asked', log') /\ Answered(p, a)
  BY <1>1, <1>2, <1>3 DEF Verdicts, Sent, Answered
<1>6. ~Scanned(p)
  BY <1>1, <1>2 DEF Scanned
<1> QED BY <1>2, <1>3, <1>4, <1>5, <1>6, QuietStep DEF RequestOK, p, q, a

LEMMA StepScanFails ==
    ASSUME IInv, NEW r \in Requests, NEW audited \in BOOLEAN, scan_fails(r, audited)
    PROVE  IInv'
<1>1. /\ req[r].stage = "scan" /\ Answer(r, 502) /\ UNCHANGED <<runtime, sessions, reviewVars>>
      /\ emit(r, SkeletonRecord) \/ UNCHANGED audits
  BY DEF scan_fails
<1>2. StoreOK' /\ Grows
  BY <1>1, StoreSame DEF IInv
<1> QED BY <1>1, <1>2, Skeleton, Fails

\* OPA is consulted: its action is taken in, or its failure ends the request.
LEMMA StepOpa ==
    ASSUME IInv, NEW r \in Requests, NEW reply \in OpaAnswers, consult_opa(r, reply)
    PROVE  IInv'
<1> DEFINE q == req[r]
           p == req'[r]
           policy == apply_opa_policy(q.rt.opa, reply, q.policy)
           upd == [stage |-> "ticket", opa |-> reply, policy |-> policy]
<1>1. UNCHANGED <<runtime, sessions, reviewVars>> /\ q.stage = "opa"
  BY DEF consult_opa
<1>2. StoreOK' /\ Grows
  BY <1>1, StoreSame DEF IInv
<1>3. CASE opa_fails(q.rt.opa, reply)
  BY <1>1, <1>2, <1>3, Skeleton, Fails DEF consult_opa
<1>4. CASE ~opa_fails(q.rt.opa, reply)
  <2>1. Step(r, upd) /\ UNCHANGED audits /\ (q.rt.opa = "off" => reply = "no_result")
    BY <1>4 DEF consult_opa
  <2>2. /\ DOMAIN upd = {"stage", "opa", "policy"}
        /\ upd["stage"] = "ticket" /\ upd["opa"] = reply /\ upd["policy"] = policy
    OBVIOUS
  <2>3. /\ q.sent = None /\ audits[r] = <<>> /\ q.status = 0 /\ Staged(q, audits[r])
        /\ Identified(q) /\ Weighed(q)
    BY <1>1 DEF IInv, RequestOK, Staged, Verdicts
  <2>4. /\ policy \in Outcome /\ rank(q.policy.decision) <= rank(policy.decision)
        /\ reply \in Actions => rank(reply) <= rank(policy.decision)
    <3>1. q.rt.opa \in OpaModes
      BY <2>3, GatewayAssumption DEF Identified, AppConfig
    <3> QED BY <1>4, <2>1, <2>3, <3>1, OpaApplied DEF Weighed
  <2> HIDE DEF upd, policy
  <2>5. /\ DOMAIN req' = Requests
        /\ \A d \in Requests \ {r} : req'[d] = req[d]
        /\ DOMAIN p = DOMAIN Idle
        /\ \A f \in DOMAIN Idle : p[f] = IF f \in {"stage", "opa", "policy"} THEN upd[f] ELSE q[f]
    BY <2>1, <2>2, Moved
  <2>6. /\ p.stage = "ticket" /\ p.opa = reply /\ p.policy = policy
        /\ p.principal = q.principal /\ p.rt = q.rt /\ p.content = q.content /\ p.base = q.base
        /\ p.escalated = q.escalated /\ p.header = q.header /\ p.session = q.session
        /\ p.sent = q.sent /\ p.status = q.status
    BY <2>2, <2>5 DEF Idle
  <2> HIDE DEF q, p
  <2>7. Staged(p, audits'[r])
    BY <1>1, <2>1, <2>3, <2>5, <2>6 DEF Staged, Stages, Identified
  <2>8. Judged(p)
    <3>1. q.base \in Actions /\ q.policy.decision \in Actions /\ policy.decision \in Actions
      <4>1. Findings[q.content] \in SUBSET Labels
        BY <2>3, GatewayAssumption DEF Identified
      <4> QED BY <2>3, <2>4, <4>1, Resolved DEF Weighed, Identified, Outcome
    <3>2. q.escalated => q.rt.session.trigger_action \in Actions
      BY <2>3, GatewayAssumption DEF Identified, AppConfig, SessionConfig
    <3>3. rank(p.base) <= rank(p.policy.decision)
      BY <2>3, <2>4, <2>6, <3>1, Ranks DEF Weighed
    <3>4. p.escalated => rank(p.rt.session.trigger_action) <= rank(p.policy.decision)
      BY <2>3, <2>4, <2>6, <3>1, <3>2, Ranks DEF Weighed
    <3> QED BY <2>3, <2>4, <2>6, <3>3, <3>4 DEF Judged, Weighed
  <2>9. RequestOK(p, audits'[r], asked', log')
    BY <2>1, <2>3, <2>6, <2>7, <2>8, Unsent DEF RequestOK, Verdicts
  <2>10. Scanned(q)
    BY <1>1 DEF Scanned, q
  <2> QED BY <1>1, <1>2, <2>1, <2>5, <2>6, <2>9, <2>10, QuietStep DEF p, q, IInv
<1> QED BY <1>3, <1>4

\* The review store has nothing to say: the request goes on as it was judged.
LEMMA Undecided ==
    ASSUME IInv, NEW r \in Requests, req[r].stage \in {"ticket", "override"},
           NEW stage \in {"override", "verdict"}, Step(r, [stage |-> stage]), StoreOK', Grows,
           UNCHANGED <<runtime, sessions, audits>>
    PROVE  IInv'
<1> DEFINE q == req[r]
           p == req'[r]
           upd == [stage |-> stage]
<1>1. DOMAIN upd = {"stage"} /\ upd["stage"] = stage
  OBVIOUS
<1> HIDE DEF upd
<1>2. /\ DOMAIN req' = Requests
      /\ \A d \in Requests \ {r} : req'[d] = req[d]
      /\ DOMAIN p = DOMAIN Idle
      /\ \A f \in DOMAIN Idle : p[f] = IF f \in {"stage"} THEN upd[f] ELSE q[f]
  BY <1>1, Moved DEF upd
<1>3. /\ p.stage = stage /\ p.opa = q.opa /\ p.policy = q.policy
      /\ p.principal = q.principal /\ p.rt = q.rt /\ p.content = q.content /\ p.base = q.base
      /\ p.escalated = q.escalated /\ p.header = q.header /\ p.session = q.session
      /\ p.sent = q.sent /\ p.status = q.status
  BY <1>1, <1>2 DEF Idle
<1>4. /\ q.sent = None /\ audits[r] = <<>> /\ q.status = 0 /\ Staged(q, audits[r])
      /\ Identified(q) /\ Judged(q) /\ q.stage # "idle"
  BY DEF IInv, RequestOK, Staged, Verdicts
<1>5. Scanned(q)
  BY DEF Scanned
<1> HIDE DEF q, p
<1>6. Staged(p, audits'[r])
  BY <1>2, <1>3, <1>4 DEF Staged, Stages, Identified
<1>7. Judged(p)
  BY <1>3, <1>4 DEF Judged, Weighed
<1>8. RequestOK(p, audits'[r], asked', log')
  BY <1>3, <1>4, <1>6, <1>7, Unsent DEF RequestOK, Verdicts
<1> QED BY <1>2, <1>3, <1>5, <1>8, QuietStep DEF p, q, IInv

\* A decided ticket for this path and body, of this principal or its tenant,
\* was filed, and the verdict is an administrator's.
LEMMA Decided ==
    ASSUME IInv, NEW q, NEW t \in TicketIds, inner.tickets[t] # None,
           inner.tickets[t].status # "pending", inner.tickets[t].fp[2] = q.content,
           \/ inner.tickets[t].fp[1] = q.principal.tenant
           \/ inner.tickets[t].principal = q.principal.name
    PROVE  LET policy == overridden(inner.tickets[t].status, inner.tickets[t].post)
           IN  /\ policy \in Outcome
               /\ \/ policy.decision = "block"
                  \/ /\ policy.source = "review_override_approved"
                     /\ policy.decision \in {"allow", "redact"}
                     /\ ApprovedIn(q, asked, log)
<1> DEFINE ticket == inner.tickets[t]
           policy == overridden(ticket.status, ticket.post)
<1>1. ticket \in RSP!ReviewTicket
  BY RSP!InnerRecord, StoreAssumption DEF IInv, StoreOK, RSP!IInv, RSP!TypeOK
<1>2. ticket.status \in {"approved", "rejected"} /\ ticket.post \in {"allow", "redact"}
  BY <1>1 DEF RSP!ReviewTicket, RSP!ReviewStatus, RSP!Verdicts
<1>3. policy \in Outcome
  BY <1>2 DEF overridden, Outcome, Actions, Sources
<1>4. CASE ticket.status = "rejected"
  BY <1>3, <1>4 DEF overridden
<1>5. CASE ticket.status = "approved"
  <2>1. policy.source = "review_override_approved" /\ policy.decision \in {"allow", "redact"}
    BY <1>2, <1>5 DEF overridden
  <2>2. OnFile(t) /\ DecidedByAdmin(t)
    BY DEF IInv, StoreOK
  <2>3. PICK i \in 1..Len(log) :
          /\ log[i].type = "created" /\ log[i].id = t
          /\ log[i].fp = ticket.fp /\ log[i].principal = ticket.principal
    BY <2>2 DEF OnFile
  <2>4. PICK e \in asked : e.id = t /\ e.status = "approved"
    BY <1>5, <2>2 DEF DecidedByAdmin
  <2>5. ApprovedIn(q, asked, log)
    BY <2>3, <2>4 DEF ApprovedIn
  <2> QED BY <1>3, <2>1, <2>5
<1> QED BY <1>2, <1>4, <1>5

\* An administrator's verdict takes the place of the decision.
LEMMA Decides ==
    ASSUME IInv, NEW r \in Requests, req[r].stage \in {"ticket", "override"}, NEW via,
           NEW policy \in Outcome,
           \/ policy.decision = "block"
           \/ /\ policy.source = "review_override_approved"
              /\ policy.decision \in {"allow", "redact"}
              /\ ApprovedIn(req[r], asked, log),
           Step(r, [stage |-> "verdict", via |-> via, policy |-> policy]), StoreOK', Grows,
           asked' = asked, log' = log,
           UNCHANGED <<runtime, sessions, audits>>
    PROVE  IInv'
<1> DEFINE q == req[r]
           p == req'[r]
           upd == [stage |-> "verdict", via |-> via, policy |-> policy]
<1>1. /\ DOMAIN upd = {"stage", "via", "policy"}
      /\ upd["stage"] = "verdict" /\ upd["policy"] = policy
  OBVIOUS
<1> HIDE DEF upd
<1>2. /\ DOMAIN req' = Requests
      /\ \A d \in Requests \ {r} : req'[d] = req[d]
      /\ DOMAIN p = DOMAIN Idle
      /\ \A f \in DOMAIN Idle : p[f] = IF f \in {"stage", "via", "policy"} THEN upd[f] ELSE q[f]
  BY <1>1, Moved DEF upd
<1>3. /\ p.stage = "verdict" /\ p.policy = policy
      /\ p.principal = q.principal /\ p.rt = q.rt /\ p.content = q.content
      /\ p.escalated = q.escalated /\ p.header = q.header /\ p.session = q.session
      /\ p.sent = q.sent /\ p.status = q.status
  BY <1>1, <1>2 DEF Idle
<1>4. /\ q.sent = None /\ audits[r] = <<>> /\ q.status = 0 /\ Staged(q, audits[r])
      /\ Identified(q) /\ q.stage # "idle"
  BY DEF IInv, RequestOK, Staged
<1>5. Scanned(q)
  BY DEF Scanned
<1>6. ApprovedIn(q, asked, log) => ApprovedIn(p, asked', log')
  BY <1>3 DEF ApprovedIn
<1>7. Overridden(p, asked', log')
  BY <1>3, <1>6 DEF Overridden
<1> HIDE DEF q, p
<1>8. Staged(p, audits'[r])
  BY <1>2, <1>3, <1>4 DEF Staged, Stages, Identified
<1>9. RequestOK(p, audits'[r], asked', log')
  BY <1>3, <1>4, <1>7, <1>8, Unsent DEF RequestOK, Verdicts
<1> QED BY <1>2, <1>3, <1>5, <1>9, QuietStep DEF p, q, IInv

LEMMA StepTicket ==
    ASSUME IInv, NEW r \in Requests, check_ticket(r)
    PROVE  IInv'
<1> DEFINE q == req[r]
           ticket == inner.tickets[q.header]
           policy == overridden(ticket.status, ticket.post)
<1>1. q.stage = "ticket" /\ UNCHANGED <<runtime, sessions, audits>>
  BY DEF check_ticket
<1>2. CASE q.header = None
  <2>1. Step(r, [stage |-> "override"]) /\ UNCHANGED reviewVars
    BY <1>2 DEF check_ticket
  <2>2. StoreOK' /\ Grows
    BY <2>1, StoreSame DEF IInv
  <2> QED BY <1>1, <2>1, <2>2, Undecided
<1>3. CASE q.header # None
  <2>1. RS!query /\ q.header \in TicketIds
    BY <1>3 DEF check_ticket, IInv, RequestOK, Staged
  <2>2. StoreOK' /\ Grows /\ asked' = asked /\ log' = log
    BY <2>1, StoreQuery DEF IInv, RS!query
  <2>3. CASE ~ticket_applies(q, ticket)
    <3>1. Step(r, [stage |-> "override"])
      BY <1>3, <2>3 DEF check_ticket
    <3> QED BY <1>1, <2>2, <3>1, Undecided
  <2>4. CASE ticket_applies(q, ticket)
    <3>1. Step(r, [stage |-> "verdict", via |-> q.header, policy |-> policy])
      BY <1>3, <2>4 DEF check_ticket
    <3>2. /\ ticket # None /\ ticket.status # "pending" /\ ticket.fp[2] = q.content
          /\ ticket.principal = q.principal.name
      BY <2>4, SMTT(30) DEF ticket_applies
    <3>3. /\ policy \in Outcome
          /\ \/ policy.decision = "block"
             \/ /\ policy.source = "review_override_approved"
                /\ policy.decision \in {"allow", "redact"}
                /\ ApprovedIn(q, asked, log)
      BY <2>1, <3>2, Decided
    <3> HIDE DEF policy
    <3> QED BY <1>1, <2>2, <3>1, <3>3, Decides
  <2> QED BY <2>3, <2>4
<1> QED BY <1>2, <1>3

LEMMA StepOverride ==
    ASSUME IInv, NEW r \in Requests, check_override(r)
    PROVE  IInv'
<1> DEFINE q == req[r]
           fp == fingerprint(q)
           s == RSP!prune_expired_overrides(inner)
           o == s.overrides[fp]
           policy == overridden(o.status, o.action)
<1>1. q.stage = "override" /\ UNCHANGED <<runtime, sessions, audits>> /\ RS!query
  BY DEF check_override
<1>2. StoreOK' /\ Grows /\ asked' = asked /\ log' = log
  BY <1>1, StoreQuery DEF IInv, RS!query
<1>3. s = RS!prune_expired_overrides(inner)
  BY DEF RS!prune_expired_overrides, RSP!prune_expired_overrides
<1>4. CASE o = None
  <2>1. Step(r, [stage |-> "verdict"])
    BY <1>3, <1>4 DEF check_override
  <2> QED BY <1>1, <1>2, <2>1, Undecided
<1>5. CASE o # None
  <2>1. Step(r, [stage |-> "verdict", via |-> o.ticket, policy |-> policy])
    BY <1>3, <1>5 DEF check_override
  <2>2. fp \in Fingerprints /\ fp[1] = q.principal.tenant /\ fp[2] = q.content
    BY <1>1 DEF IInv, RequestOK, Staged, Identified, fingerprint, Fingerprints, Principal
  <2>3. inner \in RSP!ReviewStoreInner /\ RSP!IndexesAgree(inner)
    BY DEF IInv, StoreOK, RSP!IInv, RSP!TypeOK, RSP!IndexSound
  <2>4. o = inner.overrides[fp]
    <3> HIDE DEF fp, s
    <3>1. s.overrides[fp] \in {inner.overrides[fp], None}
      BY <2>2, <2>3, RSP!PruneFields, StoreAssumption DEF s
    <3> QED BY <1>5, <3>1
  <2>5. o \in RSP!StoredOverride
    BY <1>5, <2>2, <2>3, <2>4, RSP!InnerRecord, StoreAssumption
  <2>6. o.ticket \in TicketIds /\ o.status \in {"approved", "rejected"}
    BY <2>5 DEF RSP!StoredOverride, RSP!Verdicts
  <2> HIDE DEF fp, o, s
  <2>7. /\ inner.tickets[o.ticket] # None /\ inner.tickets[o.ticket].fp = fp
        /\ inner.tickets[o.ticket].status = o.status /\ inner.tickets[o.ticket].post = o.action
    BY <1>5, <2>2, <2>3, <2>4 DEF RSP!IndexesAgree
  <2>8. /\ policy \in Outcome
        /\ \/ policy.decision = "block"
           \/ /\ policy.source = "review_override_approved"
              /\ policy.decision \in {"allow", "redact"}
              /\ ApprovedIn(q, asked, log)
    BY <2>2, <2>6, <2>7, Decided
  <2> HIDE DEF policy
  <2> QED BY <1>1, <1>2, <2>1, <2>8, Decides
<1> QED BY <1>4, <1>5

\* The request's own record tells its decision.
LEMMA OwnRecord ==
    ASSUME IInv, NEW r \in Requests, req[r].stage = "verdict", emit(r, RequestRecord(r))
    PROVE  /\ DOMAIN audits' = Requests
           /\ \A d \in Requests \ {r} : audits'[d] = audits[d]
           /\ audits'[r] \in Seq(Record) /\ Len(audits'[r]) = 1
           /\ audits'[r][1].decision = req[r].policy.decision
           /\ req[r].policy \in Outcome
<1>1. req[r].policy \in Outcome /\ audits[r] = <<>>
  BY DEF IInv, RequestOK, Staged, Verdicts, Judged, Weighed, Overridden
<1>2. RequestRecord(r) \in Record /\ RequestRecord(r).decision = req[r].policy.decision
  BY <1>1 DEF RequestRecord, AuditRecord, Record, Outcome
<1>3. Len(audits[r]) = 0
  BY <1>1
<1>4. /\ DOMAIN audits' = Requests
      /\ \A d \in Requests \ {r} : audits'[d] = audits[d]
      /\ audits'[r] \in Seq(Record) /\ Len(audits'[r]) = Len(audits[r]) + 1
      /\ audits'[r][Len(audits[r]) + 1] = RequestRecord(r)
  BY <1>2, Emitted
<1> QED BY <1>1, <1>2, <1>3, <1>4

\* A request that is refused, or that has to wait, ends with its record.
LEMMA Closes ==
    ASSUME IInv, NEW r \in Requests, Verdict(r, {"block", "review"}), emit(r, RequestRecord(r)),
           StoreOK', Grows, UNCHANGED <<runtime, sessions>>, NEW upd, Step(r, upd),
           DOMAIN upd \in {{"stage", "status"}, {"stage", "status", "ticket"}},
           upd["stage"] = "done",
           upd["status"] = IF req[r].policy.decision = "block" THEN 403 ELSE 409
    PROVE  IInv'
<1> DEFINE q == req[r]
           p == req'[r]
           a == audits'[r]
<1>1. q.stage = "verdict" /\ q.policy.decision \in {"block", "review"}
  BY DEF Verdict
<1>2. q.sent = None /\ Staged(q, audits[r])
  BY <1>1 DEF IInv, RequestOK, Staged
<1>3. /\ DOMAIN req' = Requests
      /\ \A d \in Requests \ {r} : req'[d] = req[d]
      /\ DOMAIN p = DOMAIN Idle
      /\ \A f \in DOMAIN Idle : p[f] = IF f \in DOMAIN upd THEN upd[f] ELSE q[f]
  BY Moved
<1>4. /\ p.stage = "done" /\ p.status = IF q.policy.decision = "block" THEN 403 ELSE 409
      /\ p.rt = q.rt /\ p.content = q.content /\ p.session = q.session /\ p.header = q.header
      /\ p.sent = q.sent
  BY <1>3 DEF Idle
<1>5. /\ DOMAIN audits' = Requests
      /\ \A d \in Requests \ {r} : audits'[d] = audits[d]
      /\ a \in Seq(Record) /\ Len(a) = 1 /\ a[1].decision = q.policy.decision
  BY <1>1, OwnRecord
<1> HIDE DEF q, p, a
<1>6. Staged(p, a)
  BY <1>1, <1>2, <1>3, <1>4, <1>5 DEF Staged, Stages
<1>7. Verdicts(p, asked', log') /\ Sent(p, a, asked', log') /\ Answered(p, a)
  BY <1>1, <1>2, <1>4, <1>5 DEF Verdicts, Sent, Answered
<1>8. ~Scanned(p)
  BY <1>2, <1>4 DEF Scanned
<1> QED BY <1>3, <1>5, <1>6, <1>7, <1>8, QuietStep DEF RequestOK, p, q, a

LEMMA StepBlock ==
    ASSUME IInv, NEW r \in Requests, block(r)
    PROVE  IInv'
<1> DEFINE upd == [stage |-> "done", status |-> 403]
<1>1. /\ Verdict(r, {"block", "review"}) /\ emit(r, RequestRecord(r)) /\ Step(r, upd)
      /\ req[r].policy.decision = "block" /\ UNCHANGED <<runtime, sessions, reviewVars>>
  BY DEF block, Verdict, Answer
<1>2. StoreOK' /\ Grows
  BY <1>1, StoreSame DEF IInv
<1>3. DOMAIN upd = {"stage", "status"} /\ upd["stage"] = "done" /\ upd["status"] = 403
  OBVIOUS
<1> HIDE DEF upd
<1> QED BY <1>1, <1>2, <1>3, Closes

LEMMA StepReviewAgain ==
    ASSUME IInv, NEW r \in Requests, review_again(r)
    PROVE  IInv'
<1> DEFINE fp == fingerprint(req[r])
           upd == [stage |-> "done", status |-> 409, ticket |-> inner.pending[fp]]
<1>1. /\ Verdict(r, {"block", "review"}) /\ emit(r, RequestRecord(r)) /\ Step(r, upd)
      /\ req[r].stage = "verdict" /\ req[r].policy.decision = "review"
      /\ RS!upsert_pending_existing(fp) /\ UNCHANGED <<runtime, sessions>>
  BY DEF review_again, Verdict
<1>2. fp \in Fingerprints
  BY <1>1 DEF IInv, RequestOK, Staged, Identified, fingerprint, Fingerprints, Principal
<1>3. StoreOK' /\ Grows
  BY <1>1, <1>2, StoreQuery DEF IInv
<1>4. DOMAIN upd = {"stage", "status", "ticket"} /\ upd["stage"] = "done" /\ upd["status"] = 409
  OBVIOUS
<1> HIDE DEF upd
<1> QED BY <1>1, <1>3, <1>4, Closes

LEMMA StepReviewNew ==
    ASSUME IInv, NEW r \in Requests, NEW id \in TicketIds, NEW out \in WriteOutcomes,
           review_new(r, id, out)
    PROVE  IInv'
<1> DEFINE q == req[r]
           upd == [stage |-> "done", status |-> 409, ticket |-> id]
<1>1. /\ q.stage = "verdict" /\ q.policy.decision = "review" /\ UNCHANGED <<runtime, sessions>>
      /\ RS!upsert_pending_new(id, fingerprint(q), q.principal.name, post_review_action(q), out)
  BY DEF review_new, Verdict
<1>2. fingerprint(q) \in Fingerprints /\ q.principal.name \in Names
  BY <1>1 DEF IInv, RequestOK, Staged, Identified, fingerprint, Fingerprints, Principal
<1>3. post_review_action(q) \in {"allow", "redact"}
  BY DEF post_review_action
<1>4. StoreOK' /\ Grows
  BY <1>1, <1>2, <1>3, StoreUpsert DEF IInv
<1>5. CASE out = "ok"
  <2>1. Verdict(r, {"block", "review"}) /\ emit(r, RequestRecord(r)) /\ Step(r, upd)
    BY <1>1, <1>5 DEF review_new, Verdict
  <2>2. DOMAIN upd = {"stage", "status", "ticket"} /\ upd["stage"] = "done" /\ upd["status"] = 409
    OBVIOUS
  <2> HIDE DEF upd
  <2> QED BY <1>1, <1>4, <2>1, <2>2, Closes
<1>6. CASE out # "ok"
  <2>1. emit(r, SkeletonRecord) /\ Answer(r, 502)
    BY <1>6 DEF review_new
  <2> QED BY <1>1, <1>4, <2>1, Skeleton, Fails
<1> QED BY <1>5, <1>6

LEMMA StepUrlFails ==
    ASSUME IInv, NEW r \in Requests, upstream_url_fails(r)
    PROVE  IInv'
<1>1. /\ req[r].stage = "verdict" /\ req[r].policy.decision \in {"allow", "redact"}
      /\ emit(r, RequestRecord(r)) /\ Answer(r, 502)
      /\ UNCHANGED <<runtime, sessions, reviewVars>>
  BY DEF upstream_url_fails, Verdict
<1>2. StoreOK' /\ Grows
  BY <1>1, StoreSame DEF IInv
<1>3. RequestRecord(r) \in Record /\ RequestRecord(r).decision = req[r].policy.decision
  BY <1>1, OwnRecord DEF RequestRecord, AuditRecord, Record, Outcome
<1> QED BY <1>1, <1>2, <1>3, Fails

\* What goes out, and why it may.
LEMMA StepForward ==
    ASSUME IInv, NEW r \in Requests, forward(r)
    PROVE  IInv'
<1> DEFINE q == req[r]
           p == req'[r]
           a == audits'[r]
           body == outbound_body(q)
           upd == [stage |-> "awaiting", sent |-> body]
           found == Findings[q.content]
<1>1. /\ q.stage = "verdict" /\ q.policy.decision \in {"allow", "redact"}
      /\ emit(r, RequestRecord(r)) /\ Step(r, upd) /\ UNCHANGED <<runtime, sessions, reviewVars>>
  BY DEF forward, Verdict
<1>2. StoreOK' /\ Grows /\ asked' = asked /\ log' = log
  BY <1>1, StoreSame DEF IInv, reviewVars
<1>3. /\ Staged(q, audits[r]) /\ Identified(q) /\ q.status = 0
      /\ Judged(q) \/ Overridden(q, asked, log)
  BY <1>1 DEF IInv, RequestOK, Staged, Verdicts
<1>4. /\ DOMAIN audits' = Requests
      /\ \A d \in Requests \ {r} : audits'[d] = audits[d]
      /\ a \in Seq(Record) /\ Len(a) = 1 /\ a[1].decision = q.policy.decision
  BY <1>1, OwnRecord
<1>5. DOMAIN upd = {"stage", "sent"} /\ upd["stage"] = "awaiting" /\ upd["sent"] = body
  OBVIOUS
<1> HIDE DEF upd
<1>6. /\ DOMAIN req' = Requests
      /\ \A d \in Requests \ {r} : req'[d] = req[d]
      /\ DOMAIN p = DOMAIN Idle
      /\ \A f \in DOMAIN Idle : p[f] = IF f \in {"stage", "sent"} THEN upd[f] ELSE q[f]
  BY <1>1, <1>5, Moved
<1>7. /\ p.stage = "awaiting" /\ p.sent = body /\ p.opa = q.opa /\ p.policy = q.policy
      /\ p.principal = q.principal /\ p.rt = q.rt /\ p.content = q.content /\ p.base = q.base
      /\ p.escalated = q.escalated /\ p.header = q.header /\ p.session = q.session
      /\ p.status = q.status
  BY <1>5, <1>6 DEF Idle
<1>8. Scanned(q) /\ q.stage # "idle"
  BY <1>1 DEF Scanned
<1> HIDE DEF q, p, a
<1>9. found \in SUBSET Labels
  BY <1>3, GatewayAssumption DEF Identified
<1>10. body \in SUBSET Labels /\ body # None
  <2>1. body \in SUBSET Labels
    BY <1>9 DEF outbound_body, redact_text
  <2> QED BY <2>1, GatewayAssumption
<1>11. q.policy.decision = "redact" => Cleared(p)
  BY <1>7 DEF Cleared, outbound_body, redact_text
<1>12. Judged(q) =>
         /\ rank(q.base) <= 1
         /\ q.escalated => rank(q.rt.session.trigger_action) <= 1
         /\ q.opa \in Actions => rank(q.opa) <= 1
         /\ q.policy.decision = "allow" => Cleared(p)
  <2> SUFFICES ASSUME Judged(q)
               PROVE  /\ rank(q.base) <= 1
                      /\ q.escalated => rank(q.rt.session.trigger_action) <= 1
                      /\ q.opa \in Actions => rank(q.opa) <= 1
                      /\ q.policy.decision = "allow" => Cleared(p)
    OBVIOUS
  <2>1. rank(q.policy.decision) \in 0..1 /\ (q.policy.decision = "allow" => rank(q.policy.decision) = 0)
    BY <1>1, Ranks DEF q
  <2>2. /\ q.base = resolve(q.rt.rules, q.principal, found).decision
        /\ rank(q.base) <= rank(q.policy.decision)
    BY DEF Judged, Weighed
  <2>3. q.base \in Actions
    BY <1>3, <1>9, <2>2, Resolved DEF Identified, Outcome
  <2>4. rank(q.base) <= 1
    BY <2>1, <2>2, <2>3, Ranks
  <2>5. q.escalated => rank(q.rt.session.trigger_action) <= 1
    <3>1. q.rt.session.trigger_action \in Actions
      BY <1>3, GatewayAssumption DEF Identified, AppConfig, SessionConfig
    <3> QED BY <2>1, <3>1, Ranks DEF Judged, Weighed
  <2>6. q.opa \in Actions => rank(q.opa) <= 1
    BY <2>1, Ranks DEF Judged
  <2>7. ASSUME q.policy.decision = "allow" PROVE Cleared(p)
    <3>1. q.base = "allow"
      BY <2>1, <2>2, <2>3, <2>7, Ranks
    <3>2. \A l \in found : action_for(q.rt.rules, q.principal, l) = "allow"
      BY <1>3, <1>9, <2>2, <3>1, Resolved DEF Identified
    <3>3. body = found
      BY <2>7 DEF outbound_body
    <3> QED BY <1>7, <3>2, <3>3 DEF Cleared
  <2> QED BY <2>4, <2>5, <2>6, <2>7
<1>13. Overridden(q, asked, log) =>
         q.policy.source = "review_override_approved" /\ ApprovedIn(p, asked', log')
  BY <1>1, <1>2, <1>7 DEF Overridden, ApprovedIn, q
<1> HIDE DEF body, found
<1>14. Sent(p, a, asked', log')
  <2>1. Identified(p)
    BY <1>3, <1>7 DEF Identified
  <2>2. ApprovedIn(p, asked', log') \/ Cleared(p)
    BY <1>1, <1>3, <1>11, <1>12, <1>13 DEF q
  <2>3. p.policy.source # "review_override_approved" =>
          /\ rank(p.base) <= 1
          /\ p.escalated => rank(p.rt.session.trigger_action) <= 1
          /\ p.opa \in Actions => rank(p.opa) <= 1
    BY <1>3, <1>7, <1>12, <1>13
  <2>4. /\ Len(a) >= 1 /\ a[1].decision \in {"allow", "redact"}
        /\ a[1].decision = "redact" => Cleared(p)
    BY <1>1, <1>4, <1>11 DEF q
  <2> QED BY <1>7, <1>10, <2>1, <2>2, <2>3, <2>4 DEF Sent
<1>15. Staged(p, a)
  BY <1>3, <1>4, <1>6, <1>7, <1>8 DEF Staged, Stages, Identified
<1>16. Verdicts(p, asked', log') /\ Answered(p, a)
  BY <1>3, <1>4, <1>7, <1>10 DEF Verdicts, Answered
<1> QED BY <1>1, <1>2, <1>4, <1>6, <1>7, <1>8, <1>14, <1>15, <1>16, QuietStep DEF RequestOK, p, q, a

LEMMA StepUpstreamFails ==
    ASSUME IInv, NEW r \in Requests, upstream_fails(r)
    PROVE  IInv'
<1> DEFINE q == req[r]
           p == req'[r]
           a == audits[r]
<1>1. q.stage = "awaiting" /\ Answer(r, 502) /\ UNCHANGED <<runtime, sessions, audits, reviewVars>>
  BY DEF upstream_fails
<1>2. StoreOK' /\ Grows /\ asked' = asked /\ log' = log
  BY <1>1, StoreSame DEF IInv, reviewVars
<1>3. /\ Staged(q, a) /\ Sent(q, a, asked, log) /\ Answered(q, a) /\ Scanned(q)
  BY <1>1 DEF IInv, RequestOK, Scanned
<1>4. /\ DOMAIN req' = Requests
      /\ \A d \in Requests \ {r} : req'[d] = req[d]
      /\ DOMAIN p = DOMAIN Idle /\ p.stage = "done" /\ p.status = 502
      /\ p.rt = q.rt /\ p.content = q.content /\ p.session = q.session /\ p.header = q.header
      /\ p.principal = q.principal /\ p.base = q.base /\ p.escalated = q.escalated
      /\ p.policy = q.policy /\ p.opa = q.opa /\ p.sent = q.sent
  BY <1>1, Answers
<1>5. q.stage = "awaiting"
  BY <1>1
<1> HIDE DEF q, p
<1>6. Staged(p, a)
  BY <1>3, <1>4, <1>5 DEF Staged, Stages
<1>7. Verdicts(p, asked, log) /\ Answered(p, a)
  BY <1>3, <1>4, <1>5 DEF Verdicts, Answered
<1>8. Sent(p, a, asked, log)
  BY <1>3, <1>4 DEF Sent, Cleared, ApprovedIn, Identified
<1> QED BY <1>1, <1>2, <1>3, <1>4, <1>6, <1>7, <1>8, QuietStep DEF RequestOK, p, q, IInv

\* What process_payload makes of a response, and what OPA makes of that.
LEMMA Processed ==
    ASSUME NEW q, Identified(q), NEW body \in Responses, NEW scanned \in BOOLEAN,
           NEW reply \in OpaAnswers, q.rt.opa = "off" => reply = "no_result"
    PROVE  LET p     == processed(q, body, scanned)
               final == finalize_response_policy(q.rt.opa, reply, p.outcome)
               clear == resolve_buffered_response_body(
                          body, p.clear, p.outcome.decision, final.decision)
           IN  /\ final \in Outcome
               /\ p.outcome.decision \in Actions
               /\ normalize_response_decision(final.decision) \in {"allow", "redact"}
               /\ q.rt.response_filtering =>
                    \A l \in clear : action_for(q.rt.rules, q.principal, l) = "allow"
               /\ rank(final.decision) > rank(p.outcome.decision) => clear = {}
               /\ clear # body => normalize_response_decision(final.decision) = "redact"
<1> DEFINE p     == processed(q, body, scanned)
           base  == p.outcome
           final == finalize_response_policy(q.rt.opa, reply, base)
           clear == resolve_buffered_response_body(body, p.clear, base.decision, final.decision)
<1>1. body \in SUBSET Labels /\ q.rt.opa \in OpaModes
  BY GatewayAssumption DEF Identified, AppConfig
<1>2. resolve(q.rt.rules, q.principal, body) \in Outcome
  BY <1>1, Resolved DEF Identified
<1>3. base \in Outcome
  BY <1>2 DEF processed, Outcome, Actions, Sources
<1>4. q.rt.response_filtering => \A l \in p.clear : action_for(q.rt.rules, q.principal, l) = "allow"
  BY DEF processed, redact_text
<1>5. q.rt.response_filtering /\ base.decision = "allow" =>
        \A l \in body : action_for(q.rt.rules, q.principal, l) = "allow"
  <2> SUFFICES ASSUME q.rt.response_filtering, base.decision = "allow"
               PROVE  \A l \in body : action_for(q.rt.rules, q.principal, l) = "allow"
    OBVIOUS
  <2>1. base = resolve(q.rt.rules, q.principal, body)
    BY DEF processed
  <2> QED BY <1>1, <2>1, Resolved DEF Identified
<1> HIDE DEF p
<1>6. final \in Outcome /\ (final.decision = "allow" => base.decision = "allow")
  <2>1. CASE opa_fails(q.rt.opa, reply)
    BY <2>1 DEF finalize_response_policy, Outcome, Actions, Sources
  <2>2. CASE ~opa_fails(q.rt.opa, reply)
    <3>1. final = apply_opa_policy(q.rt.opa, reply, base)
      BY <2>2 DEF finalize_response_policy
    <3> HIDE DEF base, final
    <3>2. final \in Outcome /\ rank(base.decision) <= rank(final.decision)
      BY <1>1, <1>3, <2>2, <3>1, OpaApplied
    <3>3. base.decision \in Actions
      BY <1>3 DEF Outcome
    <3> QED BY <3>2, <3>3, Ranks
  <2> QED BY <2>1, <2>2
<1>7. base.decision \in Actions /\ final.decision \in Actions
  BY <1>3, <1>6 DEF Outcome
<1> HIDE DEF base, final
<1>8. final.decision = "allow" => clear = body
  BY DEF resolve_buffered_response_body, normalize_response_decision
<1>9. final.decision # "allow" => clear \in {{}, p.clear}
  BY DEF resolve_buffered_response_body, normalize_response_decision
<1>10. rank(final.decision) > rank(base.decision) => clear = {} /\ final.decision # "allow"
  BY <1>7, Ranks DEF resolve_buffered_response_body, normalize_response_decision,
                     should_force_full_response_redaction
<1>11. /\ normalize_response_decision(final.decision) \in {"allow", "redact"}
       /\ final.decision # "allow" => normalize_response_decision(final.decision) = "redact"
  BY DEF normalize_response_decision
<1> HIDE DEF clear
<1>12. q.rt.response_filtering => \A l \in clear : action_for(q.rt.rules, q.principal, l) = "allow"
  <2>1. CASE final.decision = "allow"
    BY <1>5, <1>6, <1>8, <2>1
  <2>2. CASE final.decision # "allow"
    BY <1>4, <1>9, <2>2
  <2> QED BY <2>1, <2>2
<1>13. clear # body => normalize_response_decision(final.decision) = "redact"
  BY <1>8, <1>11
<1> QED BY <1>6, <1>7, <1>10, <1>11, <1>12, <1>13 DEF p, base, final, clear

LEMMA StepRespond ==
    ASSUME IInv, NEW r \in Requests, NEW body \in Responses, NEW scanned \in BOOLEAN,
           NEW reply \in OpaAnswers, respond(r, body, scanned, reply)
    PROVE  IInv'
<1> DEFINE q == req[r]
           p == req'[r]
           a == audits[r]
           b == audits'[r]
           made  == processed(q, body, scanned)
           base  == made.outcome.decision
           final == finalize_response_policy(q.rt.opa, reply, made.outcome)
           clear == resolve_buffered_response_body(body, made.clear, base, final.decision)
           told  == normalize_response_decision(final.decision)
           record == AuditRecord("response", told, final.source)
           shown == [body |-> body, base |-> base, final |-> final.decision, clear |-> clear]
           upd == [stage |-> "done", status |-> 200, reply |-> shown]
<1>1. /\ q.stage = "awaiting" /\ (q.rt.opa = "off" => reply = "no_result")
      /\ emit(r, record) /\ Step(r, upd) /\ UNCHANGED <<runtime, sessions, reviewVars>>
  BY DEF respond
<1>2. StoreOK' /\ Grows /\ asked' = asked /\ log' = log
  BY <1>1, StoreSame DEF IInv, reviewVars
<1>3. /\ Staged(q, a) /\ Sent(q, a, asked, log) /\ Answered(q, a) /\ Scanned(q)
      /\ Identified(q)
  BY <1>1, SMTT(30) DEF IInv, RequestOK, Scanned, Staged
<1>4. /\ final \in Outcome
      /\ told \in {"allow", "redact"}
      /\ q.rt.response_filtering =>
           \A l \in clear : action_for(q.rt.rules, q.principal, l) = "allow"
      /\ rank(final.decision) > rank(base) => clear = {}
      /\ clear # body => told = "redact"
  BY <1>1, <1>3, Processed, ZenonT(60)
<1> HIDE DEF made, final, told, clear, base
<1>5. record \in Record /\ record.decision = told
  BY <1>4 DEF AuditRecord, Record, Outcome, Actions
<1>6. /\ DOMAIN upd = {"stage", "status", "reply"} /\ upd["stage"] = "done"
      /\ upd["status"] = 200 /\ upd["reply"] = shown
  OBVIOUS
<1>7. /\ shown.body = body /\ shown.base = base /\ shown.final = final.decision
      /\ shown.clear = clear
  OBVIOUS
<1> HIDE DEF upd, record, shown
<1>8. /\ DOMAIN audits' = Requests
      /\ \A d \in Requests \ {r} : audits'[d] = audits[d]
      /\ b \in Seq(Record) /\ Len(b) = Len(a) + 1 /\ b[Len(a) + 1] = record
      /\ \A i \in 1..Len(a) : b[i] = a[i]
  BY <1>1, <1>5, Emitted
<1>9. q.sent # None /\ Len(a) = 1 /\ q.stage = "awaiting"
  BY <1>1, <1>3 DEF Answered
<1>10. Len(b) = 2 /\ b[1] = a[1] /\ b[2].decision = told
  BY <1>5, <1>8, <1>9
<1>11. /\ DOMAIN req' = Requests
       /\ \A d \in Requests \ {r} : req'[d] = req[d]
       /\ DOMAIN p = DOMAIN Idle
       /\ \A f \in DOMAIN Idle : p[f] = IF f \in {"stage", "status", "reply"} THEN upd[f] ELSE q[f]
  BY <1>1, <1>6, Moved
<1>12. /\ p.stage = "done" /\ p.status = 200 /\ p.reply = shown /\ p.sent = q.sent
       /\ p.opa = q.opa /\ p.policy = q.policy
       /\ p.principal = q.principal /\ p.rt = q.rt /\ p.content = q.content /\ p.base = q.base
       /\ p.escalated = q.escalated /\ p.header = q.header /\ p.session = q.session
  BY <1>6, <1>11 DEF Idle
<1> HIDE DEF q, p, a, b
<1>13. Staged(p, b)
  BY <1>3, <1>8, <1>9, <1>11, <1>12 DEF Staged, Stages
<1>14. Contained(p, b)
  BY <1>4, <1>7, <1>10, <1>12 DEF Contained
<1>15. Verdicts(p, asked, log) /\ Answered(p, b)
  BY <1>4, <1>9, <1>10, <1>12, <1>14 DEF Verdicts, Answered
<1>16. Sent(p, b, asked, log)
  BY <1>3, <1>9, <1>10, <1>12 DEF Sent, Cleared, ApprovedIn, Identified
<1> QED BY <1>1, <1>2, <1>3, <1>8, <1>11, <1>12, <1>13, <1>15, <1>16, QuietStep
        DEF RequestOK, p, q, b

--------------------------------------------------------------------------------
(* The session table                                                        *)

Table == [SessionIds -> SessionEntry(0..MaxTime) \cup {None}]

\* Where sessions are kept, none expires while the model runs.
LEMMA Retained ==
    ASSUME IInv, NEW c \in Configs, c.session.enabled
    PROVE  /\ retain(sessions, c.session, now) \in Table
           /\ SessionsKept => retain(sessions, c.session, now) = sessions
<1>1. sessions \in Table /\ now \in 0..MaxTime
  BY GatewayAssumption DEF IInv, Table, StoreOK, RSP!IInv, RSP!TypeOK
<1>2. retain(sessions, c.session, now) \in Table
  BY <1>1 DEF retain, Table
<1>3. ASSUME SessionsKept, NEW id \in SessionIds
      PROVE  retain(sessions, c.session, now)[id] = sessions[id]
  <2>1. c.session.ttl \in Nat /\ c.session.ttl >= MaxTime
    BY <1>3, GatewayAssumption DEF SessionsKept, AppConfig, SessionConfig
  <2>2. sessions[id] # None => now - sessions[id].updated_at <= c.session.ttl
    <3> SUFFICES ASSUME sessions[id] # None PROVE now - sessions[id].updated_at <= c.session.ttl
      OBVIOUS
    <3>1. sessions[id].updated_at \in 0..MaxTime
      BY <1>1 DEF Table, SessionEntry
    <3> QED BY <1>1, <2>1, <3>1, GatewayAssumption
  <2> QED BY <2>2 DEF retain
<1>4. SessionsKept => retain(sessions, c.session, now) = sessions
  BY <1>1, <1>2, <1>3 DEF Table
<1> QED BY <1>2, <1>4

\* Where sessions are kept, there is always room for one more.
LEMMA RoomLeft ==
    ASSUME NEW store \in Table, NEW c \in Configs, c.session.enabled, NEW id \in SessionIds
    PROVE  /\ make_room(store, id, c.session) \in SUBSET Table
           /\ SessionsKept => make_room(store, id, c.session) = {store}
           /\ \A room \in make_room(store, id, c.session) : room[id] = store[id]
<1>1. Live(store) \in SUBSET SessionIds
  BY DEF Live
<1>2. \A k \in oldest(store) : k \in SessionIds /\ store[k] # None
  BY DEF oldest, Live
<1>3. make_room(store, id, c.session) \in SUBSET Table
  BY <1>2 DEF make_room, Table
<1>4. \A room \in make_room(store, id, c.session) : room[id] = store[id]
  BY <1>2 DEF make_room, Table
<1>5. ASSUME SessionsKept, store[id] = None
      PROVE  ~(Cardinality(Live(store)) >= c.session.max_entries)
  <2>1. IsFiniteSet(SessionIds) /\ c.session.max_entries >= Cardinality(SessionIds)
    BY <1>5 DEF SessionsKept
  <2>2. IsFiniteSet(SessionIds \ {id}) /\ Cardinality(SessionIds \ {id}) = Cardinality(SessionIds) - 1
    BY <2>1, FS_RemoveElement
  <2>3. Live(store) \subseteq SessionIds \ {id}
    BY <1>5 DEF Live
  <2>4. IsFiniteSet(Live(store)) /\ Cardinality(Live(store)) <= Cardinality(SessionIds \ {id})
    BY <2>2, <2>3, FS_Subset
  <2>5. Cardinality(Live(store)) \in Nat /\ Cardinality(SessionIds) \in Nat
    BY <2>1, <2>4, FS_CardinalityType
  <2>6. c.session.max_entries \in Nat
    BY GatewayAssumption DEF AppConfig, SessionConfig
  <2> QED BY <2>1, <2>2, <2>4, <2>5, <2>6
<1>6. SessionsKept => make_room(store, id, c.session) = {store}
  BY <1>5 DEF make_room
<1> QED BY <1>3, <1>4, <1>6

\* The labels have joined those of session id, and nothing else is lost.
Joined(new, id, labels) ==
    /\ new \in Table /\ new[id] # None /\ labels \subseteq new[id].labels
    /\ SessionsKept =>
         /\ \A k \in SessionIds \ {id} : new[k] = sessions[k]
         /\ sessions[id] # None => sessions[id].labels \subseteq new[id].labels

\* What record_and_check leaves in the table.
LEMMA SessionRecorded ==
    ASSUME NEW c, NEW id, NEW labels, NEW new, IInv, c \in Configs, c.session.enabled,
           id \in SessionIds, labels \in SUBSET Labels,
           new \in recorded(sessions, id, labels, c.session, now)
    PROVE  Joined(new, id, labels)
<1> DEFINE kept == retain(sessions, c.session, now)
<1>1. kept \in Table /\ (SessionsKept => kept = sessions)
  BY Retained
<1> HIDE DEF kept
<1>2. PICK room \in make_room(kept, id, c.session) : new = insert(room, id, labels, now)
  BY DEF recorded, kept
<1>3. room \in Table /\ (SessionsKept => room = sessions)
  BY <1>1, RoomLeft
<1>4. now \in 0..MaxTime
  BY GatewayAssumption DEF IInv, StoreOK, RSP!IInv, RSP!TypeOK
<1> DEFINE entry == [labels |-> labels \cup IF room[id] = None THEN {} ELSE room[id].labels,
                     updated_at |-> now]
<1>5. /\ entry \in SessionEntry(0..MaxTime) /\ labels \subseteq entry.labels
      /\ room[id] # None => room[id].labels \subseteq entry.labels
  <2>1. room[id] # None => room[id].labels \in SUBSET Labels
    BY <1>3 DEF Table, SessionEntry
  <2> QED BY <1>4, <2>1 DEF SessionEntry
<1>6. new = [room EXCEPT ![id] = entry]
  BY <1>2 DEF insert
<1> HIDE DEF entry
<1>7. new \in Table /\ new[id] = entry /\ \A k \in SessionIds \ {id} : new[k] = room[k]
  BY <1>3, <1>5, <1>6 DEF Table
<1>8. entry # None
  BY <1>5, GatewayAssumption
<1> QED BY <1>3, <1>5, <1>7, <1>8 DEF Joined

\* A request that escalates nothing leaves fewer labels than its threshold.
LEMMA BelowThreshold ==
    ASSUME NEW c \in Configs, NEW store \in Table, NEW id \in SessionIds, store[id] # None,
           ~escalates(store, id, c.session)
    PROVE  store[id].labels \in SUBSET Labels /\ Cardinality(store[id].labels) < c.session.threshold
<1>1. store[id].labels \in SUBSET Labels
  BY DEF Table, SessionEntry
<1>2. Cardinality(store[id].labels) \in Nat
  BY <1>1, GatewayAssumption, FS_Subset, FS_CardinalityType
<1>3. c.session.threshold \in Nat
  BY GatewayAssumption DEF AppConfig, SessionConfig
<1> QED BY <1>1, <1>2, <1>3 DEF escalates

\* The request's labels join those of its session.
LEMMA SplitScanned ==
    ASSUME IInv, NEW r \in Requests, sessions' \in Table,
           \A d \in Requests \ {r} : req'[d] = req[d],
           req'[r].rt \in Configs, req'[r].session # None => req'[r].session \in SessionIds,
           SessionsKept => \A k \in SessionIds \ {req'[r].session} : sessions'[k] = sessions[k],
           req'[r].session # None =>
             LET id == req'[r].session
             IN  /\ sessions'[id] # None
                 /\ Findings[req'[r].content] \subseteq sessions'[id].labels
                 /\ SessionsKept /\ sessions[id] # None =>
                      sessions[id].labels \subseteq sessions'[id].labels
                 /\ ~req'[r].escalated => ~escalates(sessions', id, req'[r].rt.session)
    PROVE  SplitOK'
<1> SUFFICES ASSUME SessionsKept, NEW id \in SessionIds
             PROVE  /\ \A d \in Requests : Scanned(req'[d]) /\ req'[d].session = id =>
                         /\ sessions'[id] # None
                         /\ Findings[req'[d].content] \subseteq sessions'[id].labels
                    /\ (\E d \in Requests : Free(req'[d], id)) =>
                         \E c \in Configs, U \in SUBSET Labels :
                           /\ Cardinality(U) < c.session.threshold
                           /\ \A d \in Requests : Free(req'[d], id) =>
                                Findings[req'[d].content] \subseteq U
  BY DEF SplitOK
<1> DEFINE Old == \E c \in Configs, U \in SUBSET Labels :
                     /\ Cardinality(U) < c.session.threshold
                     /\ \A d \in Requests : Free(req[d], id) => Findings[req[d].content] \subseteq U
<1>0. id # None
  BY GatewayAssumption
<1>1. /\ \A d \in Requests : Scanned(req[d]) /\ req[d].session = id =>
           sessions[id] # None /\ Findings[req[d].content] \subseteq sessions[id].labels
      /\ (\E d \in Requests : Free(req[d], id)) => Old
  BY DEF IInv, SplitOK
<1>2. ASSUME NEW d \in Requests, Scanned(req'[d]), req'[d].session = id
      PROVE  sessions'[id] # None /\ Findings[req'[d].content] \subseteq sessions'[id].labels
  <2>1. CASE d = r
    BY <1>0, <1>2, <2>1
  <2>2. CASE d # r
    <3>1. sessions[id] # None /\ Findings[req'[d].content] \subseteq sessions[id].labels
      BY <1>1, <1>2, <2>2
    <3>2. CASE req'[r].session = id
      BY <1>0, <3>1, <3>2
    <3>3. CASE req'[r].session # id
      BY <3>1, <3>3
    <3> QED BY <3>2, <3>3
  <2> QED BY <2>1, <2>2
<1>3. CASE Free(req'[r], id)
  <2>1. /\ req'[r].session = id /\ ~escalates(sessions', id, req'[r].rt.session)
        /\ sessions'[id] # None
    BY <1>0, <1>3 DEF Free
  <2>2. /\ sessions'[id].labels \in SUBSET Labels
        /\ Cardinality(sessions'[id].labels) < req'[r].rt.session.threshold
    BY <2>1, BelowThreshold
  <2>3. \A d \in Requests : Free(req'[d], id) => Findings[req'[d].content] \subseteq sessions'[id].labels
    BY <1>2 DEF Free
  <2> QED BY <1>2, <2>2, <2>3
<1>4. CASE ~Free(req'[r], id)
  <2>1. \A d \in Requests : Free(req'[d], id) => Free(req[d], id) /\ req'[d] = req[d]
    BY <1>4
  <2>2. ASSUME NEW d \in Requests, Free(req'[d], id)
        PROVE  \E c \in Configs, U \in SUBSET Labels :
                 /\ Cardinality(U) < c.session.threshold
                 /\ \A k \in Requests : Free(req'[k], id) => Findings[req'[k].content] \subseteq U
    <3>1. PICK c \in Configs, U \in SUBSET Labels :
             /\ Cardinality(U) < c.session.threshold
             /\ \A k \in Requests : Free(req[k], id) => Findings[req[k].content] \subseteq U
      BY <1>1, <2>1, <2>2
    <3> QED BY <2>1, <3>1
  <2> QED BY <1>2, <2>2
<1> QED BY <1>3, <1>4

LEMMA StepScan ==
    ASSUME IInv, NEW r \in Requests, scan(r)
    PROVE  IInv'
<1> DEFINE q == req[r]
           p == req'[r]
           found == Findings[q.content]
           base == resolve(q.rt.rules, q.principal, found)
           hot == q.session # None /\ escalates(sessions', q.session, q.rt.session)
           trigger == q.rt.session.trigger_action
           policy == IF hot THEN [base EXCEPT !.decision = combine(base.decision, trigger)] ELSE base
           upd == [stage |-> "opa", base |-> base.decision, escalated |-> hot, policy |-> policy]
<1>1. q.stage = "scan" /\ Step(r, upd) /\ RS!query /\ UNCHANGED <<runtime, audits>>
  BY DEF scan
<1>2. StoreOK' /\ Grows
  BY <1>1, StoreQuery DEF IInv
<1>3. /\ q.sent = None /\ audits[r] = <<>> /\ q.status = 0 /\ Staged(q, audits[r])
      /\ Identified(q) /\ q.stage # "idle"
      /\ q.session # None => q.rt.session.enabled /\ q.session \in SessionIds
  BY <1>1 DEF IInv, RequestOK, Staged
<1>4. found \in SUBSET Labels /\ q.rt \in Configs /\ q.principal \in Principal
  BY <1>3, GatewayAssumption DEF Identified
<1>5. trigger \in Actions
  BY <1>4, GatewayAssumption DEF AppConfig, SessionConfig
<1>6. base \in Outcome
  BY <1>4, Resolved
<1>7. /\ sessions' \in Table
      /\ SessionsKept => \A k \in SessionIds \ {q.session} : sessions'[k] = sessions[k]
      /\ q.session # None =>
           /\ sessions'[q.session] # None
           /\ found \subseteq sessions'[q.session].labels
           /\ SessionsKept /\ sessions[q.session] # None =>
                sessions[q.session].labels \subseteq sessions'[q.session].labels
  <2>1. CASE q.session # None
    <3>1. sessions' \in recorded(sessions, q.session, found, q.rt.session, now)
      BY <2>1 DEF scan
    <3>2. q.rt.session.enabled /\ q.session \in SessionIds
      BY <1>3, <2>1
    <3> HIDE DEF q, found
    <3>3. Joined(sessions', q.session, found)
      BY <1>4, <3>1, <3>2, SessionRecorded
    <3> QED BY <3>3 DEF Joined
  <2>2. CASE q.session = None
    <3>1. sessions' = IF q.rt.session.enabled THEN retain(sessions, q.rt.session, now) ELSE sessions
      BY <2>2 DEF scan
    <3>2. sessions \in Table
      BY DEF IInv, Table
    <3> QED BY <1>4, <2>2, <3>1, <3>2, Retained
  <2> QED BY <2>1, <2>2
<1>8. /\ policy \in Outcome /\ rank(base.decision) <= rank(policy.decision)
      /\ hot => rank(trigger) <= rank(policy.decision)
  <2>1. base.decision \in Actions
    BY <1>6 DEF Outcome
  <2> HIDE DEF base, hot, trigger
  <2>2. CASE hot
    <3>1. combine(base.decision, trigger) \in Actions
      BY <1>5, <2>1, Combined
    <3>2. policy \in Outcome /\ policy.decision = combine(base.decision, trigger)
      BY <1>6, <2>2, <3>1 DEF Outcome
    <3> QED BY <1>5, <2>1, <3>2, Combined
  <2>3. CASE ~hot
    BY <1>6, <2>1, <2>3, Ranks
  <2> QED BY <2>2, <2>3
<1>9. /\ DOMAIN upd = {"stage", "base", "escalated", "policy"} /\ upd["stage"] = "opa"
      /\ upd["base"] = base.decision /\ upd["escalated"] = hot /\ upd["policy"] = policy
  OBVIOUS
<1> HIDE DEF upd, policy, base, hot
<1>10. /\ DOMAIN req' = Requests
       /\ \A d \in Requests \ {r} : req'[d] = req[d]
       /\ DOMAIN p = DOMAIN Idle
       /\ \A f \in DOMAIN Idle :
            p[f] = IF f \in {"stage", "base", "escalated", "policy"} THEN upd[f] ELSE q[f]
  BY <1>1, <1>9, Moved
<1>11. /\ p.stage = "opa" /\ p.base = base.decision /\ p.escalated = hot /\ p.policy = policy
       /\ p.principal = q.principal /\ p.rt = q.rt /\ p.content = q.content
       /\ p.header = q.header /\ p.session = q.session
       /\ p.sent = q.sent /\ p.status = q.status
  BY <1>9, <1>10 DEF Idle
<1>12. SplitOK'
  <2>1. p.session # None /\ ~p.escalated => ~escalates(sessions', p.session, p.rt.session)
    BY <1>11 DEF hot
  <2>2. /\ p.rt \in Configs /\ p.session # None => p.session \in SessionIds
        /\ SessionsKept => \A k \in SessionIds \ {p.session} : sessions'[k] = sessions[k]
    BY <1>3, <1>4, <1>7, <1>11
  <2>3. p.session # None =>
           /\ sessions'[p.session] # None
           /\ Findings[p.content] \subseteq sessions'[p.session].labels
           /\ SessionsKept /\ sessions[p.session] # None =>
                sessions[p.session].labels \subseteq sessions'[p.session].labels
    BY <1>7, <1>11
  <2>4. p.rt \in Configs /\ (p.session # None => p.session \in SessionIds)
    BY <1>3, <1>4, <1>11
  <2> QED BY <1>7, <1>10, <2>1, <2>2, <2>3, <2>4, SplitScanned
<1> HIDE DEF q, p
<1>13. Staged(p, audits'[r])
  BY <1>1, <1>3, <1>10, <1>11 DEF Staged, Stages, Identified
<1>14. Weighed(p)
  BY <1>8, <1>11 DEF Weighed, base
<1>15. RequestOK(p, audits'[r], asked', log')
  BY <1>1, <1>3, <1>11, <1>13, <1>14, Unsent DEF RequestOK, Verdicts
<1> QED BY <1>1, <1>2, <1>7, <1>10, <1>12, <1>15, OneRequest DEF p, q, IInv, Table

--------------------------------------------------------------------------------
(* Administrators and time                                                  *)

\* A step of no request.
LEMMA NoRequest ==
    ASSUME IInv, StoreOK', Grows, runtime' \in Configs, sessions' \in Table,
           SessionsKept => sessions' = sessions, UNCHANGED <<req, audits>>
    PROVE  IInv'
<1>1. Len(log) \in Nat /\ Len(log') \in Nat
  BY DEF IInv, StoreOK, RSP!IInv, RSP!TypeOK
<1>2. ASSUME NEW d \in Requests
      PROVE  RequestOK(req'[d], audits'[d], asked', log')
  <2>1. RequestOK(req[d], audits[d], asked, log)
    BY DEF IInv
  <2>2. RequestOK(req[d], audits[d], asked', log')
    BY <1>1, <2>1, StillOK DEF Grows
  <2> QED BY <2>2
<1>3. SplitOK'
  BY SplitKept
<1> QED BY <1>2, <1>3 DEF IInv, Table

LEMMA StepMetrics ==
    ASSUME IInv, refresh_metrics
    PROVE  IInv'
<1>1. RS!query /\ UNCHANGED <<runtime, req, audits>> /\ runtime \in Configs
  BY DEF refresh_metrics, IInv
<1>2. StoreOK' /\ Grows
  BY <1>1, StoreQuery DEF IInv
<1>3. sessions' \in Table /\ (SessionsKept => sessions' = sessions)
  BY <1>1, Retained DEF refresh_metrics, IInv, Table
<1> QED BY <1>1, <1>2, <1>3, NoRequest

LEMMA StepAdminister ==
    ASSUME IInv, NEW key \in Keys, Administer(key)
    PROVE  IInv'
<1>1. runtime \in Configs /\ sessions \in Table
  BY DEF IInv, Table
<1>2. ASSUME NEW id \in TicketIds, NEW v \in RS!Verdicts, NEW out \in WriteOutcomes,
             admin_reviews_resolve(key, id, v, out)
      PROVE  IInv'
  <2>1. RS!resolve(id, v, runtime.approval_ttl, out) /\ UNCHANGED <<runtime, sessions, req, audits>>
    BY <1>2 DEF admin_reviews_resolve
  <2>2. runtime.approval_ttl \in {c.approval_ttl : c \in Configs}
    BY <1>1
  <2>3. StoreOK' /\ Grows
    BY <2>1, <2>2, StoreResolve DEF IInv
  <2> QED BY <1>1, <2>1, <2>3, NoRequest
<1>3. ASSUME NEW config \in Configs, admin_reload(key, config)
      PROVE  IInv'
  <2>1. StoreOK' /\ Grows
    BY <1>3, StoreSame DEF IInv, admin_reload
  <2> QED BY <1>1, <1>3, <2>1, NoRequest DEF admin_reload
<1>4. ASSUME admin_reviews(key) PROVE IInv'
  <2>1. StoreOK' /\ Grows
    BY <1>4, StoreQuery DEF IInv, admin_reviews
  <2> QED BY <1>1, <1>4, <2>1, NoRequest DEF admin_reviews
<1> QED BY <1>2, <1>3, <1>4, StepMetrics DEF Administer, admin_status

LEMMA StepHandle ==
    ASSUME IInv, NEW r \in Requests, Handle(r)
    PROVE  IInv'
BY StepAccept, StepAuthenticate, StepScanFails, StepScan, StepOpa, StepTicket, StepOverride,
   StepBlock, StepReviewAgain, StepReviewNew, StepForward, StepUrlFails,
   StepUpstreamFails, StepRespond
   DEF Handle

LEMMA StepTime ==
    ASSUME IInv, tick \/ UNCHANGED vars
    PROVE  IInv'
<1>1. runtime \in Configs /\ sessions \in Table
  BY DEF IInv, Table
<1>2. CASE tick
  <2>1. StoreOK' /\ Grows
    BY <1>2, StoreTick DEF IInv, tick
  <2> QED BY <1>1, <1>2, <2>1, NoRequest DEF tick
<1>3. CASE UNCHANGED vars
  <2>1. UNCHANGED reviewVars /\ UNCHANGED <<runtime, sessions, req, audits>>
    BY <1>3 DEF vars
  <2>2. StoreOK' /\ Grows
    BY <2>1, StoreSame DEF IInv
  <2> QED BY <1>1, <2>1, <2>2, NoRequest
<1> QED BY <1>2, <1>3

--------------------------------------------------------------------------------
(* The invariant holds                                                      *)

LEMMA StartStore ==
    ASSUME Init
    PROVE  StoreOK
<1>1. inner \in RSP!ReviewStoreInner /\ \A t \in TicketIds : inner.tickets[t] = None
  <2>1. RS!AtLeastOne(Capacity) \in Nat
    BY GatewayAssumption DEF RS!AtLeastOne
  <2>2. inner = RSP!EmptyInner(RS!AtLeastOne(Capacity))
    BY DEF Init, RS!EmptyInner, RSP!EmptyInner
  <2>3. inner \in RSP!ReviewStoreInner
    BY <2>1, <2>2, RSP!EmptyInnerType, StoreAssumption
  <2> QED BY <2>2, <2>3 DEF RSP!EmptyInner
<1>2. RSP!TypeOK
  <2>1. log \in Seq(RSP!Lines) /\ cursor \in Nat /\ now \in Nat
    BY DEF Init
  <2>4. openLine \in BOOLEAN
    BY DEF Init
  <2>2. issued \subseteq TicketIds /\ acked \subseteq RSP!Lines /\ asked \subseteq RSP!ResolvedEvents
    BY DEF Init
  <2>3. mode \in {"down", "loading", "up"}
    BY DEF Init
  <2> QED BY <1>1, <2>1, <2>2, <2>3, <2>4 DEF RSP!TypeOK
<1>3. RSP!LogSound /\ RSP!VerdictFinal
  BY DEF Init, RSP!LogSound, RSP!VerdictFinal
<1>4. RSP!MemorySound
  BY <1>1 DEF Init, RSP!MemorySound
<1>5. RSP!IndexSound /\ RSP!OverrideAsked
  BY DEF Init, RSP!IndexSound, RSP!IndexesAgree, RSP!OverrideAsked, RS!EmptyInner
<1>6. RSP!IInv
  BY <1>2, <1>3, <1>4, <1>5 DEF RSP!IInv
<1> QED BY <1>1, <1>6, GatewayAssumption DEF StoreOK, Init

LEMMA Start ==
    ASSUME Init
    PROVE  IInv
<1>1. runtime \in Configs /\ sessions \in Table
  BY DEF Init, Table
<1>2. \A r \in Requests : req[r] = Idle /\ audits[r] = <<>>
  BY DEF Init
<1>3. /\ Idle.stage = "idle" /\ Idle.rt = None /\ Idle.header = None /\ Idle.session = None
      /\ Idle.sent = None /\ Idle.status = 0
  BY DEF Idle
<1>4. Staged(Idle, <<>>)
  BY <1>3 DEF Staged, Stages
<1>5. RequestOK(Idle, <<>>, asked, log)
  BY <1>3, <1>4, Unsent DEF RequestOK, Verdicts
<1>6. ~Scanned(Idle)
  BY <1>3 DEF Scanned
<1>7. SplitOK
  BY <1>2, <1>6 DEF SplitOK, Free
<1> QED BY <1>1, <1>2, <1>5, <1>7, StartStore DEF IInv, Init, Table

LEMMA Invariance == Spec => []IInv
<1>1. Init => IInv
  BY Start
<1>2. IInv /\ [Next]_vars => IInv'
  <2> SUFFICES ASSUME IInv, [Next]_vars PROVE IInv'
    OBVIOUS
  <2>1. ASSUME NEW r \in Requests, Handle(r) PROVE IInv'
    BY <2>1, StepHandle
  <2>2. ASSUME NEW key \in Keys, Administer(key) PROVE IInv'
    BY <2>2, StepAdminister
  <2> QED BY <2>1, <2>2, StepMetrics, StepTime DEF Next, readyz
<1> QED BY <1>1, <1>2, PTL DEF Spec

--------------------------------------------------------------------------------
(* A ticket that is told can be decided                                     *)

\* What a step of the gateway may do to its review store.
StoreMove ==
    \/ UNCHANGED reviewVars \/ RS!query \/ RS!tick
    \/ \E fp \in Fingerprints : RS!upsert_pending_existing(fp)
    \/ \E id \in TicketIds, fp \in Fingerprints, p \in Names, post \in {"allow", "redact"},
         out \in WriteOutcomes : RS!upsert_pending_new(id, fp, p, post, out)
    \/ \E id \in TicketIds, v \in RS!Verdicts, ttl \in {c.approval_ttl : c \in Configs},
         out \in WriteOutcomes : RS!resolve(id, v, ttl, out)

\* A verdict on ticket t was asked for and is not in the log.
VerdictUnwritten(t) ==
    \E e \in asked : e.id = t /\ \A i \in 1..Len(log) : log[i] # e

\* A ticket of the pending index is undecided, but for a verdict that could not
\* be written; the queue has room for it, and every line of the log can be read.
Waits ==
    /\ RSP!QueueExact
    /\ inner.capacity > 0
    /\ \A i \in 1..Len(log) : log[i] # RSP!BadUtf8
    /\ \A fp \in Fingerprints, t \in TicketIds : inner.pending[fp] = t =>
         inner.tickets[t].status = "pending" \/ VerdictUnwritten(t)

LEMMA MovesAre ==
    ASSUME IInv, [Next]_vars
    PROVE  StoreMove
<1>1. ASSUME NEW r \in Requests, Handle(r) PROVE StoreMove
  <2>1. CASE ~(review_again(r) \/ \E id \in TicketIds, out \in WriteOutcomes : review_new(r, id, out))
    BY <1>1, <2>1 DEF Handle, StoreMove, accept, authenticate, scan_fails, scan, consult_opa,
         check_ticket, check_override, block, forward, upstream_url_fails, upstream_fails, respond
  <2>2. ASSUME review_again(r) \/ \E id \in TicketIds, out \in WriteOutcomes : review_new(r, id, out)
        PROVE  /\ fingerprint(req[r]) \in Fingerprints /\ req[r].principal.name \in Names
               /\ post_review_action(req[r]) \in {"allow", "redact"}
    <3>1. req[r].stage = "verdict"
      BY <2>2 DEF review_again, review_new, Verdict
    <3> QED BY <3>1 DEF IInv, RequestOK, Staged, Identified, fingerprint, Fingerprints, Principal,
                post_review_action
  <2>3. CASE review_again(r)
    BY <2>2, <2>3 DEF review_again, StoreMove
  <2>4. CASE \E id \in TicketIds, out \in WriteOutcomes : review_new(r, id, out)
    BY <2>2, <2>4 DEF review_new, StoreMove
  <2> QED BY <2>1, <2>3, <2>4
<1>2. ASSUME NEW key \in Keys, Administer(key) PROVE StoreMove
  <2>1. runtime.approval_ttl \in {c.approval_ttl : c \in Configs} /\ RS!Verdicts = RS!Verdicts
    BY DEF IInv
  <2> QED BY <1>2, <2>1 DEF Administer, admin_reviews_resolve, admin_reload, admin_status,
              admin_reviews, refresh_metrics, StoreMove
<1> QED BY <1>1, <1>2 DEF Next, refresh_metrics, readyz, tick, vars, StoreMove

LEMMA StoreSteps ==
    ASSUME StoreMove
    PROVE  [RSP!Next]_(RSP!vars)
<1>1. CASE UNCHANGED reviewVars
  BY <1>1 DEF reviewVars, RSP!vars
<1>2. CASE RS!query \/ RS!tick \/ \E fp \in Fingerprints : RS!upsert_pending_existing(fp)
  BY <1>2, SameQuery, SameTick, SameExisting DEF RSP!Next
<1>3. ASSUME NEW id \in TicketIds, NEW fp \in Fingerprints, NEW p \in Names,
             NEW post \in {"allow", "redact"}, NEW out \in WriteOutcomes,
             RS!upsert_pending_new(id, fp, p, post, out)
      PROVE  RSP!Next
  BY <1>3, SameUpsert DEF RSP!Next
<1>4. ASSUME NEW id \in TicketIds, NEW v \in RS!Verdicts, NEW out \in WriteOutcomes,
             NEW ttl \in {c.approval_ttl : c \in Configs}, RS!resolve(id, v, ttl, out)
      PROVE  RSP!Next
  <2>1. RSP!resolve(id, v, ttl, out) /\ v \in RSP!Verdicts
    BY <1>4, SameResolve DEF RS!Verdicts, RSP!Verdicts
  <2> QED BY <2>1 DEF RSP!Next
<1> QED BY <1>1, <1>2, <1>3, <1>4 DEF StoreMove

\* A verdict that could not be written stays unwritten when a line about
\* another ticket follows.
LEMMA StillUnwritten ==
    ASSUME StoreOK, NEW t, VerdictUnwritten(t), asked \subseteq asked',
           log' = log \/ \E e \in RSP!Lines : log' = Append(log, e) /\
                           (e.type = "resolved" => e.id # t)
    PROVE  VerdictUnwritten(t)'
<1>1. log \in Seq(RSP!Lines) /\ Len(log) \in Nat /\ asked \subseteq RSP!ResolvedEvents
  BY DEF StoreOK, RSP!IInv, RSP!TypeOK
<1>2. PICK v \in asked : v.id = t /\ \A i \in 1..Len(log) : log[i] # v
  BY DEF VerdictUnwritten
<1>3. v.type = "resolved"
  BY <1>1, <1>2 DEF RSP!ResolvedEvents
<1>4. \A i \in 1..Len(log') : log'[i] # v
  <2>1. CASE log' = log
    BY <1>2, <2>1
  <2>2. ASSUME NEW e \in RSP!Lines, log' = Append(log, e), e.type = "resolved" => e.id # t
        PROVE  \A i \in 1..Len(log') : log'[i] # v
    <3>1. e # v
      BY <1>2, <1>3, <2>2
    <3>2. Len(log') = Len(log) + 1 /\ log'[Len(log) + 1] = e
          /\ \A i \in 1..Len(log) : log'[i] = log[i]
      BY <1>1, <2>2
    <3> QED BY <1>1, <1>2, <3>1, <3>2
  <2> QED BY <2>1, <2>2
<1> QED BY <1>2, <1>4 DEF VerdictUnwritten

\* A step that leaves tickets, pending index and log alone.
LEMMA WaitsQuiet ==
    ASSUME StoreOK, Waits, RSP!QueueExact', inner'.tickets = inner.tickets,
           inner'.pending = inner.pending, inner'.capacity = inner.capacity,
           log' = log, asked \subseteq asked'
    PROVE  Waits'
<1>1. \A t : VerdictUnwritten(t) => VerdictUnwritten(t)'
  BY StillUnwritten
<1> QED BY <1>1 DEF Waits

\* A new ticket waits under its own fingerprint.
LEMMA WaitsUpsert ==
    ASSUME StoreOK, StoreOK', Waits, RSP!QueueExact', NEW id \in TicketIds,
           NEW fp \in Fingerprints, NEW p \in Names, NEW post \in {"allow", "redact"},
           NEW out \in WriteOutcomes, RS!upsert_pending_new(id, fp, p, post, out)
    PROVE  Waits'
<1> DEFINE e == [type |-> "created", id |-> id, fp |-> fp, principal |-> p, post |-> post]
           s == RSP!prune_expired_overrides(inner)
           w == RSP!WithTicket(s, e)
<1>1. RSP!upsert_pending_new(id, fp, p, post, out)
  BY SameUpsert
<1>2. /\ RSP!append_review_event(e, out)
      /\ inner' = RSP!AfterAppend(out, RSP!trim_to_capacity(w), s)
      /\ asked' = asked
  BY <1>1 DEF RSP!upsert_pending_new
<1>3. e \in RSP!CreatedEvents /\ e \in RSP!Lines
  BY DEF RSP!CreatedEvents, RSP!Lines
<1>4. /\ s \in RSP!ReviewStoreInner /\ s.tickets = inner.tickets /\ s.pending = inner.pending
      /\ s.capacity = inner.capacity
  BY RSP!PruneFields, StoreAssumption DEF StoreOK, RSP!IInv, RSP!TypeOK
<1>5. e.id = id /\ e.fp = fp /\ e.type = "created" /\ e # RSP!BadUtf8
  BY DEF RSP!BadUtf8
<1> HIDE DEF e, s
<1>6. /\ w \in RSP!ReviewStoreInner /\ w.capacity = inner.capacity
      /\ \A f \in Fingerprints : w.pending[f] = IF f = fp THEN id ELSE inner.pending[f]
      /\ \A t \in TicketIds \ {id} : w.tickets[t] = inner.tickets[t]
      /\ w.tickets[id].status = "pending"
  BY <1>3, <1>4, <1>5, RSP!WithTicketFields, StoreAssumption
<1> HIDE DEF w
<1>7. /\ RSP!trim_to_capacity(w).capacity = w.capacity
      /\ \A t \in TicketIds : RSP!trim_to_capacity(w).tickets[t] \in {w.tickets[t], None}
      /\ \A f \in Fingerprints : RSP!trim_to_capacity(w).pending[f] \in {w.pending[f], None}
  BY <1>6, RSP!TrimFields, StoreAssumption
<1>8. out \in {"ok", "refused"} /\ log' = IF out = "ok" THEN Append(log, e) ELSE log
  BY <1>2, <1>3, Appending
<1>9. CASE out = "refused"
  <2>1. inner' = s /\ log' = log
    BY <1>2, <1>8, <1>9 DEF RSP!AfterAppend
  <2> QED BY <1>2, <1>4, <2>1, WaitsQuiet
<1>10. CASE out = "ok"
  <2>1. inner' = RSP!trim_to_capacity(w) /\ log' = Append(log, e)
    BY <1>2, <1>8, <1>10 DEF RSP!AfterAppend
  <2>2. inner'.capacity = inner.capacity
    BY <1>6, <1>7, <2>1
  <2>3. \A i \in 1..Len(log') : log'[i] # RSP!BadUtf8
    <3>1. log \in Seq(RSP!Lines)
      BY DEF StoreOK, RSP!IInv, RSP!TypeOK
    <3>2. Len(log) \in Nat /\ Len(log') = Len(log) + 1 /\ log'[Len(log) + 1] = e
          /\ \A i \in 1..Len(log) : log'[i] = log[i]
      BY <2>1, <3>1
    <3> QED BY <1>5, <3>2 DEF Waits
  <2>4. \A t \in TicketIds : VerdictUnwritten(t) => VerdictUnwritten(t)'
    BY <1>2, <1>3, <1>5, <2>1, StillUnwritten
  <2>5. ASSUME NEW f \in Fingerprints, NEW t \in TicketIds, inner'.pending[f] = t
        PROVE  inner'.tickets[t].status = "pending" \/ VerdictUnwritten(t)'
    <3>1. t # None /\ inner'.tickets[t] # None
      BY <2>5, GatewayAssumption DEF StoreOK, RSP!IInv, RSP!IndexSound, RSP!IndexesAgree
    <3>2. t = w.pending[f] /\ inner'.tickets[t] = w.tickets[t]
      BY <1>7, <2>1, <2>5, <3>1
    <3>3. CASE t = id
      BY <1>6, <3>2, <3>3
    <3>4. CASE t # id
      <4>1. t = inner.pending[f] /\ inner'.tickets[t] = inner.tickets[t]
        BY <1>6, <3>1, <3>2, <3>4
      <4>2. inner.tickets[t].status = "pending" \/ VerdictUnwritten(t)
        BY <4>1 DEF Waits
      <4> QED BY <2>4, <4>1, <4>2
    <3> QED BY <3>3, <3>4
  <2> QED BY <2>2, <2>3, <2>5 DEF Waits
<1> QED BY <1>8, <1>9, <1>10

\* A verdict takes its ticket out of the index, or could not be written.
LEMMA WaitsResolve ==
    ASSUME StoreOK, Waits, RSP!QueueExact', NEW id \in TicketIds, NEW v \in RS!Verdicts,
           NEW out \in WriteOutcomes, NEW ttl \in {c.approval_ttl : c \in Configs},
           RS!resolve(id, v, ttl, out)
    PROVE  Waits'
<1> DEFINE e == [type |-> "resolved", id |-> id, status |-> v, expires |-> now + ttl]
           s == RSP!prune_expired_overrides(inner)
           w == RSP!WithStatus(s, e)
<1>1. RSP!resolve(id, v, ttl, out) /\ v \in RSP!Verdicts
  BY SameResolve DEF RS!Verdicts, RSP!Verdicts
<1>2. /\ RSP!append_review_event(e, out)
      /\ inner' = RSP!AfterAppend(out, RSP!WithOverride(w, e), w)
      /\ asked' = asked \cup {e}
      /\ inner.tickets[id] # None /\ inner.tickets[id].status = "pending"
  BY <1>1 DEF RSP!resolve
<1>3. e \in RSP!ResolvedEvents /\ e \in RSP!Lines
  <2>1. now \in Nat /\ ttl \in Nat
    BY GatewayAssumption DEF StoreOK, RSP!IInv, RSP!TypeOK, AppConfig
  <2> QED BY <1>1, <2>1 DEF RSP!ResolvedEvents, RSP!Lines
<1>4. /\ s \in RSP!ReviewStoreInner /\ s.tickets = inner.tickets /\ s.pending = inner.pending
      /\ s.capacity = inner.capacity
  BY RSP!PruneFields, StoreAssumption DEF StoreOK, RSP!IInv, RSP!TypeOK
<1>5. e.id = id /\ e.type = "resolved" /\ e # RSP!BadUtf8
  BY DEF RSP!BadUtf8
<1> HIDE DEF e, s
<1>6. /\ w \in RSP!ReviewStoreInner /\ w.tickets[id] \in RSP!ReviewTicket
      /\ w.pending = inner.pending /\ w.capacity = inner.capacity
      /\ \A t \in TicketIds \ {id} : w.tickets[t] = inner.tickets[t]
      /\ w.tickets[id].fp = inner.tickets[id].fp
  BY <1>2, <1>3, <1>4, <1>5, RSP!WithStatusFields, StoreAssumption
<1> HIDE DEF w
<1>7. /\ RSP!WithOverride(w, e).tickets = w.tickets
      /\ RSP!WithOverride(w, e).capacity = w.capacity
      /\ \A f \in Fingerprints : RSP!WithOverride(w, e).pending[f] =
           IF f = w.tickets[id].fp THEN None ELSE w.pending[f]
  <2>1. w.tickets[e.id] \in RSP!ReviewTicket
    BY <1>5, <1>6
  <2>2. /\ RSP!WithOverride(w, e).tickets = w.tickets
        /\ RSP!WithOverride(w, e).capacity = w.capacity
    BY <1>3, <1>6, <2>1, RSP!WithOverrideFields, StoreAssumption
  <2>3. \A f \in Fingerprints : RSP!WithOverride(w, e).pending[f] =
          IF f = w.tickets[e.id].fp THEN None ELSE w.pending[f]
    BY <1>3, <1>6, <2>1, RSP!WithOverrideFields, StoreAssumption
  <2> QED BY <1>5, <2>2, <2>3
<1>8. out \in {"ok", "refused"} /\ log' = IF out = "ok" THEN Append(log, e) ELSE log
  BY <1>2, <1>3, Appending
<1>9. inner'.tickets = w.tickets /\ inner'.capacity = inner.capacity
  BY <1>2, <1>6, <1>7, <1>8 DEF RSP!AfterAppend
<1>10. log \in Seq(RSP!Lines) /\ Len(log) \in Nat
  BY DEF StoreOK, RSP!IInv, RSP!TypeOK
<1>11. \A i \in 1..Len(log') : log'[i] # RSP!BadUtf8
  <2>1. CASE out = "refused"
    BY <1>8, <2>1 DEF Waits
  <2>2. CASE out = "ok"
    <3>1. Len(log') = Len(log) + 1 /\ log'[Len(log) + 1] = e
          /\ \A i \in 1..Len(log) : log'[i] = log[i]
      BY <1>8, <1>10, <2>2
    <3> QED BY <1>5, <1>10, <3>1 DEF Waits
  <2> QED BY <1>8, <2>1, <2>2
<1>12. \A t \in TicketIds \ {id} : VerdictUnwritten(t) => VerdictUnwritten(t)'
  <2>1. log' = log \/ log' = Append(log, e)
    BY <1>8
  <2>2. asked \subseteq asked'
    BY <1>2
  <2> QED BY <1>3, <1>5, <2>1, <2>2, StillUnwritten
<1>13. ASSUME NEW f \in Fingerprints, NEW t \in TicketIds, inner'.pending[f] = t
       PROVE  inner'.tickets[t].status = "pending" \/ VerdictUnwritten(t)'
  <2>0. t # None
    BY GatewayAssumption
  <2>1. /\ inner.pending[f] = t
        /\ out = "ok" => f # w.tickets[id].fp
    BY <1>2, <1>6, <1>7, <1>8, <1>13, <2>0 DEF RSP!AfterAppend
  <2>2. inner.tickets[t].fp = f
    BY <2>0, <2>1 DEF StoreOK, RSP!IInv, RSP!IndexSound, RSP!IndexesAgree
  <2>3. CASE t # id
    <3>1. inner.tickets[t].status = "pending" \/ VerdictUnwritten(t)
      BY <2>1 DEF Waits
    <3> QED BY <1>6, <1>9, <1>12, <2>3, <3>1
  <2>4. CASE t = id
    <3>1. log' = log
      BY <1>6, <1>8, <2>1, <2>2, <2>4
    <3>2. ASSUME NEW i \in 1..Len(log), log[i] = e
          PROVE  FALSE
      <4>1. RSP!Seen(i) /\ RSP!IsResolved(i)
        BY <1>5, <1>10, <3>2 DEF RSP!Seen, RSP!Readable, RSP!IsResolved, Waits, StoreOK
      <4> QED BY <1>2, <1>5, <3>2, <4>1 DEF StoreOK, RSP!IInv, RSP!MemorySound
    <3>3. VerdictUnwritten(id)'
      BY <1>2, <1>5, <3>1, <3>2 DEF VerdictUnwritten
    <3> QED BY <2>4, <3>3
  <2> QED BY <2>3, <2>4
<1> QED BY <1>9, <1>11, <1>13 DEF Waits

LEMMA WaitsStep ==
    ASSUME IInv, IInv', Waits, [Next]_vars
    PROVE  Waits'
<1>1. StoreOK /\ StoreOK' /\ StoreMove
  BY MovesAre DEF IInv
<1>2. RSP!QueueExact'
  BY <1>1, StoreSteps, RSP!QueueStep, StoreAssumption DEF StoreOK, Waits
<1>3. CASE UNCHANGED reviewVars \/ RS!tick
  BY <1>1, <1>2, <1>3, WaitsQuiet DEF reviewVars, RS!tick
<1>4. CASE RS!query \/ \E fp \in Fingerprints : RS!upsert_pending_existing(fp)
  <2>1. RSP!query \/ \E fp \in Fingerprints : RSP!upsert_pending_existing(fp)
    BY <1>4, SameQuery, SameExisting
  <2>2. /\ inner' = RSP!prune_expired_overrides(inner) /\ log' = log /\ asked' = asked
        /\ inner \in RSP!ReviewStoreInner
    BY <1>1, <2>1 DEF RSP!query, RSP!upsert_pending_existing, StoreOK, RSP!IInv, RSP!TypeOK
  <2>3. /\ inner'.tickets = inner.tickets /\ inner'.pending = inner.pending
        /\ inner'.capacity = inner.capacity
    BY <2>2, RSP!PruneFields, StoreAssumption
  <2> QED BY <1>1, <1>2, <2>2, <2>3, WaitsQuiet
<1> QED BY <1>1, <1>2, <1>3, <1>4, WaitsUpsert, WaitsResolve DEF StoreMove

LEMMA WaitsStart ==
    ASSUME Init
    PROVE  Waits
<1>1. /\ inner = RSP!EmptyInner(RSP!AtLeastOne(Capacity)) /\ log = <<>>
      /\ RSP!AtLeastOne(Capacity) > 0 /\ RSP!AtLeastOne(Capacity) \in Nat
  BY GatewayAssumption DEF Init, RS!EmptyInner, RSP!EmptyInner, RS!AtLeastOne, RSP!AtLeastOne
<1>2. RSP!Queued(inner) /\ Len(inner.order) = 0 /\ inner.capacity > 0
  BY <1>1, RSP!EmptyQueued, StoreAssumption DEF RSP!EmptyInner
<1>3. \A fp \in Fingerprints, t \in TicketIds : inner.pending[fp] # t
  BY <1>1, GatewayAssumption DEF RSP!EmptyInner
<1>4. inner.capacity \in Nat
  BY <1>1 DEF RSP!EmptyInner
<1>5. RSP!QueueExact
  BY <1>2, <1>4 DEF RSP!QueueExact, RSP!Queued
<1> QED BY <1>1, <1>2, <1>3, <1>5 DEF Waits

LEMMA WaitsInvariance == Spec => []Waits
<1>1. Init => Waits
  BY WaitsStart
<1>2. IInv /\ IInv' /\ Waits /\ [Next]_vars => Waits'
  BY WaitsStep
<1> QED BY <1>1, <1>2, Invariance, PTL DEF Spec

\* Only a review answers 409.
LEMMA AnsweredByReview ==
    ASSUME IInv, [Next]_vars, NEW r \in Requests, req[r].status = 0, req'[r].status = 409
    PROVE  review_again(r) \/ \E id \in TicketIds : review_new(r, id, "ok")
<1>1. PICK d \in Requests : Handle(d)
  BY DEF Next, Administer, admin_reviews_resolve, admin_reload, admin_status, admin_reviews,
         refresh_metrics, readyz, tick, vars
<1> DEFINE Moves == \E upd : Step(d, upd) /\ ("status" \in DOMAIN upd => upd["status"] # 409)
<1>2. ASSUME \E status \in {401, 403, 502} : Answer(d, status) PROVE Moves
  <2>1. PICK status \in {401, 403, 502} : Step(d, [stage |-> "done", status |-> status])
    BY <1>2 DEF Answer
  <2> QED BY <2>1
<1>3. \/ Moves \/ review_again(d) \/ \E id \in TicketIds : review_new(d, id, "ok")
  <2>1. CASE \E key \in Keys, content \in Contents, session \in SessionIds \cup {None},
               header \in issued \cup {None} : accept(d, key, content, session, header)
    BY <2>1 DEF accept
  <2>2. CASE authenticate(d)
    BY <1>2, <2>2 DEF authenticate
  <2>3. CASE \E audited \in BOOLEAN : scan_fails(d, audited)
    BY <1>2, <2>3 DEF scan_fails
  <2>4. CASE scan(d)
    BY <2>4 DEF scan
  <2>5. CASE \E reply \in OpaAnswers : consult_opa(d, reply)
    BY <1>2, <2>5 DEF consult_opa
  <2>6. CASE check_ticket(d)
    BY <2>6 DEF check_ticket
  <2>7. CASE check_override(d)
    BY <2>7 DEF check_override
  <2>8. CASE block(d)
    BY <1>2, <2>8 DEF block
  <2>9. ASSUME NEW id \in TicketIds, NEW out \in WriteOutcomes, review_new(d, id, out)
        PROVE  Moves \/ review_new(d, id, "ok")
    BY <1>2, <2>9 DEF review_new
  <2>10. CASE forward(d)
    BY <2>10 DEF forward
  <2>11. CASE upstream_fails(d)
    BY <1>2, <2>11 DEF upstream_fails
  <2>12. CASE \E body \in Responses, scanned \in BOOLEAN, reply \in OpaAnswers :
                respond(d, body, scanned, reply)
    BY <2>12 DEF respond
  <2>13. CASE upstream_url_fails(d)
    BY <1>2, <2>13 DEF upstream_url_fails
  <2> QED BY <1>1, <2>1, <2>2, <2>3, <2>4, <2>5, <2>6, <2>7, <2>8, <2>9, <2>10, <2>11, <2>12, <2>13
             DEF Handle
<1>4. CASE Moves
  <2>1. PICK upd : Step(d, upd) /\ ("status" \in DOMAIN upd => upd["status"] # 409)
    BY <1>4
  <2>2. /\ \A c \in Requests \ {d} : req'[c] = req[c]
        /\ \A f \in DOMAIN Idle :
             req'[d][f] = IF f \in DOMAIN upd THEN upd[f] ELSE req[d][f]
    BY <2>1, Moved
  <2>3. "status" \in DOMAIN Idle
    BY DEF Idle
  <2>4. req'[d].status = req[d].status \/ req'[d].status # 409
    BY <2>1, <2>2, <2>3
  <2> QED BY <2>2, <2>4
<1>5. CASE review_again(d) \/ \E id \in TicketIds : review_new(d, id, "ok")
  <2>1. \E upd : Step(d, upd)
    BY <1>5 DEF review_again, review_new
  <2>2. \A c \in Requests \ {d} : req'[c] = req[c]
    BY <2>1, Moved
  <2> QED BY <1>5, <2>2
<1> QED BY <1>3, <1>4, <1>5

\* A pending ticket is among as many of the newest as the queue may hold.
AllListed ==
    \A t \in TicketIds : (inner.tickets[t] # None /\ inner.tickets[t].status = "pending") =>
        t \in list("pending", inner.capacity)

LEMMA ListedAll == StoreOK /\ Waits => AllListed
<1> SUFFICES ASSUME StoreOK, Waits, NEW t \in TicketIds,
                    inner.tickets[t] # None, inner.tickets[t].status = "pending"
             PROVE  t \in list("pending", inner.capacity)
  BY DEF AllListed
<1>0. RSP!TypeOK /\ RSP!QueueExact /\ mode = "up"
  BY DEF StoreOK, RSP!IInv, Waits
<1>1. /\ inner.order \in Seq(TicketIds) /\ Len(inner.order) \in Nat /\ inner.capacity \in Nat
      /\ Len(inner.order) <= inner.capacity /\ DOMAIN inner.order = 1..Len(inner.order)
  BY <1>0 DEF RSP!TypeOK, RSP!ReviewStoreInner, RSP!QueueExact
<1>2. PICK j \in 1..Len(inner.order) : inner.order[j] = t
  BY <1>0 DEF RSP!QueueExact
<1> DEFINE later == {k \in of_status("pending") : k > j}
<1>3. later \subseteq (j + 1)..Len(inner.order)
  BY <1>1 DEF of_status
<1>4. /\ IsFiniteSet((j + 1)..Len(inner.order))
      /\ Cardinality((j + 1)..Len(inner.order)) <= Len(inner.order) - j
  <2>1. j + 1 \in Int /\ Len(inner.order) \in Int
    BY <1>1
  <2>2. /\ IsFiniteSet((j + 1)..Len(inner.order))
        /\ Cardinality((j + 1)..Len(inner.order))
             = IF j + 1 > Len(inner.order) THEN 0 ELSE Len(inner.order) - (j + 1) + 1
    BY <2>1, FS_Interval
  <2> QED BY <1>1, <2>2
<1>5. /\ IsFiniteSet(later) /\ Cardinality(later) \in Nat
      /\ Cardinality((j + 1)..Len(inner.order)) \in Nat
      /\ Cardinality(later) <= Cardinality((j + 1)..Len(inner.order))
  BY <1>3, <1>4, FS_Subset, FS_CardinalityType
<1>6. Cardinality(later) < inner.capacity
  <2> HIDE DEF later
  <2> QED BY <1>1, <1>4, <1>5
<1>7. j \in of_status("pending")
  BY <1>1, <1>2 DEF of_status
<1> QED BY <1>2, <1>6, <1>7 DEF list

\* The queue never drops the ticket that was filed last.
LEMMA NewestStays ==
    ASSUME NEW s \in RSP!ReviewStoreInner, NEW t \in TicketIds, s.capacity > 0,
           Len(s.order) > 0, s.order[Len(s.order)] = t,
           \A i \in 1..Len(s.order) : s.order[i] = t => i = Len(s.order)
    PROVE  RSP!trim_to_capacity(s).tickets[t] = s.tickets[t]
<1> DEFINE excess == IF Len(s.order) > s.capacity THEN Len(s.order) - s.capacity ELSE 0
           evicted == {s.order[i] : i \in 1..excess}
<1>1. Len(s.order) \in Nat /\ s.capacity \in Nat /\ DOMAIN s.order = 1..Len(s.order)
  BY DEF RSP!ReviewStoreInner
<1>2. \A i \in 1..excess : i \in 1..Len(s.order) /\ i # Len(s.order)
  BY <1>1
<1>3. t \notin evicted
  BY <1>2
<1>4. RSP!trim_to_capacity(s).tickets
        = [d \in TicketIds |-> IF d \in evicted THEN None ELSE s.tickets[d]]
  <2>1. s = [capacity |-> s.capacity, order |-> s.order, tickets |-> s.tickets,
             pending |-> s.pending, overrides |-> s.overrides]
    BY DEF RSP!ReviewStoreInner
  <2> QED BY <2>1 DEF RSP!trim_to_capacity
<1> HIDE DEF evicted
<1> QED BY <1>3, <1>4

--------------------------------------------------------------------------------
(* The theorems                                                             *)

\* Nothing the built-in policy does not allow in clear leaves the perimeter
\* unless an administrator approved that very path and body, however the steps
\* of requests, administrators and the clock interleave (handle_proxy).
THEOREM NothingLeavesUnapproved == Spec => []NoUnapprovedExposure
<1>1. IInv => NoUnapprovedExposure
  <2> SUFFICES ASSUME IInv, NEW r \in Requests, Forwarded(r)
               PROVE  \/ ApprovalAsked(req[r])
                      \/ \A l \in req[r].sent :
                           action_for(req[r].rt.rules, req[r].principal, l) = "allow"
    BY DEF NoUnapprovedExposure
  <2>1. Sent(req[r], audits[r], asked, log)
    BY DEF IInv, RequestOK
  <2> QED BY <2>1, SameApproval DEF Sent, Forwarded, Cleared
<1> QED BY <1>1, Invariance, PTL

\* Whichever of the built-in policy, the session and OPA asks for a review or
\* a block, the request is not forwarded without an approval (combine, merge).
THEOREM StrictestWins == Spec => []StrictestHolds
<1>1. IInv => StrictestHolds
  <2>1. rank("redact") = 1
    BY Ranks
  <2> QED BY <2>1 DEF IInv, RequestOK, Sent, StrictestHolds, Forwarded, Approved
<1> QED BY <1>1, Invariance, PTL

\* A filtered response shows only what its principal may see, an escalation by
\* OPA empties it, and a changed body is recorded as redacted
\* (response_from_buffered_body).
THEOREM ResponsesContained == Spec => []ResponseContained
<1>1. IInv => ResponseContained
  BY DEF IInv, RequestOK, Answered, Contained, ResponseContained
<1> QED BY <1>1, Invariance, PTL

\* Where sessions are kept, the requests of a session that went out without
\* being escalated hold together fewer labels than some threshold in force:
\* splitting a payload over concurrent requests does not help
\* (record_and_check).
THEOREM SplitPayloadsDefeated == Spec => []SplitDefeated
<1>1. IInv => SplitDefeated
  <2> SUFFICES ASSUME IInv, SessionsKept, NEW id \in SessionIds,
                      NEW free \in SUBSET Requests, free # {},
                      free = {r \in Requests :
                                req[r].session = id /\ Forwarded(r) /\ ~req[r].escalated}
               PROVE  \E c \in Configs :
                        Cardinality(UNION {Findings[req[r].content] : r \in free})
                          < c.session.threshold
    BY DEF SplitDefeated
  <2> DEFINE all == UNION {Findings[req[r].content] : r \in free}
  <2>1. \A r \in free : Free(req[r], id)
    BY DEF Free, Scanned, Forwarded
  <2>2. PICK c \in Configs, U \in SUBSET Labels :
           /\ Cardinality(U) < c.session.threshold
           /\ \A r \in Requests : Free(req[r], id) => Findings[req[r].content] \subseteq U
    BY <2>1 DEF IInv, SplitOK
  <2>3. all \subseteq U
    BY <2>1, <2>2
  <2>4. IsFiniteSet(U)
    BY GatewayAssumption, FS_Subset
  <2>5. IsFiniteSet(all) /\ Cardinality(all) <= Cardinality(U)
    BY <2>3, <2>4, FS_Subset
  <2>6. Cardinality(U) \in Nat /\ Cardinality(all) \in Nat /\ c.session.threshold \in Nat
    BY <2>4, <2>5, FS_CardinalityType, GatewayAssumption DEF AppConfig, SessionConfig
  <2> HIDE DEF all
  <2>7. Cardinality(all) < c.session.threshold
    BY <2>2, <2>5, <2>6
  <2> QED BY <2>7 DEF all
<1> QED BY <1>1, Invariance, PTL

\* What a trail of records says.
LEMMA Told ==
    ASSUME NEW a \in Seq(Record)
    PROVE  LET said == [i \in DOMAIN a |-> a[i].decision]
           IN  /\ a = <<>> => said = <<>>
               /\ Len(said) = Len(a)
               /\ \A i \in 1..Len(a) : said[i] = a[i].decision
               /\ Len(a) = 1 => said = <<a[1].decision>>
               /\ Len(a) >= 1 => said # <<>>
<1> DEFINE said == [i \in DOMAIN a |-> a[i].decision]
<1>1. DOMAIN a = 1..Len(a) /\ Len(a) \in Nat
  OBVIOUS
<1>2. \A i \in 1..Len(a) : a[i].decision \in Actions
  <2>1. \A i \in 1..Len(a) : a[i] \in Record
    BY <1>1
  <2> QED BY <2>1 DEF Record
<1>3. said \in Seq(Actions) /\ Len(said) = Len(a) /\ \A i \in 1..Len(a) : said[i] = a[i].decision
  BY <1>1, <1>2
<1> HIDE DEF said
<1>4. a = <<>> => said = <<>>
  BY <1>3
<1>5. Len(a) = 1 => said = <<a[1].decision>>
  BY <1>3
<1>6. Len(a) >= 1 => said # <<>>
  BY <1>1, <1>3
<1> QED BY <1>3, <1>4, <1>5, <1>6 DEF said

LEMMA AtMostTwo ==
    ASSUME NEW q, NEW a, Staged(q, a), Answered(q, a)
    PROVE  Len(a) <= 2
<1>1. a = <<>> => Len(a) = 0
  OBVIOUS
<1>2. CASE q.stage \notin {"awaiting", "done"}
  BY <1>1, <1>2 DEF Staged
<1>3. CASE q.stage = "awaiting"
  <2>1. Len(a) = 1
    BY <1>3 DEF Answered
  <2> QED BY <2>1
<1>4. CASE q.stage = "done"
  <2>1. a = <<>> \/ Len(a) = 1 \/ Len(a) = 2
    BY <1>4 DEF Answered
  <2> QED BY <1>1, <2>1
<1> QED BY <1>2, <1>3, <1>4 DEF Staged, Stages

\* Every answer has its records and only those, a 502 whichever its cause left,
\* never that of a review; no body leaves before its record, and what left under
\* a "redact" record shows nothing the policy masks (proxy_handler, emit_audit).
THEOREM TrailTellsTheTruth == Spec => []AuditTrail
<1>1. IInv => TypeOK
  <2> SUFFICES ASSUME IInv PROVE TypeOK
    OBVIOUS
  <2>1. RS!TypeOK
    BY SameTypes DEF IInv, StoreOK, RSP!IInv
  <2>2. ASSUME NEW r \in Requests
        PROVE  /\ req[r].stage \in Stages
               /\ req[r].rt \in Configs \cup {None}
               /\ req[r].header \in TicketIds \cup {None}
               /\ req[r].sent \in (SUBSET Labels) \cup {None}
               /\ req[r].status \in {0, 200, 401, 403, 409, 502}
    BY DEF IInv, RequestOK, Staged, Sent, Answered
  <2>3. ASSUME NEW r \in Requests
        PROVE  Len(audits[r]) <= 2
    <3>1. Staged(req[r], audits[r]) /\ Answered(req[r], audits[r])
      BY DEF IInv, RequestOK
    <3> QED BY <3>1, AtMostTwo
  <2> QED BY <2>1, <2>2, <2>3 DEF TypeOK, IInv
<1>2. ASSUME IInv, NEW r \in Requests
      PROVE  LET said == [i \in DOMAIN audits[r] |-> audits[r][i].decision]
                 by(status) == req[r].status = status
             IN  /\ by(401) => said = <<>>
                 /\ by(403) => said = <<"block">>
                 /\ by(409) => said = <<"review">>
                 /\ by(200) => Len(said) = 2 /\ said[2] \in {"allow", "redact"}
                 /\ by(502) /\ ~Forwarded(r) => said \in {<<>>, <<"block">>, <<"allow">>, <<"redact">>}
                 /\ Forwarded(r) =>
                      /\ said # <<>>
                      /\ said[1] \in {"allow", "redact"}
                      /\ said[1] = "redact" =>
                           \A l \in req[r].sent :
                               action_for(req[r].rt.rules, req[r].principal, l) = "allow"
  <2> DEFINE q == req[r]
             a == audits[r]
             said == [i \in DOMAIN a |-> a[i].decision]
  <2>1. a \in Seq(Record) /\ Answered(q, a) /\ Sent(q, a, asked, log)
    BY <1>2 DEF IInv, RequestOK, Staged
  <2>2. /\ a = <<>> => said = <<>>
        /\ Len(said) = Len(a)
        /\ \A i \in 1..Len(a) : said[i] = a[i].decision
        /\ Len(a) = 1 => said = <<a[1].decision>>
        /\ Len(a) >= 1 => said # <<>>
    BY <2>1, Told
  <2>3. Len(a) \in Nat
    BY <2>1
  <2> HIDE DEF q, a, said
  <2>4. /\ q.status = 401 => said = <<>>
        /\ q.status = 403 => said = <<"block">>
        /\ q.status = 409 => said = <<"review">>
        /\ q.status = 200 => Len(said) = 2 /\ said[2] \in {"allow", "redact"}
        /\ q.status = 502 /\ q.sent = None => said \in {<<>>, <<"block">>, <<"allow">>, <<"redact">>}
    BY <2>1, <2>2, <2>3 DEF Answered
  <2>5. q.sent # None =>
          /\ said # <<>>
          /\ said[1] \in {"allow", "redact"}
          /\ said[1] = "redact" => Cleared(q)
    BY <2>1, <2>2, <2>3 DEF Sent
  <2> QED BY <2>4, <2>5 DEF q, a, said, Forwarded, Cleared
<1>3. IInv => AuditTrail
  BY <1>1, <1>2 DEF AuditTrail
<1> QED BY <1>3, Invariance, PTL

\* A client that is told of a ticket is told of one that is on file for its
\* tenant, path and body, and that an administrator finds among the pending
\* ones and can decide, unless a verdict on it could not be written: however
\* concurrent filings, verdicts, refused appends and evictions interleave
\* (upsert_pending, resolve, list).
THEOREM ToldTicketsCanBeDecided == Spec => ToldTicketDecidable
<1> DEFINE Ticketed(r, id) ==
             /\ \E i \in 1..Len(log') :
                  /\ log'[i].type = "created" /\ log'[i].id = id
                  /\ log'[i].fp = fingerprint(req[r])
             /\ \/ id \in list("pending", inner.capacity)'
                \/ \E e \in asked : e.id = id /\ \A i \in 1..Len(log) : log[i] # e
<1>1. ASSUME IInv, IInv', Waits, Waits', [Next]_vars, NEW r \in Requests,
             req[r].status = 0, req'[r].status = 409
      PROVE  Ticketed(r, req'[r].ticket)
  <2> DEFINE fp == fingerprint(req[r])
  <2>0. StoreOK /\ StoreOK' /\ Len(log) \in Nat /\ inner \in RSP!ReviewStoreInner
    BY <1>1 DEF IInv, StoreOK, RSP!IInv, RSP!TypeOK
  <2>l. AllListed'
    <3>1. (StoreOK /\ Waits)'
      BY <1>1, <2>0
    <3> QED BY <3>1, ListedAll, PTL
  <2>1. review_again(r) \/ \E id \in TicketIds : review_new(r, id, "ok")
    BY <1>1, AnsweredByReview
  <2>2. fp \in Fingerprints /\ req[r].principal.name \in Names
        /\ post_review_action(req[r]) \in {"allow", "redact"}
    <3>1. req[r].stage = "verdict"
      BY <2>1 DEF review_again, review_new, Verdict
    <3> QED BY <1>1, <3>1 DEF IInv, RequestOK, Staged, Identified, fingerprint, Fingerprints,
                Principal, post_review_action
  <2>3. ASSUME NEW id, Step(r, [stage |-> "done", status |-> 409, ticket |-> id])
        PROVE  req'[r].ticket = id
    <3> DEFINE upd == [stage |-> "done", status |-> 409, ticket |-> id]
    <3>1. "ticket" \in DOMAIN upd /\ upd["ticket"] = id /\ Step(r, upd)
      BY <2>3
    <3> HIDE DEF upd
    <3>2. \A f \in DOMAIN Idle : req'[r][f] = IF f \in DOMAIN upd THEN upd[f] ELSE req[r][f]
      BY <1>1, <3>1, Moved
    <3> QED BY <3>1, <3>2 DEF Idle
  <2>4. CASE review_again(r)
    <3> DEFINE t == inner.pending[fp]
    <3>1. /\ t # None /\ inner.tickets[t] # None /\ req'[r].ticket = t
          /\ inner' = RS!prune_expired_overrides(inner) /\ log' = log
      BY <2>3, <2>4 DEF review_again, RS!upsert_pending_existing, RS!HasPending
    <3>2. t \in TicketIds /\ inner.tickets[t].fp = fp
      BY <2>0, <2>2, <3>1 DEF StoreOK, RSP!IInv, RSP!IndexSound, RSP!IndexesAgree,
           RSP!ReviewStoreInner
    <3>3. inner' = RSP!prune_expired_overrides(inner)
      BY <3>1 DEF RS!prune_expired_overrides, RSP!prune_expired_overrides
    <3>4. inner'.tickets = inner.tickets
      BY <2>0, <3>3, RSP!PruneFields, StoreAssumption
    <3>5. OnFile(t)
      BY <2>0, <3>1, <3>2 DEF StoreOK
    <3>6. inner.tickets[t].status = "pending" \/ VerdictUnwritten(t)
      BY <1>1, <2>2, <3>2 DEF Waits
    <3>7. ASSUME inner.tickets[t].status = "pending"
          PROVE  t \in list("pending", inner.capacity)'
      <4>1. inner'.tickets[t] # None /\ inner'.tickets[t].status = "pending"
        BY <3>1, <3>4, <3>7
      <4> HIDE DEF t
      <4> QED BY <2>l, <3>2, <4>1 DEF AllListed
    <3>8. \E i \in 1..Len(log') :
            log'[i].type = "created" /\ log'[i].id = t /\ log'[i].fp = fp
      BY <3>1, <3>2, <3>5 DEF OnFile
    <3>9. \/ t \in list("pending", inner.capacity)'
          \/ \E e \in asked : e.id = t /\ \A i \in 1..Len(log) : log[i] # e
      BY <3>6, <3>7 DEF VerdictUnwritten
    <3> HIDE DEF t
    <3> QED BY <3>1, <3>8, <3>9
  <2>5. ASSUME NEW id \in TicketIds, review_new(r, id, "ok")
        PROVE  Ticketed(r, id) /\ req'[r].ticket = id
    <3> DEFINE p == req[r].principal.name
               post == post_review_action(req[r])
               e == [type |-> "created", id |-> id, fp |-> fp, principal |-> p, post |-> post]
               s == RSP!prune_expired_overrides(inner)
               w == RSP!WithTicket(s, e)
    <3>1. /\ RS!upsert_pending_new(id, fp, p, post, "ok") /\ req'[r].ticket = id
      BY <2>3, <2>5 DEF review_new
    <3>2. RSP!upsert_pending_new(id, fp, p, post, "ok")
      BY <3>1, SameUpsert
    <3>3. /\ RSP!append_review_event(e, "ok") /\ id \notin issued
          /\ inner' = RSP!trim_to_capacity(w)
      BY <3>2 DEF RSP!upsert_pending_new, RSP!AfterAppend
    <3>4. e \in RSP!CreatedEvents /\ e \in RSP!Lines
      BY <2>2 DEF RSP!CreatedEvents, RSP!Lines
    <3>5. Len(log) + 1 \in 1..Len(log') /\ log'[Len(log) + 1] = e
      <4>1. log' = Append(log, e)
        BY <2>0, <3>3 DEF RSP!append_review_event, RSP!WriteLine, StoreOK
      <4> HIDE DEF e
      <4> QED BY <2>0, <3>4, <4>1 DEF StoreOK, RSP!IInv, RSP!TypeOK
    <3>6. \E i \in 1..Len(log') :
            log'[i].type = "created" /\ log'[i].id = id /\ log'[i].fp = fp
      BY <3>5
    <3>7. /\ s \in RSP!ReviewStoreInner /\ s.order = inner.order /\ s.tickets = inner.tickets
          /\ s.capacity = inner.capacity
      BY <2>0, RSP!PruneFields, StoreAssumption
    <3>8. e.id = id
      OBVIOUS
    <3> HIDE DEF e, s
    <3>9. /\ w \in RSP!ReviewStoreInner /\ w.capacity = inner.capacity
          /\ w.order = Append(inner.order, id) /\ w.tickets[id] \in RSP!ReviewTicket
          /\ w.tickets[id].status = "pending"
      BY <3>4, <3>7, <3>8, RSP!WithTicketFields, StoreAssumption
    <3> HIDE DEF w
    <3>10. \A i \in 1..Len(inner.order) : inner.order[i] # id
      BY <1>1, <2>0, <2>5, <3>3 DEF StoreOK, RSP!IInv, RSP!MemorySound, Waits, RSP!QueueExact
    <3>11. /\ w.capacity > 0 /\ Len(w.order) > 0 /\ w.order[Len(w.order)] = id
           /\ \A i \in 1..Len(w.order) : w.order[i] = id => i = Len(w.order)
      <4>1. inner.order \in Seq(TicketIds) /\ Len(inner.order) \in Nat
        BY <2>0 DEF RSP!ReviewStoreInner
      <4>2. /\ Len(w.order) = Len(inner.order) + 1 /\ w.order[Len(inner.order) + 1] = id
            /\ \A i \in 1..Len(inner.order) : w.order[i] = inner.order[i]
        BY <2>5, <3>9, <4>1
      <4> QED BY <1>1, <3>9, <3>10, <4>1, <4>2 DEF Waits
    <3>12. inner'.tickets[id] = w.tickets[id]
      BY <2>5, <3>3, <3>9, <3>11, NewestStays
    <3>13. inner'.tickets[id] # None /\ inner'.tickets[id].status = "pending"
      BY <3>9, <3>12, StoreAssumption DEF RSP!ReviewStoreAssumption
    <3>14. id \in list("pending", inner.capacity)'
      BY <2>l, <2>5, <3>13 DEF AllListed
    <3> QED BY <3>1, <3>6, <3>14
  <2> QED BY <2>1, <2>4, <2>5
<1>2. IInv /\ IInv' /\ Waits /\ Waits' /\ [Next]_vars =>
        [\A r \in Requests : (req[r].status = 0 /\ req'[r].status = 409) =>
            LET id == req'[r].ticket IN Ticketed(r, id)]_vars
  BY <1>1
<1> QED BY <1>2, Invariance, WaitsInvariance, PTL DEF Spec, ToldTicketDecidable
================================================================================
