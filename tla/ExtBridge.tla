-------------------------------- MODULE ExtBridge --------------------------------
(***************************************************************************)
(* The browser extension (src/ext): the page's fetch and XMLHttpRequest    *)
(* are wrapped in the MAIN world; bodies go to the ISOLATED world by       *)
(* postMessage, are scrubbed there by ctxward-core (redact_api.rs) and     *)
(* come back the same way, against a timer.                                *)
(*                                                                         *)
(* Both worlds run on the page's event loop: an action is one task with    *)
(* its microtasks.  "tasks" are the posted messages in order.  A message   *)
(* delivered before the isolated script is there finds no listener.        *)
(***************************************************************************)
EXTENDS Payload

CONSTANTS
    Requests,       \* the calls of fetch and send the page makes
    BodyOf,         \* [Requests -> bodies of module Payload]
    Loads,          \* the configurations fetching the rules may give
    None

\* A string, and what the detector with these rules finds in it.
string_holds(load, text) ==
    /\ text.len \in Nat
    /\ text.hits \subseteq [start : Nat, end : Nat, label : DOMAIN load.rules, by : {"detector"}]
    /\ \A h \in text.hits : h.start < h.end /\ h.end <= text.len

\* Neither Presidio nor a tokenizer is in the browser, and the bundled rules
\* (default-rules.json) tokenize nothing.
ASSUME ExtBridgeAssumption ==
    /\ IsFiniteSet(Requests)
    /\ None \notin Loads
    /\ \A load \in Loads :
         /\ load.presidio = "off" /\ ~load.tokenization.enabled
         /\ \A l \in DOMAIN load.rules :
              /\ load.rules[l].masking # "tokenize"
              /\ {load.rules[l].authorized, load.rules[l].unauthorized} \subseteq Actions
    /\ \A r \in Requests :
         /\ BodyOf[r].kind \in {"json", "text"}
         /\ \A k \in DOMAIN BodyOf[r].parts :
              /\ BodyOf[r].kind = "text" => BodyOf[r].parts[k].string
              /\ \A i \in DOMAIN BodyOf[r].parts[k].nodes : \A load \in Loads :
                   string_holds(load, BodyOf[r].parts[k].nodes[i])

VARIABLES
    req,            \* per request [state, kind, covered, sent]
    seq,
    pending,        \* the Map: pairs <<id, request>>
    tasks,          \* messages posted and not delivered
    isolated,       \* "absent", "booting", "ready" or "failed"
    rules,          \* rulesJson, or None
    queue           \* messages that arrived during boot

vars == <<req, seq, pending, tasks, isolated, rules, queue>>

--------------------------------------------------------------------------------
(* redact_api.rs                                                            *)

local_principal ==
    [name |-> "extension", tenant |-> "local", clearance |-> 0, allowed_labels |-> {}]

\* A string whose masking fails is left as it is.
redact_string(load, text) ==
    LET found == findings_in(load, local_principal, text, <<"/">>, <<1, 1>>)
    IN  IF redact_fails(load, text, found) THEN {} ELSE masked_by(found)

\* redact_value visits every string, of ignored pointers too; unusable rules
\* leave the body as it is.
redact_json(load, body) ==
    IF ~detector_compiles(load) THEN NoMasks(body)
    ELSE [k \in DOMAIN body.parts |->
            [i \in DOMAIN body.parts[k].nodes |->
                IF body.parts[k].string THEN redact_string(load, body.parts[k].nodes[i]) ELSE {}]]

--------------------------------------------------------------------------------
(* The MAIN world                                                           *)

\* What a request carries away: whose body, with which masks; None: none.
Carries(r, masks) == [of |-> r, masks |-> masks]
Empty == [of |-> None, masks |-> None]

\* Mutant: ids are reused once they are free.
next_id_reused == CHOOSE i \in 1..(seq + 1) : \A p \in pending : p[1] # i

next_id == seq + 1

\* fetch and send: another endpoint, or a body that is no string, is sent as
\* it is; otherwise scrub posts the body and sets the timer.
send(r, kind, covered) ==
    /\ req[r].state = "idle"
    /\ IF covered
       THEN /\ req' = [req EXCEPT ![r] = [@ EXCEPT !.state = "waiting", !.kind = kind,
                                                   !.covered = TRUE]]
            /\ seq' = seq + 1
            /\ pending' = pending \cup {<<next_id, r>>}
            /\ tasks' = Append(tasks, [type |-> "redact", id |-> next_id, of |-> r])
       ELSE /\ req' = [req EXCEPT ![r] = [@ EXCEPT !.state = "sent", !.kind = kind,
                                            !.sent = Carries(r, NoMasks(BodyOf[r]))]]
            /\ UNCHANGED <<seq, pending, tasks>>
    /\ UNCHANGED <<isolated, rules, queue>>

\* The promise of a request is resolved with a body; a second resolve of one
\* promise would do nothing, but the continuation has run.
Settle(p, carried) ==
    [req EXCEPT ![p[2]] = [@ EXCEPT !.state = "sent", !.sent = carried]]

\* Mutant: the entry stays in the map.
timeout_keeping(p) ==
    /\ p \in pending
    /\ req[p[2]].state = "waiting"
    /\ req' = IF req[p[2]].kind = "xhr" THEN Settle(p, Empty)
              ELSE [req EXCEPT ![p[2]].state = "rejected"]
    /\ UNCHANGED <<seq, pending, tasks, isolated, rules, queue>>

\* Mutant: the timer runs only while the bridge is there.
timeout_when_ready(p) ==
    /\ p \in pending
    /\ isolated = "ready"
    /\ pending' = pending \ {p}
    /\ req' = IF req[p[2]].kind = "xhr" THEN Settle(p, Empty)
              ELSE [req EXCEPT ![p[2]].state = "rejected"]
    /\ UNCHANGED <<seq, tasks, isolated, rules, queue>>

\* RESPONSE_TIMEOUT_MS passed: fetch rejects, send goes out with an empty body.
timeout(p) ==
    /\ p \in pending
    /\ pending' = pending \ {p}
    /\ req' = IF req[p[2]].kind = "xhr" THEN Settle(p, Empty)
              ELSE [req EXCEPT ![p[2]].state = "rejected"]
    /\ UNCHANGED <<seq, tasks, isolated, rules, queue>>

--------------------------------------------------------------------------------
(* The ISOLATED world                                                       *)

\* Mutant: if redactFn throws the body is echoed.
handle_echoing(msg, thrown) ==
    [type |-> "redacted", id |-> msg.id,
     body |-> Carries(msg.of, IF thrown THEN NoMasks(BodyOf[msg.of])
                              ELSE redact_json(rules', BodyOf[msg.of]))]

\* handle: if redactFn throws the answer is the empty string, never the body.
handle(msg, thrown) ==
    [type |-> "redacted", id |-> msg.id,
     body |-> IF thrown THEN Empty ELSE Carries(msg.of, redact_json(rules', BodyOf[msg.of]))]

\* The script runs: the listener is there, boot has begun.
inject ==
    /\ isolated = "absent"
    /\ isolated' = "booting"
    /\ UNCHANGED <<req, seq, pending, tasks, rules, queue>>

\* boot ends well and answers what has arrived; "thrown" says for which of it
\* redactFn throws.
boot(load, thrown) ==
    /\ isolated = "booting"
    /\ isolated' = "ready"
    /\ rules' = load
    /\ tasks' = tasks \o [i \in DOMAIN queue |-> handle(queue[i], queue[i].id \in thrown)]
    /\ queue' = <<>>
    /\ UNCHANGED <<req, seq, pending>>

boot_fails ==
    /\ isolated = "booting"
    /\ isolated' = "failed"
    /\ UNCHANGED <<req, seq, pending, tasks, rules, queue>>

--------------------------------------------------------------------------------
(* Messages                                                                 *)

\* The isolated listener: the body is scrubbed, kept for later or lost.
deliver_redact(thrown) ==
    /\ tasks # <<>>
    /\ Head(tasks).type = "redact"
    /\ UNCHANGED rules
    /\ tasks' = IF isolated = "ready" THEN Append(Tail(tasks), handle(Head(tasks), thrown))
                ELSE Tail(tasks)
    /\ queue' = IF isolated \in {"booting", "failed"} THEN Append(queue, Head(tasks)) ELSE queue
    /\ UNCHANGED <<req, seq, pending, isolated>>

\* The MAIN listener: an answer nobody waits for any longer is ignored.
deliver_redacted ==
    /\ tasks # <<>>
    /\ Head(tasks).type = "redacted"
    /\ tasks' = Tail(tasks)
    /\ LET answered == {p \in pending : p[1] = Head(tasks).id}
       IN  /\ pending' = pending \ answered
           /\ req' = IF answered = {} THEN req
                     ELSE Settle(CHOOSE p \in answered : TRUE, Head(tasks).body)
    /\ UNCHANGED <<seq, isolated, rules, queue>>

--------------------------------------------------------------------------------
Init ==
    /\ req = [r \in Requests |->
                [state |-> "idle", kind |-> None, covered |-> FALSE, sent |-> None]]
    /\ seq = 0
    /\ pending = {}
    /\ tasks = <<>>
    /\ isolated = "absent"
    /\ rules = None
    /\ queue = <<>>

Ids == {queue[i].id : i \in DOMAIN queue}

Deliver == deliver_redacted \/ \E thrown \in BOOLEAN : deliver_redact(thrown)

Next ==
    \/ \E r \in Requests, kind \in {"fetch", "xhr"}, covered \in BOOLEAN : send(r, kind, covered)
    \/ \E p \in pending : timeout(p)
    \/ inject
    \/ \E load \in Loads, thrown \in SUBSET Ids : boot(load, thrown)
    \/ boot_fails
    \/ Deliver

\* The browser fires timers and delivers messages; that the isolated script is
\* ever injected, or boots, is not assumed.
Spec ==
    /\ Init /\ [][Next]_vars
    /\ WF_vars(\E p \in pending : timeout(p))
    /\ WF_vars(Deliver)

--------------------------------------------------------------------------------
(* Properties                                                               *)

\* A waiting request has its entry, under an id of its own that was handed out;
\* what waits for the boot is answered by it.
TypeOK ==
    /\ seq \in 0..Cardinality(Requests)
    /\ \A r \in Requests :
         /\ req[r].state \in {"idle", "waiting", "sent", "rejected"}
         /\ req[r].state = "waiting" => \E p \in pending : p[2] = r
    /\ \A p, q \in pending : p[1] \in 1..seq /\ (p[1] = q[1] => p = q)
    /\ isolated = "ready" => queue = <<>>

\* Of a covered request's body no string leaves with a value readable that the
\* rules mask, whether the bridge is absent, late, failing or answering: the
\* mask is at least that of the gateway's own text pipeline.
NoRawBody ==
    (rules # None => detector_compiles(rules)) =>
        \A r \in Requests :
            LET carried == req[r].sent
                gateway == process_payload(rules, local_principal, BodyOf[r], "request")
            IN  (req[r].covered /\ carried # None /\ carried # Empty) =>
                  /\ rules # None
                  /\ gateway.ok
                  /\ \A k \in DOMAIN gateway.masks : \A i \in DOMAIN gateway.masks[k] :
                       gateway.masks[k][i] \subseteq carried.masks[k][i]

\* A request carries its own body or none, though answers may come in any
\* order and after their timer: an id is handed out once (TypeOK).
OwnBody ==
    TypeOK /\ \A r \in Requests :
        req[r].sent # None => req[r].sent.of \in {r, None}

\* A request is sent or rejected once: a late answer changes nothing.
SettledOnce ==
    [][\A r \in Requests :
        req[r].state \in {"sent", "rejected"} => req'[r] = req[r]]_vars

\* No request of the page hangs, not even if the isolated script is never
\* injected or its boot fails.
EverySettles ==
    \A r \in Requests :
        (req[r].state = "waiting") ~> (req[r].state \in {"sent", "rejected"})
================================================================================
