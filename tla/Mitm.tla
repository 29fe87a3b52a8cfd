---------------------------------- MODULE Mitm ----------------------------------
(***************************************************************************)
(* What leaves the machine and what comes back: the transparent proxy      *)
(* (src/mitm, src/proxy_mode.rs) with its host classifier, hot-updated     *)
(* from a signed rule-set, and the forwarding rule of the reverse proxy,   *)
(* both over the payload pipeline of module Payload.                       *)
(*                                                                         *)
(* An exchange is one request and its reply.  handle_request filters the   *)
(* body first, waiting for Presidio, and reads the classifier again when   *)
(* it forwards; the updater may swap it in between.  A host is the         *)
(* sequence of its labels, top-level domain first.                         *)
(***************************************************************************)
EXTENDS Payload, SequencesExt

CONSTANTS
    Exchanges,      \* the requests that may be made
    Hosts,
    Baked,          \* default_intercept_hosts, host patterns
    BakedSigns,     \* default_signs_body_hosts
    Static,         \* the operator's ProxyConfig: a rule-set without version
    Feeds,          \* what the rule-set URL may serve
    Settings,       \* the runtime configurations the process may run with
    Bodies,         \* the requests clients may send
    Replies,        \* the bodies upstreams may answer with
    Caller,         \* a principal of the reverse proxy
    None

\* A detector's match lies in its text; what Presidio reports may not.
text_holds(text) ==
    /\ text.len \in Nat
    /\ IsFiniteSet(text.hits)
    /\ \A h \in text.hits : h.by = "detector" => h.start < h.end /\ h.end <= text.len

\* Only a document is broken.  A PDF page is searched for what was matched, so
\* all its hits lie in it; what is neither PDF nor OOXML is one text.
part_holds(p) ==
    /\ p.state = "broken" => media_type(p) \in {"application/pdf", "ooxml"}
    /\ media_type(p) = "application/pdf" =>
         \A i \in DOMAIN p.nodes : \A h \in p.nodes[i].hits :
             h.start < h.end /\ h.end <= p.nodes[i].len
    /\ extract_attachment_content(p) \notin {"Pdf", "Ooxml"} => Len(p.nodes) = 1

\* The hits of a body have rules.
ASSUME MitmAssumption ==
    /\ \A p \in Baked \cup BakedSigns : p.kind \in {"exact", "wildcard"}
    /\ \A f \in Feeds : f.version \in Nat
    /\ None \notin Bodies \cup Replies /\ None \notin {"blocked", "refused"}
    /\ \A s \in Settings :
         /\ s.tokenization = [enabled |-> s.tokenization.enabled, key |-> s.tokenization.key,
                              prefix |-> s.tokenization.prefix]
         /\ s.max_text_chars \in Nat
         /\ s.presidio \in {"off", "up", "down"}
         /\ \A l \in DOMAIN s.rules :
              {s.rules[l].authorized, s.rules[l].unauthorized} \subseteq Actions
         /\ \A b \in Bodies \cup Replies : \A n \in nodes_of(b) :
              b.parts[n[1]].nodes[n[2]].hits \subseteq
                  [start : Nat, end : Nat, label : DOMAIN s.rules, by : {"detector", "presidio"}]
    /\ \A b \in Bodies \cup Replies : \A k \in DOMAIN b.parts :
         /\ Len(b.parts[k].nodes) \in Nat
         /\ DOMAIN b.parts[k].nodes = 1..Len(b.parts[k].nodes)
         /\ \A i \in DOMAIN b.parts[k].nodes : text_holds(b.parts[k].nodes[i])
         /\ b.kind = "multipart" => part_holds(b.parts[k])

VARIABLES
    setting,        \* the runtime, fixed while the process runs
    classifier,     \* SharedClassifier
    version,        \* current_version of the updater
    ex,             \* the exchanges
    offered         \* history: the signed rule-sets this process was served

vars == <<setting, classifier, version, ex, offered>>

\* Nothing of a body is masked; how it is written on is another matter.
raw(body) == NoMasks(body)

\* How a body is written: compressed; JSON as serde_json would not write it
\* (spaces, the order of keys).
Written == [encoded : BOOLEAN, loose : BOOLEAN]

\* hudsucker's: the body decompressed, its Content-Encoding stripped.
decode_request(form) == [form EXCEPT !.encoded = FALSE]

\* JSON that was looked at is written anew, masked or not.
to_vec(body, form) == IF body.kind = "json" THEN [form EXCEPT !.loose = FALSE] ELSE form

local_principal ==
    [name |-> "local", tenant |-> "local", clearance |-> 0, allowed_labels |-> {}]

--------------------------------------------------------------------------------
(* The classifier                                                           *)

\* A pattern is [kind, host] or a regular expression [kind, hosts], the hosts
\* it matches or None if it cannot be compiled.
compiles(p) == p.kind = "regex" => p.hosts # None

\* A wildcard does not match the domain it is of.
matches(p, host) ==
    CASE p.kind = "exact"    -> host = p.host
      [] p.kind = "wildcard" -> IsStrictPrefix(p.host, host)
      [] p.kind = "regex"    -> host \in p.hosts

\* A pattern that cannot be compiled is left out.
compile_all(patterns) == {p \in patterns : compiles(p)}

any_matches(patterns, host) == \E p \in patterns : matches(p, host)

Classifier(floor, yes, no, default, signing) ==
    [floor |-> compile_all(floor), intercept |-> compile_all(yes),
     passthrough |-> compile_all(no), default |-> default,
     signs_body |-> compile_all(signing)]

from_config(cfg) ==
    Classifier({}, cfg.intercept, cfg.passthrough, cfg.default, cfg.signs_body)

\* Mutant: the baked-in hosts are added to the rule-set's, which passthrough
\* overrides.
from_ruleset_united(rs) ==
    Classifier({}, rs.intercept \cup Baked, rs.passthrough, rs.default,
               rs.signs_body \cup BakedSigns)

\* Of the operator's lists nothing is kept.
from_ruleset(rs) ==
    Classifier(Baked, rs.intercept, rs.passthrough, rs.default, rs.signs_body \cup BakedSigns)

classify(c, host) ==
    CASE any_matches(c.floor, host) -> "intercept"
      [] ~any_matches(c.floor, host) /\ any_matches(c.passthrough, host) -> "passthrough"
      [] ~any_matches(c.floor \cup c.passthrough, host) /\ any_matches(c.intercept, host) ->
           "intercept"
      [] OTHER -> c.default

signs_body(c, host) == any_matches(c.signs_body, host)

--------------------------------------------------------------------------------
(* The rule-set updater                                                     *)

\* The download is within MAX_RULESET_BYTES.
fetch_ruleset(feed) == feed.fits

parse_and_verify(feed) == feed.signed

\* Mutant: any other version is taken.
newer_if_different(feed) == feed.version # version

newer(feed) == feed.version > version

\* A rule-set of version 0 is never newer.
usable == {f \in offered : f.version > 0}

\* One round of the updater; whatever fails leaves the classifier as it is.
poll(feed) ==
    LET verified == fetch_ruleset(feed) /\ parse_and_verify(feed)
    IN  /\ classifier' = IF verified /\ newer(feed) THEN from_ruleset(feed) ELSE classifier
        /\ version' = IF verified /\ newer(feed) THEN feed.version ELSE version
        /\ offered' = IF feed.fits /\ feed.signed THEN offered \cup {feed} ELSE offered
        /\ UNCHANGED <<setting, ex>>

--------------------------------------------------------------------------------
(* The transparent proxy                                                    *)

Idle ==
    [stage |-> "idle", front |-> None, host |-> None, updated |-> FALSE, body |-> None,
     came |-> None, result |-> None, sent |-> None, went |-> None, answer |-> None, cfg |-> None,
     reply |-> None, shown |-> None, records |-> <<>>]

\* A record of emit_decision_telemetry: direction and decision.
Record(direction, result) == [direction |-> direction, decision |-> result.decision]

\* should_intercept, when the client opens a tunnel.
should_intercept(e, host) ==
    /\ ex[e].stage = "idle"
    /\ ex' = [ex EXCEPT ![e] =
                [@ EXCEPT !.stage = IF classify(classifier, host) = "intercept"
                                    THEN "open" ELSE "tunnel",
                          !.front = "mitm", !.host = host, !.updated = usable # {}]]
    /\ UNCHANGED <<setting, classifier, version, offered>>

\* bad_gateway: nothing of the message is handed on.
bad_gateway(e) == [ex EXCEPT ![e] = [@ EXCEPT !.stage = "done", !.answer = "error"]]

\* decode_request fails, or the body breaks off.
undecodable(e) ==
    /\ ex[e].stage = "open"
    /\ ex' = bad_gateway(e)
    /\ UNCHANGED <<setting, classifier, version, offered>>

\* filter_body on the request, as its client wrote it.
filter_body(e, body, form) ==
    LET result == process_payload(setting, local_principal, body, "request")
    IN  /\ ex[e].stage = "open"
        /\ form.loose => body.kind = "json"
        /\ ex' = IF result.ok
                 THEN [ex EXCEPT ![e] = [@ EXCEPT !.stage = "filtered", !.body = body,
                                                  !.came = form, !.cfg = setting,
                                                  !.result = result]]
                 ELSE [bad_gateway(e) EXCEPT ![e].body = body, ![e].cfg = setting]
        /\ UNCHANGED <<setting, classifier, version, offered>>

\* What leaves of a filtered request, and how it is written: a host that signs
\* gets the body as it was after decode_request, whatever came of filtering it.
sent_on(x) ==
    IF signs_body(classifier, x.host)
    THEN [masks |-> raw(x.body), form |-> decode_request(x.came)]
    ELSE [masks |-> x.result.masks, form |-> to_vec(x.body, decode_request(x.came))]

\* Mutant: a blocked request is not recorded.
handle_request_silent(e) ==
    LET x == ex[e]
    IN  /\ x.stage = "filtered"
        /\ ex' = [ex EXCEPT ![e] =
             IF x.result.decision = "block"
             THEN [x EXCEPT !.stage = "done", !.answer = "blocked"]
             ELSE [x EXCEPT !.stage = "waiting", !.records = <<Record("request", x.result)>>,
                            !.updated = usable # {},
                            !.sent = sent_on(x).masks, !.went = sent_on(x).form]]
        /\ UNCHANGED <<setting, classifier, version, offered>>

\* The rest of handle_request: only block stops it.
handle_request(e) ==
    LET x == [ex[e] EXCEPT !.records = <<Record("request", ex[e].result)>>]
    IN  /\ ex[e].stage = "filtered"
        /\ ex' = [ex EXCEPT ![e] =
             IF x.result.decision = "block"
             THEN [x EXCEPT !.stage = "done", !.answer = "blocked"]
             ELSE [x EXCEPT !.stage = "waiting", !.updated = usable # {},
                            !.sent = sent_on(ex[e]).masks, !.went = sent_on(ex[e]).form]]
        /\ UNCHANGED <<setting, classifier, version, offered>>

\* The upstream cannot be reached, or its answer cannot be decoded.
handle_error(e) ==
    /\ ex[e].stage = "waiting"
    /\ ex' = bad_gateway(e)
    /\ UNCHANGED <<setting, classifier, version, offered>>

\* An answer that is not a stream: filtered, never refused.
handle_response(e, reply) ==
    LET result == process_payload(setting, local_principal, reply, "response")
    IN  /\ ex[e].stage = "waiting"
        /\ ex' = IF result.ok
                 THEN [ex EXCEPT ![e] =
                         [@ EXCEPT !.stage = "done", !.answer = "ok", !.reply = reply,
                                   !.shown = result.masks,
                                   !.records = Append(ex[e].records, Record("response", result))]]
                 ELSE [bad_gateway(e) EXCEPT ![e].reply = reply]
        /\ UNCHANGED <<setting, classifier, version, offered>>

--------------------------------------------------------------------------------
(* The reverse proxy, without OPA, sessions and approvals (module Gateway)  *)

\* What was allowed is sent as the bytes that came.
outbound_body(body, form, result) ==
    IF result.decision = "redact"
    THEN [masks |-> result.masks, form |-> to_vec(body, form)]
    ELSE [masks |-> raw(body), form |-> form]

\* handle_proxy as far as it depends on the payload: an error is answered and
\* recorded as a block.  Nothing is decompressed here: a compressed body is one
\* that is no text.
handle_proxy(e, body, form) ==
    LET result  == process_payload(setting, Caller, body, "request")
        forward == result.ok /\ result.decision \notin {"review", "block"}
        out     == outbound_body(body, form, result)
    IN  /\ ex[e].stage = "idle"
        /\ ~form.encoded /\ (form.loose => body.kind = "json")
        /\ ex' = [ex EXCEPT ![e] =
             [@ EXCEPT !.stage = "done", !.front = "reverse", !.body = body, !.came = form,
                       !.result = result, !.cfg = setting,
                       !.sent = IF forward THEN out.masks ELSE None,
                       !.went = IF forward THEN out.form ELSE None,
                       !.answer = CASE ~result.ok -> "error" [] forward -> "ok"
                                    [] OTHER -> "refused",
                       !.records = <<IF result.ok THEN Record("request", result)
                                     ELSE [direction |-> "request", decision |-> "block"]>>]]
        /\ UNCHANGED <<setting, classifier, version, offered>>

--------------------------------------------------------------------------------
\* The process ends and run_proxy starts another, which knows no rule-set.
restart(s) ==
    /\ loads(s)
    /\ setting' = s
    /\ classifier' = from_config(Static)
    /\ version' = 0
    /\ offered' = {}
    /\ ex' = [e \in Exchanges |->
                IF ex[e].stage \in {"idle", "done"} THEN ex[e]
                ELSE [ex[e] EXCEPT !.stage = "lost"]]

Init ==
    /\ setting \in {s \in Settings : loads(s)}
    /\ classifier = from_config(Static)
    /\ version = 0
    /\ offered = {}
    /\ ex = [e \in Exchanges |-> Idle]

Next ==
    \/ \E e \in Exchanges :
         \/ \E host \in Hosts : should_intercept(e, host)
         \/ \E body \in Bodies, form \in Written :
              filter_body(e, body, form) \/ handle_proxy(e, body, form)
         \/ \E reply \in Replies : handle_response(e, reply)
         \/ undecodable(e) \/ handle_request(e) \/ handle_error(e)
    \/ \E feed \in Feeds : poll(feed)
    \/ \E s \in Settings : restart(s)

Spec == Init /\ [][Next]_vars

--------------------------------------------------------------------------------
(* What the pipeline should have done, said without its operators           *)

\* The engines in use report h, and the principal may not show it.
Sensitive(cfg, principal, h) ==
    /\ h.by = "detector" \/ cfg.presidio = "up"
    /\ action_for(cfg.rules, principal, h.label) # "allow"

\* The characters of a hit, up to the end of its text.
WithinText(text, h) == h.start..(IF h.end > text.len THEN text.len - 1 ELSE h.end - 1)

\* The nodes of the part before node i hold Before(p, i) characters.
Before(p, i) ==
    LET upto[j \in 0..Len(p.nodes)] == IF j = 0 THEN 0 ELSE upto[j - 1] + p.nodes[j].len
    IN  upto[i - 1]

Attachments(cfg, body, direction) ==
    body.kind = "multipart" /\ direction = "request" /\ cfg.attachments

\* The texts that count: strings of a JSON body, plain texts, and the text of
\* attachments of an allowed type up to the limit.
Looked(cfg, body, direction, k, h, i) ==
    LET p == body.parts[k]
    IN  IF Attachments(cfg, body, direction)
        THEN /\ is_attachment(p)
             /\ media_type(p) \in cfg.allowed_media_types
             /\ \/ media_type(p) \in {"text/plain", "application/pdf", "ooxml"}
                \/ p.extension = "docx"
             /\ Before(p, i) + h.end <= cfg.max_text_chars
        ELSE IF body.kind = "json"
        THEN p.string /\ p.name \notin cfg.ignore_json_pointers
        ELSE body.utf8

\* A part of the value is taken by another that is masked: one that begins
\* before it or, on a PDF page, where the longest are replaced first, one that
\* is not shorter.
Shaded(cfg, principal, page, text, h) ==
    \E g \in text.hits \ {h} :
        /\ WithinText(text, g) \cap WithinText(text, h) # {}
        /\ IF page THEN action_for(cfg.rules, principal, g.label) # "allow" /\ ~longer(h, g)
           ELSE Sensitive(cfg, principal, g) /\ g.start < h.start

\* Every sensitive value of a text is masked whole, or at least not readable
\* whole if it is shaded.
Covered(cfg, principal, page, text, h, mask) ==
    /\ WithinText(text, h) \cap mask # {}
    /\ WithinText(text, h) \subseteq mask \/ Shaded(cfg, principal, page, text, h)

Hidden(cfg, principal, body, direction, masks) ==
    \A k \in DOMAIN body.parts : \A i \in DOMAIN body.parts[k].nodes :
        LET text == body.parts[k].nodes[i]
            page == Attachments(cfg, body, direction)
                    /\ media_type(body.parts[k]) = "application/pdf"
        IN  \A h \in text.hits :
              (/\ Sensitive(cfg, principal, h)
               /\ WithinText(text, h) # {}
               /\ Looked(cfg, body, direction, k, h, i)
              ) => Covered(cfg, principal, page, text, h, masks[k][i])

\* Nothing but values of labels the principal may not show is masked.
NothingElse(cfg, principal, body, masks) ==
    \A k \in DOMAIN body.parts : \A i \in DOMAIN body.parts[k].nodes :
        LET text == body.parts[k].nodes[i]
        IN  masks[k][i] \subseteq UNION {WithinText(text, h) :
              h \in {g \in text.hits : action_for(cfg.rules, principal, g.label) # "allow"}}

Masks(cfg, principal, body, direction, masks) ==
    /\ Hidden(cfg, principal, body, direction, masks)
    /\ NothingElse(cfg, principal, body, masks)

\* Hosts some configuration or rule-set marks as signing their bodies.
Signing ==
    {h \in Hosts : any_matches(compile_all(BakedSigns \cup Static.signs_body
                                  \cup UNION {f.signs_body : f \in Feeds}), h)}

\* Two attachments go by the same name (their findings have the same pointer).
SameNamed(body) ==
    /\ body.kind = "multipart"
    /\ \E j, k \in DOMAIN body.parts :
         /\ j # k
         /\ is_attachment(body.parts[j]) /\ is_attachment(body.parts[k])
         /\ pointer_name(body.parts[j]) = pointer_name(body.parts[k])

--------------------------------------------------------------------------------
(* Properties                                                               *)

\* The stages of an exchange, and spans of findings that lie inside their text
\* whatever offsets Presidio reports (char_offset_to_byte_index clamps them).
TypeOK ==
    /\ setting \in Settings
    /\ version \in {0} \cup {f.version : f \in Feeds}
    /\ offered \subseteq Feeds
    /\ \A e \in Exchanges :
         /\ ex[e].stage \in {"idle", "tunnel", "open", "filtered", "waiting", "done", "lost"}
         /\ ex[e].host \in Hosts \cup {None}
         /\ ex[e].body \in Bodies \cup {None}
         /\ ex[e].result # None /\ ex[e].result.ok =>
              \A f \in ex[e].result.findings :
                  /\ f.start < f.end
                  /\ f.end <= ex[e].body.parts[f.at[1]].nodes[f.at[2]].len

\* What leaves the machine shows no value the principal may not show, of all
\* the engines found: whichever findings overlap, on whichever page or node of
\* an attachment they stand.  Allowed to leave unmasked: a request to a host
\* that signs its bodies, one with same-named attachments (AttachmentsRewritten)
\* and, in the transparent proxy, one whose attachments call for a review.
FoundIsMasked ==
    \A e \in Exchanges :
        LET x == ex[e]
            principal == IF x.front = "mitm" THEN local_principal ELSE Caller
        IN  /\ (/\ x.sent # None
                /\ ~(x.front = "mitm" /\ x.sent = raw(x.body) /\ x.host \in Signing)
                /\ ~SameNamed(x.body)
                /\ ~(/\ x.front = "mitm" /\ x.result.decision = "review"
                     /\ Attachments(x.cfg, x.body, "request"))
               ) => Masks(x.cfg, principal, x.body, "request", x.sent)
            /\ x.shown # None =>
                 Masks(x.cfg, local_principal, x.reply, "response", x.shown)

\* Findings lie inside their text (TypeOK), and a value of an attachment is
\* overlooked only where the characters before its end exceed max_text_chars:
\* pages and nodes share the limit, and nothing of it is lost between them.
MissedOnlyBeyondLimit ==
    TypeOK /\ \A e \in Exchanges :
        LET x == ex[e]
        IN  (x.result # None /\ x.result.ok /\ Attachments(x.cfg, x.body, "request")) =>
              \A k \in DOMAIN x.body.parts : \A i \in DOMAIN x.body.parts[k].nodes :
                  \A h \in x.body.parts[k].nodes[i].hits :
                      (h.by = "detector" /\ Looked(x.cfg, x.body, "request", k, h, i)) =>
                          \E f \in x.result.findings :
                              /\ f.at = <<k, i>> /\ f.label = h.label
                              /\ f.start = h.start /\ f.end = h.end

\* One attachment that is too large or cannot be read stops the whole request,
\* whatever the other parts hold.
FailureStopsAll ==
    \A e \in Exchanges :
        LET x == ex[e]
        IN  (/\ x.body # None
             /\ Attachments(x.cfg, x.body, "request")
             /\ \E k \in DOMAIN x.body.parts :
                  LET p == x.body.parts[k]
                  IN  /\ is_attachment(p) /\ media_type(p) \in x.cfg.allowed_media_types
                      /\ p.size > x.cfg.max_bytes \/ p.state = "broken"
            ) => x.sent = None

\* Once a rule-set was applied no baked-in provider is tunnelled, and of a body
\* its client signed for a baked-in host nothing is masked or written anew,
\* whatever the rule-set says and whenever it arrives: it leaves byte for byte
\* unless it came compressed.  Then what leaves is what decode_request made of
\* it, which is not what was signed.
FloorHeld ==
    \A e \in Exchanges :
        ex[e].front = "mitm" /\ ex[e].updated =>
            /\ ex[e].stage = "tunnel" => ~any_matches(Baked, ex[e].host)
            /\ ex[e].sent # None /\ any_matches(BakedSigns, ex[e].host) =>
                 /\ ex[e].sent = raw(ex[e].body)
                 /\ ex[e].went = [ex[e].came EXCEPT !.encoded = FALSE]

\* In one life of the process the classifier is that of the newest signed
\* rule-set it was served, in whatever order they came; older, unsigned and
\* oversized ones, and one of version 0, change nothing.
LatestSigned ==
    IF usable = {} THEN classifier = from_config(Static)
    ELSE \E f \in usable :
           /\ \A g \in usable : g.version <= f.version
           /\ version = f.version
           /\ classifier = from_ruleset(f)

\* What left, and what policy stopped, is on record; what a record calls
\* blocked was not sent, nor by the reverse proxy what it calls reviewed, and
\* of what it calls allowed nothing was masked.  The reverse proxy sends that
\* byte for byte; the transparent one decompresses it and writes JSON anew.
AuditAgrees ==
    \A e \in Exchanges :
        LET x == ex[e]
            decision == x.records[1].decision
        IN  /\ x.sent # None \/ x.answer \in {"blocked", "refused"} => x.records # <<>>
            /\ x.records # <<>> =>
                 /\ decision = "block" => x.sent = None
                 /\ decision = "review" /\ x.front = "reverse" => x.sent = None
                 /\ decision = "allow" =>
                      /\ x.sent = raw(x.body)
                      /\ x.went # x.came =>
                           x.front = "mitm" /\ (x.came.encoded \/ x.body.kind = "json")

\* The tokens in a body that was sent.
TokensSent(x) ==
    {tokenize(x.cfg, f.label, f.label) :
        f \in {g \in x.result.findings :
                 /\ x.cfg.rules[g.label].masking = "tokenize"
                 /\ g.start..(g.end - 1) \subseteq x.sent[g.at[1]][g.at[2]]}}

\* Whoever holds a token that left in a body can have it turned back under the
\* key and prefix it was made with, also after a restart, and under no others;
\* and never into the value of another label.  Labels with a colon are left
\* out: their tokens cannot be turned back (normalize_token).
TokensReturn ==
    \A e \in Exchanges :
        ex[e].sent # None => \A token \in TokensSent(ex[e]) :
            LET answer == admin_detokenize(setting, token)
            IN  ~token.colon =>
                  /\ (answer.status = 200) <=> (setting.tokenization = ex[e].cfg.tokenization)
                  /\ answer.status = 200 => answer.shown[1] = token.head

--------------------------------------------------------------------------------
(* What the documentation says of attachments, and the code does not do      *)

\* A text attachment in which something is to be masked is rewritten before it
\* is forwarded: no value of its own stays readable.
AttachmentsRewritten ==
    \A e \in Exchanges :
        LET x == ex[e]
        IN  (x.front = "reverse" /\ x.sent # None) =>
              Hidden(x.cfg, Caller, x.body, "request", x.sent)
================================================================================
