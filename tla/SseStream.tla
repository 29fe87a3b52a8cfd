-------------------------------- MODULE SseStream --------------------------------
(***************************************************************************)
(* A streamed response (response_from_sse_stream in src/proxy.rs, and      *)
(* redact_sse_stream in src/mitm/sse.rs): chunks that end anywhere are     *)
(* joined in a buffer, every finished line is filtered on its own and      *)
(* yielded at once, and one audit record sums up the stream at its end.    *)
(* The transparent proxy also meters the tokens a usage event reports.     *)
(*                                                                         *)
(* Text is a sequence of units.  A sensitive value is two units, its       *)
(* halves, so that a chunk can end inside it; it is found, and is readable *)
(* by the client, where its halves stand side by side.                     *)
(***************************************************************************)
EXTENDS Policy, Sequences, FiniteSets

SE == INSTANCE SequencesExt

CONSTANTS
    Labels,
    Streams,        \* texts an upstream may send
    Rules,          \* [Labels -> rule]
    principal,      \* the caller
    Opa,            \* the OPA mode of the request's runtime
    OpaAnswers      \* the replies OPA may give

Half(l, n) == <<l, n>>
Data    == <<"data:", 0>>       \* the field name of a payload line
Newline == <<"newline", 0>>
Masked  == <<"masked", 0>>      \* what redact_text or the sentinel leaves
NoUsage == <<"usage", 0>>       \* "usage": null, or of no tokens
Usage   == <<"usage", 1>>       \* the usage object that closes an event
Units   == (Labels \X {1, 2}) \cup {Data, Newline, Masked, NoUsage, Usage, <<"text", 0>>}

ASSUME SseStreamAssumption ==
    /\ Streams \subseteq Seq(Units)
    \* Usage closes its event.
    /\ \A s \in Streams : \A i \in 1..(Len(s) - 1) : s[i] = Usage => s[i + 1] = Newline
    /\ \A l \in Labels : {Rules[l].authorized, Rules[l].unauthorized} \subseteq Actions
    /\ Opa \in OpaModes
    /\ "no_result" \in OpaAnswers
    /\ OpaAnswers \subseteq OpaReplies

VARIABLES
    front,      \* "reverse" or "mitm"
    tokens,     \* how often llm_tokens counted the stream
    upstream,   \* units not yet received
    buffer,     \* received, not yet yielded
    reading,    \* TRUE until the upstream ends or fails
    client,     \* the text yielded to the client
    here,       \* the client is still connected
    policy,     \* audit_policy: [decision, source]
    audit,      \* the record, or the empty sequence
    sent,       \* history: all the upstream sends
    seen        \* history: per yielded line its text, how much of sent was taken with
                \* it, what was shown of it, its base decision and its outcome

vars == <<front, tokens, upstream, buffer, reading, client, here, policy, audit, sent, seen>>

--------------------------------------------------------------------------------
(* One line                                                                 *)

PassedOn == [decision |-> "allow", source |-> "builtin"]

\* The labels whose value stands in the text.
FoundIn(text) ==
    {l \in Labels : \E i \in 1..(Len(text) - 1) :
        text[i] = Half(l, 1) /\ text[i + 1] = Half(l, 2)}

\* redact_text on units: both halves of a value that may not be seen go.
MaskIn(text, kept) ==
    [i \in DOMAIN text |->
        IF \E l \in FoundIn(text) \ kept :
             \/ text[i] = Half(l, 1) /\ i < Len(text) /\ text[i + 1] = Half(l, 2)
             \/ text[i] = Half(l, 2) /\ i > 1 /\ text[i - 1] = Half(l, 1)
        THEN Masked ELSE text[i]]

\* The payload of a line: what stands between the field name and the newline,
\* which only a line's end can be.
Payload(line) == SubSeq(line, 2, IF line[Len(line)] = Newline THEN Len(line) - 1 ELSE Len(line))

IsPayloadLine(line) == line[1] = Data /\ Payload(line) # <<>>

\* What filtering makes of a payload, before OPA; a failed scan hides it all.
Filter(payload, scanned) ==
    IF scanned
    THEN [text    |-> MaskIn(payload, redact_text(Rules, principal, FoundIn(payload))),
          outcome |-> resolve(Rules, principal, FoundIn(payload))]
    ELSE [text    |-> <<Masked>>,
          outcome |-> [decision |-> "redact", source |-> "json_processing_error_fallback"]]

\* transform_sse_line: a line of another field, an empty one or [DONE] passes.
transform_sse_line(line, scanned, reply) ==
    IF ~IsPayloadLine(line)
    THEN [line |-> line, base |-> "allow", outcome |-> PassedOn]
    ELSE LET f     == Filter(Payload(line), scanned)
             final == finalize_response_policy(Opa, reply, f.outcome)
             text  == IF should_force_full_response_redaction(f.outcome.decision, final.decision)
                      THEN <<Masked>> ELSE f.text
         IN  [line |-> <<Data>> \o text \o <<Newline>>,
              base |-> f.outcome.decision, outcome |-> final]

\* Every source but the built-in policy gives a reason with its outcome.
HasReason(outcome) == outcome.source # "builtin"

merge_policy_outcomes(current, next) ==
    [decision |-> combine(current.decision, next.decision),
     source   |->
        IF \/ rank(next.decision) > rank(current.decision)
           \/ /\ rank(next.decision) = rank(current.decision)
              /\ current.source = "builtin"
              /\ next.source # "builtin"
           \/ ~HasReason(current) /\ HasReason(next)
        THEN next.source ELSE current.source]

--------------------------------------------------------------------------------
(* The stream                                                               *)

HasLine == \E i \in DOMAIN buffer : buffer[i] = Newline

LineEnd == CHOOSE i \in DOMAIN buffer :
    buffer[i] = Newline /\ \A j \in 1..(i - 1) : buffer[j] # Newline

\* raw_stream.next() is polled once the buffer holds no finished line.
chunk(n) ==
    /\ here
    /\ reading
    /\ ~HasLine
    /\ n \in 1..Len(upstream)
    /\ buffer' = buffer \o SubSeq(upstream, 1, n)
    /\ upstream' = SubSeq(upstream, n + 1, Len(upstream))
    /\ UNCHANGED <<front, tokens, reading, client, here, policy, audit, sent, seen>>

\* The upstream ends, or fails anywhere: the loop is left either way.
upstream_ends ==
    /\ here
    /\ reading
    /\ ~HasLine
    /\ reading' = FALSE
    /\ UNCHANGED <<front, tokens, upstream, buffer, client, here, policy, audit, sent, seen>>

\* The event is complete and reports tokens.
usage_from_response(payload) == payload[Len(payload)] = Usage

\* The first usage event counts; "metered" is tokens # 0.
meter_sse_usage(text) ==
    IF /\ front = "mitm"
       /\ tokens = 0
       /\ IsPayloadLine(text)
       /\ usage_from_response(Payload(text))
    THEN 1 ELSE tokens

\* How much of the stream the first n lines have taken.
Taken(n) == IF n = 0 THEN 0 ELSE seen[n].upto

\* Filter a text, merge its outcome, yield it.
Yield(text, scanned, reply) ==
    LET t == transform_sse_line(text, scanned, reply)
    IN  /\ Opa = "off" => reply = "no_result"
        /\ client' = client \o t.line
        /\ policy' = merge_policy_outcomes(policy, t.outcome)
        /\ seen' = Append(seen, [text |-> text, upto |-> Taken(Len(seen)) + Len(text),
                                 line |-> t.line, base |-> t.base, outcome |-> t.outcome])
        /\ tokens' = meter_sse_usage(text)
        /\ UNCHANGED <<front, here, audit, sent>>

\* Mutant: the buffer is emptied once a line is taken from it.
yield_line_clearing(scanned, reply) ==
    /\ here
    /\ reading
    /\ HasLine
    /\ Yield(SubSeq(buffer, 1, LineEnd), scanned, reply)
    /\ buffer' = <<>>
    /\ UNCHANGED <<upstream, reading>>

yield_line(scanned, reply) ==
    /\ here
    /\ reading
    /\ HasLine
    /\ Yield(SubSeq(buffer, 1, LineEnd), scanned, reply)
    /\ buffer' = SubSeq(buffer, LineEnd + 1, Len(buffer))
    /\ UNCHANGED <<upstream, reading>>

\* Mutant: the rest of the buffer is yielded as it is.
flush_raw(scanned, reply) ==
    /\ here
    /\ ~reading
    /\ buffer # <<>>
    /\ client' = client \o buffer
    /\ seen' = Append(seen, [text |-> buffer, upto |-> Taken(Len(seen)) + Len(buffer),
                             line |-> buffer, base |-> "allow", outcome |-> PassedOn])
    /\ buffer' = <<>>
    /\ UNCHANGED <<front, tokens, upstream, reading, here, policy, audit, sent>>

\* What is left in the buffer is a line without its newline.
flush(scanned, reply) ==
    /\ here
    /\ ~reading
    /\ buffer # <<>>
    /\ Yield(buffer, scanned, reply)
    /\ buffer' = <<>>
    /\ UNCHANGED <<upstream, reading>>

\* The reverse proxy records a decision on a response, the other the policy's.
Summary == [decision |-> IF front = "reverse" THEN normalize_response_decision(policy.decision)
                         ELSE policy.decision,
            source   |-> policy.source]

\* Mutant: the record is emitted before the rest of the buffer is filtered.
emit_early ==
    /\ here
    /\ ~reading
    /\ audit = <<>>
    /\ audit' = <<Summary>>
    /\ UNCHANGED <<front, tokens, upstream, buffer, reading, client, here, policy, sent, seen>>

\* Mutant: only streams that were filtered are recorded.
emit_if_filtered ==
    /\ here
    /\ ~reading
    /\ buffer = <<>>
    /\ audit = <<>>
    /\ policy.decision # "allow"
    /\ audit' = <<Summary>>
    /\ UNCHANGED <<front, tokens, upstream, buffer, reading, client, here, policy, sent, seen>>

emit ==
    /\ here
    /\ ~reading
    /\ buffer = <<>>
    /\ audit = <<>>
    /\ audit' = <<Summary>>
    /\ UNCHANGED <<front, tokens, upstream, buffer, reading, client, here, policy, sent, seen>>

\* The client goes away: the body is dropped, and with it the rest of the loop.
client_leaves ==
    /\ here
    /\ audit = <<>>
    /\ here' = FALSE
    /\ UNCHANGED <<front, tokens, upstream, buffer, reading, client, policy, audit, sent, seen>>

--------------------------------------------------------------------------------
Init ==
    /\ front \in {"reverse", "mitm"}
    /\ tokens = 0
    /\ upstream \in Streams
    /\ buffer = <<>>
    /\ reading = TRUE
    /\ client = <<>>
    /\ here = TRUE
    /\ policy = PassedOn
    /\ audit = <<>>
    /\ sent = upstream
    /\ seen = <<>>

\* What the stream waits for from outside.
Receive == (\E n \in 1..Len(upstream) : chunk(n)) \/ upstream_ends

\* What it does with what it has.
Process ==
    \/ \E scanned \in BOOLEAN, reply \in OpaAnswers :
         yield_line(scanned, reply) \/ flush(scanned, reply)
    \/ emit

Next == Receive \/ Process \/ client_leaves

\* A client that stays keeps polling the body, and Presidio and OPA answer or
\* time out.  The upstream of the reverse proxy ends or times out; that of the
\* transparent proxy comes through hudsucker's client, which has no timeout,
\* and may stall for good.
Spec ==
    /\ Init /\ [][Next]_vars
    /\ WF_vars(Process)
    /\ WF_vars(front = "reverse" /\ Receive)

--------------------------------------------------------------------------------
(* Properties                                                               *)

\* The types of the texts and of the outcomes; at most one record is written per
\* stream.
TypeOK ==
    /\ upstream \in Seq(Units)
    /\ buffer \in Seq(Units)
    /\ reading \in BOOLEAN
    /\ here \in BOOLEAN
    /\ client \in Seq(Units)
    /\ policy.decision \in Actions
    /\ Len(audit) <= 1
    /\ sent \in Streams
    /\ \A i \in DOMAIN seen : seen[i].outcome.decision \in Actions

\* However the upstream's chunks are cut, and wherever it breaks off, the
\* client can read only values the policy lets it see, and those the upstream
\* sent in a line of another field than "data:", which is handed on as it is.
StreamFiltered ==
    \A l \in FoundIn(client) :
      \/ action_for(Rules, principal, l) = "allow"
      \/ \E i \in DOMAIN seen : seen[i].text[1] # Data /\ l \in FoundIn(seen[i].text)

\* No text is lost, repeated or moved, however the chunks are cut: the lines
\* that were filtered follow each other in the stream without a gap, and the
\* buffer and the upstream hold the rest; and each yielded line shows text of
\* its own line only, none at all once its final decision is stricter than its
\* findings called for.
StreamConserved ==
    /\ TypeOK
    /\ \A i \in DOMAIN seen : seen[i].text = SubSeq(sent, Taken(i - 1) + 1, Taken(i))
    /\ buffer \o upstream = SubSeq(sent, Taken(Len(seen)) + 1, Len(sent))
    /\ \A i \in DOMAIN seen :
         LET shown == SE!ToSet(seen[i].line) \ {Data, Newline, Masked}
         IN  /\ shown \subseteq SE!ToSet(seen[i].text)
             /\ rank(seen[i].outcome.decision) > rank(seen[i].base) => shown = {}

\* What is told of a stream agrees with what was handed on: its record says
\* "allow" exactly if every yielded line was allowed; and in the transparent
\* proxy its usage is counted once if any event reports it, also if that event
\* is cut off at the end or several do (meter_sse_usage).
StreamAudited ==
    /\ audit # <<>> =>
         (audit[1].decision = "allow" <=>
             \A i \in DOMAIN seen : seen[i].outcome.decision = "allow")
    /\ tokens = IF /\ front = "mitm"
                   /\ \E i \in DOMAIN seen :
                        IsPayloadLine(seen[i].text) /\ Usage \in SE!ToSet(seen[i].text)
                THEN 1 ELSE 0

\* While its client stays, a stream through the reverse proxy is recorded in
\* the end, one through the transparent proxy once its upstream has ended or
\* broken off; and in both no finished line is held back while the upstream
\* stalls (response_from_sse_stream, redact_sse_stream).
StreamEndsAudited ==
    /\ front = "reverse" => <>(audit # <<>> \/ ~here)
    /\ ~reading ~> (audit # <<>> \/ ~here)
    /\ HasLine ~> (~HasLine \/ ~here)
================================================================================
