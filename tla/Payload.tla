--------------------------------- MODULE Payload ---------------------------------
(***************************************************************************)
(* What process_payload (src/proxy.rs) makes of a body: which of its texts *)
(* are scanned, which findings result, the built-in decision, and which    *)
(* characters are masked in the body that is handed on.  Multipart bodies  *)
(* go through src/attachments.rs.  Operators only: nothing here is shared  *)
(* between requests.                                                       *)
(*                                                                         *)
(* A text is [len, hits]: its length and what the engines would find in    *)
(* it, each hit a half-open span [start, end, label, by] with "by" the     *)
(* detector or Presidio.  All occurrences of a label are the same value.   *)
(* A body is [kind, utf8, frame, parts]; a part has its texts in "nodes":  *)
(* one for plain text, one per PDF page or OOXML text node.  Masks say of  *)
(* every node which positions are masked.                                  *)
(***************************************************************************)
EXTENDS Policy, Sequences, FiniteSets

positions(f) == f.start..(f.end - 1)
longer(f, g) == f.end - f.start > g.end - g.start
overlap(f, g) == positions(f) \cap positions(g) # {}

NoMasks(body) ==
    [k \in DOMAIN body.parts |-> [i \in DOMAIN body.parts[k].nodes |-> {}]]

--------------------------------------------------------------------------------
(* Configuration                                                            *)

\* Detector::new: every pattern is a regular expression.
detector_compiles(cfg) == \A l \in DOMAIN cfg.rules : cfg.rules[l].pattern = "valid"

ensure_tokenization_configuration(cfg) ==
    (\E l \in DOMAIN cfg.rules : cfg.rules[l].masking = "tokenize") => cfg.tokenization.enabled

\* The environment holds a key of 32 bytes in hexadecimal or base64.
decode_key(raw) == raw \notin {"unset", "malformed"}

\* Not empty, and none of the characters a token is split at.
validate_prefix(prefix) == prefix.text # "" /\ ~prefix.separator

\* Tokenizer::from_config; a disabled tokenizer needs no key.
tokenizer_loads(tokenization) ==
    tokenization.enabled => decode_key(tokenization.key) /\ validate_prefix(tokenization.prefix)

\* RuntimeState::from_config, as far as the payload depends on it.
loads(cfg) ==
    /\ ensure_tokenization_configuration(cfg)
    /\ detector_compiles(cfg)
    /\ tokenizer_loads(cfg.tokenization)

--------------------------------------------------------------------------------
(* Detection                                                                *)

\* A value cut off by the limit is not found.
limit_text(text, max_chars) ==
    IF text.len <= max_chars THEN text
    ELSE [len |-> max_chars, hits |-> {h \in text.hits : h.end <= max_chars}]

scan_text(text) == {h \in text.hits : h.by = "detector"}

\* Presidio counts characters; an offset beyond the text is its end.
char_offset_to_byte_index(offset, text) == IF offset > text.len THEN text.len ELSE offset

\* The spans Presidio reports, empty ones dropped.
analyze(cfg, text) ==
    {h \in {[g EXCEPT !.start = char_offset_to_byte_index(g.start, text),
                      !.end   = char_offset_to_byte_index(g.end, text)] :
                g \in {t \in text.hits : t.by = "presidio"}} :
        cfg.presidio # "off" /\ h.start < h.end}

\* An empty text is not sent to Presidio.
analysis_fails(cfg, text) == cfg.presidio = "down" /\ text.len > 0

\* Both engines, and what the policy says of each finding; "at" is the node.
findings_in(cfg, principal, text, pointer, at) ==
    {[at |-> at, pointer |-> pointer, start |-> h.start, end |-> h.end, label |-> h.label,
      action |-> action_for(cfg.rules, principal, h.label)] :
        h \in scan_text(text) \cup analyze(cfg, text)}

decision_of(findings) == strictest({f.action : f \in findings})

--------------------------------------------------------------------------------
(* Masking a text                                                           *)

selected(findings) == {f \in findings : f.action # "allow"}

\* Mutant: of findings that start together the shortest comes first.
precedes_shortest(f, g) ==
    \/ f.start < g.start
    \/ f.start = g.start /\ f.end < g.end
    \/ f.start = g.start /\ f.end = g.end /\ rank(f.action) >= rank(g.action)

\* The order of redact_text: by start, then the longest, then the strictest.
precedes(f, g) ==
    \/ f.start < g.start
    \/ f.start = g.start /\ f.end > g.end
    \/ f.start = g.start /\ f.end = g.end /\ rank(f.action) >= rank(g.action)

\* A finding that starts before the end of the last one kept is skipped.
kept(findings) ==
    LET from[occupied_until \in {0} \cup {f.end : f \in findings}] ==
            LET rest == {f \in findings : f.start >= occupied_until}
            IN  IF rest = {} THEN {}
                ELSE LET f == CHOOSE f \in rest : \A g \in rest : precedes(f, g)
                     IN  {f} \cup from[f.end]
    IN  from[0]

\* The positions redact_text replaces.
masked_by(findings) == UNION {positions(f) : f \in kept(selected(findings))}

\* apply_mask has no tokenizer to call.
mask_fails(cfg, findings) ==
    ~cfg.tokenization.enabled /\ \E f \in findings : cfg.rules[f.label].masking = "tokenize"

\* redact_text returns an error, or panics on a range outside the text.
redact_fails(cfg, text, findings) ==
    \/ mask_fails(cfg, kept(selected(findings)))
    \/ \E f \in kept(selected(findings)) : f.end > text.len

--------------------------------------------------------------------------------
(* Tokens                                                                   *)

\* "[LABEL_TOKEN:prefix.nonce,ciphertext]"; the ciphertext holds label and
\* value and opens with its key only.
tokenize(cfg, label, value) ==
    [head |-> label, colon |-> cfg.rules[label].colon, prefix |-> cfg.tokenization.prefix,
     key |-> cfg.tokenization.key, payload |-> <<label, value>>]

\* What follows the first colon of a token: with a colon in the label, no
\* longer the prefix.
normalize_token(token) ==
    IF token.colon THEN <<token.head, token.prefix>> ELSE <<token.prefix>>

\* Mutant: the prefix is not compared.
detokenize_any_prefix(cfg, token) ==
    IF token.key = cfg.tokenization.key THEN token.payload ELSE <<>>

\* Label and value, or nothing: another prefix, or the cipher rejects it.
detokenize(cfg, token) ==
    IF /\ normalize_token(token) = <<cfg.tokenization.prefix>>
       /\ token.key = cfg.tokenization.key
    THEN token.payload ELSE <<>>

\* The answer of the admin API: status and what is shown.
admin_detokenize(cfg, token) ==
    LET shown == detokenize(cfg, token)
    IN  CASE ~cfg.tokenization.enabled -> [status |-> 424, shown |-> <<>>]
          [] cfg.tokenization.enabled /\ shown = <<>> -> [status |-> 400, shown |-> <<>>]
          [] OTHER -> [status |-> 200, shown |-> shown]

--------------------------------------------------------------------------------
(* JSON and plain text                                                      *)

Processed(decision, source, findings, masks) ==
    [ok |-> TRUE, decision |-> decision, source |-> source, findings |-> findings,
     masks |-> masks]

Failed(body, findings) ==
    [ok |-> FALSE, decision |-> "allow", source |-> "error", findings |-> findings,
     masks |-> NoMasks(body)]

passthrough(body) == Processed("allow", "builtin", {}, NoMasks(body))

\* sanitize_json_value and process_text: the nodes in "scanned" are each
\* scanned and masked on their own; any error ends the whole body.
process_nodes(cfg, principal, body, scanned) ==
    LET Text(n) == body.parts[n[1]].nodes[n[2]]
        Found(n) == findings_in(cfg, principal, Text(n), <<n[1]>>, n)
        all == UNION {Found(n) : n \in scanned}
    IN  IF \E n \in scanned : analysis_fails(cfg, Text(n)) \/ redact_fails(cfg, Text(n), Found(n))
        THEN Failed(body, all)
        ELSE Processed(decision_of(all), "builtin", all,
               [k \in DOMAIN body.parts |->
                   [i \in DOMAIN body.parts[k].nodes |->
                       IF <<k, i>> \in scanned THEN masked_by(Found(<<k, i>>)) ELSE {}]])

nodes_of(body) == UNION {{<<k, i>> : i \in DOMAIN body.parts[k].nodes} : k \in DOMAIN body.parts}

\* collect_string_nodes and should_ignore_pointer: keys, numbers and ignored
\* pointers are not scanned.
string_nodes(cfg, body) ==
    {n \in nodes_of(body) :
        body.parts[n[1]].string /\ body.parts[n[1]].name \notin cfg.ignore_json_pointers}

--------------------------------------------------------------------------------
(* Attachments                                                              *)

\* The header names a boundary.
parse_boundary(body) == body.frame # "unnamed"

\* The boundary stands before the first part and after every part, and each
\* part's headers end.
parse_multipart_parts(body) == body.frame \notin {"absent", "cut"}

\* A part without a file name is a form field.
is_attachment(p) == p.file # "none"

\* The field's name, else the file's.
pointer_name(p) == IF p.name # "none" THEN p.name ELSE p.file

detect_media_type(p) ==
    CASE p.extension = "pdf" -> "application/pdf"
      [] p.extension = "docx" -> "ooxml"
      [] OTHER -> "text/plain"

\* An undeclared type is taken from the file name.
media_type(p) == IF p.declared = "application/octet-stream" THEN detect_media_type(p) ELSE p.declared

is_ooxml_attachment(p) == media_type(p) = "ooxml" \/ p.extension = "docx"

\* lopdf finds pages with text, which it may yet be unable to rewrite.
extract_pdf_document(p) == p.state \in {"text", "locked"}

\* The archive and the XML of its entries can be read.
extract_ooxml_document(p) == p.state # "broken"

\* Mutant: a document that cannot be read has no content.
extract_leniently(p) ==
    CASE media_type(p) = "text/plain" -> "Text"
      [] media_type(p) = "application/pdf" ->
           IF extract_pdf_document(p) THEN "Pdf"
           ELSE IF p.state = "scanned" THEN "ExtractedText" ELSE "None"
      [] media_type(p) \notin {"text/plain", "application/pdf"} /\ is_ooxml_attachment(p) ->
           IF extract_ooxml_document(p) THEN "Ooxml" ELSE "None"
      [] OTHER -> "None"

\* "scanned" is a PDF text that only pdf_extract finds.
extract_attachment_content(p) ==
    CASE media_type(p) = "text/plain" -> "Text"
      [] media_type(p) = "application/pdf" ->
           IF extract_pdf_document(p) THEN "Pdf"
           ELSE IF p.state = "scanned" THEN "ExtractedText" ELSE "Err"
      [] media_type(p) \notin {"text/plain", "application/pdf"} /\ is_ooxml_attachment(p) ->
           IF extract_ooxml_document(p) THEN "Ooxml" ELSE "Err"
      [] OTHER -> "None"

\* A part with a file name and an allowed type; all others are handed on.
examined(cfg, p) == is_attachment(p) /\ media_type(p) \in cfg.allowed_media_types

node_pointer(p, i) ==
    LET content == extract_attachment_content(p)
    IN  IF content \in {"Pdf", "Ooxml"} THEN <<pointer_name(p), content, i>> ELSE <<pointer_name(p)>>

\* Mutant: a separator is counted for every node.
remaining_with_separator(cfg, p) ==
    LET left[i \in DOMAIN p.nodes] ==
            IF i = 1 THEN cfg.max_text_chars
            ELSE LET used == limit_text(p.nodes[i - 1], left[i - 1]).len + 1
                 IN  IF used > left[i - 1] THEN 0 ELSE left[i - 1] - used
    IN  left

\* The pages or nodes of one attachment share the limit.
remaining(cfg, p) ==
    LET left[i \in DOMAIN p.nodes] ==
            IF i = 1 THEN cfg.max_text_chars
            ELSE left[i - 1] - limit_text(p.nodes[i - 1], left[i - 1]).len
    IN  left

scanned_text(cfg, p, i) == limit_text(p.nodes[i], remaining(cfg, p)[i])

scannable(p) == extract_attachment_content(p) \notin {"None", "Err"}

scan_attachment_content(cfg, principal, p, k) ==
    IF examined(cfg, p) /\ scannable(p)
    THEN UNION {findings_in(cfg, principal, scanned_text(cfg, p, i), node_pointer(p, i), <<k, i>>) :
                    i \in DOMAIN p.nodes}
    ELSE {}

\* Too large, not readable, or Presidio does not answer.
scan_fails(cfg, p) ==
    /\ examined(cfg, p)
    /\ \/ p.size > cfg.max_bytes
       \/ extract_attachment_content(p) = "Err"
       \/ scannable(p) /\ \E i \in DOMAIN p.nodes : analysis_fails(cfg, scanned_text(cfg, p, i))

rewrite_plan(cfg, p) ==
    IF examined(cfg, p) /\ extract_attachment_content(p) \in {"Text", "Pdf", "Ooxml"}
    THEN extract_attachment_content(p) ELSE "None"

finding_targets_part(f, p) == is_attachment(p) /\ f.pointer[1] = pointer_name(p)

aimed_at(findings, p, i) == {f \in findings : f.pointer = node_pointer(p, i)}

\* In a PDF every occurrence of a matched text on the page is replaced, longer
\* texts first; what a longer one overlapped is no longer there to replace.
pdf_labels(findings, p, i) == {f.label : f \in selected(aimed_at(findings, p, i))}

pdf_occurrences(findings, p, i) ==
    LET hits == {h \in p.nodes[i].hits : h.label \in pdf_labels(findings, p, i)}
        replaced[rest \in SUBSET hits] ==
            IF rest = {} THEN {}
            ELSE LET h == CHOOSE h \in rest : \A g \in rest : ~longer(g, h)
                 IN  {h} \cup replaced[{g \in rest : ~overlap(g, h)}]
    IN  replaced[hits]

\* A matched text was not replaced anywhere on its page.
pdf_rewrite_fails(findings, p) ==
    \E i \in DOMAIN p.nodes : \E l \in pdf_labels(findings, p, i) :
        p.state = "locked" \/ \A h \in pdf_occurrences(findings, p, i) : h.label # l

\* RewritePlan::rewrite: what becomes of one part.
rewrite_error(cfg, findings, p) ==
    CASE rewrite_plan(cfg, p) \in {"Text", "Ooxml"} ->
           \E i \in DOMAIN p.nodes : redact_fails(cfg, p.nodes[i], aimed_at(findings, p, i))
      [] rewrite_plan(cfg, p) = "Pdf" ->
           \E i \in DOMAIN p.nodes : mask_fails(cfg, selected(aimed_at(findings, p, i)))
      [] OTHER -> FALSE

rewrite_refused(cfg, findings, p) ==
    rewrite_plan(cfg, p) = "Pdf" /\ ~rewrite_error(cfg, findings, p) /\ pdf_rewrite_fails(findings, p)

\* The text nodes with findings are written anew, all else of the archive is
\* copied.
rewrite_ooxml(findings, p, i) == masked_by(aimed_at(findings, p, i))

rewrite(cfg, findings, p, i) ==
    CASE rewrite_plan(cfg, p) = "Text"  -> masked_by(aimed_at(findings, p, i))
      [] rewrite_plan(cfg, p) = "Ooxml" -> rewrite_ooxml(findings, p, i)
      [] rewrite_plan(cfg, p) = "Pdf"   -> UNION {positions(h) : h \in pdf_occurrences(findings, p, i)}
      [] rewrite_plan(cfg, p) = "None"  -> {}

\* Every part again, rewritten or as it came.
rebuild_multipart_body(cfg, findings, parts) ==
    [k \in DOMAIN parts |-> [i \in DOMAIN parts[k].nodes |-> rewrite(cfg, findings, parts[k], i)]]

\* A part that cannot be rewritten is the target of some finding.
non_rewritable_sensitive(cfg, findings, parts) ==
    \E k \in DOMAIN parts :
        rewrite_plan(cfg, parts[k]) = "None" /\ \E f \in findings : finding_targets_part(f, parts[k])

ReviewFallback(body, findings) ==
    Processed("review", "attachment_review_fallback", findings, NoMasks(body))

\* Parts are rewritten in order; the first that fails decides how.
scan_request(cfg, principal, body) ==
    LET parts    == body.parts
        findings == UNION {scan_attachment_content(cfg, principal, parts[k], k) : k \in DOMAIN parts}
        decision == decision_of(findings)
        bad      == {k \in DOMAIN parts : \/ rewrite_error(cfg, findings, parts[k])
                                          \/ rewrite_refused(cfg, findings, parts[k])}
        first    == CHOOSE k \in bad : \A j \in bad : k <= j
    IN  IF \/ ~parse_boundary(body) \/ ~parse_multipart_parts(body)
           \/ \E k \in DOMAIN parts : scan_fails(cfg, parts[k])
        THEN Failed(body, findings)
        ELSE IF decision # "redact"
        THEN Processed(decision, "builtin", findings, NoMasks(body))
        ELSE IF non_rewritable_sensitive(cfg, findings, parts)
        THEN ReviewFallback(body, findings)
        ELSE IF bad = {}
        THEN Processed("redact", "builtin", findings, rebuild_multipart_body(cfg, findings, parts))
        ELSE IF rewrite_error(cfg, findings, parts[first])
        THEN Failed(body, findings)
        ELSE ReviewFallback(body, findings)

--------------------------------------------------------------------------------
process_payload(cfg, principal, body, direction) ==
    CASE body.kind = "multipart" /\ direction = "request" /\ cfg.attachments ->
           scan_request(cfg, principal, body)
      [] body.kind = "json" -> process_nodes(cfg, principal, body, string_nodes(cfg, body))
      [] OTHER -> IF body.utf8 THEN process_nodes(cfg, principal, body, nodes_of(body))
                  ELSE passthrough(body)
================================================================================
