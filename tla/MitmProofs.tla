------------------------------- MODULE MitmProofs -------------------------------
(***************************************************************************)
(* Proofs about the two proxies' payloads, the classifier and the records, *)
(* for any number of exchanges, any hosts, rule-sets, configurations and   *)
(* bodies: which rule-set is in force, what is handed on unmasked, what is *)
(* on record, and that what is handed on is masked where it must be.       *)
(***************************************************************************)
EXTENDS Mitm, FiniteSetTheorems, WellFoundedInduction, TLAPS

--------------------------------------------------------------------------------
(* The classifier                                                           *)

\* The baked-in patterns always compile, so a rule-set's classifier has them
\* all: it tunnels none of their hosts and signs for all of theirs.
LEMMA FloorCompiled ==
    ASSUME NEW f, NEW host
    PROVE  /\ any_matches(Baked, host) => classify(from_ruleset(f), host) = "intercept"
           /\ any_matches(BakedSigns, host) => signs_body(from_ruleset(f), host)
<1>1. \A p \in Baked \cup BakedSigns : compiles(p)
  BY MitmAssumption DEF compiles
<1>2. from_ruleset(f).floor = Baked
  BY <1>1 DEF from_ruleset, Classifier, compile_all
<1>3. BakedSigns \subseteq from_ruleset(f).signs_body
  BY <1>1 DEF from_ruleset, Classifier, compile_all
<1>4. any_matches(Baked, host) => classify(from_ruleset(f), host) = "intercept"
  BY <1>2 DEF classify
<1>5. any_matches(BakedSigns, host) => signs_body(from_ruleset(f), host)
  BY <1>3 DEF signs_body, any_matches
<1> QED BY <1>4, <1>5

--------------------------------------------------------------------------------
(* The pipeline                                                             *)

\* The rules of a configuration say one of the four actions.
LEMMA ActionKnown ==
    ASSUME NEW s \in Settings, NEW principal, NEW l \in DOMAIN s.rules
    PROVE  action_for(s.rules, principal, l) \in Actions
BY MitmAssumption DEF action_for

\* A text of a body, under configuration s.
TextUnder(s, text) ==
    /\ text_holds(text)
    /\ text.hits \subseteq [start : Nat, end : Nat, label : DOMAIN s.rules,
                            by : {"detector", "presidio"}]

\* The texts of a body are texts under every configuration.
LEMMA TextsUnder ==
    ASSUME NEW s \in Settings, NEW body \in Bodies \cup Replies,
           NEW k \in DOMAIN body.parts, NEW i \in DOMAIN body.parts[k].nodes
    PROVE  TextUnder(s, body.parts[k].nodes[i])
<1>1. <<k, i>> \in nodes_of(body)
  BY DEF nodes_of
<1>2. text_holds(body.parts[k].nodes[i])
  BY MitmAssumption
<1>3. body.parts[k].nodes[i].hits \subseteq
        [start : Nat, end : Nat, label : DOMAIN s.rules, by : {"detector", "presidio"}]
  <2> DEFINE n == <<k, i>>
  <2>1. body.parts[n[1]].nodes[n[2]].hits \subseteq
          [start : Nat, end : Nat, label : DOMAIN s.rules, by : {"detector", "presidio"}]
    BY <1>1, MitmAssumption
  <2> QED BY <2>1
<1> QED BY <1>2, <1>3 DEF TextUnder

\* The strictest of a set of actions is one of them, or allow, and none is
\* stricter.
LEMMA StrictestBound ==
    ASSUME NEW S \in SUBSET Actions
    PROVE  /\ strictest(S) \in S \cup {"allow"}
           /\ \A b \in S : rank(b) <= rank(strictest(S))
<1> DEFINE Top(a) == a \in S \cup {"allow"} /\ \A b \in S : rank(b) <= rank(a)
<1>1. \E a : Top(a)
  <2>1. CASE "block" \in S
    <3>1. Top("block")
      BY <2>1 DEF Actions, rank
    <3> QED BY <3>1
  <2>2. CASE "block" \notin S /\ "review" \in S
    <3>1. Top("review")
      BY <2>2 DEF Actions, rank
    <3> QED BY <3>1
  <2>3. CASE S \cap {"block", "review"} = {} /\ "redact" \in S
    <3>1. Top("redact")
      BY <2>3 DEF Actions, rank
    <3> QED BY <3>1
  <2>4. CASE S \subseteq {"allow"}
    <3>1. Top("allow")
      BY <2>4 DEF Actions, rank
    <3> QED BY <3>1
  <2> QED BY <2>1, <2>2, <2>3, <2>4 DEF Actions
<1> QED BY <1>1 DEF strictest

\* A decision is one of the four actions.
LEMMA DecisionKnown ==
    ASSUME NEW F, \A f \in F : f.action \in Actions
    PROVE  decision_of(F) \in Actions
<1> DEFINE S == {f.action : f \in F}
<1>1. S \in SUBSET Actions
  OBVIOUS
<1>2. strictest(S) \in S \cup {"allow"}
  BY <1>1, StrictestBound
<1> QED BY <1>1, <1>2 DEF decision_of, Actions

\* A decision to allow means that every finding is allowed.
LEMMA AllowedOnly ==
    ASSUME NEW F, \A f \in F : f.action \in Actions, decision_of(F) = "allow"
    PROVE  selected(F) = {}
<1> DEFINE S == {f.action : f \in F}
<1>1. S \in SUBSET Actions
  OBVIOUS
<1>2. \A b \in S : rank(b) <= rank("allow")
  BY <1>1, StrictestBound DEF decision_of
<1>3. S \subseteq {"allow"}
  BY <1>1, <1>2 DEF Actions, rank
<1> QED BY <1>3 DEF selected

\* Where nothing is to be masked nothing is.
LEMMA NothingMasked ==
    ASSUME NEW F, selected(F) = {}
    PROVE  masked_by(F) = {}
<1>1. kept({}) = {}
  BY DEF kept
<1> QED BY <1>1 DEF masked_by

\* What the engines find in a text of a body has a label with a rule, and the
\* action of that rule.
LEMMA FoundLabels ==
    ASSUME NEW s \in Settings, NEW principal, NEW text, NEW pointer, NEW at,
           text.hits \subseteq [start : Nat, end : Nat, label : DOMAIN s.rules,
                                by : {"detector", "presidio"}]
    PROVE  \A f \in findings_in(s, principal, text, pointer, at) :
               f.label \in DOMAIN s.rules /\ f.action \in Actions
<1> DEFINE H == [start : Nat, end : Nat, label : DOMAIN s.rules, by : {"detector", "presidio"}]
<1>1. \A h \in scan_text(text) : h.label \in DOMAIN s.rules
  BY DEF scan_text
<1>2. \A h \in analyze(s, text) : h.label \in DOMAIN s.rules
  <2> SUFFICES ASSUME NEW h \in analyze(s, text) PROVE h.label \in DOMAIN s.rules
    OBVIOUS
  <2>1. PICK g \in text.hits :
           h = [g EXCEPT !.start = char_offset_to_byte_index(g.start, text),
                         !.end   = char_offset_to_byte_index(g.end, text)]
    BY DEF analyze
  <2>2. h.label = g.label
    BY <2>1
  <2> QED BY <2>1, <2>2
<1>3. \A h \in scan_text(text) \cup analyze(s, text) :
         action_for(s.rules, principal, h.label) \in Actions
  BY <1>1, <1>2, ActionKnown
<1> QED BY <1>1, <1>2, <1>3 DEF findings_in

\* What process_nodes decides and masks.
LEMMA NodesAllowed ==
    ASSUME NEW s \in Settings, NEW principal, NEW body \in Bodies,
           NEW scanned \in SUBSET nodes_of(body)
    PROVE  LET result == process_nodes(s, principal, body, scanned)
           IN  /\ \A f \in result.findings : f.label \in DOMAIN s.rules
               /\ result.ok /\ result.decision = "allow" => result.masks = NoMasks(body)
               /\ result.decision \in Actions
<1> DEFINE Text(n) == body.parts[n[1]].nodes[n[2]]
           Found(n) == findings_in(s, principal, Text(n), <<n[1]>>, n)
           all == UNION {Found(n) : n \in scanned}
           result == process_nodes(s, principal, body, scanned)
           masks == [k \in DOMAIN body.parts |->
                       [i \in DOMAIN body.parts[k].nodes |->
                           IF <<k, i>> \in scanned THEN masked_by(Found(<<k, i>>)) ELSE {}]]
<1>1. result \in {Failed(body, all), Processed(decision_of(all), "builtin", all, masks)}
  BY DEF process_nodes
<1>2. \A n \in scanned : \A f \in Found(n) : f.label \in DOMAIN s.rules /\ f.action \in Actions
  <2> SUFFICES ASSUME NEW n \in scanned
               PROVE  \A f \in Found(n) : f.label \in DOMAIN s.rules /\ f.action \in Actions
    OBVIOUS
  <2>1. PICK k \in DOMAIN body.parts : \E i \in DOMAIN body.parts[k].nodes : n = <<k, i>>
    BY DEF nodes_of
  <2>2. PICK i \in DOMAIN body.parts[k].nodes : n = <<k, i>>
    BY <2>1
  <2>3. Text(n).hits \subseteq [start : Nat, end : Nat, label : DOMAIN s.rules,
                                by : {"detector", "presidio"}]
    BY <2>2, TextsUnder DEF TextUnder
  <2> HIDE DEF Text
  <2> QED BY <2>3, FoundLabels
<1> HIDE DEF Found
<1>3. \A f \in all : f.label \in DOMAIN s.rules /\ f.action \in Actions
  BY <1>2
<1> HIDE DEF result, masks
<1>4. \A f \in result.findings : f.label \in DOMAIN s.rules
  <2> HIDE DEF all
  <2> QED BY <1>1, <1>3 DEF Failed, Processed
<1>5. ASSUME result.ok, result.decision = "allow"
      PROVE  result.masks = NoMasks(body)
  <2>1. decision_of(all) = "allow" /\ result.masks = masks
    <3> HIDE DEF all
    <3> QED BY <1>1, <1>5 DEF Failed, Processed
  <2>2. selected(all) = {}
    <3> HIDE DEF all
    <3> QED BY <1>3, <2>1, AllowedOnly
  <2>3. \A n \in scanned : selected(Found(n)) = {}
    BY <2>2 DEF selected
  <2>4. \A n \in scanned : masked_by(Found(n)) = {}
    BY <2>3, NothingMasked
  <2>5. masks = NoMasks(body)
    BY <2>4 DEF masks, NoMasks
  <2> QED BY <2>1, <2>5
<1>6. result.decision \in Actions
  <2>1. decision_of(all) \in Actions
    <3> HIDE DEF all
    <3> QED BY <1>3, DecisionKnown
  <2> HIDE DEF all
  <2> QED BY <1>1, <2>1 DEF Failed, Processed, Actions
<1> QED BY <1>4, <1>5, <1>6 DEF result

\* What scan_request finds in attachments has a label with a rule.
LEMMA AttachmentLabels ==
    ASSUME NEW s \in Settings, NEW principal, NEW body \in Bodies, NEW k \in DOMAIN body.parts
    PROVE  \A f \in scan_attachment_content(s, principal, body.parts[k], k) :
               f.label \in DOMAIN s.rules /\ f.action \in Actions
<1> DEFINE p == body.parts[k]
           H == [start : Nat, end : Nat, label : DOMAIN s.rules, by : {"detector", "presidio"}]
<1>1. ASSUME NEW i \in DOMAIN p.nodes
      PROVE  \A f \in findings_in(s, principal, scanned_text(s, p, i), node_pointer(p, i), <<k, i>>) :
                 f.label \in DOMAIN s.rules /\ f.action \in Actions
  <2>1. p.nodes[i].hits \subseteq H
    BY TextsUnder DEF TextUnder
  <2>2. \A text, max : limit_text(text, max).hits \subseteq text.hits
    BY DEF limit_text
  <2>3. scanned_text(s, p, i).hits \subseteq H
    BY <2>1, <2>2 DEF scanned_text
  <2> QED BY <2>3, FoundLabels
<1> HIDE DEF p
<1> QED BY <1>1 DEF scan_attachment_content, p

\* What process_payload may return for attachments.
LEMMA RequestScanned ==
    ASSUME NEW s \in Settings, NEW principal, NEW body \in Bodies
    PROVE  LET result == scan_request(s, principal, body)
           IN  /\ \A f \in result.findings : f.label \in DOMAIN s.rules
               /\ result.ok /\ result.decision = "allow" => result.masks = NoMasks(body)
               /\ result.decision \in Actions
               /\ (\E k \in DOMAIN body.parts : scan_fails(s, body.parts[k])) => ~result.ok
<1> DEFINE findings == UNION {scan_attachment_content(s, principal, body.parts[k], k) :
                                k \in DOMAIN body.parts}
           decision == decision_of(findings)
           result == scan_request(s, principal, body)
           rewritten == rebuild_multipart_body(s, findings, body.parts)
<1>1. \/ result = Failed(body, findings)
      \/ /\ \A k \in DOMAIN body.parts : ~scan_fails(s, body.parts[k])
         /\ \/ decision # "redact" /\ result = Processed(decision, "builtin", findings, NoMasks(body))
            \/ result = ReviewFallback(body, findings)
            \/ result = Processed("redact", "builtin", findings, rewritten)
  BY DEF scan_request
<1>2. \A f \in findings : f.label \in DOMAIN s.rules /\ f.action \in Actions
  BY AttachmentLabels
<1> HIDE DEF findings
<1>6. decision \in Actions
  BY <1>2, DecisionKnown
<1> HIDE DEF decision, result, rewritten
<1>3. \A f \in result.findings : f.label \in DOMAIN s.rules
  BY <1>1, <1>2 DEF Failed, Processed, ReviewFallback
<1>4. result.ok /\ result.decision = "allow" => result.masks = NoMasks(body)
  BY <1>1 DEF Failed, Processed, ReviewFallback
<1>5. (\E k \in DOMAIN body.parts : scan_fails(s, body.parts[k])) => ~result.ok
  BY <1>1 DEF Failed
<1>7. result.decision \in Actions
  BY <1>1, <1>6 DEF Failed, Processed, ReviewFallback, Actions
<1> QED BY <1>3, <1>4, <1>5, <1>7 DEF result

\* The attachment of a request that must stop it.
Unreadable(cfg, body) ==
    /\ Attachments(cfg, body, "request")
    /\ \E k \in DOMAIN body.parts :
         LET p == body.parts[k]
         IN  /\ is_attachment(p) /\ media_type(p) \in cfg.allowed_media_types
             /\ p.size > cfg.max_bytes \/ p.state = "broken"

\* process_payload on a request: what is allowed is handed on as it came, and
\* an attachment that cannot be scanned fails the whole body.
LEMMA RequestProcessed ==
    ASSUME NEW s \in Settings, NEW principal, NEW body \in Bodies
    PROVE  LET result == process_payload(s, principal, body, "request")
           IN  /\ \A f \in result.findings : f.label \in DOMAIN s.rules
               /\ result.ok /\ result.decision = "allow" => result.masks = NoMasks(body)
               /\ result.decision \in Actions
               /\ Unreadable(s, body) => ~result.ok
<1> DEFINE result == process_payload(s, principal, body, "request")
           Good(r) == /\ \A f \in r.findings : f.label \in DOMAIN s.rules
                      /\ r.ok /\ r.decision = "allow" => r.masks = NoMasks(body)
                      /\ r.decision \in Actions
<1>1. CASE body.kind = "multipart" /\ s.attachments
  <2>1. result = scan_request(s, principal, body)
    BY <1>1 DEF process_payload
  <2>2. Good(result)
    BY <2>1, RequestScanned
  <2>3. Unreadable(s, body) => \E k \in DOMAIN body.parts : scan_fails(s, body.parts[k])
    <3> SUFFICES ASSUME NEW k \in DOMAIN body.parts,
                        is_attachment(body.parts[k]),
                        media_type(body.parts[k]) \in s.allowed_media_types,
                        body.parts[k].size > s.max_bytes \/ body.parts[k].state = "broken"
                 PROVE  scan_fails(s, body.parts[k])
      BY DEF Unreadable
    <3>1. CASE body.parts[k].size > s.max_bytes
      BY <3>1 DEF scan_fails, examined
    <3>2. CASE body.parts[k].state = "broken"
      <4>1. media_type(body.parts[k]) \in {"application/pdf", "ooxml"}
        BY <1>1, <3>2, MitmAssumption DEF part_holds
      <4>2. extract_attachment_content(body.parts[k]) = "Err"
        BY <3>2, <4>1 DEF extract_attachment_content, extract_pdf_document,
                          extract_ooxml_document, is_ooxml_attachment
      <4> QED BY <4>2 DEF scan_fails, examined
    <3> QED BY <3>1, <3>2
  <2>4. Unreadable(s, body) => ~result.ok
    BY <2>1, <2>3, RequestScanned
  <2> QED BY <2>2, <2>4
<1>2. CASE ~(body.kind = "multipart" /\ s.attachments)
  <2>1. \/ result = process_nodes(s, principal, body, string_nodes(s, body))
        \/ result = process_nodes(s, principal, body, nodes_of(body))
        \/ result = passthrough(body)
    BY <1>2 DEF process_payload
  <2>2. string_nodes(s, body) \in SUBSET nodes_of(body) /\ nodes_of(body) \in SUBSET nodes_of(body)
    BY DEF string_nodes
  <2>3. Good(process_nodes(s, principal, body, string_nodes(s, body)))
    BY <2>2, NodesAllowed
  <2>4. Good(process_nodes(s, principal, body, nodes_of(body)))
    BY <2>2, NodesAllowed
  <2>5. Good(passthrough(body))
    BY DEF passthrough, Processed, Actions
  <2>6. ~Unreadable(s, body)
    BY <1>2 DEF Unreadable, Attachments
  <2> HIDE DEF result, Good
  <2>7. Good(result)
    BY <2>1, <2>3, <2>4, <2>5
  <2> QED BY <2>6, <2>7 DEF Good, result
<1> QED BY <1>1, <1>2

--------------------------------------------------------------------------------
(* Masking a text: what redact_text keeps of the findings                   *)

\* Of a set of numbers one is the least.
LEMMA Least ==
    ASSUME NEW T \in SUBSET Nat, T # {}
    PROVE  \E x \in T : \A y \in T : x <= y
<1> DEFINE R == {ss \in Nat \X Nat : ss[1] < ss[2]}
<1>1. IsWellFoundedOn(R, Nat)
  BY NatLessThanWellFounded DEF OpToRel
<1>2. \A x, y \in Nat : x < y => <<x, y>> \in R
  OBVIOUS
<1> HIDE DEF R
<1>3. PICK x \in T : \A y \in T : <<y, x>> \notin R
  BY <1>1, WFMin
<1>4. \A y \in T : ~(y < x)
  BY <1>2, <1>3
<1> QED BY <1>3, <1>4

\* F are findings in a text of n characters.
Spans(F, n) ==
    \A f \in F : /\ f.start \in Nat /\ f.end \in Nat /\ f.start < f.end /\ f.end <= n
                 /\ f.action \in Actions

\* One of them comes first: it starts first, ends last of those that start with
\* it, and has the strictest action of those that are equally long.
LEMMA OneComesFirst ==
    ASSUME NEW n \in Nat, NEW F, Spans(F, n), F # {}
    PROVE  \E f \in F : \A g \in F : precedes(f, g)
<1>1. \A f \in F : /\ f.start \in Nat /\ f.end \in Nat /\ f.end <= n
                   /\ rank(f.action) \in 0..3
  BY DEF Spans, Actions, rank
<1> DEFINE Starts == {f.start : f \in F}
<1>2. PICK x \in Starts : \A y \in Starts : x <= y
  <2>1. Starts \in SUBSET Nat /\ Starts # {}
    BY <1>1
  <2> HIDE DEF Starts
  <2> QED BY <2>1, Least
<1> DEFINE F1 == {f \in F : f.start = x}
           Gaps == {n - f.end : f \in F1}
<1>3. PICK p \in Gaps : \A y \in Gaps : p <= y
  <2>1. Gaps \in SUBSET Nat /\ Gaps # {}
    BY <1>1, <1>2
  <2> HIDE DEF Gaps
  <2> QED BY <2>1, Least
<1> DEFINE F2 == {f \in F1 : n - f.end = p}
           Ranks == {3 - rank(f.action) : f \in F2}
<1>4. PICK q \in Ranks : \A y \in Ranks : q <= y
  <2>1. Ranks \in SUBSET Nat /\ Ranks # {}
    BY <1>1, <1>3
  <2> HIDE DEF Ranks
  <2> QED BY <2>1, Least
<1>5. PICK f \in F2 : 3 - rank(f.action) = q
  BY <1>4
<1>6. ASSUME NEW g \in F PROVE precedes(f, g)
  <2>1. x <= g.start /\ f.start = x
    BY <1>2, <1>5
  <2>2. CASE g.start = x
    <3>1. g \in F1 /\ p <= n - g.end /\ n - f.end = p
      BY <1>3, <1>5, <2>2
    <3>2. CASE n - g.end = p
      <4>1. q <= 3 - rank(g.action)
        BY <1>4, <3>1, <3>2
      <4>2. rank(f.action) >= rank(g.action)
        BY <1>1, <1>5, <4>1
      <4>3. f.end = g.end
        BY <1>1, <3>1, <3>2
      <4> QED BY <2>1, <2>2, <4>2, <4>3 DEF precedes
    <3>3. CASE n - g.end # p
      <4>1. f.end > g.end
        BY <1>1, <3>1, <3>3
      <4> QED BY <2>1, <2>2, <4>1 DEF precedes
    <3> QED BY <3>2, <3>3
  <2>3. CASE g.start # x
    <3>1. f.start < g.start
      BY <1>1, <2>1, <2>3
    <3> QED BY <3>1 DEF precedes
  <2> QED BY <2>2, <2>3
<1> QED BY <1>6

\* What is left of F where the text is occupied up to o, the finding taken
\* next, and where the text may be occupied up to.
Left(F, o) == {f \in F : f.start >= o}
Foremost(F, o) == CHOOSE f \in Left(F, o) : \A g \in Left(F, o) : precedes(f, g)
Ends(F) == {0} \cup {f.end : f \in F}

LEMMA ForemostIs ==
    ASSUME NEW n \in Nat, NEW F, Spans(F, n), NEW o \in Nat, Left(F, o) # {}
    PROVE  /\ Foremost(F, o) \in F
           /\ Foremost(F, o).start >= o
           /\ Foremost(F, o).end \in Ends(F)
           /\ Foremost(F, o).end > o
           /\ \A g \in Left(F, o) : precedes(Foremost(F, o), g)
<1>1. Spans(Left(F, o), n)
  BY DEF Spans, Left
<1>2. \E f \in Left(F, o) : \A g \in Left(F, o) : precedes(f, g)
  BY <1>1, OneComesFirst
<1>3. /\ Foremost(F, o) \in Left(F, o)
      /\ \A g \in Left(F, o) : precedes(Foremost(F, o), g)
  BY <1>2 DEF Foremost
<1>4. Foremost(F, o) \in F /\ Foremost(F, o).start >= o
  BY <1>3 DEF Left
<1>5. Foremost(F, o).end > o
  BY <1>4 DEF Spans
<1>6. Foremost(F, o).end \in Ends(F)
  BY <1>4 DEF Ends
<1> QED BY <1>3, <1>4, <1>5, <1>6

\* The value of "from" (kept) at o.
TakenAt(from, F, o) ==
    IF Left(F, o) = {} THEN {} ELSE {Foremost(F, o)} \cup from[Foremost(F, o).end]

\* "from" is what kept defines, on E.
Keeps(from, F, E) == from = [o \in E |-> TakenAt(from, F, o)]

LEMMA KeepsAt ==
    ASSUME NEW F, NEW E, NEW from, Keeps(from, F, E), NEW o \in E
    PROVE  from[o] = TakenAt(from, F, o)
BY DEF Keeps

\* Such a function exists on the last m of the places, for every m.
LEMMA KeepsExist ==
    ASSUME NEW n \in Nat, NEW F, Spans(F, n), NEW m \in Nat
    PROVE  \E from : Keeps(from, F, {o \in Ends(F) : n <= o + m})
<1> DEFINE Late(k) == {o \in Ends(F) : n <= o + k}
           T == {k \in Nat : ~\E from : Keeps(from, F, Late(k))}
<1> SUFFICES ASSUME T # {} PROVE FALSE
  OBVIOUS
<1>1. T \in SUBSET Nat
  OBVIOUS
<1>2. PICK k \in T : \A j \in T : k <= j
  BY <1>1, Least
<1>3. k \in Nat /\ ~\E from : Keeps(from, F, Late(k))
  OBVIOUS
<1>4. Ends(F) \subseteq Nat
  BY DEF Ends, Spans
<1>5. CASE k = 0
  <2>1. \A o \in Late(k) : Left(F, o) = {}
    BY <1>4, <1>5 DEF Left, Spans
  <2> DEFINE from == [o \in Late(k) |-> {}]
  <2>2. Keeps(from, F, Late(k))
    BY <2>1 DEF Keeps, TakenAt
  <2> QED BY <1>3, <2>2
<1>6. CASE k # 0
  <2>1. k - 1 \in Nat /\ k - 1 \notin T
    <3>1. k - 1 \in Nat /\ ~(k <= k - 1)
      BY <1>3, <1>6
    <3> QED BY <1>2, <3>1
  <2>2. PICK g : Keeps(g, F, Late(k - 1))
    BY <2>1
  <2> DEFINE from == [o \in Late(k) |-> IF o \in Late(k - 1) THEN g[o] ELSE TakenAt(g, F, o)]
  <2>3. ASSUME NEW o \in Late(k) PROVE from[o] = TakenAt(from, F, o)
    <3>1. from[o] = TakenAt(g, F, o)
      BY <2>2, KeepsAt
    <3>2. CASE Left(F, o) = {}
      BY <3>1, <3>2 DEF TakenAt
    <3>3. CASE Left(F, o) # {}
      <4> DEFINE f == Foremost(F, o)
      <4>1. f.end \in Ends(F) /\ f.end > o /\ o \in Nat
        BY <1>4, <3>3, ForemostIs
      <4> HIDE DEF f
      <4>2. f.end \in Late(k - 1) /\ f.end \in Late(k)
        BY <1>3, <1>4, <1>6, <4>1
      <4>3. from[f.end] = g[f.end]
        BY <4>2
      <4> QED BY <3>1, <3>3, <4>3 DEF TakenAt, f
    <3> QED BY <3>2, <3>3
  <2>4. from = [o \in Late(k) |-> from[o]]
    OBVIOUS
  <2> HIDE DEF from
  <2>5. Keeps(from, F, Late(k))
    BY <2>3, <2>4 DEF Keeps
  <2> QED BY <1>3, <2>5
<1> QED BY <1>5, <1>6

LEMMA KeptIs ==
    ASSUME NEW n \in Nat, NEW F, Spans(F, n)
    PROVE  \E from : Keeps(from, F, Ends(F)) /\ kept(F) = from[0]
<1> DEFINE from == CHOOSE h : h = [o \in Ends(F) |-> TakenAt(h, F, o)]
<1>1. kept(F) = from[0]
  BY DEF kept, TakenAt, Left, Foremost, Ends
<1>2. {o \in Ends(F) : n <= o + n} = Ends(F)
  BY DEF Ends, Spans
<1>3. \E h : h = [o \in Ends(F) |-> TakenAt(h, F, o)]
  BY <1>2, KeepsExist DEF Keeps
<1>4. from = [o \in Ends(F) |-> TakenAt(from, F, o)]
  BY <1>3
<1> HIDE DEF from
<1> QED BY <1>1, <1>4 DEF Keeps

\* g is masked and takes f with it, or the beginning of f.
Over(g, f) ==
    /\ positions(g) \cap positions(f) # {}
    /\ positions(f) \subseteq positions(g) \/ g.start < f.start

\* Every finding is kept, inside one that is kept, or behind one that starts
\* before it and reaches into it.
LEMMA KeptCovers ==
    ASSUME NEW n \in Nat, NEW F, Spans(F, n)
    PROVE  kept(F) \subseteq F /\ \A f \in F : \E g \in kept(F) : Over(g, f)
<1>1. PICK from : Keeps(from, F, Ends(F)) /\ kept(F) = from[0]
  BY KeptIs
<1> DEFINE Good(o) == from[o] \subseteq F /\ \A f \in Left(F, o) : \E g \in from[o] : Over(g, f)
           T == {m \in Nat : \E o \in Ends(F) : o + m = n /\ ~Good(o)}
<1>2. Ends(F) \subseteq 0..n
  BY DEF Ends, Spans
<1>3. ASSUME T # {} PROVE FALSE
  <2>1. T \in SUBSET Nat
    OBVIOUS
  <2> HIDE DEF T
  <2>2. PICK m \in T : \A j \in T : m <= j
    BY <1>3, <2>1, Least
  <2>3. PICK o \in Ends(F) : o + m = n /\ ~Good(o) /\ m \in Nat
    BY <2>2 DEF T
  <2>4. from[o] = TakenAt(from, F, o) /\ o \in Nat
    BY <1>1, <1>2, <2>3, KeepsAt
  <2>5. CASE Left(F, o) = {}
    <3>1. from[o] = {}
      BY <2>4, <2>5 DEF TakenAt
    <3> QED BY <2>3, <2>5, <3>1
  <2>6. CASE Left(F, o) # {}
    <3> DEFINE h == Foremost(F, o)
    <3>1. /\ h \in F /\ h.start >= o /\ h.end \in Ends(F) /\ h.end > o
          /\ \A g \in Left(F, o) : precedes(h, g)
      BY <2>4, <2>6, ForemostIs
    <3>2. from[o] = {h} \cup from[h.end]
      BY <2>4, <2>6 DEF TakenAt
    <3> HIDE DEF h
    <3>3. Good(h.end)
      <4>1. h.end \in 0..n /\ n - h.end \in Nat /\ n - h.end < m
        BY <1>2, <2>3, <2>4, <3>1
      <4>2. n - h.end \notin T
        BY <2>2, <2>3, <4>1
      <4>3. h.end + (n - h.end) = n
        BY <4>1
      <4> QED BY <3>1, <4>1, <4>2, <4>3 DEF T
    <3>4. ASSUME NEW f \in Left(F, o) PROVE \E g \in from[o] : Over(g, f)
      <4>1. f \in F /\ f.start >= o /\ precedes(h, f)
        BY <3>1 DEF Left
      <4>2. CASE f.start >= h.end
        <5>1. f \in Left(F, h.end)
          BY <4>1, <4>2 DEF Left
        <5> QED BY <3>2, <3>3, <5>1
      <4>3. CASE f.start < h.end
        <5>1. /\ h.start \in Nat /\ h.end \in Nat /\ h.start < h.end
              /\ f.start \in Nat /\ f.end \in Nat /\ f.start < f.end
          BY <3>1, <4>1 DEF Spans
        <5>2. h.start <= f.start /\ (h.start = f.start => h.end >= f.end)
          BY <4>1, <5>1 DEF precedes
        <5>3. f.start \in positions(h) \cap positions(f)
          BY <4>3, <5>1, <5>2 DEF positions
        <5>4. positions(f) \subseteq positions(h) \/ h.start < f.start
          BY <5>1, <5>2 DEF positions
        <5>5. Over(h, f)
          BY <5>3, <5>4 DEF Over
        <5> QED BY <3>2, <5>5
      <4> QED BY <4>2, <4>3, <3>1, <4>1 DEF Spans
    <3>5. from[o] \subseteq F
      BY <3>1, <3>2, <3>3
    <3> QED BY <2>3, <3>4, <3>5
  <2> QED BY <2>5, <2>6
<1>4. 0 \in Ends(F) /\ n \in Nat /\ 0 + n = n
  BY DEF Ends
<1>5. Good(0)
  BY <1>3, <1>4
<1>6. Left(F, 0) = F
  BY DEF Left, Spans
<1> QED BY <1>1, <1>5, <1>6

--------------------------------------------------------------------------------
(* Masking a PDF page: which values are replaced, the longest first         *)

\* H are the hits of a page of n characters.
OnPage(H, n) ==
    /\ IsFiniteSet(H)
    /\ \A h \in H : h.start \in Nat /\ h.end \in Nat /\ h.start < h.end /\ h.end <= n

LEMMA OneIsLongest ==
    ASSUME NEW n \in Nat, NEW H, OnPage(H, n), NEW R \in SUBSET H, R # {}
    PROVE  \E h \in R : \A g \in R : ~longer(g, h)
<1> DEFINE Gaps == {n - (h.end - h.start) : h \in R}
<1>1. \A h \in R : h.end - h.start \in 0..n /\ n - (h.end - h.start) \in Nat
  BY DEF OnPage
<1>2. PICK p \in Gaps : \A y \in Gaps : p <= y
  <2>1. Gaps \in SUBSET Nat /\ Gaps # {}
    BY <1>1
  <2> HIDE DEF Gaps
  <2> QED BY <2>1, Least
<1>3. PICK h \in R : n - (h.end - h.start) = p
  BY <1>2
<1>4. ASSUME NEW g \in R PROVE ~longer(g, h)
  <2>1. n - (h.end - h.start) <= n - (g.end - g.start)
    BY <1>2, <1>3
  <2> QED BY <1>1, <2>1 DEF longer
<1> QED BY <1>4

\* The value replaced next, and what it leaves to replace.
Longest(R) == CHOOSE h \in R : \A g \in R : ~longer(g, h)
Untouched(R) == {g \in R : ~overlap(g, Longest(R))}

LEMMA UntouchedIsLess ==
    ASSUME NEW n \in Nat, NEW H, OnPage(H, n), NEW R \in SUBSET H, R # {}
    PROVE  /\ Longest(R) \in R /\ \A g \in R : ~longer(g, Longest(R))
           /\ Untouched(R) \in SUBSET H
           /\ Cardinality(R) \in Nat /\ Cardinality(Untouched(R)) \in Nat
           /\ Cardinality(Untouched(R)) < Cardinality(R)
<1>1. Longest(R) \in R /\ \A g \in R : ~longer(g, Longest(R))
  BY OneIsLongest DEF Longest
<1>2. Longest(R).start \in positions(Longest(R))
  BY <1>1 DEF OnPage, positions
<1>3. Longest(R) \notin Untouched(R)
  BY <1>2 DEF Untouched, overlap
<1>4. Untouched(R) \in SUBSET R /\ Untouched(R) # R
  BY <1>1, <1>3 DEF Untouched
<1>5. IsFiniteSet(R) /\ IsFiniteSet(Untouched(R))
  BY <1>4, FS_Subset DEF OnPage
<1>6. Cardinality(R) \in Nat /\ Cardinality(Untouched(R)) \in Nat
  BY <1>5, FS_CardinalityType
<1>7. /\ Cardinality(Untouched(R)) <= Cardinality(R)
      /\ Cardinality(Untouched(R)) # Cardinality(R)
  BY <1>4, <1>5, FS_Subset
<1>8. Cardinality(Untouched(R)) < Cardinality(R)
  BY <1>6, <1>7
<1> QED BY <1>1, <1>4, <1>6, <1>8

\* The value of "replaced" (pdf_occurrences) at R, and that it is what
\* pdf_occurrences defines, on E.
ReplacedAt(rep, R) == IF R = {} THEN {} ELSE {Longest(R)} \cup rep[Untouched(R)]
Replaces(rep, E) == rep = [R \in E |-> ReplacedAt(rep, R)]

LEMMA ReplacesAt ==
    ASSUME NEW E, NEW rep, Replaces(rep, E), NEW R \in E
    PROVE  rep[R] = ReplacedAt(rep, R)
BY DEF Replaces

\* Such a function exists on the sets of up to m hits, for every m.
LEMMA ReplacesExist ==
    ASSUME NEW n \in Nat, NEW H, OnPage(H, n), NEW m \in Nat
    PROVE  \E rep : Replaces(rep, {R \in SUBSET H : Cardinality(R) <= m})
<1> DEFINE Small(k) == {R \in SUBSET H : Cardinality(R) <= k}
           T == {k \in Nat : ~\E rep : Replaces(rep, Small(k))}
<1> SUFFICES ASSUME T # {} PROVE FALSE
  OBVIOUS
<1>1. T \in SUBSET Nat
  OBVIOUS
<1>2. PICK k \in T : \A j \in T : k <= j
  BY <1>1, Least
<1>3. k \in Nat /\ ~\E rep : Replaces(rep, Small(k))
  OBVIOUS
<1>4. CASE k = 0
  <2>1. ASSUME NEW R \in Small(k), R # {} PROVE FALSE
    <3>1. R \in SUBSET H /\ Cardinality(R) <= 0
      BY <1>4
    <3>2. /\ Cardinality(R) \in Nat /\ Cardinality(Untouched(R)) \in Nat
          /\ Cardinality(Untouched(R)) < Cardinality(R)
      BY <2>1, <3>1, UntouchedIsLess
    <3> QED BY <3>1, <3>2
  <2> DEFINE rep == [R \in Small(k) |-> {}]
  <2>2. Replaces(rep, Small(k))
    BY <2>1 DEF Replaces, ReplacedAt
  <2> QED BY <1>3, <2>2
<1>5. CASE k # 0
  <2>1. k - 1 \in Nat /\ k - 1 \notin T
    <3>1. k - 1 \in Nat /\ ~(k <= k - 1)
      BY <1>3, <1>5
    <3> QED BY <1>2, <3>1
  <2>2. PICK g : Replaces(g, Small(k - 1))
    BY <2>1
  <2> DEFINE rep == [R \in Small(k) |-> IF R \in Small(k - 1) THEN g[R] ELSE ReplacedAt(g, R)]
  <2>3. ASSUME NEW R \in Small(k) PROVE rep[R] = ReplacedAt(rep, R)
    <3>1. rep[R] = ReplacedAt(g, R)
      BY <2>2, ReplacesAt
    <3>2. CASE R = {}
      BY <3>1, <3>2 DEF ReplacedAt
    <3>3. CASE R # {}
      <4>1. /\ Untouched(R) \in SUBSET H
            /\ Cardinality(R) \in Nat /\ Cardinality(Untouched(R)) \in Nat
            /\ Cardinality(Untouched(R)) < Cardinality(R)
        BY <3>3, UntouchedIsLess
      <4>2. Cardinality(Untouched(R)) <= k - 1 /\ Cardinality(Untouched(R)) <= k
        BY <1>3, <4>1
      <4>3. rep[Untouched(R)] = g[Untouched(R)]
        BY <4>1, <4>2
      <4> QED BY <3>1, <3>3, <4>3 DEF ReplacedAt
    <3> QED BY <3>2, <3>3
  <2>4. rep = [R \in Small(k) |-> rep[R]]
    OBVIOUS
  <2> HIDE DEF rep
  <2>5. Replaces(rep, Small(k))
    BY <2>3, <2>4 DEF Replaces
  <2> QED BY <1>3, <2>5
<1> QED BY <1>4, <1>5

\* The hits of a page that have one of the labels to mask.
PageHits(findings, p, i) == {h \in p.nodes[i].hits : h.label \in pdf_labels(findings, p, i)}

LEMMA OccurrencesAre ==
    ASSUME NEW n \in Nat, NEW findings, NEW p, NEW i, OnPage(PageHits(findings, p, i), n)
    PROVE  \E rep : /\ Replaces(rep, SUBSET PageHits(findings, p, i))
                    /\ pdf_occurrences(findings, p, i) = rep[PageHits(findings, p, i)]
<1> DEFINE H == PageHits(findings, p, i)
           rep == CHOOSE f : f = [R \in SUBSET H |-> ReplacedAt(f, R)]
<1>1. pdf_occurrences(findings, p, i) = rep[H]
  BY DEF pdf_occurrences, ReplacedAt, Longest, Untouched, PageHits
<1>2. {R \in SUBSET H : Cardinality(R) <= Cardinality(H)} = SUBSET H
  <2>1. IsFiniteSet(H)
    BY DEF OnPage
  <2> HIDE DEF H
  <2> QED BY <2>1, FS_Subset
<1>3. Cardinality(H) \in Nat
  <2>1. IsFiniteSet(H)
    BY DEF OnPage
  <2> HIDE DEF H
  <2> QED BY <2>1, FS_CardinalityType
<1>4. \E f : f = [R \in SUBSET H |-> ReplacedAt(f, R)]
  <2>1. \E f : Replaces(f, {R \in SUBSET H : Cardinality(R) <= Cardinality(H)})
    BY <1>3, ReplacesExist
  <2>2. \E f : Replaces(f, SUBSET H)
    BY <1>2, <2>1
  <2> QED BY <2>2 DEF Replaces
<1>5. rep = [R \in SUBSET H |-> ReplacedAt(rep, R)]
  BY <1>4
<1> HIDE DEF rep
<1> QED BY <1>1, <1>5 DEF Replaces

\* Every value to mask is replaced, or overlaps one that is and is not shorter.
LEMMA PageCovers ==
    ASSUME NEW n \in Nat, NEW findings, NEW p, NEW i, OnPage(PageHits(findings, p, i), n)
    PROVE  /\ pdf_occurrences(findings, p, i) \subseteq PageHits(findings, p, i)
           /\ \A h \in PageHits(findings, p, i) : \E g \in pdf_occurrences(findings, p, i) :
                h = g \/ (overlap(g, h) /\ ~longer(h, g))
<1> DEFINE H == PageHits(findings, p, i)
<1>1. PICK rep : Replaces(rep, SUBSET H) /\ pdf_occurrences(findings, p, i) = rep[H]
  BY OccurrencesAre
<1>2. OnPage(H, n)
  OBVIOUS
<1> HIDE DEF H
<1> DEFINE Good(R) == /\ rep[R] \subseteq R
                      /\ \A h \in R : \E g \in rep[R] : h = g \/ (overlap(g, h) /\ ~longer(h, g))
           T == {m \in Nat : \E R \in SUBSET H : Cardinality(R) = m /\ ~Good(R)}
<1>3. ASSUME T # {} PROVE FALSE
  <2>1. T \in SUBSET Nat
    OBVIOUS
  <2> HIDE DEF T
  <2>2. PICK m \in T : \A j \in T : m <= j
    BY <1>3, <2>1, Least
  <2>3. PICK R \in SUBSET H : Cardinality(R) = m /\ ~Good(R)
    BY <2>2 DEF T
  <2>4. rep[R] = ReplacedAt(rep, R)
    BY <1>1, ReplacesAt
  <2>5. CASE R = {}
    <3>1. rep[R] = {}
      BY <2>4, <2>5 DEF ReplacedAt
    <3> QED BY <2>3, <2>5, <3>1
  <2>6. CASE R # {}
    <3>1. /\ Longest(R) \in R /\ \A g \in R : ~longer(g, Longest(R))
          /\ Untouched(R) \in SUBSET H
          /\ Cardinality(R) \in Nat /\ Cardinality(Untouched(R)) \in Nat
          /\ Cardinality(Untouched(R)) < Cardinality(R)
      BY <1>2, <2>6, UntouchedIsLess
    <3>2. rep[R] = {Longest(R)} \cup rep[Untouched(R)]
      BY <2>4, <2>6 DEF ReplacedAt
    <3>3. Good(Untouched(R))
      <4>1. ~(m <= Cardinality(Untouched(R)))
        BY <2>3, <3>1
      <4>2. Cardinality(Untouched(R)) \notin T
        BY <2>2, <4>1
      <4> QED BY <3>1, <4>2 DEF T
    <3>4. ASSUME NEW h \in R
          PROVE  \E g \in rep[R] : h = g \/ (overlap(g, h) /\ ~longer(h, g))
      <4>1. CASE h \in Untouched(R)
        BY <3>2, <3>3, <4>1
      <4>2. CASE h \notin Untouched(R)
        <5>1. overlap(Longest(R), h)
          BY <4>2 DEF Untouched, overlap
        <5> QED BY <3>1, <3>2, <5>1
      <4> QED BY <4>1, <4>2
    <3>5. rep[R] \subseteq R
      BY <3>1, <3>2, <3>3 DEF Untouched
    <3> QED BY <2>3, <3>4, <3>5
  <2> QED BY <2>5, <2>6
<1>4. Cardinality(H) \in Nat
  BY <1>2, FS_CardinalityType DEF OnPage
<1>5. Good(H)
  BY <1>3, <1>4
<1> QED BY <1>1, <1>5 DEF H

--------------------------------------------------------------------------------
(* What is found in a text                                                  *)

Engine(s, h) == h.by = "detector" \/ s.presidio # "off"

\* Cut off after some characters a text holds no more than before.
LEMMA LimitedText ==
    ASSUME NEW s \in Settings, NEW text, TextUnder(s, text), NEW max \in Nat
    PROVE  LET T == limit_text(text, max)
           IN  /\ T.len \in Nat /\ T.len <= text.len /\ T.hits \subseteq text.hits
               /\ T.len # text.len => \A h \in T.hits : h.end <= T.len
               /\ \A h \in T.hits : h.by = "detector" => h.start < h.end /\ h.end <= T.len
               /\ \A h \in text.hits : h.end <= max => h \in T.hits
<1> DEFINE T == limit_text(text, max)
<1>1. /\ text.len \in Nat
      /\ \A h \in text.hits : h.start \in Nat /\ h.end \in Nat
      /\ \A h \in text.hits : h.by = "detector" => h.start < h.end /\ h.end <= text.len
  BY DEF TextUnder, text_holds
<1>2. CASE text.len <= max
  BY <1>1, <1>2 DEF limit_text
<1>3. CASE ~(text.len <= max)
  <2>1. T.len = max /\ T.hits = {h \in text.hits : h.end <= max}
    BY <1>3 DEF limit_text
  <2> HIDE DEF T
  <2> QED BY <1>1, <1>3, <2>1 DEF T
<1> QED BY <1>2, <1>3

\* Finding f reports hit h of the text.
Reports(s, principal, text, f, h) ==
    /\ f.label = h.label /\ f.action = action_for(s.rules, principal, h.label)
    /\ f.start \in Nat /\ f.end \in Nat /\ f.start < f.end
    /\ f.start = h.start
    /\ f.end = IF h.end > text.len THEN text.len ELSE h.end
    /\ positions(f) = WithinText(text, h)

\* Every finding reports a hit of an engine in use, inside the text.
LEMMA FoundIsHit ==
    ASSUME NEW s \in Settings, NEW principal, NEW text, TextUnder(s, text), NEW max \in Nat,
           NEW pointer, NEW at,
           NEW f \in findings_in(s, principal, limit_text(text, max), pointer, at)
    PROVE  /\ f.at = at /\ f.pointer = pointer /\ f.end <= limit_text(text, max).len
           /\ \E h \in limit_text(text, max).hits :
                Reports(s, principal, text, f, h) /\ Engine(s, h)
<1> DEFINE T == limit_text(text, max)
<1>1. /\ T.len \in Nat /\ T.len <= text.len /\ T.hits \subseteq text.hits
      /\ T.len # text.len => \A h \in T.hits : h.end <= T.len
      /\ \A h \in T.hits : h.by = "detector" => h.start < h.end /\ h.end <= T.len
  BY LimitedText
<1>2. PICK g \in scan_text(T) \cup analyze(s, T) :
        f = [at |-> at, pointer |-> pointer, start |-> g.start, end |-> g.end, label |-> g.label,
             action |-> action_for(s.rules, principal, g.label)]
  BY DEF findings_in
<1> HIDE DEF T
<1>3. /\ f.at = at /\ f.pointer = pointer /\ f.start = g.start /\ f.end = g.end
      /\ f.label = g.label /\ f.action = action_for(s.rules, principal, g.label)
  BY <1>2
<1>4. /\ text.len \in Nat
      /\ \A h \in text.hits : h.start \in Nat /\ h.end \in Nat
  BY DEF TextUnder, text_holds
<1>5. CASE g \in scan_text(T)
  <2>1. g \in T.hits /\ g.by = "detector"
    BY <1>5 DEF scan_text
  <2>2. g.start \in Nat /\ g.end \in Nat /\ g.start < g.end /\ g.end <= T.len
    BY <1>1, <1>4, <2>1
  <2>3. ~(g.end > text.len)
    BY <1>1, <1>4, <2>2
  <2>4. positions(f) = WithinText(text, g)
    BY <1>3, <2>3 DEF positions, WithinText
  <2>5. Reports(s, principal, text, f, g)
    BY <1>3, <2>2, <2>3, <2>4 DEF Reports
  <2> QED BY <1>3, <2>1, <2>2, <2>5 DEF Engine, T
<1>6. CASE g \in analyze(s, T)
  <2>1. PICK h \in T.hits :
           /\ g = [h EXCEPT !.start = char_offset_to_byte_index(h.start, T),
                            !.end   = char_offset_to_byte_index(h.end, T)]
           /\ s.presidio # "off" /\ g.start < g.end
    BY <1>6 DEF analyze
  <2>2. h \in [start : Nat, end : Nat, label : DOMAIN s.rules, by : {"detector", "presidio"}]
    BY <1>1 DEF TextUnder
  <2>3. /\ g.label = h.label
        /\ g.start = char_offset_to_byte_index(h.start, T)
        /\ g.end = char_offset_to_byte_index(h.end, T)
    BY <2>1, <2>2
  <2>4. h.start \in Nat /\ h.end \in Nat
    BY <2>2
  <2>5. g.start = h.start /\ g.end = IF h.end > T.len THEN T.len ELSE h.end
    BY <1>1, <2>1, <2>3, <2>4 DEF char_offset_to_byte_index
  <2>6. g.end = IF h.end > text.len THEN text.len ELSE h.end
    BY <1>1, <1>4, <2>4, <2>5
  <2>7. g.start \in Nat /\ g.end \in Nat /\ g.start < g.end /\ g.end <= T.len
    BY <1>1, <2>1, <2>4, <2>5
  <2>8. positions(f) = WithinText(text, h)
    BY <1>3, <1>4, <2>4, <2>5, <2>6 DEF positions, WithinText
  <2>9. Reports(s, principal, text, f, h)
    BY <1>3, <2>3, <2>5, <2>6, <2>7, <2>8 DEF Reports
  <2> QED BY <1>3, <2>1, <2>7, <2>9 DEF Engine, T
<1> QED BY <1>2, <1>5, <1>6

\* Every hit of an engine in use is reported.
LEMMA HitIsFound ==
    ASSUME NEW s \in Settings, NEW principal, NEW text, TextUnder(s, text), NEW max \in Nat,
           NEW pointer, NEW at,
           NEW h \in limit_text(text, max).hits, Engine(s, h), WithinText(text, h) # {}
    PROVE  \E f \in findings_in(s, principal, limit_text(text, max), pointer, at) :
               Reports(s, principal, text, f, h)
<1> DEFINE T == limit_text(text, max)
           Finding(g) == [at |-> at, pointer |-> pointer, start |-> g.start, end |-> g.end,
                          label |-> g.label, action |-> action_for(s.rules, principal, g.label)]
<1>1. /\ T.len \in Nat /\ T.len <= text.len /\ T.hits \subseteq text.hits
      /\ T.len # text.len => \A g \in T.hits : g.end <= T.len
      /\ \A g \in T.hits : g.by = "detector" => g.start < g.end /\ g.end <= T.len
  BY LimitedText
<1>2. \A g \in scan_text(T) \cup analyze(s, T) :
         Finding(g) \in findings_in(s, principal, T, pointer, at)
  BY DEF findings_in
<1>3. /\ text.len \in Nat
      /\ h \in [start : Nat, end : Nat, label : DOMAIN s.rules, by : {"detector", "presidio"}]
  BY <1>1 DEF TextUnder, text_holds
<1>a. h \in T.hits
  OBVIOUS
<1> HIDE DEF T
<1>4. h.start \in Nat /\ h.end \in Nat /\ h.by \in {"detector", "presidio"}
  BY <1>3
<1>5. h.start < (IF h.end > text.len THEN text.len ELSE h.end)
  BY <1>3, <1>4 DEF WithinText
<1>6. ASSUME NEW g \in scan_text(T) \cup analyze(s, T), g.label = h.label, g.start = h.start,
             g.end = IF h.end > text.len THEN text.len ELSE h.end
      PROVE  \E f \in findings_in(s, principal, T, pointer, at) : Reports(s, principal, text, f, h)
  <2> DEFINE f == Finding(g)
  <2>1. f \in findings_in(s, principal, T, pointer, at)
    BY <1>2
  <2>2. /\ f.label = h.label /\ f.action = action_for(s.rules, principal, h.label)
        /\ f.start = h.start /\ f.end = IF h.end > text.len THEN text.len ELSE h.end
    BY <1>6
  <2> HIDE DEF f
  <2>3. f.start \in Nat /\ f.end \in Nat /\ f.start < f.end
    BY <1>3, <1>4, <1>5, <2>2
  <2>4. positions(f) = WithinText(text, h)
    BY <1>3, <1>4, <2>2 DEF positions, WithinText
  <2> QED BY <2>1, <2>2, <2>3, <2>4 DEF Reports
<1>7. CASE h.by = "detector"
  <2>1. h \in scan_text(T)
    BY <1>a, <1>7 DEF scan_text
  <2>2. ~(h.end > text.len)
    BY <1>1, <1>3, <1>4, <1>7, <1>a
  <2> QED BY <1>6, <2>1, <2>2 DEF T
<1>8. CASE h.by = "presidio"
  <2> DEFINE g == [h EXCEPT !.start = char_offset_to_byte_index(h.start, T),
                            !.end   = char_offset_to_byte_index(h.end, T)]
  <2>1. /\ g.label = h.label
        /\ g.start = char_offset_to_byte_index(h.start, T)
        /\ g.end = char_offset_to_byte_index(h.end, T)
    BY <1>3
  <2>2. s.presidio # "off"
    BY <1>8 DEF Engine
  <2>3. (IF h.end > T.len THEN T.len ELSE h.end) = IF h.end > text.len THEN text.len ELSE h.end
    BY <1>1, <1>3, <1>4, <1>a
  <2>4. g.start = h.start /\ g.end = IF h.end > text.len THEN text.len ELSE h.end
    BY <1>1, <1>3, <1>4, <1>5, <2>1, <2>3 DEF char_offset_to_byte_index
  <2>5. g.start < g.end
    BY <1>5, <2>4
  <2>6. g \in analyze(s, T)
    BY <1>8, <1>a, <2>2, <2>5 DEF analyze
  <2> HIDE DEF g
  <2> QED BY <1>6, <2>1, <2>4, <2>6 DEF T
<1> QED BY <1>4, <1>7, <1>8

\* The findings of a text are spans of it.
LEMMA FoundSpans ==
    ASSUME NEW s \in Settings, NEW principal, NEW text, TextUnder(s, text), NEW max \in Nat,
           NEW pointer, NEW at
    PROVE  Spans(findings_in(s, principal, limit_text(text, max), pointer, at), text.len)
<1> DEFINE F == findings_in(s, principal, limit_text(text, max), pointer, at)
<1> SUFFICES ASSUME NEW f \in F
             PROVE  /\ f.start \in Nat /\ f.end \in Nat /\ f.start < f.end /\ f.end <= text.len
                    /\ f.action \in Actions
  BY DEF Spans
<1>1. f.end <= limit_text(text, max).len
  BY FoundIsHit
<1>2. PICK h \in limit_text(text, max).hits : Reports(s, principal, text, f, h)
  BY FoundIsHit
<1>3. /\ limit_text(text, max).len \in Nat /\ limit_text(text, max).len <= text.len
      /\ limit_text(text, max).hits \subseteq text.hits
  BY LimitedText
<1>4. h.label \in DOMAIN s.rules
  BY <1>2, <1>3 DEF TextUnder
<1>5. f.action \in Actions
  BY <1>2, <1>4, ActionKnown DEF Reports
<1>6. text.len \in Nat /\ f.start \in Nat /\ f.end \in Nat /\ f.start < f.end
  BY <1>2 DEF Reports, TextUnder, text_holds
<1> HIDE DEF F
<1> QED BY <1>1, <1>3, <1>5, <1>6

--------------------------------------------------------------------------------
(* What is masked of a text                                                 *)

Sensitives(s, principal, text) ==
    {h \in text.hits : Sensitive(s, principal, h) /\ WithinText(text, h) # {}}

\* M covers every sensitive value among those seen, and nothing that may be
\* shown.
MasksText(s, principal, page, text, seen, M) ==
    /\ \A h \in Sensitives(s, principal, text) :
         h \in seen => Covered(s, principal, page, text, h, M)
    /\ M \subseteq UNION {WithinText(text, h) :
         h \in {g \in text.hits : action_for(s.rules, principal, g.label) # "allow"}}

\* Of a text that could be analyzed redact_text covers every sensitive value
\* within the limit, and masks nothing that may be shown.
LEMMA TextMasked ==
    ASSUME NEW s \in Settings, NEW principal, NEW text, TextUnder(s, text), NEW max \in Nat,
           NEW pointer, NEW at, ~analysis_fails(s, limit_text(text, max)),
           NEW F, F = findings_in(s, principal, limit_text(text, max), pointer, at)
    PROVE  MasksText(s, principal, FALSE, text, limit_text(text, max).hits, masked_by(F))
<1> DEFINE T == limit_text(text, max)
           K == kept(selected(F))
<1>1. Spans(F, text.len) /\ text.len \in Nat
  BY FoundSpans DEF TextUnder, text_holds
<1>2. Spans(selected(F), text.len)
  BY <1>1 DEF Spans, selected
<1>3. K \subseteq selected(F) /\ \A f \in selected(F) : \E g \in K : Over(g, f)
  BY <1>1, <1>2, KeptCovers
<1>4. masked_by(F) = UNION {positions(f) : f \in K}
  BY DEF masked_by
<1> HIDE DEF K
<1>5. T.len \in Nat /\ T.hits \subseteq text.hits
  BY LimitedText
<1> HIDE DEF T
\* Findings taken report hits that may not be shown, of engines that answered.
<1>6. ASSUME NEW f \in K
      PROVE  \E h \in text.hits : /\ Reports(s, principal, text, f, h)
                                  /\ Sensitive(s, principal, h)
  <2>1. f \in F /\ f.action # "allow"
    BY <1>3 DEF selected
  <2>2. f.end <= T.len
    BY <2>1, FoundIsHit DEF T
  <2>3. PICK h \in T.hits : Reports(s, principal, text, f, h) /\ Engine(s, h)
    BY <2>1, FoundIsHit DEF T
  <2>4. T.len > 0
    BY <1>5, <2>2, <2>3 DEF Reports
  <2>5. s.presidio # "down"
    BY <2>4 DEF analysis_fails, T
  <2>6. s.presidio \in {"off", "up", "down"}
    BY MitmAssumption
  <2>7. h.by = "detector" \/ s.presidio = "up"
    BY <2>3, <2>5, <2>6 DEF Engine
  <2>8. action_for(s.rules, principal, h.label) # "allow"
    BY <2>1, <2>3 DEF Reports
  <2> QED BY <1>5, <2>3, <2>7, <2>8 DEF Sensitive
<1>7. ASSUME NEW h \in Sensitives(s, principal, text), h \in T.hits
      PROVE  Covered(s, principal, FALSE, text, h, masked_by(F))
  <2>1. /\ h \in text.hits /\ WithinText(text, h) # {} /\ Engine(s, h)
        /\ action_for(s.rules, principal, h.label) # "allow"
    BY DEF Sensitives, Sensitive, Engine
  <2>2. PICK f \in F : Reports(s, principal, text, f, h)
    BY <1>7, <2>1, HitIsFound DEF T
  <2>3. f \in selected(F)
    BY <2>1, <2>2 DEF selected, Reports
  <2>4. PICK g \in K : Over(g, f)
    BY <1>3, <2>3
  <2>5. PICK d \in text.hits : Reports(s, principal, text, g, d) /\ Sensitive(s, principal, d)
    BY <1>6
  <2>6. WithinText(text, d) \subseteq masked_by(F)
    BY <1>4, <2>5 DEF Reports
  <2>7. /\ WithinText(text, d) \cap WithinText(text, h) # {}
        /\ WithinText(text, h) \subseteq WithinText(text, d) \/ d.start < h.start
    BY <2>2, <2>4, <2>5 DEF Over, Reports
  <2>8. CASE WithinText(text, h) \subseteq WithinText(text, d)
    BY <2>6, <2>7, <2>8 DEF Covered
  <2>9. CASE d.start < h.start
    <3>1. h.start \in Nat
      BY <2>2 DEF Reports
    <3>2. d # h
      BY <2>9, <3>1
    <3>3. Shaded(s, principal, FALSE, text, h)
      BY <2>5, <2>7, <2>9, <3>2 DEF Shaded
    <3> QED BY <2>6, <2>7, <3>3 DEF Covered
  <2> QED BY <2>7, <2>8, <2>9
<1>8. ASSUME NEW x \in masked_by(F)
      PROVE  \E h \in text.hits : /\ action_for(s.rules, principal, h.label) # "allow"
                                  /\ x \in WithinText(text, h)
  <2>1. PICK f \in K : x \in positions(f)
    BY <1>4
  <2>2. PICK h \in text.hits : Reports(s, principal, text, f, h) /\ Sensitive(s, principal, h)
    BY <1>6
  <2> QED BY <2>1, <2>2 DEF Reports, Sensitive
<1> QED BY <1>7, <1>8 DEF T, MasksText

\* The same of a PDF page, whose values are replaced wherever they stand.
LEMMA PageMasked ==
    ASSUME NEW s \in Settings, NEW principal, NEW p, NEW i, NEW text, text = p.nodes[i],
           TextUnder(s, text), \A h \in text.hits : h.start < h.end /\ h.end <= text.len,
           NEW max \in Nat, NEW pointer, NEW at, NEW findings,
           aimed_at(findings, p, i) = findings_in(s, principal, limit_text(text, max), pointer, at),
           NEW M, M = UNION {positions(h) : h \in pdf_occurrences(findings, p, i)}
    PROVE  MasksText(s, principal, TRUE, text, limit_text(text, max).hits, M)
<1> DEFINE F == findings_in(s, principal, limit_text(text, max), pointer, at)
           H == PageHits(findings, p, i)
           O == pdf_occurrences(findings, p, i)
<1>1. /\ text.len \in Nat /\ IsFiniteSet(text.hits)
      /\ \A h \in text.hits :
           h.start \in Nat /\ h.end \in Nat /\ h.start < h.end /\ h.end <= text.len
  BY DEF TextUnder, text_holds
<1>2. H \subseteq text.hits
  BY DEF PageHits
<1>3. OnPage(H, text.len)
  BY <1>1, <1>2, FS_Subset DEF OnPage
<1>4. O \subseteq H /\ \A h \in H : \E g \in O : h = g \/ (overlap(g, h) /\ ~longer(h, g))
  BY <1>1, <1>3, PageCovers
<1>5. pdf_labels(findings, p, i) = {f.label : f \in selected(F)}
  BY DEF pdf_labels
<1>6. \A h \in H : h.label \in {f.label : f \in selected(F)}
  BY <1>5 DEF PageHits
<1>7. \A h \in text.hits : h.label \in {f.label : f \in selected(F)} => h \in H
  BY <1>5 DEF PageHits
<1>8. \A h \in text.hits : positions(h) = WithinText(text, h)
  BY <1>1 DEF positions, WithinText
<1> HIDE DEF F, H, O
<1>9. ASSUME NEW h \in H PROVE action_for(s.rules, principal, h.label) # "allow"
  <2>1. PICK f \in F : f.action # "allow" /\ f.label = h.label
    BY <1>6 DEF selected
  <2>2. PICK d : Reports(s, principal, text, f, d)
    BY <2>1, FoundIsHit DEF F
  <2> QED BY <2>1, <2>2 DEF Reports
<1>10. ASSUME NEW h \in Sensitives(s, principal, text), h \in limit_text(text, max).hits
      PROVE  Covered(s, principal, TRUE, text, h, M)
  <2>1. /\ h \in text.hits /\ WithinText(text, h) # {} /\ Engine(s, h)
        /\ action_for(s.rules, principal, h.label) # "allow"
    BY DEF Sensitives, Sensitive, Engine
  <2>2. PICK f \in F : Reports(s, principal, text, f, h)
    BY <1>10, <2>1, HitIsFound DEF F
  <2>3. f \in selected(F) /\ f.label = h.label
    BY <2>1, <2>2 DEF selected, Reports
  <2>4. h \in H
    BY <1>7, <2>1, <2>3
  <2>5. PICK g \in O : h = g \/ (overlap(g, h) /\ ~longer(h, g))
    BY <1>4, <2>4
  <2>6. g \in H /\ g \in text.hits /\ positions(g) \subseteq M
    BY <1>2, <1>4, <2>5 DEF O
  <2>7. CASE h = g
    BY <1>8, <2>1, <2>6, <2>7 DEF Covered
  <2>8. CASE h # g
    <3>1. WithinText(text, g) \cap WithinText(text, h) # {} /\ ~longer(h, g)
      BY <1>8, <2>1, <2>5, <2>6, <2>8 DEF overlap
    <3>2. Shaded(s, principal, TRUE, text, h)
      BY <1>9, <2>6, <2>8, <3>1 DEF Shaded
    <3> QED BY <1>8, <2>6, <3>1, <3>2 DEF Covered
  <2> QED BY <2>7, <2>8
<1>11. ASSUME NEW x \in M
      PROVE  \E h \in text.hits : /\ action_for(s.rules, principal, h.label) # "allow"
                                  /\ x \in WithinText(text, h)
  <2>1. PICK h \in O : x \in positions(h)
    BY DEF O
  <2> QED BY <1>2, <1>4, <1>8, <1>9, <2>1
<1> QED BY <1>10, <1>11 DEF MasksText

--------------------------------------------------------------------------------
(* What is masked of a body                                                 *)

\* Of a text that is scanned whole.
LEMMA WholeMasked ==
    ASSUME NEW s \in Settings, NEW principal, NEW text, TextUnder(s, text),
           NEW pointer, NEW at, ~analysis_fails(s, text),
           NEW F, F = findings_in(s, principal, text, pointer, at)
    PROVE  MasksText(s, principal, FALSE, text, text.hits, masked_by(F))
<1>1. text.len \in Nat /\ limit_text(text, text.len) = text
  BY DEF TextUnder, text_holds, limit_text
<1> QED BY <1>1, TextMasked

\* JSON and text: every scanned text is masked as it should be, and no other.
LEMMA NodesMasked ==
    ASSUME NEW s \in Settings, NEW principal, NEW body \in Bodies \cup Replies,
           NEW direction, ~Attachments(s, body, direction),
           NEW scanned \in SUBSET nodes_of(body),
           \A k \in DOMAIN body.parts : \A i \in DOMAIN body.parts[k].nodes :
               \A h \in body.parts[k].nodes[i].hits :
                   Looked(s, body, direction, k, h, i) => <<k, i>> \in scanned,
           NEW result, result = process_nodes(s, principal, body, scanned), result.ok
    PROVE  Masks(s, principal, body, direction, result.masks)
<1> DEFINE Text(n) == body.parts[n[1]].nodes[n[2]]
           Found(n) == findings_in(s, principal, Text(n), <<n[1]>>, n)
           all == UNION {Found(n) : n \in scanned}
           masks == [k \in DOMAIN body.parts |->
                       [i \in DOMAIN body.parts[k].nodes |->
                           IF <<k, i>> \in scanned THEN masked_by(Found(<<k, i>>)) ELSE {}]]
<1>1. /\ \A n \in scanned : ~analysis_fails(s, Text(n))
      /\ result = Processed(decision_of(all), "builtin", all, masks)
  BY DEF process_nodes, Failed
<1>2. result.masks = masks
  BY <1>1 DEF Processed
<1>3. ASSUME NEW k \in DOMAIN body.parts, NEW i \in DOMAIN body.parts[k].nodes
      PROVE  LET text == body.parts[k].nodes[i]
             IN  /\ \A h \in Sensitives(s, principal, text) :
                      Looked(s, body, direction, k, h, i) =>
                          Covered(s, principal, FALSE, text, h, masks[k][i])
                 /\ masks[k][i] \subseteq UNION {WithinText(text, h) :
                      h \in {g \in text.hits : action_for(s.rules, principal, g.label) # "allow"}}
  <2> DEFINE text == body.parts[k].nodes[i]
  <2>1. TextUnder(s, text) /\ Text(<<k, i>>) = text
    BY TextsUnder
  <2>2. masks[k][i] = IF <<k, i>> \in scanned THEN masked_by(Found(<<k, i>>)) ELSE {}
    OBVIOUS
  <2>3. \A h \in Sensitives(s, principal, text) : h \in text.hits
    BY DEF Sensitives
  <2> HIDE DEF masks
  <2>4. CASE <<k, i>> \in scanned
    <3>1. ~analysis_fails(s, text)
      BY <1>1, <2>1, <2>4
    <3>2. Found(<<k, i>>) = findings_in(s, principal, text, <<k>>, <<k, i>>)
      OBVIOUS
    <3> HIDE DEF Found, text
    <3>3. MasksText(s, principal, FALSE, text, text.hits, masked_by(Found(<<k, i>>)))
      BY <2>1, <3>1, <3>2, WholeMasked
    <3> QED BY <2>2, <2>3, <2>4, <3>3 DEF text, MasksText
  <2>5. CASE <<k, i>> \notin scanned
    BY <2>2, <2>3, <2>5
  <2> QED BY <2>4, <2>5
<1> HIDE DEF masks
<1>4. Hidden(s, principal, body, direction, masks)
  BY <1>3 DEF Hidden, Sensitives
<1>5. NothingElse(s, principal, body, masks)
  BY <1>3 DEF NothingElse
<1> QED BY <1>2, <1>4, <1>5 DEF Masks

--------------------------------------------------------------------------------
(* The limit the pages of an attachment share                               *)

\* f starts at a and goes on as S says.
Runs(f, a, S, n) ==
    f \in [0..n -> Nat] /\ f[0] = a /\ \A i \in 1..n : f[i] = S[i][f[i - 1]]

LEMMA RunsExist ==
    ASSUME NEW n \in Nat, NEW a \in Nat, NEW S \in [1..n -> [Nat -> Nat]]
    PROVE  \E f : Runs(f, a, S, n)
<1> DEFINE T == {m \in Nat : m <= n /\ ~\E f : Runs(f, a, S, m)}
<1>0. n <= n
  OBVIOUS
<1> SUFFICES ASSUME T # {} PROVE FALSE
  BY <1>0
<1>1. T \in SUBSET Nat
  OBVIOUS
<1>2. PICK m \in T : \A j \in T : m <= j
  BY <1>1, Least
<1>3. m \in Nat /\ m <= n /\ ~\E f : Runs(f, a, S, m)
  OBVIOUS
<1>4. CASE m = 0
  <2> DEFINE f == [i \in 0..0 |-> a]
  <2>1. Runs(f, a, S, 0)
    BY DEF Runs
  <2> HIDE DEF f
  <2> QED BY <1>3, <1>4, <2>1
<1>5. CASE m # 0
  <2>1. m - 1 \in Nat /\ m - 1 \notin T
    <3>1. m - 1 \in Nat /\ ~(m <= m - 1)
      BY <1>3, <1>5
    <3> QED BY <1>2, <3>1
  <2>2. m - 1 <= n
    BY <1>3, <2>1
  <2>3. PICK g : Runs(g, a, S, m - 1)
    BY <2>1, <2>2
  <2>4. g \in [0..(m - 1) -> Nat] /\ g[0] = a /\ \A i \in 1..(m - 1) : g[i] = S[i][g[i - 1]]
    BY <2>3 DEF Runs
  <2> DEFINE f == [i \in 0..m |-> IF i = m THEN S[m][g[m - 1]] ELSE g[i]]
  <2>5. \A i \in 0..m : f[i] = IF i = m THEN S[m][g[m - 1]] ELSE g[i]
    OBVIOUS
  <2>6. S[m] \in [Nat -> Nat] /\ g[m - 1] \in Nat
    <3>1. m \in 1..n /\ m - 1 \in 0..(m - 1)
      BY <1>3, <1>5
    <3> QED BY <2>4, <3>1
  <2>7. S[m][g[m - 1]] \in Nat
    BY <2>6
  <2>8. f \in [0..m -> Nat]
    <3>1. \A i \in 0..m : i # m => i \in 0..(m - 1)
      BY <1>3
    <3> QED BY <2>4, <2>7, <3>1
  <2> HIDE DEF f
  <2>9. f[0] = a
    <3>1. 0 \in 0..m /\ 0 # m
      BY <1>3, <1>5
    <3> QED BY <2>4, <2>5, <3>1
  <2>10. ASSUME NEW i \in 1..m PROVE f[i] = S[i][f[i - 1]]
    <3>1. i - 1 \in 0..m /\ i - 1 # m /\ i \in 0..m
      BY <1>3
    <3>2. f[i - 1] = g[i - 1]
      BY <2>5, <3>1
    <3>3. CASE i = m
      BY <2>5, <3>1, <3>2, <3>3
    <3>4. CASE i # m
      <4>1. i \in 1..(m - 1)
        BY <1>3, <3>4
      <4>2. f[i] = g[i] /\ g[i] = S[i][g[i - 1]]
        BY <2>4, <2>5, <3>1, <3>4, <4>1
      <4> QED BY <3>2, <4>2
    <3> QED BY <3>3, <3>4
  <2>11. Runs(f, a, S, m)
    BY <2>8, <2>9, <2>10 DEF Runs
  <2> QED BY <1>3, <2>11
<1> QED BY <1>4, <1>5

\* The nodes of a part are n texts.
NodesOf(p, n) == /\ n \in Nat /\ DOMAIN p.nodes = 1..n /\ Len(p.nodes) = n
                 /\ \A i \in 1..n : p.nodes[i].len \in Nat

\* What "remaining" is at each node.
Shares(left, cfg, p, n) ==
    /\ \A i \in 1..n : left[i] \in Nat
    /\ 1 \in 1..n => left[1] = cfg.max_text_chars
    /\ \A i \in 1..n : i # 1 => left[i] = left[i - 1] - limit_text(p.nodes[i - 1], left[i - 1]).len

LEMMA RemainingIs ==
    ASSUME NEW cfg, cfg.max_text_chars \in Nat, NEW p, NEW n, NodesOf(p, n)
    PROVE  Shares(remaining(cfg, p), cfg, p, n)
<1> DEFINE After(j) == [x \in Nat |-> x - limit_text(p.nodes[j], x).len]
           S == [j \in 1..n |-> After(j)]
           F(left) == [i \in DOMAIN p.nodes |->
                         IF i = 1 THEN cfg.max_text_chars
                         ELSE left[i - 1] - limit_text(p.nodes[i - 1], left[i - 1]).len]
<1>1. ASSUME NEW j \in 1..n, NEW x \in Nat PROVE x - limit_text(p.nodes[j], x).len \in Nat
  BY DEF NodesOf, limit_text
<1>2. S \in [1..n -> [Nat -> Nat]]
  BY <1>1
<1>3. n \in Nat
  BY DEF NodesOf
<1>4. PICK f : Runs(f, cfg.max_text_chars, S, n)
  <2> HIDE DEF S
  <2> QED BY <1>2, <1>3, RunsExist
<1> DEFINE left == [i \in 1..n |-> f[i - 1]]
<1>5. \A i \in 1..n : left[i] = f[i - 1] /\ left[i] \in Nat
  BY <1>3, <1>4 DEF Runs
<1>6. ASSUME NEW i \in 1..n, i = 1 PROVE left[i] = cfg.max_text_chars
  BY <1>4, <1>6 DEF Runs
<1>7. ASSUME NEW i \in 1..n, i # 1
      PROVE  left[i] = left[i - 1] - limit_text(p.nodes[i - 1], left[i - 1]).len
  <2>1. i - 1 \in 1..n
    BY <1>3, <1>7
  <2>2. f[i - 1] = S[i - 1][f[i - 2]]
    <3>1. f[i - 1] = S[i - 1][f[(i - 1) - 1]]
      BY <1>4, <2>1 DEF Runs
    <3>2. (i - 1) - 1 = i - 2
      BY <1>3
    <3> QED BY <3>1, <3>2
  <2>3. left[i - 1] = f[i - 2] /\ left[i - 1] \in Nat
    <3>1. left[i - 1] = f[(i - 1) - 1] /\ left[i - 1] \in Nat
      BY <1>5, <2>1
    <3>2. (i - 1) - 1 = i - 2
      BY <1>3
    <3> QED BY <3>1, <3>2
  <2>4. S[i - 1] = After(i - 1)
    BY <2>1
  <2> HIDE DEF left, S
  <2>5. S[i - 1][left[i - 1]] = left[i - 1] - limit_text(p.nodes[i - 1], left[i - 1]).len
    BY <2>3, <2>4
  <2>6. left[i] = f[i - 1]
    BY <1>5
  <2> QED BY <2>2, <2>3, <2>5, <2>6
<1>8. left = F(left)
  <2>1. DOMAIN p.nodes = 1..n
    BY DEF NodesOf
  <2>2. left = [i \in 1..n |-> left[i]]
    OBVIOUS
  <2> HIDE DEF left
  <2> QED BY <1>6, <1>7, <2>1, <2>2
<1> HIDE DEF left
<1> DEFINE given == CHOOSE g : g = F(g)
<1>9. remaining(cfg, p) = given
  BY DEF remaining
<1>10. given = F(given)
  BY <1>8
<1> HIDE DEF given
<1>11. DOMAIN p.nodes = 1..n
  BY DEF NodesOf
<1>12. \A i \in 1..n : given[i] = IF i = 1 THEN cfg.max_text_chars
                                  ELSE given[i - 1] - limit_text(p.nodes[i - 1], given[i - 1]).len
  <2> DEFINE V(i) == IF i = 1 THEN cfg.max_text_chars
                     ELSE given[i - 1] - limit_text(p.nodes[i - 1], given[i - 1]).len
  <2>1. given = [i \in 1..n |-> V(i)]
    BY <1>10, <1>11
  <2> HIDE DEF V
  <2>2. \A i \in 1..n : given[i] = V(i)
    BY <2>1
  <2> QED BY <2>2 DEF V
<1>13. \A i \in 1..n : given[i] \in Nat
  <2> DEFINE B == {i \in 1..n : given[i] \notin Nat}
  <2> SUFFICES ASSUME B # {} PROVE FALSE
    OBVIOUS
  <2>1. B \in SUBSET Nat
    BY <1>3
  <2>2. PICK i \in B : \A j \in B : i <= j
    BY <2>1, Least
  <2>3. i \in 1..n /\ given[i] \notin Nat
    OBVIOUS
  <2>4. i # 1
    BY <1>12, <2>3
  <2>5. i - 1 \in 1..n /\ i - 1 \notin B
    <3>1. i - 1 \in 1..n /\ ~(i <= i - 1)
      BY <1>3, <2>3, <2>4
    <3> QED BY <2>2, <3>1
  <2>6. given[i - 1] \in Nat
    BY <2>5
  <2> QED BY <1>1, <1>12, <2>3, <2>4, <2>5, <2>6
<1>14. \A i \in 1..n : i = 1 => given[i] = cfg.max_text_chars
  BY <1>12
<1>15. \A i \in 1..n : i # 1 =>
          given[i] = given[i - 1] - limit_text(p.nodes[i - 1], given[i - 1]).len
  BY <1>12
<1> QED BY <1>9, <1>13, <1>14, <1>15 DEF Shares

\* The characters before each node.
Counts(upto, p, n) ==
    upto[0] = 0 /\ \A j \in 1..n : upto[j] = upto[j - 1] + p.nodes[j].len

LEMMA BeforeIs ==
    ASSUME NEW p, NEW n, NodesOf(p, n)
    PROVE  \E upto : Counts(upto, p, n) /\ \A i \in 1..n : Before(p, i) = upto[i - 1]
<1> DEFINE S == [j \in 1..n |-> [x \in Nat |-> x + p.nodes[j].len]]
           F(upto) == [j \in 0..Len(p.nodes) |->
                         IF j = 0 THEN 0 ELSE upto[j - 1] + p.nodes[j].len]
<1>1. S \in [1..n -> [Nat -> Nat]]
  BY DEF NodesOf
<1>2. n \in Nat /\ Len(p.nodes) = n
  BY DEF NodesOf
<1>3. PICK f : Runs(f, 0, S, n)
  <2> HIDE DEF S
  <2> QED BY <1>1, <1>2, RunsExist
<1>4. ASSUME NEW j \in 0..n PROVE f[j] = IF j = 0 THEN 0 ELSE f[j - 1] + p.nodes[j].len
  <2>1. CASE j = 0
    BY <1>3, <2>1 DEF Runs
  <2>2. CASE j # 0
    <3>1. j \in 1..n /\ j - 1 \in 0..n
      BY <1>2, <2>2
    <3>2. f[j] = S[j][f[j - 1]] /\ f[j - 1] \in Nat
      BY <1>3, <3>1 DEF Runs
    <3>3. S[j] = [x \in Nat |-> x + p.nodes[j].len]
      BY <3>1
    <3> HIDE DEF S
    <3> QED BY <2>2, <3>2, <3>3
  <2> QED BY <2>1, <2>2
<1>5. f = F(f)
  <2>1. f = [j \in 0..n |-> f[j]]
    BY <1>3 DEF Runs
  <2> QED BY <1>2, <1>4, <2>1
<1> DEFINE given == CHOOSE g : g = F(g)
<1>6. \A i : Before(p, i) = given[i - 1]
  BY DEF Before
<1>7. given = F(given)
  BY <1>5
<1> HIDE DEF given
<1>8. \A j \in 0..n : given[j] = IF j = 0 THEN 0 ELSE given[j - 1] + p.nodes[j].len
  <2> DEFINE V(j) == IF j = 0 THEN 0 ELSE given[j - 1] + p.nodes[j].len
  <2>1. given = [j \in 0..n |-> V(j)]
    BY <1>2, <1>7
  <2> HIDE DEF V
  <2>2. \A j \in 0..n : given[j] = V(j)
    BY <2>1
  <2> QED BY <2>2 DEF V
<1>9. given[0] = 0
  BY <1>2, <1>8
<1>10. ASSUME NEW j \in 1..n PROVE given[j] = given[j - 1] + p.nodes[j].len
  <2>1. j \in 0..n /\ j # 0
    BY <1>2
  <2> QED BY <1>8, <2>1
<1> QED BY <1>6, <1>9, <1>10 DEF Counts

\* What the nodes before a node leave of the limit is no less than the limit
\* less what they hold.
LEMMA LimitShared ==
    ASSUME NEW s \in Settings, NEW p, NEW n, NodesOf(p, n), NEW i \in 1..n
    PROVE  /\ remaining(s, p)[i] \in Nat /\ Before(p, i) \in Nat
           /\ s.max_text_chars <= remaining(s, p)[i] + Before(p, i)
<1> DEFINE left == remaining(s, p)
           max == s.max_text_chars
<1>1. max \in Nat
  BY MitmAssumption
<1>2. Shares(left, s, p, n)
  BY <1>1, RemainingIs
<1>3. PICK upto : Counts(upto, p, n) /\ \A j \in 1..n : Before(p, j) = upto[j - 1]
  BY BeforeIs
<1>4. n \in Nat /\ \A j \in 1..n : p.nodes[j].len \in Nat /\ left[j] \in Nat
  BY <1>2 DEF NodesOf, Shares
<1>5. /\ 1 \in 1..n => left[1] = max
      /\ \A j \in 1..n : j # 1 => left[j] = left[j - 1] - limit_text(p.nodes[j - 1], left[j - 1]).len
      /\ upto[0] = 0 /\ \A j \in 1..n : upto[j] = upto[j - 1] + p.nodes[j].len
  BY <1>2, <1>3 DEF Shares, Counts
<1> HIDE DEF left, max
<1> DEFINE Good(j) == upto[j - 1] \in Nat /\ max <= left[j] + upto[j - 1]
           T == {j \in 1..n : ~Good(j)}
<1>6. ASSUME T # {} PROVE FALSE
  <2>1. T \in SUBSET Nat
    BY <1>4
  <2> HIDE DEF T
  <2>2. PICK j \in T : \A k \in T : j <= k
    BY <1>6, <2>1, Least
  <2>3. j \in 1..n /\ ~Good(j)
    BY DEF T
  <2>4. j # 1
    BY <1>1, <1>5, <2>3
  <2>5. j - 1 \in 1..n /\ j - 1 \notin T
    <3>1. j - 1 \in 1..n /\ ~(j <= j - 1)
      BY <1>4, <2>3, <2>4
    <3> QED BY <2>2, <3>1
  <2>6. Good(j - 1)
    BY <2>5 DEF T
  <2> DEFINE a == left[j - 1]
             b == upto[j - 2]
             c == p.nodes[j - 1].len
  <2>7. a \in Nat /\ b \in Nat /\ c \in Nat /\ max <= a + b
    <3>1. (j - 1) - 1 = j - 2
      BY <1>4, <2>3
    <3> QED BY <1>4, <2>5, <2>6, <3>1
  <2>8. upto[j - 1] = b + c
    <3>1. upto[j - 1] = upto[(j - 1) - 1] + p.nodes[j - 1].len
      BY <1>5, <2>5
    <3>2. (j - 1) - 1 = j - 2
      BY <1>4, <2>3
    <3> QED BY <3>1, <3>2
  <2>9. left[j] = a - (IF c <= a THEN c ELSE a)
    BY <1>5, <2>3, <2>4 DEF limit_text
  <2> HIDE DEF a, b, c
  <2> QED BY <1>1, <2>3, <2>7, <2>8, <2>9
<1>7. Good(i)
  BY <1>6
<1> QED BY <1>3, <1>4, <1>7 DEF left, max

--------------------------------------------------------------------------------
(* What is found in attachments, and masked                                 *)

LEMMA PartNodes ==
    ASSUME NEW body \in Bodies \cup Replies, NEW k \in DOMAIN body.parts
    PROVE  NodesOf(body.parts[k], Len(body.parts[k].nodes))
BY MitmAssumption DEF NodesOf, text_holds

\* A value that ends within the limit is in the text that is scanned.
LEMMA LookedIsScanned ==
    ASSUME NEW s \in Settings, NEW body \in Bodies \cup Replies, NEW k \in DOMAIN body.parts,
           NEW i \in DOMAIN body.parts[k].nodes, NEW h \in body.parts[k].nodes[i].hits,
           Before(body.parts[k], i) + h.end <= s.max_text_chars
    PROVE  h \in scanned_text(s, body.parts[k], i).hits
<1> DEFINE p == body.parts[k]
           left == remaining(s, p)[i]
           n == Len(p.nodes)
<1>1. NodesOf(p, n) /\ i \in 1..n
  BY PartNodes DEF NodesOf
<1>2. TextUnder(s, p.nodes[i])
  BY TextsUnder
<1>3. left \in Nat /\ Before(p, i) \in Nat /\ s.max_text_chars <= left + Before(p, i)
  <2> HIDE DEF p, n
  <2> QED BY <1>1, LimitShared
<1>4. h.end \in Nat
  BY <1>2 DEF TextUnder
<1>5. Before(p, i) + h.end <= s.max_text_chars /\ h \in p.nodes[i].hits
  OBVIOUS
<1>6. s.max_text_chars \in Nat
  BY MitmAssumption
<1> HIDE DEF p, left
<1>7. h.end <= left
  BY <1>3, <1>4, <1>5, <1>6
<1>8. h \in limit_text(p.nodes[i], left).hits
  BY <1>2, <1>3, <1>5, <1>7, LimitedText
<1> QED BY <1>8 DEF scanned_text, p, left

\* The share of a node is a number.
LEMMA ShareIs ==
    ASSUME NEW s \in Settings, NEW body \in Bodies \cup Replies, NEW k \in DOMAIN body.parts,
           NEW i \in DOMAIN body.parts[k].nodes
    PROVE  remaining(s, body.parts[k])[i] \in Nat
<1> DEFINE p == body.parts[k]
           n == Len(p.nodes)
<1>1. NodesOf(p, n) /\ i \in 1..n
  BY PartNodes DEF NodesOf
<1> HIDE DEF n
<1> QED BY <1>1, LimitShared

\* What scan_request finds in node i of part k, and in all.
NodeFindings(s, principal, body, k, i) ==
    findings_in(s, principal, scanned_text(s, body.parts[k], i),
                node_pointer(body.parts[k], i), <<k, i>>)
AllFindings(s, principal, body) ==
    UNION {scan_attachment_content(s, principal, body.parts[k], k) : k \in DOMAIN body.parts}

LEMMA FoundInNode ==
    ASSUME NEW s \in Settings, NEW principal, NEW body \in Bodies \cup Replies
    PROVE  /\ \A f \in AllFindings(s, principal, body) :
                \E k \in DOMAIN body.parts : \E i \in DOMAIN body.parts[k].nodes :
                    /\ f \in NodeFindings(s, principal, body, k, i)
                    /\ is_attachment(body.parts[k])
                    /\ f.pointer = node_pointer(body.parts[k], i) /\ f.at = <<k, i>>
           /\ \A k \in DOMAIN body.parts : \A i \in DOMAIN body.parts[k].nodes :
                examined(s, body.parts[k]) /\ scannable(body.parts[k]) =>
                    NodeFindings(s, principal, body, k, i) \subseteq AllFindings(s, principal, body)
<1>1. ASSUME NEW f \in AllFindings(s, principal, body)
      PROVE  \E k \in DOMAIN body.parts : \E i \in DOMAIN body.parts[k].nodes :
                 /\ f \in NodeFindings(s, principal, body, k, i)
                 /\ is_attachment(body.parts[k])
                 /\ f.pointer = node_pointer(body.parts[k], i) /\ f.at = <<k, i>>
  <2>1. PICK k \in DOMAIN body.parts : f \in scan_attachment_content(s, principal, body.parts[k], k)
    BY DEF AllFindings
  <2>2. /\ examined(s, body.parts[k])
        /\ \E i \in DOMAIN body.parts[k].nodes : f \in NodeFindings(s, principal, body, k, i)
    BY <2>1 DEF scan_attachment_content, NodeFindings
  <2>3. PICK i \in DOMAIN body.parts[k].nodes : f \in NodeFindings(s, principal, body, k, i)
    BY <2>2
  <2>4. TextUnder(s, body.parts[k].nodes[i]) /\ remaining(s, body.parts[k])[i] \in Nat
    BY TextsUnder, ShareIs
  <2>5. f.pointer = node_pointer(body.parts[k], i) /\ f.at = <<k, i>>
    BY <2>3, <2>4, FoundIsHit DEF NodeFindings, scanned_text
  <2> QED BY <2>2, <2>3, <2>5 DEF examined
<1>2. ASSUME NEW k \in DOMAIN body.parts, NEW i \in DOMAIN body.parts[k].nodes,
             examined(s, body.parts[k]), scannable(body.parts[k])
      PROVE  NodeFindings(s, principal, body, k, i) \subseteq AllFindings(s, principal, body)
  BY <1>2 DEF AllFindings, scan_attachment_content, NodeFindings
<1> QED BY <1>1, <1>2

\* What is found and says by its pointer where it belongs was found there,
\* unless two attachments go by the same name.
LEMMA AimedAtNode ==
    ASSUME NEW s \in Settings, NEW principal, NEW body \in Bodies \cup Replies,
           body.kind = "multipart", ~SameNamed(body),
           NEW k \in DOMAIN body.parts, NEW i \in DOMAIN body.parts[k].nodes,
           examined(s, body.parts[k]), scannable(body.parts[k])
    PROVE  aimed_at(AllFindings(s, principal, body), body.parts[k], i)
             = NodeFindings(s, principal, body, k, i)
<1> DEFINE p == body.parts[k]
           all == AllFindings(s, principal, body)
<1>1. ASSUME NEW f \in NodeFindings(s, principal, body, k, i)
      PROVE  f \in aimed_at(all, p, i)
  <2>1. TextUnder(s, p.nodes[i]) /\ remaining(s, p)[i] \in Nat
    BY TextsUnder, ShareIs
  <2>2. f.pointer = node_pointer(p, i)
    BY <2>1, FoundIsHit DEF NodeFindings, scanned_text
  <2>3. f \in all
    BY FoundInNode
  <2> QED BY <2>2, <2>3 DEF aimed_at
<1>2. ASSUME NEW f \in aimed_at(all, p, i)
      PROVE  f \in NodeFindings(s, principal, body, k, i)
  <2>1. f \in all /\ f.pointer = node_pointer(p, i)
    BY DEF aimed_at
  <2>a. PICK m \in DOMAIN body.parts : \E j \in DOMAIN body.parts[m].nodes :
           /\ f \in NodeFindings(s, principal, body, m, j)
           /\ is_attachment(body.parts[m]) /\ f.pointer = node_pointer(body.parts[m], j)
    BY <2>1, FoundInNode
  <2>2. PICK j \in DOMAIN body.parts[m].nodes :
           /\ f \in NodeFindings(s, principal, body, m, j)
           /\ is_attachment(body.parts[m]) /\ f.pointer = node_pointer(body.parts[m], j)
    BY <2>a
  <2>3. \A q, l : node_pointer(q, l)[1] = pointer_name(q)
    BY DEF node_pointer
  <2>4. pointer_name(body.parts[m]) = pointer_name(p)
    BY <2>1, <2>2, <2>3
  <2>5. is_attachment(p)
    BY DEF examined
  <2>6. m = k
    BY <2>2, <2>4, <2>5 DEF SameNamed
  <2>7. CASE extract_attachment_content(p) \in {"Pdf", "Ooxml"}
    <3>1. \A l : node_pointer(p, l) = <<pointer_name(p), extract_attachment_content(p), l>>
      BY <2>7 DEF node_pointer
    <3>2. node_pointer(p, i)[3] = i /\ node_pointer(p, j)[3] = j
      BY <3>1
    <3>3. node_pointer(p, i) = node_pointer(p, j)
      BY <2>1, <2>2, <2>6
    <3>4. j = i
      BY <3>2, <3>3
    <3> QED BY <2>2, <2>6, <3>4
  <2>8. CASE extract_attachment_content(p) \notin {"Pdf", "Ooxml"}
    <3>1. Len(p.nodes) = 1 /\ DOMAIN p.nodes = 1..Len(p.nodes)
      BY <2>8, MitmAssumption DEF part_holds
    <3>2. j = i
      BY <2>6, <3>1
    <3> QED BY <2>2, <2>6, <3>2
  <2> QED BY <2>7, <2>8
<1> QED BY <1>1, <1>2

\* What scan_request may return.
LEMMA RequestShape ==
    ASSUME NEW s, NEW principal, NEW body
    PROVE  LET parts == body.parts
               findings == AllFindings(s, principal, body)
               result == scan_request(s, principal, body)
           IN  \/ result = Failed(body, findings)
               \/ /\ \A k \in DOMAIN parts : ~scan_fails(s, parts[k])
                  /\ \/ /\ decision_of(findings) # "redact"
                        /\ result = Processed(decision_of(findings), "builtin", findings,
                                              NoMasks(body))
                     \/ result = ReviewFallback(body, findings)
                     \/ /\ ~non_rewritable_sensitive(s, findings, parts)
                        /\ result = Processed("redact", "builtin", findings,
                                              rebuild_multipart_body(s, findings, parts))
<1> DEFINE parts == body.parts
           findings == AllFindings(s, principal, body)
           result == scan_request(s, principal, body)
<1>1. CASE \/ ~parse_boundary(body) \/ ~parse_multipart_parts(body)
           \/ \E k \in DOMAIN parts : scan_fails(s, parts[k])
  <2>1. result = Failed(body, findings)
    BY <1>1 DEF scan_request, AllFindings
  <2> QED BY <2>1
<1>2. CASE ~(\/ ~parse_boundary(body) \/ ~parse_multipart_parts(body)
             \/ \E k \in DOMAIN parts : scan_fails(s, parts[k]))
  <2>1. \/ result = Failed(body, findings)
        \/ /\ decision_of(findings) # "redact"
           /\ result = Processed(decision_of(findings), "builtin", findings, NoMasks(body))
        \/ result = ReviewFallback(body, findings)
        \/ /\ ~non_rewritable_sensitive(s, findings, parts)
           /\ result = Processed("redact", "builtin", findings,
                                 rebuild_multipart_body(s, findings, parts))
    BY <1>2 DEF scan_request, AllFindings
  <2> HIDE DEF parts, findings, result
  <2> QED BY <1>2, <2>1 DEF parts, findings, result
<1> QED BY <1>1, <1>2

\* A sensitive value that counts is found.
LEMMA LookedIsFound ==
    ASSUME NEW s \in Settings, NEW principal, NEW body \in Bodies \cup Replies,
           Attachments(s, body, "request"),
           \A k \in DOMAIN body.parts : ~scan_fails(s, body.parts[k]),
           NEW k \in DOMAIN body.parts, NEW i \in DOMAIN body.parts[k].nodes,
           NEW h \in body.parts[k].nodes[i].hits, Looked(s, body, "request", k, h, i),
           Engine(s, h), WithinText(body.parts[k].nodes[i], h) # {}
    PROVE  /\ examined(s, body.parts[k]) /\ scannable(body.parts[k])
           /\ h \in scanned_text(s, body.parts[k], i).hits
           /\ \E f \in NodeFindings(s, principal, body, k, i) :
                Reports(s, principal, body.parts[k].nodes[i], f, h)
<1> DEFINE p == body.parts[k]
<1>1. /\ examined(s, p) /\ Before(p, i) + h.end <= s.max_text_chars
      /\ media_type(p) \in {"text/plain", "application/pdf", "ooxml"} \/ p.extension = "docx"
  BY DEF Looked, examined
<1>2. extract_attachment_content(p) # "None"
  <2> HIDE DEF p
  <2>1. CASE media_type(p) = "text/plain"
    BY <2>1 DEF extract_attachment_content
  <2>2. CASE media_type(p) = "application/pdf"
    BY <2>2 DEF extract_attachment_content
  <2>3. CASE media_type(p) \notin {"text/plain", "application/pdf"}
    <3>1. is_ooxml_attachment(p)
      BY <1>1, <2>3 DEF is_ooxml_attachment
    <3>2. extract_attachment_content(p) = IF extract_ooxml_document(p) THEN "Ooxml" ELSE "Err"
      BY <2>3, <3>1 DEF extract_attachment_content
    <3> QED BY <3>2
  <2> QED BY <2>1, <2>2, <2>3
<1>3. extract_attachment_content(p) # "Err"
  BY <1>1 DEF scan_fails
<1>4. h \in scanned_text(s, p, i).hits
  BY <1>1, LookedIsScanned
<1>5. TextUnder(s, p.nodes[i]) /\ remaining(s, p)[i] \in Nat
  BY TextsUnder, ShareIs
<1>6. \E f \in NodeFindings(s, principal, body, k, i) : Reports(s, principal, p.nodes[i], f, h)
  BY <1>4, <1>5, HitIsFound DEF NodeFindings, scanned_text
<1> QED BY <1>1, <1>2, <1>3, <1>4, <1>6 DEF scannable

\* Everything found has an action.
LEMMA FoundActions ==
    ASSUME NEW s \in Settings, NEW principal, NEW body \in Bodies \cup Replies
    PROVE  \A f \in AllFindings(s, principal, body) : f.action \in Actions
<1> SUFFICES ASSUME NEW f \in AllFindings(s, principal, body) PROVE f.action \in Actions
  OBVIOUS
<1>1. PICK k \in DOMAIN body.parts : \E i \in DOMAIN body.parts[k].nodes :
         f \in NodeFindings(s, principal, body, k, i)
  BY FoundInNode
<1>2. PICK i \in DOMAIN body.parts[k].nodes : f \in NodeFindings(s, principal, body, k, i)
  BY <1>1
<1>3. TextUnder(s, body.parts[k].nodes[i]) /\ remaining(s, body.parts[k])[i] \in Nat
  BY TextsUnder, ShareIs
<1> QED BY <1>2, <1>3, FoundSpans DEF NodeFindings, scanned_text, Spans

\* A part that is rewritten: its texts are masked as they should be.
LEMMA PartRewritten ==
    ASSUME NEW s \in Settings, NEW principal, NEW body \in Bodies \cup Replies,
           Attachments(s, body, "request"), ~SameNamed(body),
           \A k \in DOMAIN body.parts : ~scan_fails(s, body.parts[k]),
           NEW k \in DOMAIN body.parts, NEW i \in DOMAIN body.parts[k].nodes,
           rewrite_plan(s, body.parts[k]) # "None"
    PROVE  MasksText(s, principal, media_type(body.parts[k]) = "application/pdf",
                     body.parts[k].nodes[i], scanned_text(s, body.parts[k], i).hits,
                     rewrite(s, AllFindings(s, principal, body), body.parts[k], i))
<1> DEFINE p == body.parts[k]
           text == p.nodes[i]
           all == AllFindings(s, principal, body)
           max == remaining(s, p)[i]
           found == NodeFindings(s, principal, body, k, i)
<1>1. /\ examined(s, p) /\ rewrite_plan(s, p) \in {"Text", "Pdf", "Ooxml"}
      /\ extract_attachment_content(p) = rewrite_plan(s, p)
  BY DEF rewrite_plan
<1>2. scannable(p)
  BY <1>1 DEF scannable
<1>3. aimed_at(all, p, i) = found
  BY <1>1, <1>2, AimedAtNode DEF Attachments
<1>4. TextUnder(s, text) /\ max \in Nat
  BY TextsUnder, ShareIs
<1>5. ~analysis_fails(s, limit_text(text, max))
  BY <1>1, <1>2 DEF scan_fails, scanned_text
<1>6. found = findings_in(s, principal, limit_text(text, max), node_pointer(p, i), <<k, i>>)
  BY DEF NodeFindings, scanned_text
<1>7. part_holds(p)
  BY MitmAssumption DEF Attachments
<1>8. /\ rewrite_plan(s, p) = "Pdf" <=> media_type(p) = "application/pdf"
      /\ scanned_text(s, p, i).hits = limit_text(text, max).hits
  <2>1. CASE media_type(p) = "text/plain"
    BY <1>1, <2>1 DEF extract_attachment_content, scanned_text
  <2>2. CASE media_type(p) = "application/pdf"
    <3>1. extract_attachment_content(p) \in {"Pdf", "ExtractedText", "Err"}
      BY <2>2 DEF extract_attachment_content
    <3> QED BY <1>1, <2>2, <3>1 DEF scanned_text
  <2>3. CASE media_type(p) \notin {"text/plain", "application/pdf"}
    <3>1. extract_attachment_content(p) \in {"Ooxml", "None", "Err"}
      BY <2>3 DEF extract_attachment_content
    <3> QED BY <1>1, <2>3, <3>1 DEF scanned_text
  <2> QED BY <2>1, <2>2, <2>3
<1>9. CASE rewrite_plan(s, p) = "Pdf"
  <2>1. rewrite(s, all, p, i) = UNION {positions(h) : h \in pdf_occurrences(all, p, i)}
    BY <1>9 DEF rewrite
  <2>2. \A h \in text.hits : h.start < h.end /\ h.end <= text.len
    BY <1>7, <1>8, <1>9 DEF part_holds
  <2> HIDE DEF p, text, all, max, found
  <2>3. MasksText(s, principal, TRUE, text, limit_text(text, max).hits, rewrite(s, all, p, i))
    <3>1. text = p.nodes[i]
      BY DEF text
    <3>2. aimed_at(all, p, i)
            = findings_in(s, principal, limit_text(text, max), node_pointer(p, i), <<k, i>>)
      BY <1>3, <1>6
    <3> QED BY <1>4, <2>1, <2>2, <3>1, <3>2, PageMasked
  <2>4. (media_type(p) = "application/pdf") = TRUE
    BY <1>8, <1>9
  <2> QED BY <1>8, <2>3, <2>4 DEF p, text, all
<1>10. CASE rewrite_plan(s, p) # "Pdf"
  <2>1. rewrite(s, all, p, i) = masked_by(found)
    <3>1. CASE rewrite_plan(s, p) = "Text"
      BY <1>3, <3>1 DEF rewrite
    <3>2. CASE rewrite_plan(s, p) = "Ooxml"
      BY <1>3, <3>2 DEF rewrite, rewrite_ooxml
    <3> QED BY <1>1, <1>10, <3>1, <3>2
  <2>2. (media_type(p) = "application/pdf") = FALSE
    BY <1>8, <1>10
  <2> HIDE DEF p, text, all, max, found
  <2>3. MasksText(s, principal, FALSE, text, limit_text(text, max).hits, masked_by(found))
    BY <1>4, <1>5, <1>6, TextMasked
  <2> QED BY <1>8, <2>1, <2>2, <2>3 DEF p, text, all
<1> QED BY <1>9, <1>10

\* Attachments: what is handed on is masked as it should be, if it calls for no
\* review and no block.
LEMMA RequestMasked ==
    ASSUME NEW s \in Settings, NEW principal, NEW body \in Bodies \cup Replies,
           Attachments(s, body, "request"), ~SameNamed(body),
           NEW result, result = scan_request(s, principal, body), result.ok,
           result.decision \notin {"review", "block"}
    PROVE  Masks(s, principal, body, "request", result.masks)
<1> DEFINE parts == body.parts
           all == AllFindings(s, principal, body)
           Node(k, i) ==
               /\ \A h \in Sensitives(s, principal, parts[k].nodes[i]) :
                    Looked(s, body, "request", k, h, i) =>
                        Covered(s, principal, media_type(parts[k]) = "application/pdf",
                                parts[k].nodes[i], h, result.masks[k][i])
               /\ result.masks[k][i] \subseteq UNION {WithinText(parts[k].nodes[i], h) :
                    h \in {g \in parts[k].nodes[i].hits :
                             action_for(s.rules, principal, g.label) # "allow"}}
<1>1. /\ \A k \in DOMAIN parts : ~scan_fails(s, parts[k])
      /\ \/ /\ decision_of(all) # "redact"
            /\ result = Processed(decision_of(all), "builtin", all, NoMasks(body))
         \/ /\ ~non_rewritable_sensitive(s, all, parts)
            /\ result = Processed("redact", "builtin", all, rebuild_multipart_body(s, all, parts))
  <2>1. result # Failed(body, all) /\ result # ReviewFallback(body, all)
    BY DEF Failed, ReviewFallback, Processed
  <2> QED BY <2>1, RequestShape
<1>2. ASSUME NEW k \in DOMAIN parts, NEW i \in DOMAIN parts[k].nodes,
             NEW h \in Sensitives(s, principal, parts[k].nodes[i]),
             Looked(s, body, "request", k, h, i)
      PROVE  /\ examined(s, parts[k]) /\ scannable(parts[k])
             /\ h \in scanned_text(s, parts[k], i).hits
             /\ \E f \in all : /\ f \in NodeFindings(s, principal, body, k, i)
                               /\ f.action # "allow" /\ f.pointer = node_pointer(parts[k], i)
  <2>1. /\ h \in parts[k].nodes[i].hits /\ Engine(s, h) /\ WithinText(parts[k].nodes[i], h) # {}
        /\ action_for(s.rules, principal, h.label) # "allow"
    BY DEF Sensitives, Sensitive, Engine
  <2>2. /\ examined(s, parts[k]) /\ scannable(parts[k])
        /\ h \in scanned_text(s, parts[k], i).hits
        /\ \E f \in NodeFindings(s, principal, body, k, i) :
             Reports(s, principal, parts[k].nodes[i], f, h)
    BY <1>1, <1>2, <2>1, LookedIsFound
  <2>3. PICK f \in NodeFindings(s, principal, body, k, i) :
           Reports(s, principal, parts[k].nodes[i], f, h)
    BY <2>2
  <2>4. f \in all
    BY <2>2, <2>3, FoundInNode
  <2>5. TextUnder(s, parts[k].nodes[i]) /\ remaining(s, parts[k])[i] \in Nat
    BY TextsUnder, ShareIs
  <2>6. f.pointer = node_pointer(parts[k], i)
    BY <2>5, FoundIsHit DEF NodeFindings, scanned_text
  <2>7. f.action # "allow"
    BY <2>1, <2>3 DEF Reports
  <2> QED BY <2>2, <2>4, <2>6, <2>7
<1>3. CASE decision_of(all) # "redact"
           /\ result = Processed(decision_of(all), "builtin", all, NoMasks(body))
  <2>1. \A f \in all : f.action \in Actions
    BY FoundActions
  <2>2. decision_of(all) \in Actions
    <3> HIDE DEF all
    <3> QED BY <2>1, DecisionKnown
  <2>3. decision_of(all) = "allow" /\ result.masks = NoMasks(body)
    BY <1>3, <2>2 DEF Processed, Actions
  <2>4. \A f \in all : f.action = "allow"
    BY <2>1, <2>3, AllowedOnly DEF selected
  <2>5. ASSUME NEW k \in DOMAIN parts, NEW i \in DOMAIN parts[k].nodes PROVE Node(k, i)
    <3>1. result.masks[k][i] = {}
      BY <2>3 DEF NoMasks
    <3> QED BY <1>2, <2>4, <3>1
  <2> QED BY <2>5 DEF Masks, Hidden, NothingElse, Sensitives
<1>4. CASE /\ ~non_rewritable_sensitive(s, all, parts)
           /\ result = Processed("redact", "builtin", all, rebuild_multipart_body(s, all, parts))
  <2>1. ASSUME NEW k \in DOMAIN parts, NEW i \in DOMAIN parts[k].nodes
        PROVE  result.masks[k][i] = rewrite(s, all, parts[k], i)
    BY <1>4 DEF Processed, rebuild_multipart_body
  <2>2. ASSUME NEW k \in DOMAIN parts, NEW i \in DOMAIN parts[k].nodes PROVE Node(k, i)
    <3>1. CASE rewrite_plan(s, parts[k]) # "None"
      <4>1. MasksText(s, principal, media_type(parts[k]) = "application/pdf",
                      parts[k].nodes[i], scanned_text(s, parts[k], i).hits,
                      rewrite(s, all, parts[k], i))
        BY <1>1, <3>1, PartRewritten
      <4> QED BY <1>2, <2>1, <4>1 DEF MasksText
    <3>2. CASE rewrite_plan(s, parts[k]) = "None"
      <4>1. result.masks[k][i] = {}
        BY <2>1, <3>2 DEF rewrite
      <4>2. ASSUME NEW f \in all PROVE ~finding_targets_part(f, parts[k])
        BY <1>4, <3>2 DEF non_rewritable_sensitive
      <4>3. ASSUME NEW h \in Sensitives(s, principal, parts[k].nodes[i]),
                   Looked(s, body, "request", k, h, i)
            PROVE  FALSE
        <5>1. PICK f \in all : f.pointer = node_pointer(parts[k], i)
          BY <1>2, <4>3
        <5>2. is_attachment(parts[k])
          BY <1>2, <4>3 DEF examined
        <5>3. node_pointer(parts[k], i)[1] = pointer_name(parts[k])
          BY DEF node_pointer
        <5> QED BY <4>2, <5>1, <5>2, <5>3 DEF finding_targets_part
      <4> QED BY <4>1, <4>3
    <3> QED BY <3>1, <3>2
  <2> QED BY <2>2 DEF Masks, Hidden, NothingElse, Sensitives
<1> QED BY <1>1, <1>3, <1>4

\* process_payload: what is handed on is masked as it should be.
LEMMA PayloadMasked ==
    ASSUME NEW s \in Settings, NEW principal, NEW body \in Bodies \cup Replies,
           NEW direction \in {"request", "response"},
           NEW result, result = process_payload(s, principal, body, direction), result.ok,
           Attachments(s, body, direction) =>
               ~SameNamed(body) /\ result.decision \notin {"review", "block"}
    PROVE  Masks(s, principal, body, direction, result.masks)
<1>1. CASE Attachments(s, body, direction)
  <2>1. direction = "request" /\ result = scan_request(s, principal, body)
    BY <1>1 DEF Attachments, process_payload
  <2> QED BY <1>1, <2>1, RequestMasked
<1>2. CASE ~Attachments(s, body, direction) /\ body.kind = "json"
  <2>1. result = process_nodes(s, principal, body, string_nodes(s, body))
    BY <1>2 DEF Attachments, process_payload
  <2>2. string_nodes(s, body) \in SUBSET nodes_of(body)
    BY DEF string_nodes
  <2>3. \A k \in DOMAIN body.parts : \A i \in DOMAIN body.parts[k].nodes :
           \A h \in body.parts[k].nodes[i].hits :
               Looked(s, body, direction, k, h, i) => <<k, i>> \in string_nodes(s, body)
    <3> SUFFICES ASSUME NEW k \in DOMAIN body.parts, NEW i \in DOMAIN body.parts[k].nodes,
                        NEW h, Looked(s, body, direction, k, h, i)
                 PROVE  <<k, i>> \in string_nodes(s, body)
      OBVIOUS
    <3>1. <<k, i>> \in nodes_of(body)
      BY DEF nodes_of
    <3>2. body.parts[k].string /\ body.parts[k].name \notin s.ignore_json_pointers
      BY <1>2, Zenon DEF Looked
    <3> QED BY <3>1, <3>2 DEF string_nodes
  <2> QED BY <1>2, <2>1, <2>2, <2>3, NodesMasked
<1>3. CASE ~Attachments(s, body, direction) /\ body.kind # "json" /\ body.utf8
  <2>1. result = process_nodes(s, principal, body, nodes_of(body))
    BY <1>3 DEF Attachments, process_payload
  <2>2. \A k \in DOMAIN body.parts : \A i \in DOMAIN body.parts[k].nodes :
           <<k, i>> \in nodes_of(body)
    BY DEF nodes_of
  <2> QED BY <1>3, <2>1, <2>2, NodesMasked
<1>4. CASE ~Attachments(s, body, direction) /\ body.kind # "json" /\ ~body.utf8
  <2>1. result = passthrough(body)
    BY <1>4 DEF Attachments, process_payload
  <2>2. result.masks = NoMasks(body)
    BY <2>1 DEF passthrough, Processed
  <2>3. \A k \in DOMAIN body.parts : \A i \in DOMAIN body.parts[k].nodes : \A h :
           ~Looked(s, body, direction, k, h, i)
    BY <1>4, Zenon DEF Looked
  <2> QED BY <2>2, <2>3 DEF Masks, Hidden, NothingElse, NoMasks
<1> QED BY <1>1, <1>2, <1>3, <1>4

--------------------------------------------------------------------------------
(* The inductive invariant                                                  *)

Fields == {"stage", "front", "host", "updated", "body", "result", "sent", "answer", "cfg",
           "reply", "shown", "records", "came", "went"}

\* Nothing was sent and nothing recorded before handle_request.
Early(x) ==
    /\ x.stage \in {"idle", "tunnel", "open", "filtered"} => x.sent = None /\ x.records = <<>>
    /\ x.stage \in {"idle", "tunnel", "open", "filtered", "waiting"} =>
         x.answer \notin {"blocked", "refused"}
    /\ x.stage = "open" => x.front = "mitm"
    /\ x.stage = "waiting" => \E r : x.records = <<r>>

\* The result at hand is that of the body, under the configuration noted.
ResultOf(x, principal) ==
    /\ x.body \in Bodies
    /\ x.cfg \in Settings
    /\ loads(x.cfg)
    /\ x.result = process_payload(x.cfg, principal, x.body, "request")
    /\ x.result.ok

Filtered(x) ==
    x.stage = "filtered" =>
        x.front = "mitm" /\ x.came \in Written /\ ResultOf(x, local_principal)

Sent(x) == x.sent # None => \E principal : ResultOf(x, principal)

Audited(x) ==
    /\ x.sent # None \/ x.answer \in {"blocked", "refused"} => x.records # <<>>
    /\ x.records # <<>> =>
         /\ x.records[1].decision = "block" => x.sent = None
         /\ x.records[1].decision = "review" /\ x.front = "reverse" => x.sent = None
         /\ x.records[1].decision = "allow" =>
              /\ x.sent = raw(x.body)
              /\ x.went # x.came => x.front = "mitm" /\ (x.came.encoded \/ x.body.kind = "json")

Floored(x) ==
    x.front = "mitm" /\ x.updated =>
        /\ x.stage = "tunnel" => ~any_matches(Baked, x.host)
        /\ x.sent # None /\ any_matches(BakedSigns, x.host) =>
             x.sent = raw(x.body) /\ x.went = [x.came EXCEPT !.encoded = FALSE]

ExchangeOK(x) ==
    DOMAIN x = Fields /\ Early(x) /\ Filtered(x) /\ Sent(x) /\ Audited(x) /\ Floored(x)

\* The classifier in force, and where its version comes from.
Current ==
    /\ offered \subseteq Feeds
    /\ version \in Nat
    /\ usable = {} => version = 0
    /\ LatestSigned

IInv ==
    /\ setting \in Settings /\ loads(setting)
    /\ Current
    /\ DOMAIN ex = Exchanges
    /\ \A e \in Exchanges : ExchangeOK(ex[e])

--------------------------------------------------------------------------------
(* Each action preserves it                                                 *)

\* Every step of an exchange changes that exchange only.
LEMMA OneExchange ==
    ASSUME IInv, NEW e \in Exchanges, NEW y, ex' = [ex EXCEPT ![e] = y], ExchangeOK(y),
           UNCHANGED <<setting, classifier, version, offered>>
    PROVE  IInv'
<1>1. DOMAIN ex' = Exchanges
  BY DEF IInv
<1>2. \A d \in Exchanges : ex'[d] = IF d = e THEN y ELSE ex[d]
  BY DEF IInv
<1>3. \A d \in Exchanges : ExchangeOK(ex'[d])
  BY <1>2 DEF IInv
<1>4. Current'
  BY DEF IInv, Current, usable, LatestSigned
<1> QED BY <1>1, <1>3, <1>4 DEF IInv

\* The classifier of a process that was served a usable rule-set holds the
\* floor.
LEMMA FloorInForce ==
    ASSUME IInv, usable # {}, NEW host
    PROVE  /\ any_matches(Baked, host) => classify(classifier, host) = "intercept"
           /\ any_matches(BakedSigns, host) => signs_body(classifier, host)
BY FloorCompiled DEF IInv, Current, LatestSigned

\* A tunnel is opened or intercepted.
LEMMA StepIntercept ==
    ASSUME IInv, NEW e \in Exchanges, NEW host \in Hosts, should_intercept(e, host)
    PROVE  IInv'
<1> DEFINE x == ex[e]
           y == [x EXCEPT !.stage = IF classify(classifier, host) = "intercept"
                                    THEN "open" ELSE "tunnel",
                          !.front = "mitm", !.host = host, !.updated = usable # {}]
<1>1. x.stage = "idle" /\ ExchangeOK(x)
  BY DEF should_intercept, IInv
<1>2. /\ ex' = [ex EXCEPT ![e] = y]
      /\ UNCHANGED <<setting, classifier, version, offered>>
  BY DEF should_intercept
<1>3. /\ DOMAIN y = Fields
      /\ y.stage = IF classify(classifier, host) = "intercept" THEN "open" ELSE "tunnel"
      /\ y.host = host /\ y.updated = (usable # {}) /\ y.sent = x.sent /\ y.records = x.records
      /\ y.answer = x.answer /\ y.front = "mitm"
  BY <1>1 DEF ExchangeOK, Fields
<1>4. x.sent = None /\ x.records = <<>> /\ x.answer \notin {"blocked", "refused"}
  BY <1>1 DEF ExchangeOK, Early
<1> HIDE DEF x, y
<1>5. y.updated /\ y.stage = "tunnel" => ~any_matches(Baked, y.host)
  BY <1>3, FloorInForce
<1>6. Floored(y)
  BY <1>3, <1>4, <1>5 DEF Floored
<1>7. Early(y) /\ Filtered(y) /\ Sent(y) /\ Audited(y)
  BY <1>3, <1>4 DEF Early, Filtered, Sent, Audited
<1>8. ExchangeOK(y)
  BY <1>3, <1>6, <1>7 DEF ExchangeOK
<1> QED BY <1>2, <1>8, OneExchange

\* A message that cannot be handed on ends its exchange: what was sent and
\* recorded stays.
LEMMA Refused ==
    ASSUME NEW x, NEW y, ExchangeOK(x), x.stage \in {"open", "waiting"}, DOMAIN y = Fields,
           y.stage = "done", y.answer = "error", y.sent = x.sent, y.records = x.records,
           y.front = x.front, y.host = x.host, y.updated = x.updated,
           x.sent # None => y.body = x.body /\ y.cfg = x.cfg /\ y.result = x.result,
           x.records # <<>> => y.body = x.body, y.came = x.came, y.went = x.went
    PROVE  ExchangeOK(y)
<1>1. Early(y) /\ Filtered(y)
  BY DEF Early, Filtered
<1>2. Sent(y)
  BY DEF ExchangeOK, Sent, ResultOf
<1>3. Audited(y)
  BY DEF ExchangeOK, Audited
<1>4. Floored(y)
  <2> SUFFICES ASSUME y.front = "mitm", y.updated, y.sent # None, any_matches(BakedSigns, y.host)
               PROVE  y.sent = raw(y.body) /\ y.went = [y.came EXCEPT !.encoded = FALSE]
    BY DEF Floored
  <2> QED BY DEF ExchangeOK, Floored
<1> QED BY <1>1, <1>2, <1>3, <1>4 DEF ExchangeOK

LEMMA StepUndecodable ==
    ASSUME IInv, NEW e \in Exchanges, undecodable(e) \/ handle_error(e)
    PROVE  IInv'
<1> DEFINE x == ex[e]
           y == [x EXCEPT !.stage = "done", !.answer = "error"]
<1>1. x.stage \in {"open", "waiting"} /\ ExchangeOK(x)
  BY DEF undecodable, handle_error, IInv
<1>2. /\ ex' = [ex EXCEPT ![e] = y]
      /\ UNCHANGED <<setting, classifier, version, offered>>
  BY DEF undecodable, handle_error, bad_gateway
<1>3. /\ DOMAIN y = Fields
      /\ y.stage = "done" /\ y.answer = "error" /\ y.sent = x.sent /\ y.records = x.records
      /\ y.front = x.front /\ y.host = x.host /\ y.updated = x.updated
      /\ y.body = x.body /\ y.cfg = x.cfg /\ y.result = x.result
      /\ y.came = x.came /\ y.went = x.went
  BY <1>1 DEF ExchangeOK, Fields
<1> HIDE DEF x, y
<1>4. ExchangeOK(y)
  BY <1>1, <1>3, Refused
<1> QED BY <1>2, <1>4, OneExchange

\* The request is filtered, or fails.
LEMMA StepFilter ==
    ASSUME IInv, NEW e \in Exchanges, NEW body \in Bodies, NEW form \in Written,
           filter_body(e, body, form)
    PROVE  IInv'
<1> DEFINE x == ex[e]
           result == process_payload(setting, local_principal, body, "request")
           y == [x EXCEPT !.stage = "filtered", !.body = body, !.came = form, !.cfg = setting,
                          !.result = result]
           z == [x EXCEPT !.stage = "done", !.answer = "error", !.body = body, !.cfg = setting]
<1>1. x.stage = "open" /\ ExchangeOK(x)
  BY DEF filter_body, IInv
<1>2. UNCHANGED <<setting, classifier, version, offered>>
  BY DEF filter_body
<1>3. /\ x.front = "mitm" /\ x.sent = None /\ x.records = <<>>
      /\ x.answer \notin {"blocked", "refused"}
  BY <1>1 DEF ExchangeOK, Early
<1>4. CASE result.ok
  <2>1. ex' = [ex EXCEPT ![e] = y]
    BY <1>4 DEF filter_body
  <2>2. /\ DOMAIN y = Fields
        /\ y.stage = "filtered" /\ y.body = body /\ y.cfg = setting /\ y.result = result
        /\ y.front = x.front /\ y.sent = x.sent /\ y.records = x.records /\ y.answer = x.answer
        /\ y.came = form
    BY <1>1 DEF ExchangeOK, Fields
  <2> HIDE DEF x, y
  <2>3. Filtered(y)
    BY <1>3, <1>4, <2>2 DEF Filtered, ResultOf, IInv
  <2> HIDE DEF result
  <2>4. Early(y) /\ Sent(y) /\ Audited(y) /\ Floored(y)
    BY <1>3, <2>2 DEF Early, Sent, Audited, Floored
  <2>5. ExchangeOK(y)
    BY <2>2, <2>3, <2>4 DEF ExchangeOK
  <2> QED BY <1>2, <2>1, <2>5, OneExchange
<1>5. CASE ~result.ok
  <2>1. ex' = [ex EXCEPT ![e] = z]
    <3>1. ex' = [bad_gateway(e) EXCEPT ![e].body = body, ![e].cfg = setting]
      BY <1>5 DEF filter_body
    <3>2. DOMAIN ex = Exchanges /\ DOMAIN x = Fields
      BY <1>1 DEF IInv, ExchangeOK
    <3> QED BY <3>1, <3>2 DEF bad_gateway
  <2>2. /\ DOMAIN z = Fields
        /\ z.stage = "done" /\ z.answer = "error" /\ z.sent = x.sent /\ z.records = x.records
        /\ z.front = x.front /\ z.host = x.host /\ z.updated = x.updated
        /\ z.came = x.came /\ z.went = x.went
    BY <1>1 DEF ExchangeOK, Fields
  <2> HIDE DEF x, z
  <2>3. ExchangeOK(z)
    BY <1>1, <1>3, <2>2, Refused
  <2> QED BY <1>2, <2>1, <2>3, OneExchange
<1> QED BY <1>4, <1>5

\* handle_request blocks the request or sends it on, and records it either way.
LEMMA StepRequest ==
    ASSUME IInv, NEW e \in Exchanges, handle_request(e)
    PROVE  IInv'
<1> DEFINE x == ex[e]
           r == Record("request", x.result)
           y == [[x EXCEPT !.records = <<r>>] EXCEPT !.stage = "done", !.answer = "blocked"]
           out == sent_on(x)
           z == [[x EXCEPT !.records = <<r>>] EXCEPT !.stage = "waiting", !.updated = usable # {},
                                                     !.sent = out.masks, !.went = out.form]
<1>1. x.stage = "filtered" /\ ExchangeOK(x)
  BY DEF handle_request, IInv
<1>2. UNCHANGED <<setting, classifier, version, offered>>
  BY DEF handle_request
<1>3. DOMAIN x = Fields /\ x.sent = None /\ x.answer \notin {"blocked", "refused"}
  BY <1>1 DEF ExchangeOK, Early
<1>4. x.front = "mitm" /\ x.came \in Written /\ ResultOf(x, local_principal)
  BY <1>1 DEF ExchangeOK, Filtered
<1>5. r.decision = x.result.decision
  BY DEF Record
<1>6. CASE x.result.decision = "block"
  <2>1. ex' = [ex EXCEPT ![e] = y]
    BY <1>3, <1>6 DEF handle_request, Fields
  <2>2. /\ DOMAIN y = Fields
        /\ y.stage = "done" /\ y.answer = "blocked" /\ y.records = <<r>> /\ y.sent = x.sent
    BY <1>3 DEF Fields
  <2> HIDE DEF x, y, r
  <2>3. Audited(y)
    BY <1>3, <1>5, <1>6, <2>2 DEF Audited
  <2>4. Early(y) /\ Filtered(y) /\ Sent(y) /\ Floored(y)
    BY <1>3, <2>2 DEF Early, Filtered, Sent, Floored
  <2>5. ExchangeOK(y)
    BY <2>2, <2>3, <2>4 DEF ExchangeOK
  <2> QED BY <1>2, <2>1, <2>5, OneExchange
<1>7. CASE x.result.decision # "block"
  <2>1. ex' = [ex EXCEPT ![e] = z]
    BY <1>3, <1>7 DEF handle_request, Fields
  <2>2. /\ DOMAIN z = Fields
        /\ z.stage = "waiting" /\ z.answer = x.answer /\ z.records = <<r>>
        /\ z.sent = out.masks /\ z.went = out.form /\ z.came = x.came
        /\ z.updated = (usable # {}) /\ z.front = x.front /\ z.host = x.host
        /\ z.body = x.body /\ z.cfg = x.cfg /\ z.result = x.result
    BY <1>3 DEF Fields, sent_on
  <2>3. x.result.decision = "allow" =>
          /\ out.masks = raw(x.body)
          /\ out.form # x.came => x.came.encoded \/ x.body.kind = "json"
    <3>1. x.result.decision = "allow" => x.result.masks = raw(x.body)
      BY <1>4, RequestProcessed DEF ResultOf, raw
    <3>2. ~x.came.encoded => decode_request(x.came) = x.came
      BY <1>4 DEF Written, decode_request
    <3>3. x.body.kind # "json" => out.form = decode_request(x.came)
      BY DEF sent_on, to_vec
    <3> QED BY <3>1, <3>2, <3>3 DEF sent_on
  <2>4. usable # {} /\ any_matches(BakedSigns, x.host) =>
          out.masks = raw(x.body) /\ out.form = [x.came EXCEPT !.encoded = FALSE]
    BY FloorInForce DEF sent_on, decode_request
  <2> HIDE DEF x, z, r, out
  <2>5. Audited(z)
    BY <1>3, <1>4, <1>5, <1>7, <2>2, <2>3 DEF Audited
  <2>6. Floored(z)
    BY <2>2, <2>4 DEF Floored
  <2>7. Early(z) /\ Filtered(z)
    BY <1>3, <2>2 DEF Early, Filtered
  <2>8. Sent(z)
    BY <1>4, <2>2 DEF Sent, ResultOf
  <2>9. ExchangeOK(z)
    BY <2>2, <2>5, <2>6, <2>7, <2>8 DEF ExchangeOK
  <2> QED BY <1>2, <2>1, <2>9, OneExchange
<1> QED BY <1>6, <1>7

\* The answer is filtered and shown, or withheld.
LEMMA StepResponse ==
    ASSUME IInv, NEW e \in Exchanges, NEW reply \in Replies, handle_response(e, reply)
    PROVE  IInv'
<1> DEFINE x == ex[e]
           result == process_payload(setting, local_principal, reply, "response")
           r == Record("response", result)
           y == [x EXCEPT !.stage = "done", !.answer = "ok", !.reply = reply,
                          !.shown = result.masks, !.records = Append(x.records, r)]
           z == [x EXCEPT !.stage = "done", !.answer = "error", !.reply = reply]
<1>1. x.stage = "waiting" /\ ExchangeOK(x)
  BY DEF handle_response, IInv
<1>2. UNCHANGED <<setting, classifier, version, offered>>
  BY DEF handle_response
<1>3. CASE result.ok
  <2>1. ex' = [ex EXCEPT ![e] = y]
    BY <1>3 DEF handle_response
  <2>2. PICK q : x.records = <<q>>
    BY <1>1 DEF ExchangeOK, Early
  <2>3. /\ DOMAIN y = Fields
        /\ y.stage = "done" /\ y.answer = "ok" /\ y.records = Append(x.records, r)
        /\ y.sent = x.sent /\ y.updated = x.updated /\ y.front = x.front /\ y.host = x.host
        /\ y.body = x.body /\ y.cfg = x.cfg /\ y.result = x.result
        /\ y.came = x.came /\ y.went = x.went
    BY <1>1 DEF ExchangeOK, Fields
  <2> HIDE DEF x, y, r, result
  <2>4. x.records # <<>> /\ y.records # <<>> /\ y.records[1] = x.records[1]
    <3>1. <<q>> \in Seq({q, r}) /\ Len(<<q>>) = 1
      OBVIOUS
    <3>2. /\ Len(Append(<<q>>, r)) = 2
          /\ Append(<<q>>, r)[1] = <<q>>[1]
      BY <3>1
    <3> QED BY <2>2, <2>3, <3>2
  <2>5. Audited(y)
    BY <1>1, <2>3, <2>4 DEF ExchangeOK, Audited
  <2>6. Floored(y)
    BY <1>1, <2>3 DEF ExchangeOK, Floored
  <2>7. Early(y) /\ Filtered(y)
    BY <2>3 DEF Early, Filtered
  <2>8. Sent(y)
    BY <1>1, <2>3 DEF ExchangeOK, Sent, ResultOf
  <2>9. ExchangeOK(y)
    BY <2>3, <2>5, <2>6, <2>7, <2>8 DEF ExchangeOK
  <2> QED BY <1>2, <2>1, <2>9, OneExchange
<1>4. CASE ~result.ok
  <2>1. ex' = [ex EXCEPT ![e] = z]
    <3>1. ex' = [bad_gateway(e) EXCEPT ![e].reply = reply]
      BY <1>4 DEF handle_response
    <3>2. DOMAIN ex = Exchanges /\ DOMAIN x = Fields
      BY <1>1 DEF IInv, ExchangeOK
    <3> QED BY <3>1, <3>2 DEF bad_gateway
  <2>2. /\ DOMAIN z = Fields
        /\ z.stage = "done" /\ z.answer = "error" /\ z.sent = x.sent /\ z.records = x.records
        /\ z.front = x.front /\ z.host = x.host /\ z.updated = x.updated
        /\ z.body = x.body /\ z.cfg = x.cfg /\ z.result = x.result
        /\ z.came = x.came /\ z.went = x.went
    BY <1>1 DEF ExchangeOK, Fields
  <2> HIDE DEF x, z
  <2>3. ExchangeOK(z)
    BY <1>1, <2>2, Refused
  <2> QED BY <1>2, <2>1, <2>3, OneExchange
<1> QED BY <1>3, <1>4

\* The reverse proxy answers a request in one step.
LEMMA StepProxy ==
    ASSUME IInv, NEW e \in Exchanges, NEW body \in Bodies, NEW form \in Written,
           handle_proxy(e, body, form)
    PROVE  IInv'
<1> DEFINE x == ex[e]
           result == process_payload(setting, Caller, body, "request")
           forward == result.ok /\ result.decision \notin {"review", "block"}
           out == IF forward THEN outbound_body(body, form, result).masks ELSE None
           went == IF forward THEN outbound_body(body, form, result).form ELSE None
           answer == CASE ~result.ok -> "error" [] forward -> "ok" [] OTHER -> "refused"
           r == IF result.ok THEN Record("request", result)
                ELSE [direction |-> "request", decision |-> "block"]
           y == [x EXCEPT !.stage = "done", !.front = "reverse", !.body = body, !.came = form,
                          !.result = result, !.cfg = setting, !.sent = out, !.went = went,
                          !.answer = answer, !.records = <<r>>]
<1>1. ExchangeOK(x)
  BY DEF IInv
<1>2. /\ ex' = [ex EXCEPT ![e] = y]
      /\ UNCHANGED <<setting, classifier, version, offered>>
  BY DEF handle_proxy
<1>3. /\ DOMAIN y = Fields
      /\ y.stage = "done" /\ y.front = "reverse" /\ y.body = body /\ y.result = result
      /\ y.sent = out /\ y.went = went /\ y.came = form /\ y.cfg = setting /\ y.records = <<r>>
  BY <1>1 DEF ExchangeOK, Fields
<1>4. r.decision = IF result.ok THEN result.decision ELSE "block"
  BY DEF Record
<1>5. result.ok /\ result.decision = "allow" => out = raw(body) /\ went = form
  BY DEF outbound_body
<1> HIDE DEF x, y, r
<1>6. Sent(y)
  <2> SUFFICES ASSUME y.sent # None PROVE ResultOf(y, Caller)
    BY DEF Sent
  <2>1. result.ok
    BY <1>3
  <2> QED BY <1>3, <2>1 DEF ResultOf, IInv
<1> HIDE DEF result
<1>7. Audited(y)
  <2>1. y.records # <<>> /\ y.records[1] = r
    BY <1>3
  <2>2. r.decision \in {"block", "review"} => out = None
    BY <1>4
  <2>3. r.decision = "allow" => out = raw(body) /\ went = form
    BY <1>4, <1>5
  <2> HIDE DEF out, went
  <2> QED BY <1>3, <2>1, <2>2, <2>3 DEF Audited
<1> HIDE DEF out, went, answer
<1>8. Early(y) /\ Filtered(y) /\ Floored(y)
  BY <1>3 DEF Early, Filtered, Floored
<1>9. ExchangeOK(y)
  BY <1>3, <1>6, <1>7, <1>8 DEF ExchangeOK
<1> QED BY <1>2, <1>9, OneExchange

\* A round of the updater: a newer rule-set is newer than all that were served.
LEMMA StepPoll ==
    ASSUME IInv, NEW feed \in Feeds, poll(feed)
    PROVE  IInv'
<1> DEFINE verified == feed.fits /\ feed.signed
<1>1. UNCHANGED <<setting, ex>>
  BY DEF poll
<1>2. /\ classifier' = IF verified /\ feed.version > version THEN from_ruleset(feed) ELSE classifier
      /\ version' = IF verified /\ feed.version > version THEN feed.version ELSE version
      /\ offered' = IF verified THEN offered \cup {feed} ELSE offered
  BY DEF poll, newer, fetch_ruleset, parse_and_verify
<1>3. /\ Current /\ feed.version \in Nat
      /\ \A f \in usable : f.version \in Nat /\ f.version <= version
  BY MitmAssumption DEF IInv, Current, LatestSigned, usable
<1>4. CASE ~verified
  BY <1>1, <1>2, <1>3, <1>4 DEF IInv, Current, LatestSigned, usable
<1>5. CASE verified /\ feed.version > version
  <2>1. version' = feed.version /\ classifier' = from_ruleset(feed)
    BY <1>2, <1>5
  <2>2. usable' = usable \cup {feed}
    BY <1>2, <1>3, <1>5 DEF usable, Current
  <2>3. \A g \in usable' : g.version <= feed.version
    BY <1>3, <1>5, <2>2 DEF Current
  <2>4. LatestSigned'
    BY <2>1, <2>2, <2>3 DEF LatestSigned
  <2>5. Current'
    BY <1>2, <1>3, <1>5, <2>1, <2>2, <2>4 DEF Current
  <2> QED BY <1>1, <2>5 DEF IInv
<1>6. CASE verified /\ ~(feed.version > version)
  <2>1. version' = version /\ classifier' = classifier /\ offered' = offered \cup {feed}
    BY <1>2, <1>6
  <2>2. CASE usable = {}
    <3>1. version = 0 /\ feed.version = 0
      BY <1>3, <1>6, <2>2 DEF Current
    <3>2. usable' = {}
      BY <2>1, <2>2, <3>1 DEF usable
    <3> QED BY <1>1, <1>3, <2>1, <2>2, <3>1, <3>2 DEF IInv, Current, LatestSigned
  <2>3. CASE usable # {}
    <3>1. PICK f \in usable : /\ \A g \in usable : g.version <= f.version
                              /\ version = f.version /\ classifier = from_ruleset(f)
      BY <1>3, <2>3 DEF Current, LatestSigned
    <3>2. f \in usable' /\ usable' \subseteq usable \cup {feed}
      BY <2>1 DEF usable
    <3>3. \A g \in usable' : g.version <= f.version
      BY <1>3, <1>6, <3>1, <3>2 DEF Current
    <3>4. LatestSigned'
      BY <2>1, <3>1, <3>2, <3>3 DEF LatestSigned
    <3>5. Current'
      BY <1>3, <2>1, <3>2, <3>4 DEF Current
    <3> QED BY <1>1, <3>5 DEF IInv
  <2> QED BY <2>2, <2>3
<1> QED BY <1>4, <1>5, <1>6

\* A restart loses the exchanges under way, not what they sent and recorded.
LEMMA StepRestart ==
    ASSUME IInv, NEW s \in Settings, restart(s)
    PROVE  IInv'
<1>1. setting' \in Settings /\ loads(setting')
  BY DEF restart
<1>2. Current'
  <2>1. classifier' = from_config(Static) /\ version' = 0 /\ offered' = {}
    BY DEF restart
  <2> QED BY <2>1 DEF Current, LatestSigned, usable
<1>3. DOMAIN ex' = Exchanges
  BY DEF restart
<1>4. ASSUME NEW e \in Exchanges
      PROVE  ExchangeOK(ex'[e])
  <2> DEFINE x == ex[e]
             y == [x EXCEPT !.stage = "lost"]
  <2>1. ExchangeOK(x)
    BY DEF IInv
  <2>2. ex'[e] \in {x, y}
    BY DEF restart
  <2>3. /\ DOMAIN y = Fields
        /\ y.stage = "lost" /\ y.answer = x.answer /\ y.sent = x.sent /\ y.records = x.records
        /\ y.front = x.front /\ y.host = x.host /\ y.updated = x.updated
        /\ y.body = x.body /\ y.cfg = x.cfg /\ y.result = x.result
        /\ y.came = x.came /\ y.went = x.went
    BY <2>1 DEF ExchangeOK, Fields
  <2> HIDE DEF x, y
  <2>4. Early(y) /\ Filtered(y)
    BY <2>3 DEF Early, Filtered
  <2>5. Sent(y)
    BY <2>1, <2>3 DEF ExchangeOK, Sent, ResultOf
  <2>6. Audited(y)
    BY <2>1, <2>3 DEF ExchangeOK, Audited
  <2>7. Floored(y)
    BY <2>1, <2>3 DEF ExchangeOK, Floored
  <2>8. ExchangeOK(y)
    BY <2>3, <2>4, <2>5, <2>6, <2>7 DEF ExchangeOK
  <2> QED BY <2>1, <2>2, <2>8
<1> QED BY <1>1, <1>2, <1>3, <1>4 DEF IInv

LEMMA Start == Init => IInv
<1> SUFFICES ASSUME Init PROVE IInv
  OBVIOUS
<1>1. Current
  BY DEF Init, Current, LatestSigned, usable
<1>2. DOMAIN Idle = Fields
  BY DEF Idle, Fields
<1>3. Early(Idle)
  BY MitmAssumption DEF Idle, Early
<1>4. Filtered(Idle) /\ Sent(Idle) /\ Floored(Idle)
  BY DEF Idle, Filtered, Sent, Floored
<1>5. Audited(Idle)
  BY MitmAssumption DEF Idle, Audited
<1>6. \A e \in Exchanges : ExchangeOK(ex[e])
  BY <1>2, <1>3, <1>4, <1>5 DEF Init, ExchangeOK
<1> QED BY <1>1, <1>6 DEF Init, IInv

LEMMA Step == IInv /\ [Next]_vars => IInv'
<1> SUFFICES ASSUME IInv, [Next]_vars PROVE IInv'
  OBVIOUS
<1>1. ASSUME NEW e \in Exchanges, NEW host \in Hosts, should_intercept(e, host) PROVE IInv'
  BY <1>1, StepIntercept
<1>2. ASSUME NEW e \in Exchanges, NEW body \in Bodies, NEW form \in Written,
             filter_body(e, body, form) PROVE IInv'
  BY <1>2, StepFilter
<1>3. ASSUME NEW e \in Exchanges, NEW body \in Bodies, NEW form \in Written,
             handle_proxy(e, body, form) PROVE IInv'
  BY <1>3, StepProxy
<1>4. ASSUME NEW e \in Exchanges, NEW reply \in Replies, handle_response(e, reply) PROVE IInv'
  BY <1>4, StepResponse
<1>5. ASSUME NEW e \in Exchanges, undecodable(e) \/ handle_error(e) PROVE IInv'
  BY <1>5, StepUndecodable
<1>6. ASSUME NEW e \in Exchanges, handle_request(e) PROVE IInv'
  BY <1>6, StepRequest
<1>7. ASSUME NEW feed \in Feeds, poll(feed) PROVE IInv'
  BY <1>7, StepPoll
<1>8. ASSUME NEW s \in Settings, restart(s) PROVE IInv'
  BY <1>8, StepRestart
<1>9. CASE UNCHANGED vars
  BY <1>9 DEF vars, IInv, Current, LatestSigned, usable
<1> QED BY <1>1, <1>2, <1>3, <1>4, <1>5, <1>6, <1>7, <1>8, <1>9 DEF Next

LEMMA Invariance == Spec => []IInv
BY Start, Step, PTL DEF Spec

--------------------------------------------------------------------------------
(* The invariant of what is handed on                                       *)

Principal(x) == IF x.front = "mitm" THEN local_principal ELSE Caller

Typed(x) ==
    /\ x.stage \in {"idle", "tunnel", "open", "filtered", "waiting", "done", "lost"}
    /\ x.host \in Hosts \cup {None}
    /\ x.body \in Bodies \cup {None}
    /\ x.stage \in {"open", "filtered", "waiting"} => x.host \in Hosts

\* A request under way is filtered and answered under one configuration, s.
UnderWay(x, s) ==
    /\ x.stage \in {"idle", "tunnel", "open"} => x.result = None
    /\ x.stage \in {"filtered", "waiting"} => x.front = "mitm" /\ x.cfg = s
    /\ x.shown # None => x.stage = "done"

Held(x) == x.result # None /\ x.result.ok => ResultOf(x, Principal(x))

HandedOn(x) ==
    x.sent # None =>
        /\ ResultOf(x, Principal(x))
        /\ x.result.decision # "block"
        /\ x.result.decision = "review" => x.front = "mitm"
        /\ \/ x.sent = x.result.masks
           \/ x.front = "mitm" /\ x.host \in Signing /\ x.sent = raw(x.body)

Shown(x) ==
    x.shown # None =>
        LET result == process_payload(x.cfg, local_principal, x.reply, "response")
        IN  x.reply \in Replies /\ x.cfg \in Settings /\ result.ok /\ x.shown = result.masks

Handled(x, s) == Typed(x) /\ UnderWay(x, s) /\ Held(x) /\ HandedOn(x) /\ Shown(x)

HInv ==
    /\ version \in {0} \cup {f.version : f \in Feeds}
    /\ \A e \in Exchanges : Handled(ex[e], setting)

LEMMA OneHandled ==
    ASSUME IInv, HInv, NEW e \in Exchanges, NEW y, ex' = [ex EXCEPT ![e] = y],
           Handled(y, setting), UNCHANGED <<setting, classifier, version, offered>>
    PROVE  HInv'
<1>1. \A d \in Exchanges : ex'[d] = IF d = e THEN y ELSE ex[d]
  BY DEF IInv
<1>2. \A d \in Exchanges : Handled(ex'[d], setting)
  BY <1>1 DEF HInv
<1> QED BY <1>2 DEF HInv

\* Only hosts that are known to sign are taken for signing, whichever rule-set
\* is in force.
LEMMA SigningKnown ==
    ASSUME IInv, NEW host \in Hosts, signs_body(classifier, host)
    PROVE  host \in Signing
<1> DEFINE All == BakedSigns \cup Static.signs_body \cup UNION {f.signs_body : f \in Feeds}
<1>1. classifier = from_config(Static) \/ \E f \in Feeds : classifier = from_ruleset(f)
  BY DEF IInv, Current, LatestSigned, usable
<1>2. classifier.signs_body \subseteq compile_all(All)
  <2>1. CASE classifier = from_config(Static)
    BY <2>1 DEF from_config, Classifier, compile_all
  <2>2. ASSUME NEW f \in Feeds, classifier = from_ruleset(f)
        PROVE  classifier.signs_body \subseteq compile_all(All)
    BY <2>2 DEF from_ruleset, Classifier, compile_all
  <2> QED BY <1>1, <2>1, <2>2
<1> HIDE DEF All
<1>3. any_matches(compile_all(All), host)
  BY <1>2 DEF signs_body, any_matches
<1> QED BY <1>3 DEF Signing, All

LEMMA InterceptHandled ==
    ASSUME IInv, HInv, NEW e \in Exchanges, NEW host \in Hosts, should_intercept(e, host)
    PROVE  HInv'
<1> DEFINE x == ex[e]
           y == [x EXCEPT !.stage = IF classify(classifier, host) = "intercept"
                                    THEN "open" ELSE "tunnel",
                          !.front = "mitm", !.host = host, !.updated = usable # {}]
<1>1. x.stage = "idle" /\ ExchangeOK(x) /\ Handled(x, setting)
  BY DEF should_intercept, IInv, HInv
<1>2. /\ ex' = [ex EXCEPT ![e] = y]
      /\ UNCHANGED <<setting, classifier, version, offered>>
  BY DEF should_intercept
<1>3. /\ y.stage \in {"open", "tunnel"} /\ y.host = host /\ y.body = x.body /\ y.sent = x.sent
      /\ y.result = x.result /\ y.shown = x.shown
  BY <1>1 DEF ExchangeOK, Fields
<1> HIDE DEF x, y
<1>4. x.sent = None /\ x.result = None /\ x.shown = None
  BY <1>1 DEF ExchangeOK, Early, Handled, UnderWay
<1>5. Typed(y) /\ UnderWay(y, setting)
  BY <1>1, <1>3, <1>4 DEF Handled, Typed, UnderWay
<1>6. Held(y) /\ HandedOn(y) /\ Shown(y)
  BY <1>3, <1>4 DEF Held, HandedOn, Shown
<1>7. Handled(y, setting)
  BY <1>5, <1>6 DEF Handled
<1> QED BY <1>2, <1>7, OneHandled

\* A message that cannot be handed on changes nothing of what was.
LEMMA RefusedHandled ==
    ASSUME NEW s, NEW x, NEW y, Handled(x, s), x.stage \in {"open", "waiting"},
           y.stage = "done", y.front = x.front, y.host = x.host, y.sent = x.sent,
           y.result = x.result, y.shown = x.shown, y.body \in Bodies \cup {None},
           x.sent = None \/ x.stage = "waiting",
           x.stage = "waiting" => y.body = x.body /\ y.cfg = x.cfg
    PROVE  Handled(y, s)
<1>1. x.shown = None /\ x.host \in Hosts /\ (x.stage = "open" => x.result = None)
  BY DEF Handled, UnderWay, Typed
<1>2. Typed(y) /\ UnderWay(y, s) /\ Shown(y)
  BY <1>1 DEF Typed, UnderWay, Shown
<1>3. CASE x.stage = "open"
  BY <1>1, <1>2, <1>3 DEF Handled, Held, HandedOn
<1>4. CASE x.stage = "waiting"
  <2>1. Held(x) /\ HandedOn(x) /\ Principal(y) = Principal(x)
    BY DEF Handled, Principal
  <2>2. \A principal : ResultOf(y, principal) = ResultOf(x, principal)
    BY <1>4 DEF ResultOf
  <2>3. Held(y)
    BY <2>1, <2>2 DEF Held
  <2>4. HandedOn(y)
    BY <1>4, <2>1, <2>2 DEF HandedOn
  <2> QED BY <1>2, <2>3, <2>4 DEF Handled
<1> QED BY <1>3, <1>4

LEMMA UndecodableHandled ==
    ASSUME IInv, HInv, NEW e \in Exchanges, undecodable(e) \/ handle_error(e)
    PROVE  HInv'
<1> DEFINE x == ex[e]
           y == [x EXCEPT !.stage = "done", !.answer = "error"]
<1>1. x.stage \in {"open", "waiting"} /\ ExchangeOK(x) /\ Handled(x, setting)
  BY DEF undecodable, handle_error, IInv, HInv
<1>2. /\ ex' = [ex EXCEPT ![e] = y]
      /\ UNCHANGED <<setting, classifier, version, offered>>
  BY DEF undecodable, handle_error, bad_gateway
<1>3. /\ y.stage = "done" /\ y.front = x.front /\ y.host = x.host /\ y.sent = x.sent
      /\ y.result = x.result /\ y.shown = x.shown /\ y.body = x.body /\ y.cfg = x.cfg
  BY <1>1 DEF ExchangeOK, Fields
<1> HIDE DEF x, y
<1>4. x.body \in Bodies \cup {None} /\ (x.sent = None \/ x.stage = "waiting")
  BY <1>1 DEF ExchangeOK, Early, Handled, Typed
<1>5. Handled(y, setting)
  BY <1>1, <1>3, <1>4, RefusedHandled
<1> QED BY <1>2, <1>5, OneHandled

LEMMA FilterHandled ==
    ASSUME IInv, HInv, NEW e \in Exchanges, NEW body \in Bodies, NEW form \in Written,
           filter_body(e, body, form)
    PROVE  HInv'
<1> DEFINE x == ex[e]
           result == process_payload(setting, local_principal, body, "request")
           y == [x EXCEPT !.stage = "filtered", !.body = body, !.came = form, !.cfg = setting,
                          !.result = result]
           z == [x EXCEPT !.stage = "done", !.answer = "error", !.body = body, !.cfg = setting]
<1>1. x.stage = "open" /\ ExchangeOK(x) /\ Handled(x, setting)
  BY DEF filter_body, IInv, HInv
<1>2. UNCHANGED <<setting, classifier, version, offered>>
  BY DEF filter_body
<1>3. x.front = "mitm" /\ x.sent = None /\ x.shown = None /\ x.host \in Hosts
  BY <1>1 DEF ExchangeOK, Early, Handled, UnderWay, Typed
<1>4. CASE result.ok
  <2>1. ex' = [ex EXCEPT ![e] = y]
    BY <1>4 DEF filter_body
  <2>2. /\ y.stage = "filtered" /\ y.body = body /\ y.cfg = setting /\ y.result = result
        /\ y.front = x.front /\ y.sent = x.sent /\ y.shown = x.shown /\ y.host = x.host
    BY <1>1 DEF ExchangeOK, Fields
  <2> HIDE DEF x, y
  <2>3. Held(y)
    BY <1>3, <1>4, <2>2 DEF Held, Principal, ResultOf, IInv
  <2> HIDE DEF result
  <2>4. Typed(y) /\ UnderWay(y, setting) /\ HandedOn(y) /\ Shown(y)
    BY <1>3, <2>2 DEF Typed, UnderWay, HandedOn, Shown
  <2>5. Handled(y, setting)
    BY <2>3, <2>4 DEF Handled
  <2> QED BY <1>2, <2>1, <2>5, OneHandled
<1>5. CASE ~result.ok
  <2>1. ex' = [ex EXCEPT ![e] = z]
    <3>1. ex' = [bad_gateway(e) EXCEPT ![e].body = body, ![e].cfg = setting]
      BY <1>5 DEF filter_body
    <3>2. DOMAIN ex = Exchanges /\ DOMAIN x = Fields
      BY <1>1 DEF IInv, ExchangeOK
    <3> QED BY <3>1, <3>2 DEF bad_gateway
  <2>2. /\ z.stage = "done" /\ z.front = x.front /\ z.host = x.host /\ z.sent = x.sent
        /\ z.result = x.result /\ z.shown = x.shown /\ z.body = body
    BY <1>1 DEF ExchangeOK, Fields
  <2> HIDE DEF x, z
  <2>3. Handled(z, setting)
    BY <1>1, <1>3, <2>2, RefusedHandled
  <2> QED BY <1>2, <2>1, <2>3, OneHandled
<1> QED BY <1>4, <1>5

\* What handle_request sends is what filter_body made of the body, or the body
\* unmasked where the host signs.
LEMMA RequestHandled ==
    ASSUME IInv, HInv, NEW e \in Exchanges, handle_request(e)
    PROVE  HInv'
<1> DEFINE x == ex[e]
           r == Record("request", x.result)
           y == [[x EXCEPT !.records = <<r>>] EXCEPT !.stage = "done", !.answer = "blocked"]
           out == sent_on(x)
           z == [[x EXCEPT !.records = <<r>>] EXCEPT !.stage = "waiting", !.updated = usable # {},
                                                     !.sent = out.masks, !.went = out.form]
<1>1. x.stage = "filtered" /\ ExchangeOK(x) /\ Handled(x, setting)
  BY DEF handle_request, IInv, HInv
<1>2. UNCHANGED <<setting, classifier, version, offered>>
  BY DEF handle_request
<1>3. DOMAIN x = Fields /\ x.sent = None
  BY <1>1 DEF ExchangeOK, Early
<1>4. x.front = "mitm" /\ ResultOf(x, local_principal) /\ Held(x) /\ Typed(x) /\ x.shown = None
      /\ x.cfg = setting /\ x.host \in Hosts
  BY <1>1 DEF ExchangeOK, Filtered, Handled, UnderWay, Typed
<1>5. CASE x.result.decision = "block"
  <2>1. ex' = [ex EXCEPT ![e] = y]
    BY <1>3, <1>5 DEF handle_request, Fields
  <2>2. /\ y.stage = "done" /\ y.front = x.front /\ y.host = x.host /\ y.sent = x.sent
        /\ y.result = x.result /\ y.shown = x.shown /\ y.body = x.body /\ y.cfg = x.cfg
    BY <1>3 DEF Fields
  <2> HIDE DEF x, y, r
  <2>3. Held(y)
    BY <1>4, <2>2 DEF Held, ResultOf, Principal
  <2>4. Typed(y) /\ UnderWay(y, setting) /\ HandedOn(y) /\ Shown(y)
    BY <1>3, <1>4, <2>2 DEF Typed, UnderWay, HandedOn, Shown
  <2>5. Handled(y, setting)
    BY <2>3, <2>4 DEF Handled
  <2> QED BY <1>2, <2>1, <2>5, OneHandled
<1>6. CASE x.result.decision # "block"
  <2>1. ex' = [ex EXCEPT ![e] = z]
    BY <1>3, <1>6 DEF handle_request, Fields
  <2>2. /\ z.stage = "waiting" /\ z.sent = out.masks /\ z.front = x.front /\ z.host = x.host
        /\ z.result = x.result /\ z.shown = x.shown /\ z.body = x.body /\ z.cfg = x.cfg
    BY <1>3 DEF Fields
  <2>3. out.masks = x.result.masks \/ (x.host \in Signing /\ out.masks = raw(x.body))
    BY <1>4, SigningKnown DEF sent_on
  <2> HIDE DEF x, z, r, out
  <2>4. Held(z)
    BY <1>4, <2>2 DEF Held, ResultOf, Principal
  <2>5. ResultOf(z, Principal(z))
    BY <1>4, <2>2 DEF ResultOf, Principal
  <2>6. HandedOn(z)
    BY <1>4, <1>6, <2>2, <2>3, <2>5 DEF HandedOn
  <2>7. Typed(z) /\ UnderWay(z, setting) /\ Shown(z)
    BY <1>4, <2>2 DEF Typed, UnderWay, Shown
  <2>8. Handled(z, setting)
    BY <2>4, <2>6, <2>7 DEF Handled
  <2> QED BY <1>2, <2>1, <2>8, OneHandled
<1> QED BY <1>5, <1>6

LEMMA ResponseHandled ==
    ASSUME IInv, HInv, NEW e \in Exchanges, NEW reply \in Replies, handle_response(e, reply)
    PROVE  HInv'
<1> DEFINE x == ex[e]
           result == process_payload(setting, local_principal, reply, "response")
           r == Record("response", result)
           y == [x EXCEPT !.stage = "done", !.answer = "ok", !.reply = reply,
                          !.shown = result.masks, !.records = Append(x.records, r)]
           z == [x EXCEPT !.stage = "done", !.answer = "error", !.reply = reply]
<1>1. x.stage = "waiting" /\ ExchangeOK(x) /\ Handled(x, setting)
  BY DEF handle_response, IInv, HInv
<1>2. UNCHANGED <<setting, classifier, version, offered>>
  BY DEF handle_response
<1>3. x.cfg = setting /\ Held(x) /\ HandedOn(x) /\ Typed(x)
  BY <1>1 DEF Handled, UnderWay
<1>4. CASE result.ok
  <2>1. ex' = [ex EXCEPT ![e] = y]
    BY <1>4 DEF handle_response
  <2>2. /\ y.stage = "done" /\ y.front = x.front /\ y.host = x.host /\ y.sent = x.sent
        /\ y.result = x.result /\ y.body = x.body /\ y.cfg = x.cfg
        /\ y.shown = result.masks /\ y.reply = reply
    BY <1>1 DEF ExchangeOK, Fields
  <2> HIDE DEF x, y, r
  <2>3. Shown(y)
    BY <1>3, <1>4, <2>2 DEF Shown, IInv
  <2> HIDE DEF result
  <2>4. Typed(y) /\ UnderWay(y, setting)
    BY <1>3, <2>2 DEF Typed, UnderWay
  <2>5. /\ Principal(y) = Principal(x)
        /\ \A principal : ResultOf(y, principal) = ResultOf(x, principal)
    BY <2>2 DEF Principal, ResultOf
  <2>6. Held(y) /\ HandedOn(y)
    BY <1>3, <2>2, <2>5 DEF Held, HandedOn
  <2>7. Handled(y, setting)
    BY <2>3, <2>4, <2>6 DEF Handled
  <2> QED BY <1>2, <2>1, <2>7, OneHandled
<1>5. CASE ~result.ok
  <2>1. ex' = [ex EXCEPT ![e] = z]
    <3>1. ex' = [bad_gateway(e) EXCEPT ![e].reply = reply]
      BY <1>5 DEF handle_response
    <3>2. DOMAIN ex = Exchanges /\ DOMAIN x = Fields
      BY <1>1 DEF IInv, ExchangeOK
    <3> QED BY <3>1, <3>2 DEF bad_gateway
  <2>2. /\ z.stage = "done" /\ z.front = x.front /\ z.host = x.host /\ z.sent = x.sent
        /\ z.result = x.result /\ z.shown = x.shown /\ z.body = x.body /\ z.cfg = x.cfg
    BY <1>1 DEF ExchangeOK, Fields
  <2> HIDE DEF x, z
  <2>3. x.body \in Bodies \cup {None}
    BY <1>3 DEF Typed
  <2>4. Handled(z, setting)
    BY <1>1, <2>2, <2>3, RefusedHandled
  <2> QED BY <1>2, <2>1, <2>4, OneHandled
<1> QED BY <1>4, <1>5

\* What the reverse proxy forwards is masked, or was allowed as it is.
LEMMA ProxyHandled ==
    ASSUME IInv, HInv, NEW e \in Exchanges, NEW body \in Bodies, NEW form \in Written,
           handle_proxy(e, body, form)
    PROVE  HInv'
<1> DEFINE x == ex[e]
           result == process_payload(setting, Caller, body, "request")
           forward == result.ok /\ result.decision \notin {"review", "block"}
           out == IF forward THEN outbound_body(body, form, result).masks ELSE None
           went == IF forward THEN outbound_body(body, form, result).form ELSE None
           answer == CASE ~result.ok -> "error" [] forward -> "ok" [] OTHER -> "refused"
           r == IF result.ok THEN Record("request", result)
                ELSE [direction |-> "request", decision |-> "block"]
           y == [x EXCEPT !.stage = "done", !.front = "reverse", !.body = body, !.came = form,
                          !.result = result, !.cfg = setting, !.sent = out, !.went = went,
                          !.answer = answer, !.records = <<r>>]
<1>1. x.stage = "idle" /\ ExchangeOK(x) /\ Handled(x, setting)
  BY DEF handle_proxy, IInv, HInv
<1>2. /\ ex' = [ex EXCEPT ![e] = y]
      /\ UNCHANGED <<setting, classifier, version, offered>>
  BY DEF handle_proxy
<1>3. /\ y.stage = "done" /\ y.front = "reverse" /\ y.body = body /\ y.result = result
      /\ y.sent = out /\ y.cfg = setting /\ y.host = x.host /\ y.shown = x.shown
  BY <1>1 DEF ExchangeOK, Fields
<1>4. forward => out = result.masks
  <2>1. /\ result.decision \in Actions
        /\ result.ok /\ result.decision = "allow" => result.masks = NoMasks(body)
    BY RequestProcessed DEF IInv
  <2> HIDE DEF result
  <2>2. forward => result.decision \in {"allow", "redact"}
    BY <2>1 DEF Actions
  <2> QED BY <2>1, <2>2 DEF outbound_body, raw
<1>5. x.shown = None /\ Typed(x)
  BY <1>1 DEF Handled, UnderWay
<1> HIDE DEF x, y
<1>6. result.ok => ResultOf(y, Principal(y))
  BY <1>3 DEF ResultOf, Principal, IInv
<1> HIDE DEF result
<1>7. Held(y)
  BY <1>3, <1>6 DEF Held
<1>8. HandedOn(y)
  BY <1>3, <1>4, <1>6 DEF HandedOn
<1> HIDE DEF forward, out, went, answer, r
<1>9. Typed(y) /\ UnderWay(y, setting) /\ Shown(y)
  BY <1>3, <1>5 DEF Typed, UnderWay, Shown
<1>10. Handled(y, setting)
  BY <1>7, <1>8, <1>9 DEF Handled
<1> QED BY <1>2, <1>10, OneHandled

LEMMA PollHandled ==
    ASSUME HInv, NEW feed \in Feeds, poll(feed)
    PROVE  HInv'
<1>1. UNCHANGED <<setting, ex>> /\ version' \in {feed.version, version}
  BY DEF poll
<1> QED BY <1>1 DEF HInv

LEMMA RestartHandled ==
    ASSUME IInv, HInv, NEW s \in Settings, restart(s)
    PROVE  HInv'
<1>1. version' = 0 /\ setting' = s
  BY DEF restart
<1>2. ASSUME NEW e \in Exchanges
      PROVE  Handled(ex'[e], s)
  <2> DEFINE x == ex[e]
             y == [x EXCEPT !.stage = "lost"]
  <2>1. ExchangeOK(x) /\ Handled(x, setting)
    BY DEF IInv, HInv
  <2>2. ex'[e] = IF x.stage \in {"idle", "done"} THEN x ELSE y
    BY DEF restart
  <2>3. /\ y.stage = "lost" /\ y.front = x.front /\ y.host = x.host /\ y.sent = x.sent
        /\ y.result = x.result /\ y.shown = x.shown /\ y.body = x.body /\ y.cfg = x.cfg
        /\ y.reply = x.reply
    BY <2>1 DEF ExchangeOK, Fields
  <2> HIDE DEF x, y
  <2>4. CASE x.stage \in {"idle", "done"}
    BY <2>1, <2>2, <2>4 DEF Handled, UnderWay
  <2>5. CASE x.stage \notin {"idle", "done"}
    <3>1. x.shown = None
      BY <2>1, <2>5 DEF Handled, UnderWay
    <3>2. Typed(y) /\ UnderWay(y, s) /\ Shown(y)
      BY <2>1, <2>3, <3>1 DEF Handled, Typed, UnderWay, Shown
    <3>3. /\ Principal(y) = Principal(x)
          /\ \A principal : ResultOf(y, principal) = ResultOf(x, principal)
      BY <2>3 DEF Principal, ResultOf
    <3>4. Held(y) /\ HandedOn(y)
      BY <2>1, <2>3, <3>3 DEF Handled, Held, HandedOn
    <3> QED BY <2>2, <2>5, <3>2, <3>4 DEF Handled
  <2> QED BY <2>4, <2>5
<1> QED BY <1>1, <1>2 DEF HInv

LEMMA StartHandled == Init => HInv
<1> SUFFICES ASSUME Init PROVE HInv
  OBVIOUS
<1>1. \A s : Handled(Idle, s)
  BY DEF Idle, Handled, Typed, UnderWay, Held, HandedOn, Shown
<1> QED BY <1>1 DEF Init, HInv

LEMMA StepHandled == IInv /\ HInv /\ [Next]_vars => HInv'
<1> SUFFICES ASSUME IInv, HInv, [Next]_vars PROVE HInv'
  OBVIOUS
<1>1. ASSUME NEW e \in Exchanges, NEW host \in Hosts, should_intercept(e, host) PROVE HInv'
  BY <1>1, InterceptHandled
<1>2. ASSUME NEW e \in Exchanges, NEW body \in Bodies, NEW form \in Written,
             filter_body(e, body, form) PROVE HInv'
  BY <1>2, FilterHandled
<1>3. ASSUME NEW e \in Exchanges, NEW body \in Bodies, NEW form \in Written,
             handle_proxy(e, body, form) PROVE HInv'
  BY <1>3, ProxyHandled
<1>4. ASSUME NEW e \in Exchanges, NEW reply \in Replies, handle_response(e, reply) PROVE HInv'
  BY <1>4, ResponseHandled
<1>5. ASSUME NEW e \in Exchanges, undecodable(e) \/ handle_error(e) PROVE HInv'
  BY <1>5, UndecodableHandled
<1>6. ASSUME NEW e \in Exchanges, handle_request(e) PROVE HInv'
  BY <1>6, RequestHandled
<1>7. ASSUME NEW feed \in Feeds, poll(feed) PROVE HInv'
  BY <1>7, PollHandled
<1>8. ASSUME NEW s \in Settings, restart(s) PROVE HInv'
  BY <1>8, RestartHandled
<1>9. CASE UNCHANGED vars
  BY <1>9 DEF vars, HInv
<1> QED BY <1>1, <1>2, <1>3, <1>4, <1>5, <1>6, <1>7, <1>8, <1>9 DEF Next

LEMMA HandledInvariance == Spec => [](IInv /\ HInv)
<1>1. Init => IInv /\ HInv
  BY Start, StartHandled
<1>2. (IInv /\ HInv) /\ [Next]_vars => (IInv /\ HInv)'
  BY Step, StepHandled
<1> QED BY <1>1, <1>2, PTL DEF Spec

--------------------------------------------------------------------------------
(* Where findings lie                                                       *)

\* Findings are spans of the text they were found in.
SpansIn(F, body) ==
    \A f \in F : f.start < f.end /\ f.end <= body.parts[f.at[1]].nodes[f.at[2]].len

LEMMA NodesSpans ==
    ASSUME NEW s \in Settings, NEW principal, NEW body \in Bodies,
           NEW scanned \in SUBSET nodes_of(body),
           NEW result, result = process_nodes(s, principal, body, scanned)
    PROVE  SpansIn(result.findings, body)
<1> DEFINE Text(n) == body.parts[n[1]].nodes[n[2]]
           Found(n) == findings_in(s, principal, Text(n), <<n[1]>>, n)
           all == UNION {Found(n) : n \in scanned}
<1>1. result.findings = all
  BY DEF process_nodes, Failed, Processed
<1>2. ASSUME NEW n \in scanned, NEW f \in Found(n)
      PROVE  f.start < f.end /\ f.end <= body.parts[f.at[1]].nodes[f.at[2]].len
  <2>1. PICK k \in DOMAIN body.parts : \E i \in DOMAIN body.parts[k].nodes : n = <<k, i>>
    BY DEF nodes_of
  <2>2. PICK i \in DOMAIN body.parts[k].nodes : n = <<k, i>>
    BY <2>1
  <2>3. TextUnder(s, Text(n))
    BY <2>2, TextsUnder
  <2> HIDE DEF Text
  <2>4. limit_text(Text(n), Text(n).len) = Text(n) /\ Text(n).len \in Nat
    BY <2>3 DEF TextUnder, text_holds, limit_text
  <2>5. f \in findings_in(s, principal, limit_text(Text(n), Text(n).len), <<n[1]>>, n)
    BY <2>4
  <2> HIDE DEF Found
  <2>6. f.at = n
    BY <2>3, <2>4, <2>5, FoundIsHit
  <2>7. f.start < f.end /\ f.end <= Text(n).len
    BY <2>3, <2>4, <2>5, FoundSpans DEF Spans
  <2> QED BY <2>6, <2>7 DEF Text
<1> HIDE DEF Found
<1> QED BY <1>1, <1>2 DEF SpansIn

LEMMA AttachmentSpans ==
    ASSUME NEW s \in Settings, NEW principal, NEW body \in Bodies
    PROVE  SpansIn(AllFindings(s, principal, body), body)
<1> SUFFICES ASSUME NEW f \in AllFindings(s, principal, body)
             PROVE  f.start < f.end /\ f.end <= body.parts[f.at[1]].nodes[f.at[2]].len
  BY DEF SpansIn
<1>1. PICK k \in DOMAIN body.parts : \E i \in DOMAIN body.parts[k].nodes :
         f \in NodeFindings(s, principal, body, k, i) /\ f.at = <<k, i>>
  BY FoundInNode
<1>2. PICK i \in DOMAIN body.parts[k].nodes :
         f \in NodeFindings(s, principal, body, k, i) /\ f.at = <<k, i>>
  BY <1>1
<1>3. TextUnder(s, body.parts[k].nodes[i]) /\ remaining(s, body.parts[k])[i] \in Nat
  BY TextsUnder, ShareIs
<1>4. f.start < f.end /\ f.end <= body.parts[k].nodes[i].len
  BY <1>2, <1>3, FoundSpans DEF NodeFindings, scanned_text, Spans
<1> QED BY <1>2, <1>4

\* Whatever offsets Presidio reports, a finding is a span of its text.
LEMMA PayloadSpans ==
    ASSUME NEW s \in Settings, NEW principal, NEW body \in Bodies,
           NEW result, result = process_payload(s, principal, body, "request")
    PROVE  SpansIn(result.findings, body)
<1>1. CASE body.kind = "multipart" /\ s.attachments
  <2>1. result = scan_request(s, principal, body)
    BY <1>1 DEF process_payload
  <2>2. result.findings = AllFindings(s, principal, body)
    BY <2>1, RequestShape DEF Failed, Processed, ReviewFallback
  <2> QED BY <2>2, AttachmentSpans
<1>2. CASE ~(body.kind = "multipart" /\ s.attachments)
  <2>1. \/ result = process_nodes(s, principal, body, string_nodes(s, body))
        \/ result = process_nodes(s, principal, body, nodes_of(body))
        \/ result = passthrough(body)
    BY <1>2 DEF process_payload
  <2>2. string_nodes(s, body) \in SUBSET nodes_of(body) /\ nodes_of(body) \in SUBSET nodes_of(body)
    BY DEF string_nodes
  <2>3. CASE result = passthrough(body)
    BY <2>3 DEF passthrough, Processed, SpansIn
  <2> QED BY <2>1, <2>2, <2>3, NodesSpans
<1> QED BY <1>1, <1>2

--------------------------------------------------------------------------------
(* The theorems                                                             *)

\* In one life of the process the classifier is that of the newest signed
\* rule-set it was served, whatever was served and in whatever order: the
\* updater never goes back, and nothing unsigned or oversized gets in.
THEOREM NewestRuleSetInForce == Spec => []LatestSigned
<1>1. IInv => LatestSigned
  BY DEF IInv, Current
<1> QED BY <1>1, Invariance, PTL

\* No rule-set can have a baked-in provider tunnelled, or a signed body of a
\* baked-in host masked or written anew, also when it is swapped in while a
\* request is being filtered: only its compression is taken from it.
THEOREM FloorCannotBeLowered == Spec => []FloorHeld
<1>1. IInv => FloorHeld
  BY DEF IInv, ExchangeOK, Floored, FloorHeld
<1> QED BY <1>1, Invariance, PTL

\* Of a request with an attachment that is too large or cannot be read,
\* nothing leaves, under whichever configuration it was filtered.
THEOREM UnreadableStopsAll == Spec => []FailureStopsAll
<1>1. ASSUME IInv, NEW e \in Exchanges, Unreadable(ex[e].cfg, ex[e].body)
      PROVE  ex[e].sent = None
  <2> DEFINE x == ex[e]
  <2> SUFFICES ASSUME x.sent # None PROVE FALSE
    OBVIOUS
  <2>1. PICK principal : ResultOf(x, principal)
    BY <1>1 DEF IInv, ExchangeOK, Sent
  <2> QED BY <1>1, <2>1, RequestProcessed DEF ResultOf
<1>2. IInv => FailureStopsAll
  BY <1>1 DEF FailureStopsAll, Unreadable
<1> QED BY <1>2, Invariance, PTL

\* What left and what policy stopped is on record, and no record contradicts
\* what was done: blocked bodies never left, nothing was masked in allowed ones,
\* and those left byte for byte but for compressed and JSON bodies in the
\* transparent proxy.
THEOREM RecordsTellTheTruth == Spec => []AuditAgrees
<1>1. IInv => AuditAgrees
  BY DEF IInv, ExchangeOK, Audited, AuditAgrees
<1> QED BY <1>1, Invariance, PTL

\* A token in a body that left can be turned back under the key and prefix it
\* was made with and under no others, whatever configurations the process has
\* run with since.
THEOREM TokensComeBack == Spec => []TokensReturn
<1>1. ASSUME IInv, NEW e \in Exchanges, ex[e].sent # None, NEW token \in TokensSent(ex[e]),
             ~token.colon
      PROVE  LET answer == admin_detokenize(setting, token)
             IN  /\ (answer.status = 200) <=> (setting.tokenization = ex[e].cfg.tokenization)
                 /\ answer.status = 200 => answer.shown[1] = token.head
  <2> DEFINE x == ex[e]
             answer == admin_detokenize(setting, token)
  <2>1. PICK principal : ResultOf(x, principal)
    BY <1>1 DEF IInv, ExchangeOK, Sent
  <2>2. PICK f \in x.result.findings :
           x.cfg.rules[f.label].masking = "tokenize" /\ token = tokenize(x.cfg, f.label, f.label)
    BY <1>1 DEF TokensSent
  <2>3. f.label \in DOMAIN x.cfg.rules
    BY <2>1, RequestProcessed DEF ResultOf
  <2>4. x.cfg.tokenization.enabled
    BY <2>1, <2>2, <2>3 DEF ResultOf, loads, ensure_tokenization_configuration
  <2>5. /\ token.prefix = x.cfg.tokenization.prefix /\ token.key = x.cfg.tokenization.key
        /\ token.head = f.label /\ token.payload = <<f.label, f.label>>
    BY <2>2 DEF tokenize
  <2>6. normalize_token(token) = <<token.prefix>>
    BY <1>1 DEF normalize_token
  <2>7. setting.tokenization = x.cfg.tokenization <=>
          /\ setting.tokenization.enabled
          /\ setting.tokenization.prefix = token.prefix
          /\ setting.tokenization.key = token.key
    <3> DEFINE Shape(t) == [enabled |-> t.enabled, key |-> t.key, prefix |-> t.prefix]
    <3>1. setting.tokenization = Shape(setting.tokenization)
      BY <1>1, MitmAssumption DEF IInv
    <3>2. x.cfg.tokenization = Shape(x.cfg.tokenization)
      BY <2>1, MitmAssumption DEF ResultOf
    <3> QED BY <2>4, <2>5, <3>1, <3>2
  <2>8. detokenize(setting, token) =
          IF setting.tokenization.prefix = token.prefix /\ setting.tokenization.key = token.key
          THEN token.payload ELSE <<>>
    BY <2>6 DEF detokenize
  <2>9. answer.status = 200 <=>
          /\ setting.tokenization.enabled
          /\ setting.tokenization.prefix = token.prefix
          /\ setting.tokenization.key = token.key
    BY <2>5, <2>8 DEF admin_detokenize
  <2>10. answer.status = 200 => answer.shown[1] = token.head
    BY <2>5, <2>8, <2>9 DEF admin_detokenize
  <2> QED BY <2>7, <2>9, <2>10
<1>2. IInv => TokensReturn
  BY <1>1 DEF TokensReturn
<1> QED BY <1>2, Invariance, PTL

\* What either proxy sends on, and what the transparent one shows, is masked as
\* the rules say: every value an engine found of a label the principal may not
\* show, and nothing else, whichever findings overlap and wherever they stand,
\* whatever was swapped in or restarted meanwhile.
THEOREM NothingFoundIsReadable == Spec => []FoundIsMasked
<1>1. ASSUME IInv, HInv, NEW e \in Exchanges, ex[e].sent # None,
             ~(ex[e].front = "mitm" /\ ex[e].sent = raw(ex[e].body) /\ ex[e].host \in Signing),
             ~SameNamed(ex[e].body),
             ~(/\ ex[e].front = "mitm" /\ ex[e].result.decision = "review"
               /\ Attachments(ex[e].cfg, ex[e].body, "request"))
      PROVE  Masks(ex[e].cfg, Principal(ex[e]), ex[e].body, "request", ex[e].sent)
  <2> DEFINE x == ex[e]
  <2>1. HandedOn(x)
    BY <1>1 DEF HInv, Handled
  <2>2. /\ ResultOf(x, Principal(x)) /\ x.sent = x.result.masks
        /\ x.result.decision # "block"
        /\ x.result.decision = "review" => x.front = "mitm"
    BY <1>1, <2>1 DEF HandedOn
  <2>3. Attachments(x.cfg, x.body, "request") =>
          ~SameNamed(x.body) /\ x.result.decision \notin {"review", "block"}
    BY <1>1, <2>2
  <2> HIDE DEF x
  <2> QED BY <2>2, <2>3, PayloadMasked DEF ResultOf, x
<1>2. ASSUME IInv, HInv, NEW e \in Exchanges, ex[e].shown # None
      PROVE  Masks(ex[e].cfg, local_principal, ex[e].reply, "response", ex[e].shown)
  <2> DEFINE x == ex[e]
             result == process_payload(x.cfg, local_principal, x.reply, "response")
  <2>1. /\ x.reply \in Replies /\ x.cfg \in Settings /\ result.ok /\ x.shown = result.masks
    BY <1>2 DEF HInv, Handled, Shown
  <2>2. ~Attachments(x.cfg, x.reply, "response")
    BY DEF Attachments
  <2> HIDE DEF x, result
  <2>3. /\ x.reply \in Bodies \cup Replies
        /\ result = process_payload(x.cfg, local_principal, x.reply, "response")
    BY <2>1 DEF result
  <2>4. Masks(x.cfg, local_principal, x.reply, "response", result.masks)
    BY <2>1, <2>2, <2>3, PayloadMasked
  <2> QED BY <2>1, <2>4 DEF x
<1>3. IInv /\ HInv => FoundIsMasked
  BY <1>1, <1>2 DEF FoundIsMasked, Principal
<1> QED BY <1>3, HandledInvariance, PTL

\* The stages of an exchange, and findings inside their text.
THEOREM FindingsLieInTheirText == Spec => []TypeOK
<1>1. ASSUME IInv, HInv, NEW e \in Exchanges, ex[e].result # None, ex[e].result.ok,
             NEW f \in ex[e].result.findings
      PROVE  f.start < f.end /\ f.end <= ex[e].body.parts[f.at[1]].nodes[f.at[2]].len
  <2>1. ResultOf(ex[e], Principal(ex[e]))
    BY <1>1 DEF HInv, Handled, Held
  <2>2. /\ ex[e].cfg \in Settings /\ ex[e].body \in Bodies
        /\ ex[e].result = process_payload(ex[e].cfg, Principal(ex[e]), ex[e].body, "request")
    BY <2>1 DEF ResultOf
  <2>3. SpansIn(ex[e].result.findings, ex[e].body)
    BY <2>2, PayloadSpans
  <2> QED BY <2>3 DEF SpansIn
<1>2. IInv /\ HInv => TypeOK
  BY <1>1 DEF TypeOK, IInv, HInv, Current, Handled, Typed
<1> QED BY <1>2, HandledInvariance, PTL

\* The pages and nodes of an attachment share the limit and lose nothing of it:
\* a value the detector matches is found unless it ends beyond the limit.
THEOREM NothingMissedWithinTheLimit == Spec => []MissedOnlyBeyondLimit
<1>1. ASSUME IInv, HInv, NEW e \in Exchanges, ex[e].result # None, ex[e].result.ok,
             Attachments(ex[e].cfg, ex[e].body, "request"),
             NEW k \in DOMAIN ex[e].body.parts, NEW i \in DOMAIN ex[e].body.parts[k].nodes,
             NEW h \in ex[e].body.parts[k].nodes[i].hits, h.by = "detector",
             Looked(ex[e].cfg, ex[e].body, "request", k, h, i)
      PROVE  \E f \in ex[e].result.findings :
                 /\ f.at = <<k, i>> /\ f.label = h.label
                 /\ f.start = h.start /\ f.end = h.end
  <2> DEFINE x == ex[e]
             principal == Principal(x)
             text == x.body.parts[k].nodes[i]
             all == AllFindings(x.cfg, principal, x.body)
  <2>1. ResultOf(x, principal)
    BY <1>1 DEF HInv, Handled, Held
  <2>2. x.result = scan_request(x.cfg, principal, x.body) /\ x.cfg \in Settings /\ x.body \in Bodies
    BY <1>1, <2>1 DEF ResultOf, process_payload, Attachments
  <2>3. /\ \A m \in DOMAIN x.body.parts : ~scan_fails(x.cfg, x.body.parts[m])
        /\ x.result.findings = all
    <3>1. x.result # Failed(x.body, all)
      BY <1>1 DEF Failed
    <3> HIDE DEF x, principal
    <3> QED BY <2>2, <3>1, RequestShape DEF Processed, ReviewFallback
  <2>4. TextUnder(x.cfg, text)
    BY <2>2, TextsUnder
  <2>5. /\ Engine(x.cfg, h) /\ h.start \in Nat /\ h.end \in Nat /\ text.len \in Nat
        /\ h.start < h.end /\ h.end <= text.len
    BY <1>1, <2>4 DEF Engine, TextUnder, text_holds
  <2>6. WithinText(text, h) # {}
    <3>1. h.start \in WithinText(text, h)
      BY <2>5 DEF WithinText
    <3> QED BY <3>1
  <2> HIDE DEF all, principal
  <2>7. /\ examined(x.cfg, x.body.parts[k]) /\ scannable(x.body.parts[k])
        /\ \E f \in NodeFindings(x.cfg, principal, x.body, k, i) :
             Reports(x.cfg, principal, text, f, h)
    BY <1>1, <2>2, <2>3, <2>5, <2>6, LookedIsFound
  <2>8. PICK f \in NodeFindings(x.cfg, principal, x.body, k, i) :
           Reports(x.cfg, principal, text, f, h)
    BY <2>7
  <2>9. f \in x.result.findings
    BY <2>2, <2>3, <2>7, <2>8, FoundInNode DEF all
  <2>10. f.at = <<k, i>>
    <3>1. remaining(x.cfg, x.body.parts[k])[i] \in Nat
      BY <2>2, ShareIs
    <3> QED BY <2>2, <2>4, <2>8, <3>1, FoundIsHit DEF NodeFindings, scanned_text
  <2>11. f.label = h.label /\ f.start = h.start /\ f.end = h.end
    <3>1. ~(h.end > text.len)
      BY <2>5
    <3> HIDE DEF text
    <3> QED BY <2>8, <3>1 DEF Reports
  <2> QED BY <2>9, <2>10, <2>11
<1>2. IInv /\ HInv /\ TypeOK => MissedOnlyBeyondLimit
  BY <1>1 DEF MissedOnlyBeyondLimit
<1> QED BY <1>2, HandledInvariance, FindingsLieInTheirText, PTL
================================================================================
