--------------------------------- MODULE MCMitm ---------------------------------
(* Instances of Mitm for TLC.                                               *)
EXTENDS Mitm, TLC

CONSTANTS email, card, memo, name, id

RuleOf(unauthorized, masking) ==
    [min_clearance |-> 1, authorized |-> "allow", unauthorized |-> unauthorized,
     masking |-> masking, pattern |-> "valid", colon |-> FALSE]

SomeRules ==
    email :> RuleOf("redact", "placeholder") @@ card :> RuleOf("block", "full") @@
    memo :> RuleOf("review", "full") @@ name :> RuleOf("redact", "full") @@
    id :> RuleOf("redact", "tokenize")

Tokens(key, text) ==
    [enabled |-> TRUE, key |-> key, prefix |-> [text |-> text, separator |-> FALSE]]

Setting(tokenization, presidio) ==
    [rules |-> SomeRules, attachments |-> TRUE, max_bytes |-> 4, max_text_chars |-> 6,
     allowed_media_types |-> {"text/plain", "application/pdf", "ooxml"},
     ignore_json_pointers |-> {"ignored"}, tokenization |-> tokenization, presidio |-> presidio]

\* Configurations that do not load.
Unloadable ==
    {[Setting(Tokens("k1", "tok"), "off") EXCEPT !.tokenization.enabled = FALSE],
     Setting(Tokens("malformed", "tok"), "off"),
     [Setting(Tokens("k1", "t.k"), "off") EXCEPT !.tokenization.prefix.separator = TRUE],
     [Setting(Tokens("k1", "tok"), "off") EXCEPT !.rules[email].pattern = "invalid"]}

Usual == Setting(Tokens("k1", "tok"), "up")

\* Presidio up, down or off; attachments off and the prefix changed; the key
\* changed and a label with a colon.
SomeSettings ==
    {Usual, Setting(Tokens("k1", "tok"), "down"),
     [Setting(Tokens("k1", "new"), "up") EXCEPT !.attachments = FALSE],
     [Setting(Tokens("k2", "tok"), "off") EXCEPT !.rules[id].colon = TRUE]}
    \cup Unloadable

Someone == [name |-> "alice", tenant |-> "acme", clearance |-> 1, allowed_labels |-> {memo}]

Hit(from, to, label) == [start |-> from, end |-> to, label |-> label, by |-> "detector"]
Guess(from, to, label) == [Hit(from, to, label) EXCEPT !.by = "presidio"]
Txt(len, hits) == [len |-> len, hits |-> hits]
Body(kind, utf8, parts) == [kind |-> kind, utf8 |-> utf8, frame |-> "good", parts |-> parts]

--------------------------------------------------------------------------------
(* JSON and text                                                            *)

Value(pointer, string, text) == [name |-> pointer, string |-> string, nodes |-> <<text>>]

Mixed == Txt(4, {Hit(0, 2, email), Hit(0, 3, id), Guess(2, 6, name)})
Chain == Txt(6, {Hit(0, 3, email), Hit(2, 5, name), Hit(4, 6, email)})

JsonBody == Body("json", TRUE,
    <<Value("a", TRUE, Mixed), Value("b", TRUE, Txt(3, {Hit(1, 3, email)})),
      Value("ignored", TRUE, Txt(2, {Hit(0, 2, email)})),
      Value("c", FALSE, Txt(2, {Hit(0, 2, card)}))>>)
Ignored == Body("json", TRUE, <<Value("ignored", TRUE, Txt(2, {Hit(0, 2, email)}))>>)
TextBody == Body("text", TRUE, <<Value("/", TRUE, Chain)>>)
CardBody == Body("text", TRUE, <<Value("/", TRUE, Txt(3, {Hit(0, 2, card), Hit(2, 3, email)}))>>)
MemoBody == Body("text", TRUE, <<Value("/", TRUE, Txt(2, {Hit(0, 2, memo)}))>>)
BinaryBody == Body("text", FALSE, <<Value("/", TRUE, Txt(2, {Hit(0, 2, email)}))>>)

--------------------------------------------------------------------------------
(* Multipart                                                                *)

File(field, type, state, nodes) ==
    [name |-> field, file |-> "upload", declared |-> type, extension |-> "txt",
     state |-> state, size |-> 1, nodes |-> nodes]
Named(part, extension) ==
    [part EXCEPT !.declared = "application/octet-stream", !.extension = extension]

Note   == File("note", "text/plain", "text", <<Txt(5, {Hit(1, 3, email), Hit(3, 5, memo)})>>)
Field  == [File("field", "text/plain", "text", <<Txt(2, {Hit(0, 2, email)})>>)
             EXCEPT !.file = "none"]
Pages  == <<Txt(3, {Hit(0, 2, email)}), Txt(4, {Hit(0, 3, id), Hit(1, 3, email), Hit(3, 4, name)})>>
Nodes  == <<Txt(4, {Hit(0, 2, email), Hit(1, 4, id)}), Txt(2, {Hit(0, 2, name)}),
            Txt(2, {Hit(0, 2, email)})>>
Pdf(state) == File("pdf", "application/pdf", state, Pages)
Broken(part) == [part EXCEPT !.name = "broken", !.state = "broken", !.nodes = <<Txt(3, {})>>]
Scan   == File("scan", "application/pdf", "scanned", <<Txt(2, {Hit(0, 2, email)})>>)
Office == Named(File("office", "ooxml", "text", Nodes), "docx")
Image  == File("image", "image", "text", <<Txt(2, {Hit(0, 2, email)})>>)
Card   == File("card", "text/plain", "text", <<Txt(2, {Hit(0, 2, card)})>>)
Large  == [File("large", "text/plain", "text", <<Txt(1, {})>>) EXCEPT !.size = 5]

Form(parts) == Body("multipart", FALSE, parts)

Forms ==
    {Form(<<Note, Field>>), Form(<<Note, Office>>), Form(<<Office, Named([Note EXCEPT !.name = "none"], "txt")>>),
     Form(<<Note, Named(Pdf("text"), "pdf")>>), Form(<<Note, Pdf("locked")>>),
     Form(<<Note, Broken(Pdf("text"))>>), Form(<<Office, Broken(Office)>>),
     Form(<<Scan>>), Form(<<Note, Card>>), Form(<<Image>>), Form(<<Note, Large>>),
     [Form(<<Note>>) EXCEPT !.frame = "cut"],
     [Form(<<Note>>) EXCEPT !.frame = "unnamed"], [Form(<<Field, Note>>) EXCEPT !.utf8 = TRUE]}

\* Two texts under one name; the second is the shorter, or has the same value
\* in another place.
SameName ==
    {Form(<<Note, File("note", "text/plain", "text", <<Txt(4, {Hit(0, 1, email)})>>)>>),
     Form(<<File("note", "text/plain", "text", <<Txt(6, {Hit(2, 6, email)})>>),
            File("note", "text/plain", "text", <<Txt(4, {Hit(0, 3, email)})>>)>>)}

SomeBodies == {JsonBody, Ignored, TextBody, CardBody, MemoBody, BinaryBody} \cup Forms \cup SameName
SomeReplies == {JsonBody, CardBody, BinaryBody}

--------------------------------------------------------------------------------
(* Hosts and rule-sets                                                      *)

api     == <<"com", "openai", "api">>
azure   == <<"com", "azure", "openai", "team">>
bedrock == <<"com", "amazonaws", "bedrock">>
corp    == <<"net", "corp">>
web     == <<"net", "corp", "www">>
SomeHosts == {api, azure, bedrock, corp, web}

Exact(host) == [kind |-> "exact", host |-> host]
Wildcard(host) == [kind |-> "wildcard", host |-> host]
Regex(hosts) == [kind |-> "regex", hosts |-> hosts]

SomeBaked == {Exact(api), Wildcard(<<"com", "azure", "openai">>), Exact(bedrock)}
SomeSigning == {Wildcard(<<"com", "amazonaws">>)}

List(yes, no, default, signing) ==
    [intercept |-> yes, passthrough |-> no, default |-> default,
     signs_body |-> signing]

\* The wildcard leaves its own domain to the default; the broken expression
\* is skipped.
Operator ==
    List(SomeBaked, {Wildcard(corp), Regex(None)}, "intercept", SomeSigning)

Feed(v, signed, fits, list) ==
    [version |-> v, signed |-> signed, fits |-> fits, intercept |-> list.intercept,
     passthrough |-> list.passthrough, default |-> list.default, signs_body |-> list.signs_body]

\* A set that drops every host, one that adds some, another of the same
\* version, one of version 0, one that is not signed and one too large.
SomeFeeds ==
    {Feed(0, TRUE, TRUE, List({}, {}, "passthrough", {})),
     Feed(1, TRUE, TRUE, List({}, {Regex(SomeHosts)}, "passthrough", {})),
     Feed(2, TRUE, TRUE, List({Wildcard(<<"net">>)}, {Exact(corp)}, "intercept", {Exact(web)})),
     Feed(2, TRUE, TRUE, List({Exact(corp)}, {Wildcard(<<"com">>), Regex(None)}, "passthrough", {})),
     Feed(3, FALSE, TRUE, List({}, {Exact(api)}, "passthrough", {})),
     Feed(4, TRUE, FALSE, List({}, {Exact(api)}, "passthrough", {}))}
================================================================================
