------------------------------ MODULE MCExtBridge ------------------------------
(* Instances of ExtBridge for TLC.                                          *)
EXTENDS ExtBridge, TLC

CONSTANTS email, name, r1, r2, r3

RuleOf(masking) ==
    [min_clearance |-> 0, authorized |-> "allow", unauthorized |-> "redact",
     masking |-> masking, pattern |-> "valid", colon |-> FALSE]

\* No tokenizer and no Presidio in the browser; the bundled rules tokenize
\* nothing.
Bundled ==
    [rules |-> (email :> RuleOf("partial_email") @@ name :> RuleOf("full")),
     attachments |-> FALSE, max_bytes |-> 0, max_text_chars |-> 0, allowed_media_types |-> {},
     ignore_json_pointers |-> {"ignored"}, tokenization |-> [enabled |-> FALSE],
     presidio |-> "off"]

\* Rules that do not compile.
SomeLoads == {Bundled, [Bundled EXCEPT !.rules[name].pattern = "invalid"]}

Hit(from, to, label) == [start |-> from, end |-> to, label |-> label, by |-> "detector"]
Txt(len, hits) == [len |-> len, hits |-> hits]
Value(pointer, text) == [name |-> pointer, string |-> TRUE, nodes |-> <<text>>]
Body(kind, parts) == [kind |-> kind, utf8 |-> TRUE, frame |-> "good", parts |-> parts]

Chat == Body("json", <<Value("a", Txt(4, {Hit(0, 2, email), Hit(1, 4, name)})),
                       Value("ignored", Txt(2, {Hit(0, 1, name)}))>>)
Plain == Body("text", <<Value("/", Txt(5, {Hit(1, 3, email), Hit(3, 5, email)}))>>)

SomeBodies == r1 :> Chat @@ r2 :> Plain @@ r3 :> Chat
================================================================================
