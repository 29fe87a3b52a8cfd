------------------------------ MODULE MCSseStream ------------------------------
(* Instances of SseStream for TLC.                                          *)
EXTENDS SseStream, TLC

CONSTANTS email, phone, card

Value(l) == <<Half(l, 1), Half(l, 2)>>
Text == <<"text", 0>>

\* Two events and a blank line; values side by side; a last event that the
\* upstream does not finish; usage reported as none, then twice; and a value in
\* a line that is no event, before an event with another.
SomeStreams ==
    {<<Data>> \o Value(email) \o <<Newline, Newline, Data, Text>> \o Value(card) \o <<Newline>>,
     <<Data>> \o Value(phone) \o Value(email) \o <<Newline, Data>> \o Value(email),
     <<Data, Newline, Data, NoUsage, Newline, Data>> \o Value(phone)
         \o <<Usage, Newline, Data, Usage>>,
     <<Text>> \o Value(card) \o <<Newline, Data>> \o Value(email) \o <<Newline>>}

Caller == [name |-> "alice", tenant |-> "acme", clearance |-> 1, allowed_labels |-> {phone}]

RuleOf(unauthorized) ==
    [min_clearance |-> 1, authorized |-> "allow", unauthorized |-> unauthorized]

SomeRules == email :> RuleOf("redact") @@ phone :> RuleOf("redact") @@ card :> RuleOf("block")
================================================================================
