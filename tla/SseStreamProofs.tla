----------------------------- MODULE SseStreamProofs -----------------------------
(***************************************************************************)
(* Proofs about streamed responses, for any labels, rules, caller and      *)
(* streams, however an upstream cuts a stream into chunks, wherever it     *)
(* breaks off, and whatever OPA answers to each line.                      *)
(***************************************************************************)
EXTENDS SseStream, NaturalsInduction, WellFoundedInduction, TLAPS

--------------------------------------------------------------------------------
(* Sequences                                                                *)

\* A sequence is the function of its elements.
LEMMA Elements ==
    ASSUME NEW S, NEW s \in Seq(S)
    PROVE  s = [i \in 1..Len(s) |-> s[i]]
  OBVIOUS

\* A slice and its elements.
LEMMA Slice ==
    ASSUME NEW S, NEW s \in Seq(S), NEW m \in Nat \ {0}, NEW n \in Nat, n <= Len(s), m <= n + 1
    PROVE  /\ SubSeq(s, m, n) \in Seq(S)
           /\ Len(SubSeq(s, m, n)) = n + 1 - m
           /\ \A i \in 1..(n + 1 - m) : SubSeq(s, m, n)[i] = s[m + i - 1]
  OBVIOUS

SliceOf(S, s, m, n, a) ==
    /\ a \in Seq(S)
    /\ Len(a) = n + 1 - m
    /\ \A i \in 1..(n + 1 - m) : a[i] = s[m + i - 1]

LEMMA SliceAs ==
    ASSUME NEW S, NEW s \in Seq(S), NEW m \in Nat \ {0}, NEW n \in Nat, n <= Len(s), m <= n + 1
    PROVE  SliceOf(S, s, m, n, SubSeq(s, m, n))
BY Slice DEF SliceOf

\* A concatenation and its elements.
LEMMA Joined ==
    ASSUME NEW S, NEW s \in Seq(S), NEW t \in Seq(S)
    PROVE  /\ s \o t \in Seq(S)
           /\ Len(s \o t) = Len(s) + Len(t)
           /\ \A i \in 1..Len(s) : (s \o t)[i] = s[i]
           /\ \A i \in 1..Len(t) : (s \o t)[Len(s) + i] = t[i]
  OBVIOUS

\* A slice of the first n units, then one of the rest, is the whole.
LEMMA CutTwo ==
    ASSUME NEW S, NEW s \in Seq(S), NEW n \in 0..Len(s)
    PROVE  SubSeq(s, 1, n) \o SubSeq(s, n + 1, Len(s)) = s
<1> DEFINE a == SubSeq(s, 1, n)
           b == SubSeq(s, n + 1, Len(s))
<1>1. /\ a \in Seq(S) /\ Len(a) = n /\ \A i \in 1..n : a[i] = s[i]
  BY Slice
<1>2. /\ b \in Seq(S) /\ Len(b) = Len(s) - n /\ \A i \in 1..(Len(s) - n) : b[i] = s[n + i]
  BY Slice
<1> HIDE DEF a, b
<1>3. /\ a \o b \in Seq(S) /\ Len(a \o b) = Len(s)
      /\ \A i \in 1..Len(a) : (a \o b)[i] = a[i]
      /\ \A i \in 1..Len(b) : (a \o b)[Len(a) + i] = b[i]
  BY <1>1, <1>2, Joined
<1>4. \A i \in 1..Len(s) : (a \o b)[i] = s[i]
  <2> TAKE i \in 1..Len(s)
  <2>1. CASE i <= n
    BY <1>1, <1>3, <2>1
  <2>2. CASE i > n
    <3>1. i - n \in 1..Len(b) /\ i = Len(a) + (i - n)
      BY <1>1, <1>2, <2>2
    <3>2. (a \o b)[Len(a) + (i - n)] = b[i - n]
      BY <1>3, <3>1
    <3>3. b[i - n] = s[n + (i - n)]
      BY <1>2, <3>1
    <3>4. n + (i - n) = i
      OBVIOUS
    <3> QED BY <3>1, <3>2, <3>3, <3>4
  <2>3. i <= n \/ i > n
    OBVIOUS
  <2> QED BY <2>1, <2>2, <2>3
<1>5. a \o b = [i \in 1..Len(s) |-> (a \o b)[i]] /\ s = [i \in 1..Len(s) |-> s[i]]
  BY <1>3, Elements
<1>6. a \o b = s
  BY <1>4, <1>5
<1> QED BY <1>6 DEF a, b

--------------------------------------------------------------------------------
(* Units and values                                                         *)

\* The halves of a value are units of no other kind, and tell their label.
LEMMA Kinds ==
    /\ {Data, Newline, Masked, NoUsage, Usage} \subseteq Units
    /\ \A l \in Labels : Half(l, 1) \in Units /\ Half(l, 2) \in Units
    /\ \A l : Half(l, 1) \notin {Data, Newline, Masked}
    /\ \A l : Half(l, 2) \notin {Data, Newline, Masked}
    /\ Usage # Data /\ Usage # Newline /\ Data # Newline /\ Masked # Usage
<1>1. \A l : Half(l, 1)[2] = 1 /\ Half(l, 2)[2] = 2
  BY DEF Half
<1>2. Data[2] = 0 /\ Newline[2] = 0 /\ Masked[2] = 0 /\ Usage[2] = 1
  BY DEF Data, Newline, Masked, Usage
<1>3. Data # Newline
  BY DEF Data, Newline
<1>4. \A l : Half(l, 1) \notin {Data, Newline, Masked} /\ Half(l, 2) \notin {Data, Newline, Masked}
  BY <1>1, <1>2
<1>5. Usage # Data /\ Usage # Newline /\ Masked # Usage
  BY <1>2
<1>6. {Data, Newline, Masked, NoUsage, Usage} \subseteq Units
  BY DEF Units
<1>7. \A l \in Labels : Half(l, 1) \in Units /\ Half(l, 2) \in Units
  BY DEF Units, Half
<1> QED BY <1>3, <1>4, <1>5, <1>6, <1>7

\* A value stands at a place of a text.
StandsAt(text, i, l) ==
    /\ i \in 1..(Len(text) - 1)
    /\ text[i] = Half(l, 1)
    /\ text[i + 1] = Half(l, 2)

LEMMA FoundAt ==
    ASSUME NEW text, NEW l
    PROVE  l \in FoundIn(text) <=> l \in Labels /\ \E i : StandsAt(text, i, l)
BY DEF FoundIn, StandsAt

\* Masking leaves only values that are kept, and nothing that was not there.
LEMMA Masking ==
    ASSUME NEW text \in Seq(Units), NEW kept
    PROVE  /\ MaskIn(text, kept) \in Seq(Units)
           /\ Len(MaskIn(text, kept)) = Len(text)
           /\ FoundIn(MaskIn(text, kept)) \subseteq kept
           /\ \A i \in 1..Len(text) : MaskIn(text, kept)[i] \in {text[i], Masked}
<1> DEFINE out == MaskIn(text, kept)
           Hidden(i) == \E l \in FoundIn(text) \ kept :
             \/ text[i] = Half(l, 1) /\ i < Len(text) /\ text[i + 1] = Half(l, 2)
             \/ text[i] = Half(l, 2) /\ i > 1 /\ text[i - 1] = Half(l, 1)
<1>1. out = [i \in 1..Len(text) |-> IF Hidden(i) THEN Masked ELSE text[i]]
  BY DEF MaskIn
<1> HIDE DEF out
<1>2. /\ \A i \in 1..Len(text) : out[i] = IF Hidden(i) THEN Masked ELSE text[i]
      /\ \A i \in 1..Len(text) : text[i] \in Units
      /\ Masked \in Units
  BY <1>1, Kinds
<1>3. \A i \in 1..Len(text) : out[i] \in Units /\ out[i] \in {text[i], Masked}
  <2> HIDE DEF Hidden
  <2> QED BY <1>2
<1>4. out \in Seq(Units) /\ Len(out) = Len(text)
  <2> HIDE DEF Hidden
  <2>1. DOMAIN out = 1..Len(text) /\ Len(text) \in Nat
    BY <1>1
  <2>2. out \in [1..Len(text) -> Units]
    BY <1>1, <1>3
  <2> QED BY <2>1, <2>2
<1>5. ASSUME NEW l \in FoundIn(out), l \notin kept
      PROVE  FALSE
  <2>1. l \in Labels
    BY <1>5 DEF FoundIn
  <2>2. PICK i : StandsAt(out, i, l)
    BY <1>5, FoundAt
  <2>3. i \in 1..Len(text) /\ i + 1 \in 1..Len(text) /\ i \in 1..(Len(text) - 1) /\ i < Len(text)
    BY <1>4, <2>2 DEF StandsAt
  <2>4. text[i] = Half(l, 1) /\ text[i + 1] = Half(l, 2) /\ ~Hidden(i)
    <3> HIDE DEF Hidden
    <3>1. out[i] = Half(l, 1) /\ out[i + 1] = Half(l, 2)
      BY <2>2 DEF StandsAt
    <3>2. out[i] # Masked /\ out[i + 1] # Masked
      BY <3>1, Kinds
    <3> QED BY <1>2, <2>3, <3>1, <3>2
  <2>5. l \in FoundIn(text)
    BY <2>1, <2>3, <2>4 DEF FoundIn
  <2> QED BY <1>5, <2>3, <2>4, <2>5
<1> QED BY <1>3, <1>4, <1>5 DEF out

\* After a newline, or at the start, no value reaches over into what follows.
LEMMA FoundJoined ==
    ASSUME NEW a \in Seq(Units), NEW b \in Seq(Units),
           a = <<>> \/ a[Len(a)] = Newline,
           NEW l \in FoundIn(a \o b)
    PROVE  l \in FoundIn(a) \/ l \in FoundIn(b)
<1>1. PICK i : StandsAt(a \o b, i, l)
  BY FoundAt
<1>2. l \in Labels
  BY DEF FoundIn
<1>3. /\ Len(a \o b) = Len(a) + Len(b)
      /\ \A k \in 1..Len(a) : (a \o b)[k] = a[k]
      /\ \A k \in 1..Len(b) : (a \o b)[Len(a) + k] = b[k]
  BY Joined
<1>4. Len(a) \in Nat /\ Len(b) \in Nat /\ i \in 1..(Len(a) + Len(b) - 1)
  BY <1>1, <1>3 DEF StandsAt
<1>5. CASE i < Len(a)
  <2>1. a[i] = Half(l, 1) /\ a[i + 1] = Half(l, 2) /\ i \in 1..(Len(a) - 1)
    BY <1>1, <1>3, <1>4, <1>5 DEF StandsAt
  <2> QED BY <1>2, <2>1 DEF FoundIn
<1>6. CASE i = Len(a)
  <2>1. a[Len(a)] = Half(l, 1) /\ a # <<>>
    BY <1>1, <1>3, <1>4, <1>6 DEF StandsAt
  <2> QED BY <2>1, Kinds
<1>7. CASE i > Len(a)
  <2>1. i - Len(a) \in 1..(Len(b) - 1) /\ (i - Len(a)) + 1 \in 1..Len(b) /\ i - Len(a) \in 1..Len(b)
    BY <1>4, <1>7
  <2>2. (a \o b)[Len(a) + (i - Len(a))] = b[i - Len(a)]
    BY <1>3, <2>1
  <2>3. (a \o b)[Len(a) + ((i - Len(a)) + 1)] = b[(i - Len(a)) + 1]
    BY <1>3, <2>1
  <2>4. Len(a) + (i - Len(a)) = i /\ Len(a) + ((i - Len(a)) + 1) = i + 1
    BY <1>4
  <2>5. b[i - Len(a)] = Half(l, 1) /\ b[(i - Len(a)) + 1] = Half(l, 2)
    BY <1>1, <2>2, <2>3, <2>4 DEF StandsAt
  <2> QED BY <1>2, <2>1, <2>5 DEF FoundIn
<1> QED BY <1>4, <1>5, <1>6, <1>7

--------------------------------------------------------------------------------
(* The policy of one line                                                   *)

Sources ==
    {"builtin", "opa", "builtin_fail_open", "opa_error_fallback",
     "json_processing_error_fallback"}

Outcome == [decision : Actions, source : Sources]

\* The four actions are ordered, and only "allow" is the lowest.
LEMMA Ranks ==
    /\ \A a \in Actions : rank(a) \in 0..3
    /\ \A a \in Actions : rank(a) = 0 <=> a = "allow"
BY DEF rank, Actions

\* Two actions together allow what both allow.
LEMMA Combined ==
    ASSUME NEW a \in Actions, NEW b \in Actions
    PROVE  /\ combine(a, b) \in Actions
           /\ combine(a, b) = "allow" <=> a = "allow" /\ b = "allow"
BY DEF combine, rank, Actions

LEMMA StrictestIs ==
    ASSUME NEW S \in SUBSET Actions
    PROVE  strictest(S) \in Actions
<1> DEFINE Top(a) == a \in S \cup {"allow"} /\ \A b \in S : rank(b) <= rank(a)
<1>1. \E a : Top(a)
  <2>1. ASSUME "block" \in S PROVE Top("block")
    BY <2>1 DEF Actions, rank
  <2>2. ASSUME "block" \notin S, "review" \in S PROVE Top("review")
    BY <2>2 DEF Actions, rank
  <2>3. ASSUME "block" \notin S, "review" \notin S, "redact" \in S PROVE Top("redact")
    BY <2>3 DEF Actions, rank
  <2>4. ASSUME S \subseteq {"allow"} PROVE Top("allow")
    BY <2>4 DEF Actions, rank
  <2> HIDE DEF Top
  <2> QED BY <2>1, <2>2, <2>3, <2>4 DEF Actions
<1>2. strictest(S) \in S \cup {"allow"}
  BY <1>1 DEF strictest
<1> QED BY <1>2 DEF Actions

LEMMA Resolved ==
    ASSUME NEW labels \in SUBSET Labels
    PROVE  resolve(Rules, principal, labels) \in Outcome
<1>1. \A l \in labels : action_for(Rules, principal, l) \in Actions
  BY SseStreamAssumption DEF action_for
<1>2. {action_for(Rules, principal, l) : l \in labels} \in SUBSET Actions
  BY <1>1
<1>3. strictest({action_for(Rules, principal, l) : l \in labels}) \in Actions
  BY <1>2, StrictestIs
<1> QED BY <1>3 DEF resolve, Outcome, Sources

\* What OPA makes of an outcome is an outcome.
LEMMA Finalized ==
    ASSUME NEW reply \in OpaAnswers, NEW base \in Outcome
    PROVE  finalize_response_policy(Opa, reply, base) \in Outcome
<1> DEFINE out == finalize_response_policy(Opa, reply, base)
<1>0. reply \in OpaReplies /\ base.decision \in Actions /\ base.source \in Sources
  BY SseStreamAssumption DEF Outcome
<1>1. CASE opa_fails(Opa, reply)
  <2>1. out = [decision |-> "redact", source |-> "opa_error_fallback"]
    BY <1>1 DEF finalize_response_policy
  <2> QED BY <2>1 DEF Outcome, Actions, Sources
<1>2. CASE ~opa_fails(Opa, reply)
  <2>0. out = apply_opa_policy(Opa, reply, base)
    BY <1>2 DEF finalize_response_policy
  <2>1. CASE Opa = "off" \/ reply = "no_result"
    <3>1. out = base
      BY <2>0, <2>1 DEF apply_opa_policy, Actions
    <3> QED BY <3>1
  <2>2. CASE Opa # "off" /\ reply \in Actions
    <3>1. out = merge(reply, base)
      BY <2>0, <2>2 DEF apply_opa_policy, Actions
    <3> QED BY <1>0, <2>2, <3>1, Combined DEF merge, Outcome, Sources
  <2>3. CASE Opa # "off" /\ reply = "error"
    <3>1. out = [base EXCEPT !.source = "builtin_fail_open"]
      BY <2>0, <2>3 DEF apply_opa_policy, Actions
    <3> QED BY <3>1 DEF Outcome, Sources
  <2> QED BY <1>0, <2>1, <2>2, <2>3 DEF OpaReplies
<1> QED BY <1>1, <1>2

\* Merging keeps an outcome, and allows what both allowed.
LEMMA Merged ==
    ASSUME NEW a \in Outcome, NEW b \in Outcome
    PROVE  /\ merge_policy_outcomes(a, b) \in Outcome
           /\ merge_policy_outcomes(a, b).decision = "allow" <=>
                a.decision = "allow" /\ b.decision = "allow"
<1> DEFINE m == merge_policy_outcomes(a, b)
<1>1. a.decision \in Actions /\ b.decision \in Actions /\ a.source \in Sources /\ b.source \in Sources
  BY DEF Outcome
<1>2. m = [decision |-> combine(a.decision, b.decision), source |-> m.source]
  BY DEF merge_policy_outcomes
<1>3. m.source \in {a.source, b.source}
  BY DEF merge_policy_outcomes
<1> HIDE DEF m
<1>4. m.decision = combine(a.decision, b.decision) /\ m.source \in Sources
  BY <1>1, <1>2, <1>3
<1>5. m \in Outcome
  BY <1>1, <1>2, <1>4, Combined DEF Outcome
<1> QED BY <1>1, <1>4, <1>5, Combined DEF m

--------------------------------------------------------------------------------
(* One line                                                                 *)

Shown(line) == SE!ToSet(line) \ {Data, Newline, Masked}

\* What transform_sse_line promises of a text and what it makes of it.
Transformed(text, t) ==
    /\ t.line \in Seq(Units)
    /\ t.base \in Actions
    /\ t.outcome \in Outcome
    /\ Shown(t.line) \subseteq SE!ToSet(text)
    /\ rank(t.outcome.decision) > rank(t.base) => Shown(t.line) = {}
    /\ \A l \in FoundIn(t.line) :
         \/ action_for(Rules, principal, l) = "allow"
         \/ text[1] # Data /\ l \in FoundIn(text)
    /\ text[Len(text)] = Newline => t.line # <<>> /\ t.line[Len(t.line)] = Newline

\* A line between its field name and its newline.
LEMMA Framed ==
    ASSUME NEW text \in Seq(Units), NEW line, line = <<Data>> \o text \o <<Newline>>
    PROVE  /\ line \in Seq(Units)
           /\ line # <<>> /\ line[Len(line)] = Newline
           /\ FoundIn(line) \subseteq FoundIn(text)
           /\ Shown(line) \subseteq SE!ToSet(text) \ {Data, Newline, Masked}
<1>0. Data \in Units /\ Newline \in Units
  BY Kinds
<1>1. /\ line \in Seq(Units)
      /\ Len(text) \in Nat /\ Len(line) = Len(text) + 2
      /\ line[1] = Data /\ line[Len(text) + 2] = Newline
      /\ \A i \in 1..Len(text) : line[i + 1] = text[i]
  BY <1>0
<1>2. ASSUME NEW l \in FoundIn(line)
      PROVE  l \in FoundIn(text)
  <2>1. PICK i : StandsAt(line, i, l)
    BY FoundAt
  <2>2. l \in Labels
    BY DEF FoundIn
  <2>3. line[i] # Data /\ line[i + 1] # Newline
    BY <2>1, Kinds DEF StandsAt
  <2>4. i \in 1..(Len(text) + 1) /\ i # 1 /\ i + 1 # Len(text) + 2
    BY <1>1, <2>1, <2>3 DEF StandsAt
  <2>5. i - 1 \in 1..(Len(text) - 1) /\ (i - 1) + 1 \in 1..Len(text) /\ i - 1 \in 1..Len(text)
    BY <1>1, <2>4
  <2>6. line[(i - 1) + 1] = text[i - 1] /\ line[((i - 1) + 1) + 1] = text[(i - 1) + 1]
    BY <1>1, <2>5
  <2>7. (i - 1) + 1 = i
    BY <2>4, <1>1
  <2>8. text[i - 1] = Half(l, 1) /\ text[(i - 1) + 1] = Half(l, 2)
    BY <2>1, <2>6, <2>7 DEF StandsAt
  <2> QED BY <2>2, <2>5, <2>8 DEF FoundIn
<1>3. ASSUME NEW u \in SE!ToSet(line), u # Data, u # Newline
      PROVE  u \in SE!ToSet(text)
  <2>1. PICK i \in 1..Len(line) : u = line[i]
    BY <1>1 DEF SE!ToSet
  <2>2. i # 1 /\ i # Len(text) + 2
    BY <1>1, <1>3, <2>1
  <2>3. i - 1 \in 1..Len(text) /\ (i - 1) + 1 = i
    BY <1>1, <2>2
  <2>4. u = text[i - 1]
    BY <1>1, <2>1, <2>3
  <2> QED BY <2>3, <2>4 DEF SE!ToSet
<1>4. line # <<>> /\ line[Len(line)] = Newline
  BY <1>1
<1> QED BY <1>1, <1>2, <1>3, <1>4 DEF Shown

\* The payload of a nonempty line.
LEMMA PayloadIs ==
    ASSUME NEW text \in Seq(Units), text # <<>>, text[1] = Data
    PROVE  /\ Payload(text) \in Seq(Units)
           /\ Len(Payload(text)) =
                IF text[Len(text)] = Newline THEN Len(text) - 2 ELSE Len(text) - 1
           /\ \A i \in 1..Len(Payload(text)) : i + 1 \in 1..Len(text) /\ Payload(text)[i] = text[i + 1]
<1> DEFINE n == IF text[Len(text)] = Newline THEN Len(text) - 1 ELSE Len(text)
<1>1. Len(text) \in Nat /\ Len(text) >= 1
  OBVIOUS
<1>2. Data # Newline
  BY Kinds
<1>3. text[Len(text)] = Newline => Len(text) # 1
  BY <1>2
<1>4. n \in Nat /\ n <= Len(text) /\ 2 <= n + 1 /\ 2 \in Nat \ {0}
  <2>1. CASE text[Len(text)] = Newline
    <3>1. n = Len(text) - 1 /\ Len(text) # 1
      BY <1>3, <2>1
    <3> HIDE DEF n
    <3> QED BY <1>1, <3>1
  <2>2. CASE text[Len(text)] # Newline
    <3>1. n = Len(text)
      BY <2>2
    <3> HIDE DEF n
    <3> QED BY <1>1, <3>1
  <2> QED BY <2>1, <2>2
<1>5. Payload(text) = SubSeq(text, 2, n)
  BY DEF Payload
<1>6. n = IF text[Len(text)] = Newline THEN Len(text) - 1 ELSE Len(text)
  OBVIOUS
<1> HIDE DEF n
<1>7. /\ Payload(text) \in Seq(Units)
      /\ Len(Payload(text)) = n + 1 - 2
      /\ \A i \in 1..(n + 1 - 2) : Payload(text)[i] = text[2 + i - 1]
  BY <1>4, <1>5, Slice
<1>8. Len(Payload(text)) = IF text[Len(text)] = Newline THEN Len(text) - 2 ELSE Len(text) - 1
  BY <1>1, <1>4, <1>6, <1>7
<1>9. ASSUME NEW i \in 1..Len(Payload(text))
      PROVE  i + 1 \in 1..Len(text) /\ Payload(text)[i] = text[i + 1]
  <2>1. i \in 1..(n + 1 - 2) /\ 2 + i - 1 = i + 1 /\ i + 1 \in 1..Len(text)
    BY <1>1, <1>4, <1>7
  <2> QED BY <1>7, <2>1
<1> QED BY <1>7, <1>8, <1>9

\* What filtering shows of a payload stood in it, and no value may be seen but
\* the ones the rules allow.
LEMMA Filtered ==
    ASSUME NEW payload \in Seq(Units), NEW scanned \in BOOLEAN
    PROVE  LET f == Filter(payload, scanned)
           IN  /\ f.text \in Seq(Units)
               /\ f.outcome \in Outcome
               /\ SE!ToSet(f.text) \subseteq SE!ToSet(payload) \cup {Masked}
               /\ \A l \in FoundIn(f.text) : action_for(Rules, principal, l) = "allow"
<1> DEFINE f == Filter(payload, scanned)
<1>1. CASE scanned
  <2> DEFINE kept == redact_text(Rules, principal, FoundIn(payload))
  <2>1. f.text = MaskIn(payload, kept) /\ f.outcome = resolve(Rules, principal, FoundIn(payload))
    BY <1>1 DEF Filter
  <2>2. f.outcome \in Outcome
    BY <2>1, Resolved DEF FoundIn
  <2>3. \A l \in kept : action_for(Rules, principal, l) = "allow"
    BY DEF redact_text
  <2> HIDE DEF kept, f
  <2>4. /\ f.text \in Seq(Units) /\ Len(f.text) = Len(payload) /\ FoundIn(f.text) \subseteq kept
        /\ \A i \in 1..Len(payload) : f.text[i] \in {payload[i], Masked}
    BY <2>1, Masking
  <2>5. SE!ToSet(f.text) \subseteq SE!ToSet(payload) \cup {Masked}
    BY <2>4 DEF SE!ToSet
  <2> QED BY <2>2, <2>3, <2>4, <2>5 DEF f
<1>2. CASE ~scanned
  <2>1. f.text = <<Masked>>
        /\ f.outcome = [decision |-> "redact", source |-> "json_processing_error_fallback"]
    BY <1>2 DEF Filter
  <2> HIDE DEF f
  <2>2. f.text \in Seq(Units)
    BY <2>1, Kinds
  <2>3. f.outcome \in Outcome
    BY <2>1 DEF Outcome, Actions, Sources
  <2>4. SE!ToSet(f.text) \subseteq {Masked}
    BY <2>1 DEF SE!ToSet
  <2>5. FoundIn(f.text) = {}
    BY <2>1 DEF FoundIn
  <2> QED BY <2>2, <2>3, <2>4, <2>5 DEF f
<1> QED BY <1>1, <1>2

LEMMA TransformIs ==
    ASSUME NEW text \in Seq(Units), text # <<>>, NEW scanned \in BOOLEAN, NEW reply \in OpaAnswers
    PROVE  Transformed(text, transform_sse_line(text, scanned, reply))
<1> DEFINE t == transform_sse_line(text, scanned, reply)
<1>0. Len(text) \in Nat /\ Len(text) >= 1
  OBVIOUS
<1>1. CASE ~IsPayloadLine(text)
  <2>1. t.line = text /\ t.base = "allow" /\ t.outcome = PassedOn
    BY <1>1 DEF transform_sse_line
  <2> HIDE DEF t
  <2>2. PassedOn \in Outcome /\ PassedOn.decision = "allow"
    BY DEF PassedOn, Outcome, Actions, Sources
  <2>3. Shown(text) \subseteq SE!ToSet(text)
    BY DEF Shown
  <2>4. ASSUME NEW l \in FoundIn(text), text[1] = Data
        PROVE  FALSE
    <3>1. Payload(text) = <<>>
      BY <1>1, <2>4 DEF IsPayloadLine
    <3>2. Len(text) <= 2
      BY <1>0, <2>4, <3>1, PayloadIs
    <3>3. PICK i : StandsAt(text, i, l)
      BY <2>4, FoundAt
    <3>4. i = 1 /\ text[i] = Half(l, 1)
      BY <1>0, <3>2, <3>3 DEF StandsAt
    <3> QED BY <2>4, <3>4, Kinds
  <2>5. \A l \in FoundIn(text) : text[1] # Data
    BY <2>4
  <2>6. ~(rank("allow") > rank("allow"))
    BY DEF rank
  <2>7. "allow" \in Actions
    BY DEF Actions
  <2>8. Transformed(text, t)
    BY <2>1, <2>2, <2>3, <2>5, <2>6, <2>7 DEF Transformed
  <2> QED BY <2>8 DEF t
<1>2. CASE IsPayloadLine(text)
  <2> DEFINE f     == Filter(Payload(text), scanned)
             final == finalize_response_policy(Opa, reply, f.outcome)
             out   == IF should_force_full_response_redaction(f.outcome.decision, final.decision)
                      THEN <<Masked>> ELSE f.text
  <2>1. /\ t.line = <<Data>> \o out \o <<Newline>>
        /\ t.base = f.outcome.decision /\ t.outcome = final
    BY <1>2 DEF transform_sse_line
  <2>2. text[1] = Data
    BY <1>2 DEF IsPayloadLine
  <2>3. Payload(text) \in Seq(Units) /\ SE!ToSet(Payload(text)) \subseteq SE!ToSet(text)
    BY <2>2, PayloadIs DEF SE!ToSet
  <2>4. /\ f.text \in Seq(Units)
        /\ f.outcome \in Outcome
        /\ SE!ToSet(f.text) \subseteq SE!ToSet(Payload(text)) \cup {Masked}
        /\ \A l \in FoundIn(f.text) : action_for(Rules, principal, l) = "allow"
    BY <2>3, Filtered
  <2>5. final \in Outcome
    BY <2>4, Finalized
  <2>6. f.outcome.decision \in Actions /\ final.decision \in Actions
    BY <2>4, <2>5 DEF Outcome
  <2>7. rank(final.decision) > rank(f.outcome.decision) => out = <<Masked>>
    <3>1. SUFFICES ASSUME rank(final.decision) > rank(f.outcome.decision)
                   PROVE  out = <<Masked>>
      OBVIOUS
    <3> HIDE DEF f, final
    <3>2. final.decision # "allow"
      BY <2>6, <3>1, Ranks
    <3> QED BY <3>1, <3>2 DEF should_force_full_response_redaction
  <2>8. out = <<Masked>> \/ out = f.text
    OBVIOUS
  <2> HIDE DEF t, f, final, out
  <2>9. /\ <<Masked>> \in Seq(Units) /\ SE!ToSet(<<Masked>>) \subseteq {Masked}
        /\ FoundIn(<<Masked>>) = {}
    BY Kinds DEF SE!ToSet, FoundIn
  <2>10. /\ out \in Seq(Units)
         /\ SE!ToSet(out) \subseteq SE!ToSet(text) \cup {Masked}
         /\ \A l \in FoundIn(out) : action_for(Rules, principal, l) = "allow"
    BY <2>3, <2>4, <2>8, <2>9
  <2>11. /\ t.line \in Seq(Units)
         /\ t.line # <<>> /\ t.line[Len(t.line)] = Newline
         /\ FoundIn(t.line) \subseteq FoundIn(out)
         /\ Shown(t.line) \subseteq SE!ToSet(out) \ {Data, Newline, Masked}
    BY <2>1, <2>10, Framed
  <2>12. Shown(t.line) \subseteq SE!ToSet(text)
    BY <2>10, <2>11
  <2>13. rank(t.outcome.decision) > rank(t.base) => Shown(t.line) = {}
    BY <2>1, <2>7, <2>9, <2>11
  <2>14. Transformed(text, t)
    BY <2>1, <2>4, <2>5, <2>6, <2>10, <2>11, <2>12, <2>13 DEF Transformed
  <2> QED BY <2>14 DEF t
<1> QED BY <1>1, <1>2

--------------------------------------------------------------------------------
(* The inductive invariant                                                  *)

Lines == [text : Seq(Units), upto : Nat, line : Seq(Units), base : Actions, outcome : Outcome]

Types ==
    /\ front \in {"reverse", "mitm"}
    /\ upstream \in Seq(Units)
    /\ buffer \in Seq(Units)
    /\ reading \in BOOLEAN
    /\ client \in Seq(Units)
    /\ here \in BOOLEAN
    /\ policy \in Outcome
    /\ sent \in Streams
    /\ seen \in Seq(Lines)

\* The lines, the buffer and the upstream share out what was sent.
Places ==
    /\ Taken(Len(seen)) \in 0..Len(sent)
    /\ \A i \in DOMAIN seen : seen[i].text = SubSeq(sent, Taken(i - 1) + 1, Taken(i))
    /\ buffer \o upstream = SubSeq(sent, Taken(Len(seen)) + 1, Len(sent))

LineKept(r) ==
    /\ Shown(r.line) \subseteq SE!ToSet(r.text)
    /\ rank(r.outcome.decision) > rank(r.base) => Shown(r.line) = {}

Kept == \A i \in DOMAIN seen : LineKept(seen[i])

\* Once the upstream has ended no finished line is left, and nothing is yielded
\* after a line that has no newline of its own.
Broken ==
    /\ ~reading => ~HasLine
    /\ client = <<>> \/ client[Len(client)] = Newline \/ (~reading /\ buffer = <<>>)

Allowed == policy.decision = "allow" <=> \A i \in DOMAIN seen : seen[i].outcome.decision = "allow"

Reports(text) == IsPayloadLine(text) /\ Usage \in SE!ToSet(text)

Counted ==
    tokens = IF front = "mitm" /\ \E i \in DOMAIN seen : Reports(seen[i].text) THEN 1 ELSE 0

Recorded == audit = <<>> \/ (~reading /\ buffer = <<>> /\ audit = <<Summary>>)

IInv ==
    /\ Types
    /\ Places
    /\ Kept
    /\ Broken
    /\ StreamFiltered
    /\ Allowed
    /\ Counted
    /\ Recorded

--------------------------------------------------------------------------------
(* Taking text from the buffer                                              *)

\* A concatenation may be bracketed either way.
LEMMA Brackets ==
    ASSUME NEW S, NEW a \in Seq(S), NEW b \in Seq(S), NEW c \in Seq(S)
    PROVE  (a \o b) \o c = a \o (b \o c)
  OBVIOUS

Bracketed(a, b, c) == (a \o b) \o c = a \o (b \o c)

LEMMA BracketedAs ==
    ASSUME NEW S, NEW a \in Seq(S), NEW b \in Seq(S), NEW c \in Seq(S)
    PROVE  Bracketed(a, b, c)
BY Brackets DEF Bracketed

JoinOf(S, s, t, all) ==
    /\ all \in Seq(S)
    /\ Len(all) = Len(s) + Len(t)
    /\ \A i \in 1..Len(s) : all[i] = s[i]
    /\ \A i \in 1..Len(t) : all[Len(s) + i] = t[i]

LEMMA JoinedAs ==
    ASSUME NEW S, NEW s \in Seq(S), NEW t \in Seq(S)
    PROVE  JoinOf(S, s, t, s \o t)
BY Joined DEF JoinOf

NextSlice(s, k, text, rest) ==
    /\ k + Len(text) \in 0..Len(s)
    /\ text = SubSeq(s, k + 1, k + Len(text))
    /\ rest = SubSeq(s, k + Len(text) + 1, Len(s))

\* What stands first in the rest of a stream is its next slice.
LEMMA Advance ==
    ASSUME NEW S, NEW s \in Seq(S), NEW k \in 0..Len(s), NEW text \in Seq(S), NEW rest \in Seq(S),
           text \o rest = SubSeq(s, k + 1, Len(s))
    PROVE  NextSlice(s, k, text, rest)
<1> DEFINE n == Len(text)
           all == text \o rest
<1>1. n \in Nat /\ Len(rest) \in Nat /\ k \in Nat /\ Len(s) \in Nat /\ Len(text) = n
  OBVIOUS
<1> HIDE DEF n
<1>2. /\ all \in Seq(S) /\ Len(all) = n + Len(rest)
      /\ \A i \in 1..n : all[i] = text[i]
      /\ \A i \in 1..Len(rest) : all[n + i] = rest[i]
  <2>1. JoinOf(S, text, rest, all)
    BY JoinedAs
  <2> QED BY <1>1, <2>1 DEF JoinOf
<1>3. all = SubSeq(s, k + 1, Len(s))
  OBVIOUS
<1> HIDE DEF all
<1>4. k + 1 \in Nat \ {0} /\ k + 1 <= Len(s) + 1
  BY <1>1
<1>5. /\ Len(all) = Len(s) + 1 - (k + 1)
      /\ \A i \in 1..(Len(s) + 1 - (k + 1)) : all[i] = s[(k + 1) + i - 1]
  <2>1. SliceOf(S, s, k + 1, Len(s), all)
    BY <1>1, <1>3, <1>4, SliceAs
  <2> QED BY <2>1 DEF SliceOf
<1>6. n + Len(rest) = Len(s) - k
  BY <1>1, <1>2, <1>5
<1>7. \A i \in 1..(n + Len(rest)) : all[i] = s[k + i]
  BY <1>1, <1>5, <1>6
<1>8. k + n \in 0..Len(s)
  BY <1>1, <1>6
<1> DEFINE a == SubSeq(s, k + 1, k + n)
           b == SubSeq(s, k + n + 1, Len(s))
<1>9. /\ a \in Seq(S) /\ Len(a) = n
      /\ \A i \in 1..n : a[i] = s[k + i]
  <2> DEFINE m == k + n
  <2>1. m \in Nat /\ m <= Len(s) /\ k + 1 <= m + 1
    BY <1>1, <1>8
  <2>2. m = k + n
    OBVIOUS
  <2>3. a = SubSeq(s, k + 1, m)
    OBVIOUS
  <2> HIDE DEF m, a
  <2>4. /\ a \in Seq(S) /\ Len(a) = m + 1 - (k + 1)
        /\ \A i \in 1..(m + 1 - (k + 1)) : a[i] = s[(k + 1) + i - 1]
    <3>1. SliceOf(S, s, k + 1, m, a)
      BY <1>4, <2>1, <2>3, SliceAs
    <3> QED BY <3>1 DEF SliceOf
  <2>5. m + 1 - (k + 1) = n
    BY <1>1, <2>2
  <2>6. \A i \in 1..n : (k + 1) + i - 1 = k + i
    BY <1>1
  <2>7. a \in Seq(S) /\ Len(a) = n
    BY <2>4, <2>5
  <2>8. ASSUME NEW i \in 1..n PROVE a[i] = s[k + i]
    <3>1. i \in 1..(m + 1 - (k + 1))
      BY <2>5
    <3>2. a[i] = s[(k + 1) + i - 1]
      BY <2>4, <3>1
    <3> QED BY <2>6, <3>2
  <2> QED BY <2>7, <2>8
<1>10. /\ b \in Seq(S) /\ Len(b) = Len(rest)
       /\ \A i \in 1..Len(rest) : b[i] = s[k + n + i]
  <2> DEFINE m == k + n + 1
  <2>1. m \in Nat \ {0} /\ m <= Len(s) + 1
    BY <1>1, <1>8
  <2>2. m = k + n + 1
    OBVIOUS
  <2>3. b = SubSeq(s, m, Len(s))
    OBVIOUS
  <2> HIDE DEF m, b
  <2>4. /\ b \in Seq(S) /\ Len(b) = Len(s) + 1 - m
        /\ \A i \in 1..(Len(s) + 1 - m) : b[i] = s[m + i - 1]
    <3>1. SliceOf(S, s, m, Len(s), b)
      BY <1>1, <2>1, <2>3, SliceAs
    <3> QED BY <3>1 DEF SliceOf
  <2>5. Len(s) + 1 - m = Len(rest)
    BY <1>1, <1>6, <2>2
  <2>6. \A i \in 1..Len(rest) : m + i - 1 = k + n + i
    BY <1>1, <2>2
  <2>7. b \in Seq(S) /\ Len(b) = Len(rest)
    BY <2>4, <2>5
  <2>8. ASSUME NEW i \in 1..Len(rest) PROVE b[i] = s[k + n + i]
    <3>1. i \in 1..(Len(s) + 1 - m)
      BY <2>5
    <3>2. b[i] = s[m + i - 1]
      BY <2>4, <3>1
    <3> QED BY <2>6, <3>2
  <2> QED BY <2>7, <2>8
<1> HIDE DEF a, b
<1>11. \A i \in 1..n : text[i] = a[i]
  <2> TAKE i \in 1..n
  <2>1. i \in 1..(n + Len(rest))
    BY <1>1
  <2> QED BY <1>2, <1>7, <1>9, <2>1
<1>12. \A i \in 1..Len(rest) : rest[i] = b[i]
  <2> TAKE i \in 1..Len(rest)
  <2>1. n + i \in 1..(n + Len(rest)) /\ k + (n + i) = k + n + i
    BY <1>1
  <2>2. all[n + i] = s[k + (n + i)]
    BY <1>7, <2>1
  <2> QED BY <1>2, <1>10, <2>1, <2>2
<1>13. text = a
  <2>1. text = [i \in 1..n |-> text[i]] /\ a = [i \in 1..n |-> a[i]]
    BY <1>1, <1>9, Elements
  <2> QED BY <1>11, <2>1
<1>14. rest = b
  <2>1. rest = [i \in 1..Len(rest) |-> rest[i]] /\ b = [i \in 1..Len(rest) |-> b[i]]
    BY <1>10, Elements
  <2> QED BY <1>12, <2>1
<1> QED BY <1>1, <1>8, <1>13, <1>14 DEF a, b, NextSlice

\* A line: a newline can only be its last unit.
LineText(text) ==
    /\ text \in Seq(Units)
    /\ text # <<>>
    /\ \A j \in 1..(Len(text) - 1) : text[j] # Newline

\* A line of a stream reports usage exactly if its event ends with it.
LEMMA ReportsLast ==
    ASSUME NEW text, LineText(text),
           \A i \in 1..(Len(text) - 1) : text[i] = Usage => text[i + 1] = Newline
    PROVE  Reports(text) <=> IsPayloadLine(text) /\ usage_from_response(Payload(text))
<1>0. text \in Seq(Units) /\ text # <<>> /\ Len(text) \in Nat /\ Len(text) >= 1
  BY DEF LineText
<1>1. SUFFICES ASSUME IsPayloadLine(text)
               PROVE  Usage \in SE!ToSet(text) <=> Payload(text)[Len(Payload(text))] = Usage
  BY DEF Reports, usage_from_response
<1>2. text[1] = Data /\ Payload(text) # <<>>
  BY <1>1 DEF IsPayloadLine
<1> DEFINE p == Payload(text)
<1>3. /\ p \in Seq(Units)
      /\ Len(p) = IF text[Len(text)] = Newline THEN Len(text) - 2 ELSE Len(text) - 1
      /\ \A i \in 1..Len(p) : i + 1 \in 1..Len(text) /\ p[i] = text[i + 1]
  BY <1>0, <1>2, PayloadIs
<1>4. p # <<>>
  BY <1>2
<1> HIDE DEF p
<1>5. Len(p) \in 1..Len(p) /\ Len(p) >= 1
  BY <1>3, <1>4
<1>6. ASSUME p[Len(p)] = Usage
      PROVE  Usage \in SE!ToSet(text)
  <2>1. Len(p) + 1 \in 1..Len(text) /\ Usage = text[Len(p) + 1]
    BY <1>3, <1>5, <1>6
  <2> QED BY <1>0, <2>1 DEF SE!ToSet
<1>7. ASSUME Usage \in SE!ToSet(text)
      PROVE  p[Len(p)] = Usage
  <2>1. PICK i \in 1..Len(text) : text[i] = Usage
    BY <1>0, <1>7 DEF SE!ToSet
  <2>2. Usage # Newline
    BY Kinds
  <2>3. CASE i = Len(text)
    <3>1. text[Len(text)] # Newline
      BY <2>1, <2>2, <2>3
    <3>2. Len(p) + 1 = i
      BY <1>0, <1>3, <2>3, <3>1
    <3> QED BY <1>3, <1>5, <2>1, <3>2
  <2>4. CASE i # Len(text)
    <3>1. i \in 1..(Len(text) - 1)
      BY <1>0, <2>4
    <3>2. text[i + 1] = Newline
      BY <2>1, <3>1
    <3>3. i + 1 = Len(text)
      <4>1. i + 1 \notin 1..(Len(text) - 1)
        BY <3>2 DEF LineText
      <4> QED BY <1>0, <3>1, <4>1
    <3>4. Len(p) + 1 = i
      BY <1>0, <1>3, <3>2, <3>3
    <3> QED BY <1>3, <1>5, <2>1, <3>4
  <2> QED BY <2>3, <2>4
<1> QED BY <1>6, <1>7 DEF p

--------------------------------------------------------------------------------
(* The steps                                                                *)

\* A line is taken from the front of the buffer: a finished one while the
\* upstream is read, all that is left once it has ended.
Takes(text, rest) ==
    /\ LineText(text)
    /\ rest \in Seq(Units)
    /\ buffer = text \o rest
    /\ buffer' = rest
    /\ reading => text[Len(text)] = Newline
    /\ ~reading => rest = <<>>
    /\ UNCHANGED <<upstream, reading>>

\* A sequence with one more element.
Grown(s, t, x) ==
    /\ Len(s) \in Nat
    /\ DOMAIN s = 1..Len(s)
    /\ Len(t) = Len(s) + 1
    /\ DOMAIN t = 1..(Len(s) + 1)
    /\ \A i \in 1..Len(s) : t[i] = s[i]
    /\ t[Len(s) + 1] = x

LEMMA Grows ==
    ASSUME NEW S, NEW s \in Seq(S), NEW x \in S
    PROVE  Append(s, x) \in Seq(S) /\ Grown(s, Append(s, x), x)
BY DEF Grown

\* Where the next line of a stream stands, and how usage closes it.
LEMMA NextLine ==
    ASSUME Types, Places, NEW text, NEW rest, Takes(text, rest)
    PROVE  /\ Taken(Len(seen)) + Len(text) \in 0..Len(sent)
           /\ text = SubSeq(sent, Taken(Len(seen)) + 1, Taken(Len(seen)) + Len(text))
           /\ rest \o upstream = SubSeq(sent, Taken(Len(seen)) + Len(text) + 1, Len(sent))
           /\ \A i \in 1..(Len(text) - 1) : text[i] = Usage => text[i + 1] = Newline
<1> DEFINE k == Taken(Len(seen))
<1>1. sent \in Seq(Units) /\ text \in Seq(Units) /\ rest \in Seq(Units) /\ upstream \in Seq(Units)
  BY SseStreamAssumption DEF Types, Takes, LineText
<1>2. k \in 0..Len(sent) /\ (text \o rest) \o upstream = SubSeq(sent, k + 1, Len(sent))
  BY DEF Places, Takes
<1> HIDE DEF k
<1>3. text \o (rest \o upstream) = SubSeq(sent, k + 1, Len(sent))
  <2>1. (text \o rest) \o upstream = text \o (rest \o upstream)
    BY <1>1, Brackets
  <2> QED BY <1>2, <2>1
<1>4. rest \o upstream \in Seq(Units)
  BY <1>1
<1>5. /\ k + Len(text) \in 0..Len(sent)
      /\ text = SubSeq(sent, k + 1, k + Len(text))
      /\ rest \o upstream = SubSeq(sent, k + Len(text) + 1, Len(sent))
  <2>1. NextSlice(sent, k, text, rest \o upstream)
    BY <1>1, <1>2, <1>3, <1>4, Advance
  <2> QED BY <2>1 DEF NextSlice
<1>6. ASSUME NEW i \in 1..(Len(text) - 1), text[i] = Usage
      PROVE  text[i + 1] = Newline
  <2> DEFINE n == Len(text)
             m == k + n
  <2>0. n \in Nat /\ k \in Nat /\ Len(sent) \in Nat /\ i \in 1..(n - 1)
    BY <1>1, <1>2
  <2>1. m \in Nat /\ m <= Len(sent) /\ k + 1 \in Nat \ {0} /\ k + 1 <= m + 1 /\ m = k + n
    BY <1>2, <1>5, <2>0
  <2>2. text = SubSeq(sent, k + 1, m)
    BY <1>5
  <2> HIDE DEF m, n
  <2>3. \A j \in 1..(m + 1 - (k + 1)) : text[j] = sent[(k + 1) + j - 1]
    <3>1. SliceOf(Units, sent, k + 1, m, text)
      BY <1>1, <2>1, <2>2, SliceAs
    <3> QED BY <3>1 DEF SliceOf
  <2>4. /\ i \in 1..(m + 1 - (k + 1)) /\ i + 1 \in 1..(m + 1 - (k + 1))
        /\ (k + 1) + i - 1 = k + i /\ (k + 1) + (i + 1) - 1 = (k + i) + 1
        /\ k + i \in 1..(Len(sent) - 1)
    BY <2>0, <2>1
  <2>5. text[i] = sent[k + i] /\ text[i + 1] = sent[(k + i) + 1]
    BY <2>3, <2>4
  <2>6. sent[k + i] = Usage => sent[(k + i) + 1] = Newline
    BY <2>4, SseStreamAssumption DEF Types
  <2> QED BY <1>6, <2>5, <2>6
<1> QED BY <1>5, <1>6 DEF k

\* Every line that is taken and yielded keeps the invariant.
LEMMA YieldStep ==
    ASSUME IInv, NEW text, NEW rest, Takes(text, rest),
           NEW scanned \in BOOLEAN, NEW reply \in OpaAnswers, Yield(text, scanned, reply)
    PROVE  IInv'
<1> DEFINE t == transform_sse_line(text, scanned, reply)
           r == [text |-> text, upto |-> Taken(Len(seen)) + Len(text),
                 line |-> t.line, base |-> t.base, outcome |-> t.outcome]
<1>1. text \in Seq(Units) /\ text # <<>> /\ Len(text) \in Nat
  BY DEF Takes, LineText
<1>2. Transformed(text, t)
  BY <1>1, TransformIs
<1>3. /\ client' = client \o t.line
      /\ policy' = merge_policy_outcomes(policy, t.outcome)
      /\ seen' = Append(seen, r)
      /\ tokens' = meter_sse_usage(text)
      /\ front' = front /\ here' = here /\ audit' = audit /\ sent' = sent
      /\ upstream' = upstream /\ reading' = reading
  BY DEF Yield, Takes
<1>4. /\ r.text = text /\ r.upto = Taken(Len(seen)) + Len(text)
      /\ r.line = t.line /\ r.base = t.base /\ r.outcome = t.outcome
  OBVIOUS
<1> HIDE DEF t
<1>5. Taken(Len(seen)) \in Nat
  BY DEF IInv, Places
<1>6. r \in Lines
  BY <1>1, <1>2, <1>5 DEF Lines, Transformed
<1> HIDE DEF r
<1>7. seen' \in Seq(Lines) /\ Grown(seen, seen', r)
  BY <1>3, <1>6, Grows DEF IInv, Types
<1>8. Types'
  <2>1. policy' \in Outcome
    BY <1>2, <1>3, Merged DEF IInv, Types, Transformed
  <2>2. client' \in Seq(Units)
    BY <1>2, <1>3 DEF IInv, Types, Transformed
  <2>3. buffer' \in Seq(Units)
    BY DEF Takes
  <2> QED BY <1>3, <1>7, <2>1, <2>2, <2>3 DEF IInv, Types
<1>9. Places'
  <2>1. \A i \in 0..Len(seen) : Taken(i)' = Taken(i)
    BY <1>7 DEF Grown, Taken
  <2>2. Taken(Len(seen))' = Taken(Len(seen)) + Len(text)
    BY <1>4, <1>7 DEF Grown, Taken
  <2>3. /\ Taken(Len(seen)) + Len(text) \in 0..Len(sent)
        /\ text = SubSeq(sent, Taken(Len(seen)) + 1, Taken(Len(seen)) + Len(text))
        /\ rest \o upstream = SubSeq(sent, Taken(Len(seen)) + Len(text) + 1, Len(sent))
    BY NextLine DEF IInv
  <2>4. Len(seen') = Len(seen) + 1 /\ buffer' = rest
    BY <1>7 DEF Grown, Takes
  <2>6. ASSUME NEW i \in DOMAIN seen'
        PROVE  seen'[i].text = SubSeq(sent', Taken(i - 1)' + 1, Taken(i)')
    <3>1. CASE i \in 1..Len(seen)
      <4>1. i - 1 \in 0..Len(seen) /\ i \in 0..Len(seen) /\ i \in DOMAIN seen
        BY <1>7, <3>1 DEF Grown
      <4>2. seen'[i] = seen[i] /\ Taken(i - 1)' = Taken(i - 1) /\ Taken(i)' = Taken(i)
        BY <1>7, <2>1, <3>1, <4>1 DEF Grown
      <4>3. seen[i].text = SubSeq(sent, Taken(i - 1) + 1, Taken(i))
        BY <4>1 DEF IInv, Places
      <4> QED BY <1>3, <4>2, <4>3
    <3>2. CASE i = Len(seen) + 1
      <4>1. Len(seen) \in 0..Len(seen) /\ i - 1 = Len(seen)
        BY <1>7, <3>2 DEF Grown
      <4>2. seen'[i] = r /\ Taken(i - 1)' = Taken(Len(seen)) /\ Taken(i)' = Taken(Len(seen)) + Len(text)
        <5>1. seen'[i] = r
          BY <1>7, <3>2 DEF Grown
        <5>2. Taken(i)' = Taken(Len(seen)) + Len(text)
          BY <1>4, <1>7, <3>2 DEF Grown, Taken
        <5>3. i - 1 \in 0..Len(seen)
          BY <4>1
        <5>4. Taken(i - 1)' = Taken(i - 1)
          BY <2>1, <5>3
        <5>5. Taken(i - 1) = Taken(Len(seen))
          BY <4>1
        <5> QED BY <5>1, <5>2, <5>4, <5>5
      <4> QED BY <1>3, <1>4, <2>3, <4>2
    <3> QED BY <1>7, <2>6, <3>1, <3>2 DEF Grown
  <2> QED BY <1>3, <2>2, <2>3, <2>4, <2>6 DEF Places
<1>10. Kept'
  <2>1. LineKept(r)
    BY <1>2, <1>4 DEF Transformed, LineKept
  <2>2. ASSUME NEW i \in DOMAIN seen'
        PROVE  LineKept(seen'[i])
    <3>1. i \in 1..Len(seen) \/ i = Len(seen) + 1
      BY <1>7 DEF Grown
    <3>2. CASE i \in 1..Len(seen)
      BY <1>7, <3>2 DEF Grown, IInv, Kept
    <3> QED BY <1>7, <2>1, <3>1, <3>2 DEF Grown
  <2> QED BY <2>2 DEF Kept, LineKept
<1>11. /\ client = <<>> \/ client[Len(client)] = Newline
       /\ audit = <<>>
  <2>1. buffer # <<>>
    BY <1>1 DEF Takes, LineText
  <2> QED BY <2>1 DEF IInv, Broken, Recorded
<1>12. Broken'
  <2>1. CASE reading
    <3>1. t.line \in Seq(Units) /\ t.line # <<>> /\ t.line[Len(t.line)] = Newline
      BY <1>2, <2>1 DEF Takes, Transformed
    <3>2. client' # <<>> /\ client'[Len(client')] = Newline
      <4>1. client \in Seq(Units)
        BY DEF IInv, Types
      <4> QED BY <1>3, <3>1, <4>1
    <3> QED BY <1>3, <2>1, <3>2 DEF Broken
  <2>2. CASE ~reading
    <3>1. buffer' = <<>>
      BY <2>2 DEF Takes
    <3> QED BY <1>3, <2>2, <3>1 DEF Broken, HasLine
  <2> QED BY <2>1, <2>2
<1>13. StreamFiltered'
  <2>0. /\ client \in Seq(Units) /\ t.line \in Seq(Units)
        /\ StreamFiltered
    BY <1>2 DEF IInv, Types, Transformed
  <2>1. SUFFICES ASSUME NEW l \in FoundIn(client')
                 PROVE  \/ action_for(Rules, principal, l) = "allow"
                        \/ \E i \in DOMAIN seen' : seen'[i].text[1] # Data /\ l \in FoundIn(seen'[i].text)
    BY DEF StreamFiltered, FoundIn, action_for
  <2>2. l \in FoundIn(client) \/ l \in FoundIn(t.line)
    BY <1>3, <1>11, <2>0, <2>1, FoundJoined
  <2>3. CASE l \in FoundIn(client)
    <3>1. CASE \E i \in DOMAIN seen : seen[i].text[1] # Data /\ l \in FoundIn(seen[i].text)
      <4>1. PICK i \in DOMAIN seen : seen[i].text[1] # Data /\ l \in FoundIn(seen[i].text)
        BY <3>1
      <4>2. i \in DOMAIN seen' /\ seen'[i] = seen[i]
        BY <1>7 DEF Grown
      <4> QED BY <4>1, <4>2
    <3> QED BY <2>0, <2>3, <3>1 DEF StreamFiltered
  <2>4. CASE l \in FoundIn(t.line)
    <3>1. CASE text[1] # Data /\ l \in FoundIn(text)
      <4>1. Len(seen) + 1 \in DOMAIN seen' /\ seen'[Len(seen) + 1].text = text
        BY <1>4, <1>7 DEF Grown
      <4> QED BY <3>1, <4>1
    <3> QED BY <1>2, <2>4, <3>1 DEF Transformed
  <2> QED BY <2>2, <2>3, <2>4
<1>14. Allowed'
  <2>1. policy'.decision = "allow" <=> policy.decision = "allow" /\ t.outcome.decision = "allow"
    BY <1>2, <1>3, Merged DEF IInv, Types, Transformed
  <2>2. (\A i \in DOMAIN seen' : seen'[i].outcome.decision = "allow") <=>
          (\A i \in DOMAIN seen : seen[i].outcome.decision = "allow") /\ t.outcome.decision = "allow"
    <3>1. \A i \in DOMAIN seen : i \in DOMAIN seen' /\ seen'[i] = seen[i]
      BY <1>7 DEF Grown
    <3>2. Len(seen) + 1 \in DOMAIN seen' /\ seen'[Len(seen) + 1].outcome = t.outcome
      BY <1>4, <1>7 DEF Grown
    <3>3. \A i \in DOMAIN seen' : i \in DOMAIN seen \/ i = Len(seen) + 1
      BY <1>7 DEF Grown
    <3> QED BY <3>1, <3>2, <3>3
  <2> QED BY <2>1, <2>2 DEF IInv, Allowed
<1>15. Counted'
  <2>1. Reports(text) <=> IsPayloadLine(text) /\ usage_from_response(Payload(text))
    <3>1. \A i \in 1..(Len(text) - 1) : text[i] = Usage => text[i + 1] = Newline
      BY NextLine DEF IInv
    <3> QED BY <3>1, ReportsLast DEF Takes
  <2>2. (\E i \in DOMAIN seen' : Reports(seen'[i].text)) <=>
          (\E i \in DOMAIN seen : Reports(seen[i].text)) \/ Reports(text)
    <3>1. \A i \in DOMAIN seen : i \in DOMAIN seen' /\ seen'[i] = seen[i]
      BY <1>7 DEF Grown
    <3>2. Len(seen) + 1 \in DOMAIN seen' /\ seen'[Len(seen) + 1].text = text
      BY <1>4, <1>7 DEF Grown
    <3>3. \A i \in DOMAIN seen' : i \in DOMAIN seen \/ i = Len(seen) + 1
      BY <1>7 DEF Grown
    <3> QED BY <3>1, <3>2, <3>3
  <2>3. tokens' = IF front = "mitm" /\ tokens = 0 /\ Reports(text) THEN 1 ELSE tokens
    BY <1>3, <2>1 DEF meter_sse_usage
  <2>4. Counted
    BY DEF IInv
  <2> DEFINE before == \E i \in DOMAIN seen : Reports(seen[i].text)
             after  == \E i \in DOMAIN seen' : Reports(seen'[i].text)
  <2>5. tokens = IF front = "mitm" /\ before THEN 1 ELSE 0
    BY <2>4 DEF Counted
  <2>6. after <=> before \/ Reports(text)
    BY <2>2
  <2> HIDE DEF before, after
  <2>7. tokens' = IF front' = "mitm" /\ after THEN 1 ELSE 0
    BY <1>3, <2>3, <2>5, <2>6
  <2> QED BY <2>7 DEF after, Counted, Reports, IsPayloadLine, Payload
<1>16. Recorded'
  BY <1>3, <1>11 DEF Recorded
<1> QED BY <1>8, <1>9, <1>10, <1>12, <1>13, <1>14, <1>15, <1>16 DEF IInv

\* Of a set of numbers one is the least.
LEMMA Least ==
    ASSUME NEW T \in SUBSET Nat, T # {}
    PROVE  \E x \in T : \A y \in T : x <= y
<1> DEFINE R == {ss \in Nat \X Nat : ss[1] < ss[2]}
<1>1. IsWellFoundedOn(R, Nat)
  BY NatLessThanWellFounded DEF OpToRel
<1>2. \A x, y \in Nat : x < y => <<x, y>> \in R
  OBVIOUS
<1> HIDE DEF R
<1>3. PICK x \in T : \A y \in T : <<y, x>> \notin R
  BY <1>1, WFMin
<1>4. \A y \in T : ~(y < x)
  BY <1>2, <1>3
<1> QED BY <1>3, <1>4

\* A buffer with a newline has a first one.
LEMMA LineEndIs ==
    ASSUME buffer \in Seq(Units), HasLine
    PROVE  /\ LineEnd \in 1..Len(buffer)
           /\ buffer[LineEnd] = Newline
           /\ \A j \in 1..(LineEnd - 1) : buffer[j] # Newline
<1> DEFINE T == {i \in DOMAIN buffer : buffer[i] = Newline}
           Ends(i) == buffer[i] = Newline /\ \A j \in 1..(i - 1) : buffer[j] # Newline
<1>1. DOMAIN buffer = 1..Len(buffer) /\ Len(buffer) \in Nat
  OBVIOUS
<1>2. T \in SUBSET Nat /\ T # {}
  BY <1>1 DEF HasLine
<1>3. PICK i \in T : \A j \in T : i <= j
  BY <1>2, Least
<1>4. i \in DOMAIN buffer /\ Ends(i)
  <2>1. i \in 1..Len(buffer) /\ buffer[i] = Newline
    BY <1>1
  <2>2. ASSUME NEW j \in 1..(i - 1), buffer[j] = Newline
        PROVE  FALSE
    <3>1. j \in 1..Len(buffer) /\ j < i
      BY <1>1, <2>1
    <3>2. j \in T
      BY <1>1, <2>2, <3>1
    <3> QED BY <1>3, <2>1, <3>1, <3>2
  <2> QED BY <1>1, <2>1, <2>2
<1>5. LineEnd \in DOMAIN buffer /\ Ends(LineEnd)
  <2>1. LineEnd = CHOOSE k \in DOMAIN buffer : Ends(k)
    BY DEF LineEnd
  <2> HIDE DEF Ends
  <2> QED BY <1>4, <2>1
<1> QED BY <1>1, <1>5

LEMMA StepYieldLine ==
    ASSUME IInv, NEW scanned \in BOOLEAN, NEW reply \in OpaAnswers, yield_line(scanned, reply)
    PROVE  IInv'
<1> DEFINE n    == LineEnd
           text == SubSeq(buffer, 1, n)
           rest == SubSeq(buffer, n + 1, Len(buffer))
<1>0. buffer \in Seq(Units) /\ Len(buffer) \in Nat
  BY DEF IInv, Types
<1>1. n \in 1..Len(buffer) /\ buffer[n] = Newline /\ \A j \in 1..(n - 1) : buffer[j] # Newline
  BY <1>0, LineEndIs DEF yield_line
<1>2. /\ reading /\ Yield(text, scanned, reply) /\ buffer' = rest
      /\ UNCHANGED <<upstream, reading>>
  BY DEF yield_line
<1> HIDE DEF n
<1>3. text \o rest = buffer
  <2>1. n \in 0..Len(buffer)
    BY <1>0, <1>1
  <2> QED BY <1>0, <2>1, CutTwo
<1>4. text \in Seq(Units) /\ Len(text) = n /\ \A j \in 1..n : text[j] = buffer[j]
  <2>1. n \in Nat /\ n <= Len(buffer) /\ 1 <= n + 1 /\ 1 \in Nat \ {0} /\ n + 1 - 1 = n
    BY <1>0, <1>1
  <2>2. /\ text \in Seq(Units) /\ Len(text) = n + 1 - 1
        /\ \A j \in 1..(n + 1 - 1) : text[j] = buffer[1 + j - 1]
    BY <1>0, <2>1, Slice
  <2> HIDE DEF text
  <2> QED BY <2>1, <2>2
<1>5. rest \in Seq(Units)
  <2>1. n + 1 \in Nat \ {0} /\ n + 1 <= Len(buffer) + 1
    BY <1>0, <1>1
  <2> QED BY <1>0, <2>1, Slice
<1> HIDE DEF text, rest
<1>6. LineText(text) /\ text[Len(text)] = Newline
  <2>1. n \in 1..n /\ n \in Nat /\ \A j \in 1..(n - 1) : j \in 1..n
    BY <1>0, <1>1
  <2>2. text # <<>>
    BY <1>4, <2>1
  <2> QED BY <1>1, <1>4, <2>1, <2>2 DEF LineText
<1>7. Takes(text, rest)
  BY <1>2, <1>3, <1>5, <1>6 DEF Takes
<1> QED BY <1>2, <1>7, YieldStep

LEMMA StepFlush ==
    ASSUME IInv, NEW scanned \in BOOLEAN, NEW reply \in OpaAnswers, flush(scanned, reply)
    PROVE  IInv'
<1>1. /\ ~reading /\ buffer # <<>> /\ Yield(buffer, scanned, reply) /\ buffer' = <<>>
      /\ UNCHANGED <<upstream, reading>>
  BY DEF flush
<1>2. buffer \in Seq(Units) /\ ~HasLine
  BY <1>1 DEF IInv, Types, Broken
<1>3. LineText(buffer)
  <2>1. \A j \in 1..(Len(buffer) - 1) : j \in DOMAIN buffer
    BY <1>2
  <2> QED BY <1>1, <1>2, <2>1 DEF LineText, HasLine
<1>4. buffer \o <<>> = buffer /\ <<>> \in Seq(Units)
  BY <1>2
<1>5. Takes(buffer, <<>>)
  BY <1>1, <1>3, <1>4 DEF Takes
<1> QED BY <1>1, <1>5, YieldStep

\* A chunk only moves text from the upstream to the buffer's end.
LEMMA StepChunk ==
    ASSUME IInv, NEW n, chunk(n)
    PROVE  IInv'
<1>1. /\ reading /\ n \in 1..Len(upstream)
      /\ buffer' = buffer \o SubSeq(upstream, 1, n)
      /\ upstream' = SubSeq(upstream, n + 1, Len(upstream))
      /\ UNCHANGED <<front, tokens, reading, client, here, policy, audit, sent, seen>>
  BY DEF chunk
<1>2. upstream \in Seq(Units) /\ buffer \in Seq(Units) /\ Len(upstream) \in Nat
  BY DEF IInv, Types
<1> DEFINE a == SubSeq(upstream, 1, n)
           b == SubSeq(upstream, n + 1, Len(upstream))
<1>3. a \in Seq(Units) /\ b \in Seq(Units) /\ a \o b = upstream
  <2>1. n \in 0..Len(upstream) /\ n \in Nat /\ n <= Len(upstream) /\ 1 <= n + 1 /\ 1 \in Nat \ {0}
        /\ n + 1 \in Nat \ {0} /\ n + 1 <= Len(upstream) + 1
    BY <1>1, <1>2
  <2>2. a \in Seq(Units)
    BY <1>2, <2>1, SliceAs DEF SliceOf
  <2>3. b \in Seq(Units)
    BY <1>2, <2>1, SliceAs DEF SliceOf
  <2> QED BY <1>2, <2>1, <2>2, <2>3, CutTwo
<1>4. buffer' = buffer \o a /\ upstream' = b
  BY <1>1
<1> HIDE DEF a, b
<1>5. buffer' \in Seq(Units) /\ upstream' \in Seq(Units)
  BY <1>2, <1>3, <1>4
<1>6. buffer' \o upstream' = buffer \o upstream
  <2>1. a \in Seq(Units) /\ b \in Seq(Units)
    BY <1>3
  <2>2. (buffer \o a) \o b = buffer \o (a \o b)
    <3>1. Bracketed(buffer, a, b)
      BY <1>2, <2>1, BracketedAs
    <3> QED BY <3>1 DEF Bracketed
  <2> QED BY <1>3, <1>4, <2>2
<1>7. Types'
  BY <1>1, <1>5 DEF IInv, Types
<1>8. Places'
  <2>1. \A i : Taken(i)' = Taken(i)
    BY <1>1 DEF Taken
  <2>2. Taken(Len(seen))' = Taken(Len(seen))
    BY <1>1 DEF Taken
  <2> QED BY <1>1, <1>6, <2>1, <2>2 DEF IInv, Places
<1>9. Kept'
  BY <1>1 DEF IInv, Kept, LineKept
<1>10. Broken'
  BY <1>1 DEF IInv, Broken
<1>11. StreamFiltered'
  BY <1>1 DEF IInv, StreamFiltered, FoundIn, action_for
<1>12. Allowed'
  BY <1>1 DEF IInv, Allowed
<1>13. Counted'
  BY <1>1 DEF IInv, Counted, Reports, IsPayloadLine, Payload
<1>14. Recorded'
  BY <1>1 DEF IInv, Recorded
<1> QED BY <1>7, <1>8, <1>9, <1>10, <1>11, <1>12, <1>13, <1>14 DEF IInv

\* What a step leaves alone that yields no line.
LEMMA Quiet ==
    ASSUME IInv, UNCHANGED <<front, tokens, upstream, buffer, client, policy, sent, seen>>,
           reading' \in BOOLEAN, here' \in BOOLEAN,
           reading' => reading, ~reading' => ~HasLine
    PROVE  /\ Types' /\ Places' /\ Kept' /\ Broken' /\ StreamFiltered' /\ Allowed' /\ Counted'
           /\ Summary' = Summary
<1>1. Types'
  BY DEF IInv, Types
<1>2. Places'
  <2>1. \A i : Taken(i)' = Taken(i)
    BY DEF Taken
  <2>2. Taken(Len(seen))' = Taken(Len(seen))
    BY DEF Taken
  <2> QED BY <2>1, <2>2 DEF IInv, Places
<1>3. Kept'
  BY DEF IInv, Kept, LineKept
<1>4. Broken'
  BY DEF IInv, Broken, HasLine
<1>5. StreamFiltered'
  BY DEF IInv, StreamFiltered, FoundIn, action_for
<1>6. Allowed'
  BY DEF IInv, Allowed
<1>7. Counted'
  BY DEF IInv, Counted, Reports, IsPayloadLine, Payload
<1>8. Summary' = Summary
  BY DEF Summary
<1> QED BY <1>1, <1>2, <1>3, <1>4, <1>5, <1>6, <1>7, <1>8

LEMMA StepUpstreamEnds ==
    ASSUME IInv, upstream_ends
    PROVE  IInv'
<1>1. /\ reading /\ ~HasLine /\ reading' = FALSE
      /\ UNCHANGED <<front, tokens, upstream, buffer, client, here, policy, audit, sent, seen>>
  BY DEF upstream_ends
<1>2. here' \in BOOLEAN
  BY <1>1 DEF IInv, Types
<1>3. /\ Types' /\ Places' /\ Kept' /\ Broken' /\ StreamFiltered' /\ Allowed' /\ Counted'
  BY <1>1, <1>2, Quiet
<1>4. Recorded'
  BY <1>1 DEF IInv, Recorded
<1> QED BY <1>3, <1>4 DEF IInv

LEMMA StepEmit ==
    ASSUME IInv, emit
    PROVE  IInv'
<1>1. /\ ~reading /\ buffer = <<>> /\ audit' = <<Summary>>
      /\ UNCHANGED <<front, tokens, upstream, buffer, reading, client, here, policy, sent, seen>>
  BY DEF emit
<1>2. here' \in BOOLEAN /\ reading' \in BOOLEAN /\ (~reading' => ~HasLine)
  BY <1>1 DEF IInv, Types, Broken
<1>3. /\ Types' /\ Places' /\ Kept' /\ Broken' /\ StreamFiltered' /\ Allowed' /\ Counted'
      /\ Summary' = Summary
  BY <1>1, <1>2, Quiet
<1>4. Recorded'
  BY <1>1, <1>3 DEF Recorded
<1> QED BY <1>3, <1>4 DEF IInv

LEMMA StepClientLeaves ==
    ASSUME IInv, client_leaves
    PROVE  IInv'
<1>1. /\ audit = <<>> /\ here' = FALSE
      /\ UNCHANGED <<front, tokens, upstream, buffer, reading, client, policy, audit, sent, seen>>
  BY DEF client_leaves
<1>2. reading' \in BOOLEAN /\ (~reading' => ~HasLine)
  BY <1>1 DEF IInv, Types, Broken
<1>3. /\ Types' /\ Places' /\ Kept' /\ Broken' /\ StreamFiltered' /\ Allowed' /\ Counted'
  BY <1>1, <1>2, Quiet
<1>4. Recorded'
  BY <1>1 DEF Recorded
<1> QED BY <1>3, <1>4 DEF IInv

LEMMA Start == Init => IInv
<1> SUFFICES ASSUME Init
             PROVE  IInv
  OBVIOUS
<1>1. /\ front \in {"reverse", "mitm"} /\ tokens = 0 /\ upstream \in Streams /\ buffer = <<>>
      /\ reading = TRUE /\ client = <<>> /\ here = TRUE /\ policy = PassedOn /\ audit = <<>>
      /\ sent = upstream /\ seen = <<>>
  BY DEF Init
<1>2. upstream \in Seq(Units) /\ <<>> \in Seq(Units) /\ <<>> \in Seq(Lines) /\ PassedOn \in Outcome
  BY <1>1, SseStreamAssumption DEF PassedOn, Outcome, Actions, Sources
<1>3. Types
  BY <1>1, <1>2 DEF Types
<1>4. Len(seen) = 0 /\ DOMAIN seen = {} /\ Taken(0) = 0
  BY <1>1 DEF Taken
<1>5. Places
  <2>1. <<>> \o upstream = upstream /\ SubSeq(upstream, 1, Len(upstream)) = upstream
        /\ Len(upstream) \in Nat
    BY <1>2
  <2>2. 0 \in 0..Len(sent) /\ 0 + 1 = 1
    BY <1>1, <2>1
  <2> QED BY <1>1, <1>4, <2>1, <2>2 DEF Places
<1>6. Kept
  BY <1>4 DEF Kept
<1>7. Broken
  BY <1>1 DEF Broken
<1>8. StreamFiltered
  BY <1>1 DEF StreamFiltered, FoundIn
<1>9. Allowed
  BY <1>1, <1>4 DEF Allowed, PassedOn
<1>10. Counted
  BY <1>1, <1>4 DEF Counted
<1>11. Recorded
  BY <1>1 DEF Recorded
<1> QED BY <1>3, <1>5, <1>6, <1>7, <1>8, <1>9, <1>10, <1>11 DEF IInv

LEMMA Invariance == Spec => []IInv
<1>1. IInv /\ [Next]_vars => IInv'
  <2> SUFFICES ASSUME IInv, [Next]_vars
               PROVE  IInv'
    OBVIOUS
  <2>1. CASE \E n \in 1..Len(upstream) : chunk(n)
    BY <2>1, StepChunk
  <2>2. CASE upstream_ends
    BY <2>2, StepUpstreamEnds
  <2>3. CASE \E scanned \in BOOLEAN, reply \in OpaAnswers : yield_line(scanned, reply)
    BY <2>3, StepYieldLine
  <2>4. CASE \E scanned \in BOOLEAN, reply \in OpaAnswers : flush(scanned, reply)
    BY <2>4, StepFlush
  <2>5. CASE emit
    BY <2>5, StepEmit
  <2>6. CASE client_leaves
    BY <2>6, StepClientLeaves
  <2>7. CASE UNCHANGED vars
    <3>1. /\ UNCHANGED <<front, tokens, upstream, buffer, reading, client, here, policy, audit, sent, seen>>
      BY <2>7 DEF vars
    <3>2. here' \in BOOLEAN /\ reading' \in BOOLEAN /\ (~reading' => ~HasLine)
      BY <3>1 DEF IInv, Types, Broken
    <3>3. /\ Types' /\ Places' /\ Kept' /\ Broken' /\ StreamFiltered' /\ Allowed' /\ Counted'
          /\ Summary' = Summary
      BY <3>1, <3>2, Quiet
    <3>4. Recorded'
      BY <3>1, <3>3 DEF IInv, Recorded
    <3> QED BY <3>3, <3>4 DEF IInv
  <2> QED BY <2>1, <2>2, <2>3, <2>4, <2>5, <2>6, <2>7 DEF Next, Receive, Process
<1> QED BY <1>1, Start, PTL DEF Spec

--------------------------------------------------------------------------------
(* The theorems                                                             *)

\* Whatever the chunks, the break and OPA's answers, the client of a stream can
\* read only what the policy lets it see or stood in a line of another field
\* (response_from_sse_stream, redact_sse_stream, transform_sse_line).
THEOREM OnlyAllowedIsStreamed == Spec => []StreamFiltered
<1>1. IInv => StreamFiltered
  BY DEF IInv
<1> QED BY <1>1, Invariance, PTL

\* No unit of a stream is lost, repeated or moved by the buffer, and no line
\* shows text of another, or any once OPA has tightened its decision.
THEOREM NothingLostInTheBuffer == Spec => []StreamConserved
<1>1. IInv => StreamConserved
  <2> SUFFICES ASSUME IInv
               PROVE  StreamConserved
    OBVIOUS
  <2>1. TypeOK
    <3>1. Len(audit) <= 1
      <4>1. audit = <<>> \/ audit = <<Summary>>
        BY DEF IInv, Recorded
      <4>2. CASE audit = <<>>
        BY <4>2
      <4>3. CASE audit = <<Summary>>
        <5>1. Len(audit) = 1
          BY <4>3
        <5> QED BY <5>1
      <4> QED BY <4>1, <4>2, <4>3
    <3>2. policy.decision \in Actions
      BY DEF IInv, Types, Outcome
    <3>3. \A i \in DOMAIN seen : seen[i].outcome.decision \in Actions
      <4>1. \A i \in DOMAIN seen : seen[i] \in Lines
        BY DEF IInv, Types
      <4> QED BY <4>1 DEF Lines, Outcome
    <3> QED BY <3>1, <3>2, <3>3 DEF IInv, Types, TypeOK
  <2> QED BY <2>1 DEF IInv, StreamConserved, Places, Kept, LineKept, Shown
<1> QED BY <1>1, Invariance, PTL

\* The record of a stream says "allow" exactly if every line was allowed, and
\* the transparent proxy counts its usage once if any event reports it.
THEOREM StreamTold == Spec => []StreamAudited
<1>1. IInv => StreamAudited
  <2> SUFFICES ASSUME IInv
               PROVE  StreamAudited
    OBVIOUS
  <2>1. ASSUME audit # <<>>
        PROVE  audit[1].decision = "allow" <=>
                 \A i \in DOMAIN seen : seen[i].outcome.decision = "allow"
    <3>1. audit[1] = Summary
      BY <2>1 DEF IInv, Recorded
    <3>2. Summary.decision = "allow" <=> policy.decision = "allow"
      BY DEF Summary, normalize_response_decision
    <3> QED BY <3>1, <3>2 DEF IInv, Allowed
  <2>2. Counted
    BY DEF IInv
  <2> QED BY <2>1, <2>2 DEF StreamAudited, Counted, Reports
<1> QED BY <1>1, Invariance, PTL
================================================================================
