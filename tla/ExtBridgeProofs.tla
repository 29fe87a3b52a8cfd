---------------------------- MODULE ExtBridgeProofs ----------------------------
(***************************************************************************)
(* Proofs about the browser extension's bridge, for every finite set of    *)
(* requests, whatever their bodies and whatever rules may be loaded: first *)
(* what happens to a request and its messages, with redact_json left as it *)
(* is, then what redact_json masks of a body.                              *)
(***************************************************************************)
EXTENDS ExtBridge, FiniteSetTheorems, WellFoundedInduction, TLAPS

--------------------------------------------------------------------------------
(* The inductive invariant                                                  *)

\* The body of r, scrubbed with the rules in force.
Scrubbed(r) == Carries(r, redact_json(rules, BodyOf[r]))

\* What an answer may bring, and what a request may carry.
AnyScrubbed == {Carries(r, redact_json(load, BodyOf[r])) : r \in Requests, load \in Loads}
AnyRaw == {Carries(r, NoMasks(BodyOf[r])) : r \in Requests}
Carriable == {None, Empty} \cup AnyScrubbed \cup AnyRaw

RequestRecords ==
    [state : {"idle", "waiting", "sent", "rejected"}, kind : {"fetch", "xhr", None},
     covered : BOOLEAN, sent : Carriable]

Asks    == [type : {"redact"}, id : Nat, of : Requests]
Answers == [type : {"redacted"}, id : Nat, body : {Empty} \cup AnyScrubbed]

Covered == {r \in Requests : req[r].covered}

\* One id was handed out per covered request.
Types ==
    /\ req \in [Requests -> RequestRecords]
    /\ seq = Cardinality(Covered)
    /\ pending \subseteq (1..seq) \X Requests
    /\ tasks \in Seq(Asks \cup Answers)
    /\ queue \in Seq(Asks)
    /\ isolated \in {"absent", "booting", "ready", "failed"}

\* The map holds exactly the waiting requests, each once and under its own id.
PendingExact ==
    /\ \A p, q \in pending : p[1] = q[1] \/ p[2] = q[2] => p = q
    /\ \A r \in Requests : req[r].state = "waiting" <=> \E p \in pending : p[2] = r
    /\ \A p \in pending : req[p[2]].covered
    /\ \A r \in Requests : req[r].state = "idle" => ~req[r].covered /\ req[r].sent = None

\* A message is about the request that waits under its id, if any still does.
AskOK(m) ==
    /\ m.id \in 1..seq
    /\ \A p \in pending : p[1] = m.id => m.of = p[2]

AnswerOK(m) ==
    /\ m.id \in 1..seq
    /\ \A p \in pending : p[1] = m.id => m.body \in {Empty, Scrubbed(p[2])}

MessagesOK ==
    /\ \A i \in DOMAIN tasks : IF tasks[i].type = "redact" THEN AskOK(tasks[i])
                                                           ELSE AnswerOK(tasks[i])
    /\ \A i \in DOMAIN queue : AskOK(queue[i])

\* Nothing is answered before the rules are there, and they never change.
OnlyWhenReady ==
    /\ isolated = "ready" => queue = <<>> /\ rules \in Loads
    /\ \A i \in DOMAIN tasks : tasks[i].type = "redacted" => isolated = "ready"

CarriedOK ==
    \A r \in Requests :
        /\ req[r].sent # None => req[r].sent.of \in {r, None}
        /\ req[r].covered /\ req[r].sent \notin {None, Empty} =>
             isolated = "ready" /\ req[r].sent = Scrubbed(r)

IInv == Types /\ PendingExact /\ MessagesOK /\ OnlyWhenReady /\ CarriedOK

--------------------------------------------------------------------------------
(* Each action preserves it                                                 *)

\* The ids handed out are counted.
LEMMA SeqNat ==
    ASSUME Types
    PROVE  seq \in Nat /\ IsFiniteSet(Covered) /\ seq \in 0..Cardinality(Requests)
<1>1. Covered \subseteq Requests
  BY DEF Covered
<1>2. IsFiniteSet(Covered) /\ Cardinality(Covered) <= Cardinality(Requests)
  BY <1>1, ExtBridgeAssumption, FS_Subset
<1>3. Cardinality(Covered) \in Nat /\ Cardinality(Requests) \in Nat
  BY <1>2, ExtBridgeAssumption, FS_CardinalityType
<1> QED BY <1>2, <1>3 DEF Types

\* A call that is not covered is sent as it is; a covered one waits under an id
\* no message and no other request has.
LEMMA StepSend ==
    ASSUME IInv, NEW r \in Requests, NEW kind \in {"fetch", "xhr"}, NEW covered \in BOOLEAN,
           send(r, kind, covered)
    PROVE  IInv'
<1> USE DEF IInv
<1>1. seq \in Nat /\ IsFiniteSet(Covered)
  BY SeqNat
<1>0. PICK N \in Nat : N = seq + 1
  BY <1>1
<1>2. CASE covered
  <2>1. /\ req[r].state = "idle" /\ ~req[r].covered /\ req[r].sent = None
        /\ req' = [req EXCEPT ![r] = [@ EXCEPT !.state = "waiting", !.kind = kind,
                                               !.covered = TRUE]]
        /\ seq' = N
        /\ pending' = pending \cup {<<N, r>>}
        /\ tasks' = Append(tasks, [type |-> "redact", id |-> N, of |-> r])
        /\ UNCHANGED <<isolated, rules, queue>>
    BY <1>0, <1>2 DEF send, next_id, PendingExact
  <2>2. /\ req'[r] = [req[r] EXCEPT !.state = "waiting", !.kind = kind, !.covered = TRUE]
        /\ \A s \in Requests : s # r => req'[s] = req[s]
        /\ req'[r].state = "waiting" /\ req'[r].covered /\ req'[r].sent = req[r].sent
    <3>1. req[r] \in RequestRecords /\ DOMAIN req = Requests
      BY DEF Types
    <3> QED BY <2>1, <3>1 DEF RequestRecords
  <2>3. Covered' = Covered \cup {r} /\ r \notin Covered
    BY <2>1, <2>2 DEF Covered
  <2>4. Types'
    <3>1. seq' = Cardinality(Covered')
      BY <1>0, <1>1, <2>1, <2>3, FS_AddElement DEF Types
    <3>2. tasks' \in Seq(Asks \cup Answers)
      <4>1. [type |-> "redact", id |-> N, of |-> r] \in Asks
        BY <1>0, <1>1 DEF Asks
      <4> QED BY <2>1, <4>1 DEF Types
    <3>3. pending' \subseteq (1..seq') \X Requests
      BY <1>0, <1>1, <2>1 DEF Types
    <3>4. req' \in [Requests -> RequestRecords]
      <4>1. req[r] \in RequestRecords
        BY DEF Types
      <4>2. [req[r] EXCEPT !.state = "waiting", !.kind = kind, !.covered = TRUE] \in RequestRecords
        BY <4>1 DEF RequestRecords
      <4> QED BY <2>1, <4>2 DEF Types
    <3> QED BY <2>1, <3>1, <3>2, <3>3, <3>4 DEF Types
  <2>5. PendingExact'
    <3>1. \A p \in pending : p[1] \in 1..seq /\ p[2] # r /\ p[2] \in Requests
      BY <2>1 DEF Types, PendingExact
    <3>2. <<N, r>>[1] = N /\ <<N, r>>[2] = r /\ N \notin 1..seq
      BY <1>0, <1>1
    <3>3. \A p \in pending' : p \in pending \/ p = <<N, r>>
      BY <2>1
    <3>4. ASSUME NEW p \in pending', NEW q \in pending', p[1] = q[1] \/ p[2] = q[2]
          PROVE  p = q
      BY <3>1, <3>2, <3>3, <3>4 DEF PendingExact
    <3>5. ASSUME NEW s \in Requests
          PROVE  req'[s].state = "waiting" <=> \E p \in pending' : p[2] = s
      <4>1. CASE s = r
        BY <2>1, <2>2, <3>2, <4>1
      <4>2. CASE s # r
        BY <2>1, <2>2, <3>2, <3>3, <4>2 DEF PendingExact
      <4> QED BY <4>1, <4>2
    <3>6. ASSUME NEW p \in pending'
          PROVE  req'[p[2]].covered
      BY <2>2, <3>1, <3>2, <3>3 DEF PendingExact
    <3>7. ASSUME NEW s \in Requests, req'[s].state = "idle"
          PROVE  ~req'[s].covered /\ req'[s].sent = None
      <4>1. req'[s] = req[s]
        BY <2>2, <3>7
      <4> QED BY <3>7, <4>1 DEF PendingExact
    <3> QED BY <3>4, <3>5, <3>6, <3>7 DEF PendingExact
  <2>6. MessagesOK'
    <3>1. \A m : AskOK(m) => AskOK(m)'
      BY <1>0, <1>1, <2>1 DEF AskOK
    <3>2. \A m : AnswerOK(m) => AnswerOK(m)'
      BY <1>0, <1>1, <2>1 DEF AnswerOK, Scrubbed
    <3>3. AskOK([type |-> "redact", id |-> N, of |-> r])'
      <4>1. \A p \in pending' : p[1] = N => p[2] = r
        BY <1>0, <1>1, <2>1 DEF Types
      <4> QED BY <1>0, <1>1, <2>1, <4>1 DEF AskOK
    <3>4. \A i \in DOMAIN tasks' :
             IF i = Len(tasks) + 1 THEN tasks'[i] = [type |-> "redact", id |-> N, of |-> r]
                                   ELSE i \in DOMAIN tasks /\ tasks'[i] = tasks[i]
      BY <2>1 DEF Types
    <3> QED BY <2>1, <3>1, <3>2, <3>3, <3>4 DEF MessagesOK
  <2>7. OnlyWhenReady'
    BY <2>1 DEF OnlyWhenReady, Types
  <2>8. CarriedOK'
    BY <2>1, <2>2 DEF CarriedOK, Scrubbed
  <2> QED BY <2>4, <2>5, <2>6, <2>7, <2>8
<1>3. CASE ~covered
  <2>1. /\ req[r].state = "idle" /\ ~req[r].covered /\ req[r].sent = None
        /\ req' = [req EXCEPT ![r] = [@ EXCEPT !.state = "sent", !.kind = kind,
                                               !.sent = Carries(r, NoMasks(BodyOf[r]))]]
        /\ UNCHANGED <<seq, pending, tasks, isolated, rules, queue>>
    BY <1>3 DEF send, PendingExact
  <2>2. /\ \A s \in Requests : s # r => req'[s] = req[s]
        /\ req'[r].state = "sent" /\ ~req'[r].covered
        /\ req'[r].sent = Carries(r, NoMasks(BodyOf[r]))
    <3>1. req[r] \in RequestRecords /\ DOMAIN req = Requests
      BY DEF Types
    <3> QED BY <2>1, <3>1 DEF RequestRecords
  <2>3. Covered' = Covered
    BY <2>1, <2>2 DEF Covered
  <2>4. Types'
    <3>1. Carries(r, NoMasks(BodyOf[r])) \in Carriable
      BY DEF AnyRaw, Carriable
    <3>2. req[r] \in RequestRecords
      BY DEF Types
    <3>3. [req[r] EXCEPT !.state = "sent", !.kind = kind,
                         !.sent = Carries(r, NoMasks(BodyOf[r]))] \in RequestRecords
      BY <3>1, <3>2 DEF RequestRecords
    <3> QED BY <2>1, <2>3, <3>3 DEF Types
  <2>5. PendingExact'
    BY <2>1, <2>2 DEF PendingExact, Types
  <2>6. MessagesOK' /\ OnlyWhenReady'
    BY <2>1 DEF MessagesOK, OnlyWhenReady, AskOK, AnswerOK, Scrubbed
  <2>7. CarriedOK'
    BY <2>1, <2>2 DEF CarriedOK, Carries, Scrubbed
  <2> QED BY <2>4, <2>5, <2>6, <2>7
<1> QED BY <1>2, <1>3

\* A waiting request that is resolved or rejected, once its entry is gone, with
\* the empty body or its own, scrubbed.
LEMMA Settled ==
    ASSUME IInv, NEW p \in pending, NEW c,
           pending' = pending \ {p},
           UNCHANGED <<seq, isolated, rules, queue>>,
           \/ tasks' = tasks
           \/ tasks # <<>> /\ tasks' = Tail(tasks),
           \/ req' = [req EXCEPT ![p[2]].state = "rejected"]
           \/ req' = Settle(p, c) /\ (c = Empty \/ (c = Scrubbed(p[2]) /\ isolated = "ready"))
    PROVE  IInv'
<1> DEFINE r == p[2]
<1> USE DEF IInv
<1>1. r \in Requests /\ req[r].state = "waiting" /\ req[r].covered
  BY DEF Types, PendingExact
<1>2. /\ \A s \in Requests : s # r => req'[s] = req[s]
      /\ req'[r].state \in {"sent", "rejected"}
      /\ req'[r].covered
      /\ \/ req'[r].sent = req[r].sent
         \/ req'[r].sent = c /\ (c = Empty \/ (c = Scrubbed(r) /\ isolated = "ready"))
  <2>1. req[r] \in RequestRecords /\ DOMAIN req = Requests
    BY <1>1 DEF Types
  <2> QED BY <1>1, <2>1, ZenonT(60) DEF RequestRecords, Settle
<1>3. Covered' = Covered
  BY <1>1, <1>2 DEF Covered
<1>4. Types'
  <2>1. c = Scrubbed(r) /\ isolated = "ready" => c \in AnyScrubbed
    BY <1>1 DEF OnlyWhenReady, AnyScrubbed, Scrubbed
  <2>2. req' \in [Requests -> RequestRecords]
    <3>1. c = Empty \/ c \in AnyScrubbed => c \in Carriable
      BY DEF Carriable
    <3>2. req[r] \in RequestRecords
      BY <1>1 DEF Types
    <3>3. [req[r] EXCEPT !.state = "rejected"] \in RequestRecords
      BY <3>2 DEF RequestRecords
    <3>4. c \in Carriable => [req[r] EXCEPT !.state = "sent", !.sent = c] \in RequestRecords
      BY <3>2 DEF RequestRecords
    <3> QED BY <1>1, <2>1, <3>1, <3>3, <3>4 DEF Types, Settle
  <2>3. tasks' \in Seq(Asks \cup Answers)
    <3> DEFINE M == Asks \cup Answers
    <3>1. tasks \in Seq(M)
      BY DEF Types
    <3> HIDE DEF M
    <3>2. tasks # <<>> => Tail(tasks) \in Seq(M)
      BY <3>1
    <3> QED BY <3>1, <3>2 DEF M
  <2> QED BY <1>3, <2>2, <2>3 DEF Types
<1>5. PendingExact'
  BY <1>1, <1>2 DEF PendingExact, Types
<1>6. MessagesOK' /\ OnlyWhenReady'
  <2>1. \A m : (AskOK(m) => AskOK(m)') /\ (AnswerOK(m) => AnswerOK(m)')
    BY DEF AskOK, AnswerOK, Scrubbed
  <2>2. \A i \in DOMAIN tasks' : \E j \in DOMAIN tasks : tasks'[i] = tasks[j]
    <3>1. CASE tasks' = Tail(tasks) /\ tasks # <<>>
      <4>1. \A i \in DOMAIN tasks' : i + 1 \in DOMAIN tasks /\ tasks'[i] = tasks[i + 1]
        BY <3>1 DEF Types
      <4> QED BY <4>1
    <3> QED BY <3>1
  <2> QED BY <2>1, <2>2 DEF MessagesOK, OnlyWhenReady
<1>7. CarriedOK'
  BY <1>1, <1>2 DEF CarriedOK, Scrubbed, Empty, Carries
<1> QED BY <1>4, <1>5, <1>6, <1>7

\* The timer of a request.
LEMMA StepTimeout ==
    ASSUME IInv, NEW p \in pending, timeout(p)
    PROVE  IInv'
BY Settled DEF timeout

\* The script is injected or its boot fails: no answer was given yet.
LEMMA StepInject ==
    ASSUME IInv, inject \/ boot_fails
    PROVE  IInv'
<1>1. /\ isolated \in {"absent", "booting"} /\ isolated' \in {"booting", "failed"}
      /\ UNCHANGED <<req, seq, pending, tasks, rules, queue>>
  BY DEF inject, boot_fails
<1>2. Types' /\ PendingExact' /\ MessagesOK'
  BY <1>1 DEF IInv, Types, Covered, PendingExact, MessagesOK, AskOK, AnswerOK, Scrubbed
<1>3. OnlyWhenReady' /\ CarriedOK'
  BY <1>1 DEF IInv, OnlyWhenReady, CarriedOK, Scrubbed
<1> QED BY <1>2, <1>3 DEF IInv

\* An answer is about the request its message is about.
LEMMA HandleOK ==
    ASSUME IInv, NEW m \in Asks, AskOK(m), NEW thrown,
           rules' \in Loads, UNCHANGED <<seq, pending>>,
           NEW a, a = handle(m, thrown)
    PROVE  a \in Answers /\ AnswerOK(a)'
<1> DEFINE b == IF thrown THEN Empty ELSE Carries(m.of, redact_json(rules', BodyOf[m.of]))
<1>1. a = [type |-> "redacted", id |-> m.id, body |-> b]
  BY DEF handle
<1>2. b \in {Empty} \cup AnyScrubbed
  BY DEF AnyScrubbed, Asks
<1>3. m.id \in Nat
  BY DEF Asks
<1>4. \A p \in pending : p[1] = m.id => b \in {Empty, Scrubbed(p[2])'}
  BY DEF AskOK, Scrubbed
<1> HIDE DEF b
<1>5. a \in Answers
  BY <1>1, <1>2, <1>3 DEF Answers
<1>6. a.id = m.id /\ a.body = b
  BY <1>1
<1>7. AnswerOK(a)'
  BY <1>4, <1>6 DEF AnswerOK, AskOK
<1> QED BY <1>5, <1>7

\* boot answers what has arrived.
LEMMA StepBoot ==
    ASSUME IInv, NEW load \in Loads, NEW thrown, boot(load, thrown)
    PROVE  IInv'
<1> DEFINE H(i) == handle(queue[i], queue[i].id \in thrown)
           new  == [i \in DOMAIN queue |-> H(i)]
<1> USE DEF IInv
<1>1. /\ isolated = "booting" /\ isolated' = "ready"
      /\ rules' = load
      /\ tasks' = tasks \o new
      /\ queue' = <<>>
      /\ UNCHANGED <<req, seq, pending>>
  BY DEF boot
<1>2. /\ queue \in Seq(Asks) /\ DOMAIN queue = 1..Len(queue) /\ Len(queue) \in Nat
      /\ tasks \in Seq(Asks \cup Answers)
  BY DEF Types
<1>3. \A i \in DOMAIN queue : queue[i] \in Asks /\ AskOK(queue[i])
  BY <1>2 DEF MessagesOK
<1>4. \A i \in DOMAIN queue : \A a : a = H(i) => a \in Answers /\ AnswerOK(a)'
  <2> SUFFICES ASSUME NEW i \in DOMAIN queue, NEW a, a = H(i)
               PROVE  a \in Answers /\ AnswerOK(a)'
    OBVIOUS
  <2>1. queue[i] \in Asks /\ AskOK(queue[i])
    BY <1>3
  <2>2. PICK m \in Asks : m = queue[i]
    BY <2>1
  <2>4. a = handle(m, m.id \in thrown)
    BY <2>2
  <2> HIDE DEF H
  <2>3. AskOK(m) /\ rules' \in Loads /\ UNCHANGED <<seq, pending>>
    BY <1>1, <2>1, <2>2
  <2> QED BY <2>3, <2>4, HandleOK
<1> HIDE DEF H
<1>5. new \in Seq(Answers) /\ Len(new) = Len(queue) /\ \A i \in 1..Len(queue) : new[i] = H(i)
  BY <1>2, <1>4
<1> HIDE DEF new
<1>6. /\ tasks' \in Seq(Asks \cup Answers)
      /\ \A i \in DOMAIN tasks' :
           \/ i \in DOMAIN tasks /\ tasks'[i] = tasks[i]
           \/ \E j \in DOMAIN queue : tasks'[i] = H(j)
  <2> DEFINE M == Asks \cup Answers
  <2>1. tasks \in Seq(M) /\ new \in Seq(M)
    BY <1>2, <1>5
  <2> HIDE DEF M
  <2>2. /\ tasks' \in Seq(M) /\ Len(tasks') = Len(tasks) + Len(new)
        /\ \A i \in 1..Len(tasks) : tasks'[i] = tasks[i]
        /\ \A i \in 1..Len(new) : tasks'[Len(tasks) + i] = new[i]
    BY <1>1, <2>1
  <2>3. ASSUME NEW i \in DOMAIN tasks', i \notin 1..Len(tasks)
        PROVE  \E j \in DOMAIN queue : tasks'[i] = H(j)
    <3>1. i - Len(tasks) \in 1..Len(new) /\ i = Len(tasks) + (i - Len(tasks))
      BY <2>1, <2>2, <2>3
    <3> QED BY <1>2, <1>5, <2>2, <3>1
  <2> QED BY <2>1, <2>2, <2>3, SMTT(30) DEF M
<1>7. \A i \in DOMAIN tasks : tasks[i].type = "redact" /\ AskOK(tasks[i])
  <2>1. \A i \in DOMAIN tasks : tasks[i].type \in {"redact", "redacted"}
    BY <1>2 DEF Asks, Answers
  <2> QED BY <1>1, <2>1 DEF MessagesOK, OnlyWhenReady
<1>8. Types'
  <2>1. queue' \in Seq(Asks)
    BY <1>1
  <2>2. Covered' = Covered
    BY <1>1 DEF Covered
  <2>3. tasks' \in Seq(Asks \cup Answers)
    BY <1>6
  <2> QED BY <1>1, <2>1, <2>2, <2>3 DEF Types
<1>9. PendingExact'
  BY <1>1 DEF PendingExact
<1>10. MessagesOK'
  <2>1. \A m : AskOK(m) => AskOK(m)'
    BY <1>1 DEF AskOK
  <2>2. \A j \in DOMAIN queue : H(j).type = "redacted"
    BY <1>4 DEF Answers
  <2>3. ASSUME NEW i \in DOMAIN tasks'
        PROVE  (IF tasks[i].type = "redact" THEN AskOK(tasks[i]) ELSE AnswerOK(tasks[i]))'
    <3>1. CASE i \in DOMAIN tasks /\ tasks'[i] = tasks[i]
      BY <1>7, <2>1, <3>1
    <3>2. ASSUME NEW j \in DOMAIN queue, tasks'[i] = H(j)
          PROVE  (IF tasks[i].type = "redact" THEN AskOK(tasks[i]) ELSE AnswerOK(tasks[i]))'
      BY <1>4, <2>2, <3>2
    <3> QED BY <1>6, <3>1, <3>2
  <2> QED BY <1>1, <2>3 DEF MessagesOK
<1>11. OnlyWhenReady' /\ CarriedOK'
  BY <1>1 DEF OnlyWhenReady, CarriedOK, Scrubbed
<1> QED BY <1>8, <1>9, <1>10, <1>11

\* The isolated listener.
LEMMA StepDeliverRedact ==
    ASSUME IInv, NEW thrown \in BOOLEAN, deliver_redact(thrown)
    PROVE  IInv'
<1> DEFINE m == Head(tasks)
           h == handle(m, thrown)
<1> USE DEF IInv
<1>1. /\ tasks # <<>> /\ m.type = "redact"
      /\ UNCHANGED <<req, seq, pending, isolated, rules>>
      /\ tasks' = IF isolated = "ready" THEN Append(Tail(tasks), h) ELSE Tail(tasks)
      /\ queue' = IF isolated \in {"booting", "failed"} THEN Append(queue, m) ELSE queue
  BY DEF deliver_redact
<1>2. tasks \in Seq(Asks \cup Answers) /\ queue \in Seq(Asks)
  BY DEF Types
<1>3. 1 \in DOMAIN tasks /\ m = tasks[1] /\ m \in Asks \cup Answers
  BY <1>1, <1>2
<1>4. m \in Asks /\ AskOK(m)
  BY <1>1, <1>3 DEF MessagesOK, Answers
<1>5. isolated = "ready" => \A a : a = h => a \in Answers /\ AnswerOK(a)'
  <2> SUFFICES ASSUME isolated = "ready", NEW a, a = h
               PROVE  a \in Answers /\ AnswerOK(a)'
    OBVIOUS
  <2>1. rules' \in Loads /\ UNCHANGED <<seq, pending>>
    BY <1>1 DEF OnlyWhenReady
  <2>2. PICK k \in Asks : k = m
    BY <1>4
  <2>3. AskOK(k) /\ a = handle(k, thrown)
    BY <1>4, <2>2
  <2> QED BY <2>1, <2>3, HandleOK
<1>6. /\ Tail(tasks) \in Seq(Asks \cup Answers) /\ Len(Tail(tasks)) = Len(tasks) - 1
      /\ \A i \in 1..(Len(tasks) - 1) : i + 1 \in DOMAIN tasks /\ Tail(tasks)[i] = tasks[i + 1]
  BY <1>1, <1>2
<1> HIDE DEF h
<1>7. /\ tasks' \in Seq(Asks \cup Answers)
      /\ \A i \in DOMAIN tasks' :
           \/ \E j \in DOMAIN tasks : tasks'[i] = tasks[j]
           \/ isolated = "ready" /\ tasks'[i] = h
  <2>1. CASE isolated = "ready"
    <3>1. tasks' = Append(Tail(tasks), h)
      BY <1>1, <2>1
    <3>2. /\ tasks' \in Seq(Asks \cup Answers) /\ Len(tasks') = Len(tasks)
          /\ tasks'[Len(tasks)] = h
          /\ \A i \in 1..(Len(tasks) - 1) : tasks'[i] = Tail(tasks)[i]
      BY <1>1, <1>2, <1>5, <1>6, <2>1, <3>1
    <3>3. ASSUME NEW i \in DOMAIN tasks'
          PROVE  (\E j \in DOMAIN tasks : tasks'[i] = tasks[j]) \/ tasks'[i] = h
      <4>1. i = Len(tasks) \/ i \in 1..(Len(tasks) - 1)
        BY <1>2, <3>2
      <4> QED BY <1>6, <3>2, <4>1
    <3> QED BY <2>1, <3>2, <3>3
  <2>2. CASE isolated # "ready"
    BY <1>1, <1>2, <1>6, <2>2
  <2> QED BY <2>1, <2>2
<1>8. /\ queue' \in Seq(Asks)
      /\ \A i \in DOMAIN queue' : (\E j \in DOMAIN queue : queue'[i] = queue[j]) \/ queue'[i] = m
  <2> HIDE DEF m
  <2> QED BY <1>1, <1>2, <1>4
<1>9. Types' /\ PendingExact'
  BY <1>1, <1>7, <1>8 DEF Types, PendingExact, Covered
<1>10. MessagesOK' /\ OnlyWhenReady'
  <2>1. \A a : (AskOK(a) => AskOK(a)') /\ (AnswerOK(a) => AnswerOK(a)')
    BY <1>1 DEF AskOK, AnswerOK, Scrubbed
  <2>2. isolated = "ready" => h.type = "redacted"
    BY <1>5 DEF Answers
  <2>3. ASSUME NEW i \in DOMAIN tasks'
        PROVE  (IF tasks[i].type = "redact" THEN AskOK(tasks[i]) ELSE AnswerOK(tasks[i]))'
    <3>1. ASSUME NEW j \in DOMAIN tasks, tasks'[i] = tasks[j]
          PROVE  (IF tasks[i].type = "redact" THEN AskOK(tasks[i]) ELSE AnswerOK(tasks[i]))'
      BY <2>1, <3>1 DEF MessagesOK
    <3>2. CASE isolated = "ready" /\ tasks'[i] = h
      BY <1>5, <2>2, <3>2
    <3> QED BY <1>7, <3>1, <3>2
  <2>4. ASSUME NEW i \in DOMAIN queue'
        PROVE  AskOK(queue[i])'
    <3> HIDE DEF m
    <3> QED BY <1>4, <1>8, <2>1 DEF MessagesOK
  <2>5. OnlyWhenReady'
    BY <1>1, <1>7 DEF OnlyWhenReady
  <2> QED BY <2>3, <2>4, <2>5 DEF MessagesOK
<1>11. CarriedOK'
  BY <1>1 DEF CarriedOK, Scrubbed
<1> QED BY <1>9, <1>10, <1>11

\* The MAIN listener: one request waits for the answer, or none does.
LEMMA StepDeliverRedacted ==
    ASSUME IInv, deliver_redacted
    PROVE  IInv'
<1> DEFINE m == Head(tasks)
           answered == {p \in pending : p[1] = m.id}
<1> USE DEF IInv
<1>1. /\ tasks # <<>> /\ m.type = "redacted" /\ tasks' = Tail(tasks)
      /\ pending' = pending \ answered
      /\ req' = IF answered = {} THEN req ELSE Settle(CHOOSE p \in answered : TRUE, m.body)
      /\ UNCHANGED <<seq, isolated, rules, queue>>
  BY DEF deliver_redacted
<1>2. tasks \in Seq(Asks \cup Answers)
  BY DEF Types
<1>3. 1 \in DOMAIN tasks /\ m = tasks[1]
  BY <1>1, <1>2
<1>4. isolated = "ready" /\ AnswerOK(m)
  BY <1>1, <1>3 DEF MessagesOK, OnlyWhenReady
<1>5. CASE answered = {}
  <2>1. UNCHANGED <<req, pending, seq, isolated, rules, queue>>
    BY <1>1, <1>5
  <2>2. /\ tasks' \in Seq(Asks \cup Answers)
        /\ \A i \in DOMAIN tasks' : \E j \in DOMAIN tasks : tasks'[i] = tasks[j]
    BY <1>1, <1>2
  <2>3. Types' /\ PendingExact' /\ CarriedOK'
    BY <2>1, <2>2 DEF Types, Covered, PendingExact, CarriedOK, Scrubbed
  <2>4. \A a : (AskOK(a) => AskOK(a)') /\ (AnswerOK(a) => AnswerOK(a)')
    BY <2>1 DEF AskOK, AnswerOK, Scrubbed
  <2>5. MessagesOK' /\ OnlyWhenReady'
    BY <2>1, <2>2, <2>4 DEF MessagesOK, OnlyWhenReady
  <2> QED BY <2>3, <2>5
<1>6. CASE answered # {}
  <2>1. PICK p \in answered : p = CHOOSE q \in answered : TRUE
    BY <1>6
  <2>2. answered = {p} /\ p \in pending
    BY <2>1 DEF PendingExact
  <2>3. m.body \in {Empty, Scrubbed(p[2])}
    BY <1>4, <2>1 DEF AnswerOK
  <2>4. req' = Settle(p, m.body) /\ pending' = pending \ {p}
    BY <1>1, <1>6, <2>1, <2>2
  <2> QED BY <1>1, <1>4, <2>2, <2>3, <2>4, Settled
<1> QED BY <1>5, <1>6

--------------------------------------------------------------------------------
(* What redact_string masks                                                 *)

\* Of a set of numbers one is the least.
LEMMA Least ==
    ASSUME NEW T \in SUBSET Nat, T # {}
    PROVE  \E x \in T : \A y \in T : x <= y
<1> DEFINE R == {ss \in Nat \X Nat : ss[1] < ss[2]}
<1>1. IsWellFoundedOn(R, Nat)
  BY NatLessThanWellFounded DEF OpToRel
<1>2. \A x, y \in Nat : x < y => <<x, y>> \in R
  OBVIOUS
<1> HIDE DEF R
<1>3. PICK x \in T : \A y \in T : <<y, x>> \notin R
  BY <1>1, WFMin
<1>4. \A y \in T : ~(y < x)
  BY <1>2, <1>3
<1> QED BY <1>3, <1>4

\* F are findings in a text of n characters.
Spans(F, n) ==
    \A f \in F : /\ f.start \in Nat /\ f.end \in Nat /\ f.start < f.end /\ f.end <= n
                 /\ f.action \in Actions

\* One of them comes first: it starts first, ends last of those that start with
\* it, and has the strictest action of those that are equally long.
LEMMA OneComesFirst ==
    ASSUME NEW n \in Nat, NEW F, Spans(F, n), F # {}
    PROVE  \E f \in F : \A g \in F : precedes(f, g)
<1>1. \A f \in F : /\ f.start \in Nat /\ f.end \in Nat /\ f.end <= n
                   /\ rank(f.action) \in 0..3
  BY DEF Spans, Actions, rank
<1> DEFINE Starts == {f.start : f \in F}
<1>2. PICK x \in Starts : \A y \in Starts : x <= y
  <2>1. Starts \in SUBSET Nat /\ Starts # {}
    BY <1>1
  <2> HIDE DEF Starts
  <2> QED BY <2>1, Least
<1> DEFINE F1 == {f \in F : f.start = x}
           Gaps == {n - f.end : f \in F1}
<1>3. PICK p \in Gaps : \A y \in Gaps : p <= y
  <2>1. Gaps \in SUBSET Nat /\ Gaps # {}
    BY <1>1, <1>2
  <2> HIDE DEF Gaps
  <2> QED BY <2>1, Least
<1> DEFINE F2 == {f \in F1 : n - f.end = p}
           Ranks == {3 - rank(f.action) : f \in F2}
<1>4. PICK q \in Ranks : \A y \in Ranks : q <= y
  <2>1. Ranks \in SUBSET Nat /\ Ranks # {}
    BY <1>1, <1>3
  <2> HIDE DEF Ranks
  <2> QED BY <2>1, Least
<1>5. PICK f \in F2 : 3 - rank(f.action) = q
  BY <1>4
<1>6. ASSUME NEW g \in F PROVE precedes(f, g)
  <2>1. x <= g.start /\ f.start = x
    BY <1>2, <1>5
  <2>2. CASE g.start = x
    <3>1. g \in F1 /\ p <= n - g.end /\ n - f.end = p
      BY <1>3, <1>5, <2>2
    <3>2. CASE n - g.end = p
      <4>1. q <= 3 - rank(g.action)
        BY <1>4, <3>1, <3>2
      <4>2. rank(f.action) >= rank(g.action)
        BY <1>1, <1>5, <4>1
      <4>3. f.end = g.end
        BY <1>1, <3>1, <3>2
      <4> QED BY <2>1, <2>2, <4>2, <4>3 DEF precedes
    <3>3. CASE n - g.end # p
      <4>1. f.end > g.end
        BY <1>1, <3>1, <3>3
      <4> QED BY <2>1, <2>2, <4>1 DEF precedes
    <3> QED BY <3>2, <3>3
  <2>3. CASE g.start # x
    <3>1. f.start < g.start
      BY <1>1, <2>1, <2>3
    <3> QED BY <3>1 DEF precedes
  <2> QED BY <2>2, <2>3
<1> QED BY <1>6

\* What is left of F where the text is occupied up to o, the finding taken
\* next, and where the text may be occupied up to.
Left(F, o) == {f \in F : f.start >= o}
Foremost(F, o) == CHOOSE f \in Left(F, o) : \A g \in Left(F, o) : precedes(f, g)
Ends(F) == {0} \cup {f.end : f \in F}

LEMMA ForemostIs ==
    ASSUME NEW n \in Nat, NEW F, Spans(F, n), NEW o \in Nat, Left(F, o) # {}
    PROVE  /\ Foremost(F, o) \in F
           /\ Foremost(F, o).start >= o
           /\ Foremost(F, o).end \in Ends(F)
           /\ Foremost(F, o).end > o
           /\ \A g \in Left(F, o) : precedes(Foremost(F, o), g)
<1>1. Spans(Left(F, o), n)
  BY DEF Spans, Left
<1>2. \E f \in Left(F, o) : \A g \in Left(F, o) : precedes(f, g)
  BY <1>1, OneComesFirst
<1>3. /\ Foremost(F, o) \in Left(F, o)
      /\ \A g \in Left(F, o) : precedes(Foremost(F, o), g)
  BY <1>2 DEF Foremost
<1>4. Foremost(F, o) \in F /\ Foremost(F, o).start >= o
  BY <1>3 DEF Left
<1>5. Foremost(F, o).end > o
  BY <1>4 DEF Spans
<1>6. Foremost(F, o).end \in Ends(F)
  BY <1>4 DEF Ends
<1> QED BY <1>3, <1>4, <1>5, <1>6

\* The value of "from" (kept) at o.
TakenAt(from, F, o) ==
    IF Left(F, o) = {} THEN {} ELSE {Foremost(F, o)} \cup from[Foremost(F, o).end]

\* "from" is what kept defines, on E.
Keeps(from, F, E) == from = [o \in E |-> TakenAt(from, F, o)]

LEMMA KeepsAt ==
    ASSUME NEW F, NEW E, NEW from, Keeps(from, F, E), NEW o \in E
    PROVE  from[o] = TakenAt(from, F, o)
BY DEF Keeps

\* Such a function exists on the last m of the places, for every m.
LEMMA KeepsExist ==
    ASSUME NEW n \in Nat, NEW F, Spans(F, n), NEW m \in Nat
    PROVE  \E from : Keeps(from, F, {o \in Ends(F) : n <= o + m})
<1> DEFINE Late(k) == {o \in Ends(F) : n <= o + k}
           T == {k \in Nat : ~\E from : Keeps(from, F, Late(k))}
<1> SUFFICES ASSUME T # {} PROVE FALSE
  OBVIOUS
<1>1. T \in SUBSET Nat
  OBVIOUS
<1>2. PICK k \in T : \A j \in T : k <= j
  BY <1>1, Least
<1>3. k \in Nat /\ ~\E from : Keeps(from, F, Late(k))
  OBVIOUS
<1>4. Ends(F) \subseteq Nat
  BY DEF Ends, Spans
<1>5. CASE k = 0
  <2>1. \A o \in Late(k) : Left(F, o) = {}
    BY <1>4, <1>5 DEF Left, Spans
  <2> DEFINE from == [o \in Late(k) |-> {}]
  <2>2. Keeps(from, F, Late(k))
    BY <2>1 DEF Keeps, TakenAt
  <2> QED BY <1>3, <2>2
<1>6. CASE k # 0
  <2>1. k - 1 \in Nat /\ k - 1 \notin T
    <3>1. k - 1 \in Nat /\ ~(k <= k - 1)
      BY <1>3, <1>6
    <3> QED BY <1>2, <3>1
  <2>2. PICK g : Keeps(g, F, Late(k - 1))
    BY <2>1
  <2> DEFINE from == [o \in Late(k) |-> IF o \in Late(k - 1) THEN g[o] ELSE TakenAt(g, F, o)]
  <2>3. ASSUME NEW o \in Late(k) PROVE from[o] = TakenAt(from, F, o)
    <3>1. from[o] = TakenAt(g, F, o)
      BY <2>2, KeepsAt
    <3>2. CASE Left(F, o) = {}
      BY <3>1, <3>2 DEF TakenAt
    <3>3. CASE Left(F, o) # {}
      <4> DEFINE f == Foremost(F, o)
      <4>1. f.end \in Ends(F) /\ f.end > o /\ o \in Nat
        BY <1>4, <3>3, ForemostIs
      <4> HIDE DEF f
      <4>2. f.end \in Late(k - 1) /\ f.end \in Late(k)
        BY <1>3, <1>4, <1>6, <4>1
      <4>3. from[f.end] = g[f.end]
        BY <4>2
      <4> QED BY <3>1, <3>3, <4>3 DEF TakenAt, f
    <3> QED BY <3>2, <3>3
  <2>4. from = [o \in Late(k) |-> from[o]]
    OBVIOUS
  <2> HIDE DEF from
  <2>5. Keeps(from, F, Late(k))
    BY <2>3, <2>4 DEF Keeps
  <2> QED BY <1>3, <2>5
<1> QED BY <1>5, <1>6

LEMMA KeptIs ==
    ASSUME NEW n \in Nat, NEW F, Spans(F, n)
    PROVE  \E from : Keeps(from, F, Ends(F)) /\ kept(F) = from[0]
<1> DEFINE from == CHOOSE h : h = [o \in Ends(F) |-> TakenAt(h, F, o)]
<1>1. kept(F) = from[0]
  BY DEF kept, TakenAt, Left, Foremost, Ends
<1>2. {o \in Ends(F) : n <= o + n} = Ends(F)
  BY DEF Ends, Spans
<1>3. \E h : h = [o \in Ends(F) |-> TakenAt(h, F, o)]
  BY <1>2, KeepsExist DEF Keeps
<1>4. from = [o \in Ends(F) |-> TakenAt(from, F, o)]
  BY <1>3
<1> HIDE DEF from
<1> QED BY <1>1, <1>4 DEF Keeps

\* What is kept are findings.
LEMMA KeptWithin ==
    ASSUME NEW n \in Nat, NEW F, Spans(F, n)
    PROVE  kept(F) \subseteq F
<1>1. PICK from : Keeps(from, F, Ends(F)) /\ kept(F) = from[0]
  BY KeptIs
<1> DEFINE T == {k \in Nat : \E o \in Ends(F) : k + o = n /\ ~(from[o] \subseteq F)}
<1>2. \A o \in Ends(F) : o \in 0..n
  BY DEF Ends, Spans
<1>3. T = {}
  <2> SUFFICES ASSUME T # {} PROVE FALSE
    OBVIOUS
  <2>1. T \in SUBSET Nat
    OBVIOUS
  <2>2. PICK k \in T : \A j \in T : k <= j
    BY <2>1, Least
  <2>3. PICK o \in Ends(F) : k + o = n /\ ~(from[o] \subseteq F)
    BY <2>2
  <2>4. from[o] = TakenAt(from, F, o)
    BY <1>1, KeepsAt
  <2>5. Left(F, o) # {}
    BY <2>3, <2>4 DEF TakenAt
  <2> DEFINE f == Foremost(F, o)
  <2>6. f \in F /\ f.end \in Ends(F) /\ f.end > o
    BY <1>2, <2>5, ForemostIs
  <2>7. from[o] = {f} \cup from[f.end]
    BY <2>4, <2>5 DEF TakenAt
  <2> HIDE DEF f
  <2>8. from[f.end] \subseteq F
    <3>1. n - f.end \in Nat /\ ~(k <= n - f.end) /\ (n - f.end) + f.end = n
      BY <1>2, <2>3, <2>6
    <3>2. n - f.end \notin T
      BY <2>2, <3>1
    <3> QED BY <2>6, <3>1, <3>2
  <2> QED BY <2>3, <2>6, <2>7, <2>8
<1>4. from[0] \subseteq F
  <2>1. 0 \in Ends(F) /\ n + 0 = n
    BY DEF Ends
  <2>2. n \notin T
    BY <1>3
  <2> QED BY <2>1, <2>2
<1> QED BY <1>1, <1>4

\* Findings with the same span and the same action.
Twins(f, g) == f.start = g.start /\ f.end = g.end /\ f.action = g.action

Alike(F, G) ==
    /\ \A f \in F : \E g \in G : Twins(f, g)
    /\ \A g \in G : \E f \in F : Twins(f, g)

\* Of two sets that are alike the foremost findings have one span.
LEMMA SameForemost ==
    ASSUME NEW n \in Nat, NEW F, NEW G, Spans(F, n), Spans(G, n), Alike(F, G),
           NEW o \in Nat, Left(F, o) # {}
    PROVE  /\ Left(G, o) # {}
           /\ Foremost(F, o).start = Foremost(G, o).start
           /\ Foremost(F, o).end = Foremost(G, o).end
<1> DEFINE f == Foremost(F, o)
           g == Foremost(G, o)
<1>1. f \in F /\ f.start >= o /\ \A x \in Left(F, o) : precedes(f, x)
  BY ForemostIs
<1> HIDE DEF f
<1>2. PICK y \in G : Twins(f, y)
  BY <1>1 DEF Alike
<1>3. y \in Left(G, o)
  BY <1>1, <1>2 DEF Twins, Left
<1>4. g \in G /\ g.start >= o /\ precedes(g, y)
  BY <1>3, ForemostIs
<1> HIDE DEF g
<1>5. PICK x \in F : Twins(x, g)
  BY <1>4 DEF Alike
<1>6. x \in Left(F, o)
  BY <1>4, <1>5 DEF Twins, Left
<1>7. precedes(f, x)
  BY <1>1, <1>6
<1>8. /\ f.start \in Nat /\ f.end \in Nat /\ g.start \in Nat /\ g.end \in Nat
      /\ y.start = f.start /\ y.end = f.end /\ x.start = g.start /\ x.end = g.end
  BY <1>1, <1>2, <1>4, <1>5 DEF Spans, Twins
<1>9. g.start < f.start \/ (g.start = f.start /\ g.end >= f.end)
  BY <1>4, <1>8 DEF precedes
<1>10. f.start < g.start \/ (f.start = g.start /\ f.end >= g.end)
  BY <1>7, <1>8 DEF precedes
<1>11. f.start = g.start /\ f.end = g.end
  BY <1>8, <1>9, <1>10
<1> QED BY <1>3, <1>11 DEF f, g

AllPositions(F) == UNION {positions(f) : f \in F}

\* redact_text masks the same where the findings are alike: it reads of a
\* finding its span and its action only.
LEMMA SameKept ==
    ASSUME NEW n \in Nat, NEW F, NEW G, Spans(F, n), Spans(G, n), Alike(F, G)
    PROVE  AllPositions(kept(F)) = AllPositions(kept(G))
<1>1. PICK from : Keeps(from, F, Ends(F)) /\ kept(F) = from[0]
  BY KeptIs
<1>2. PICK also : Keeps(also, G, Ends(G)) /\ kept(G) = also[0]
  BY KeptIs
<1>3. Ends(F) = Ends(G)
  BY DEF Ends, Alike, Twins
<1> DEFINE Same(o) == AllPositions(from[o]) = AllPositions(also[o])
           T == {k \in Nat : \E o \in Ends(F) : k + o = n /\ ~Same(o)}
<1>4. \A o \in Ends(F) : o \in 0..n
  BY DEF Ends, Spans
<1>5. T = {}
  <2> SUFFICES ASSUME T # {} PROVE FALSE
    OBVIOUS
  <2>1. T \in SUBSET Nat
    OBVIOUS
  <2>2. PICK k \in T : \A j \in T : k <= j
    BY <2>1, Least
  <2>3. PICK o \in Ends(F) : k + o = n /\ ~Same(o)
    BY <2>2
  <2>4. o \in Nat /\ o \in Ends(G)
    BY <1>3, <1>4
  <2>5. from[o] = TakenAt(from, F, o) /\ also[o] = TakenAt(also, G, o)
    BY <1>1, <1>2, <2>4, KeepsAt
  <2>6. CASE Left(F, o) = {}
    <3>1. Left(G, o) = {}
      BY <2>6 DEF Left, Alike, Twins
    <3> QED BY <2>3, <2>5, <2>6, <3>1 DEF TakenAt
  <2>7. CASE Left(F, o) # {}
    <3> DEFINE f == Foremost(F, o)
               g == Foremost(G, o)
    <3>1. Left(G, o) # {} /\ f.start = g.start /\ f.end = g.end
      BY <2>4, <2>7, SameForemost
    <3>2. f.end \in Ends(F) /\ f.end > o
      BY <2>4, <2>7, ForemostIs
    <3>3. from[o] = {f} \cup from[f.end] /\ also[o] = {g} \cup also[g.end]
      BY <2>5, <2>7, <3>1 DEF TakenAt
    <3> HIDE DEF f, g
    <3>4. Same(f.end)
      <4>1. n - f.end \in Nat /\ ~(k <= n - f.end) /\ (n - f.end) + f.end = n
        BY <1>4, <2>3, <3>2
      <4>2. n - f.end \notin T
        BY <2>2, <4>1
      <4> QED BY <3>2, <4>1, <4>2
    <3>5. positions(f) = positions(g)
      BY <3>1 DEF positions
    <3>6. AllPositions(from[o]) = positions(f) \cup AllPositions(from[f.end])
      BY <3>3 DEF AllPositions
    <3>7. AllPositions(also[o]) = positions(g) \cup AllPositions(also[g.end])
      BY <3>3 DEF AllPositions
    <3>8. AllPositions(from[f.end]) = AllPositions(also[g.end])
      BY <3>1, <3>4
    <3> HIDE DEF Same
    <3>9. Same(o)
      BY <3>5, <3>6, <3>7, <3>8 DEF Same
    <3> QED BY <2>3, <3>9
  <2> QED BY <2>6, <2>7
<1>6. Same(0)
  <2>1. 0 \in Ends(F) /\ n + 0 = n
    BY DEF Ends
  <2>2. n \notin T
    BY <1>5
  <2> QED BY <2>1, <2>2
<1> QED BY <1>1, <1>2, <1>6

\* The detector's findings in a string, wherever it stands.
Finding(load, principal, h, pointer, at) ==
    [at |-> at, pointer |-> pointer, start |-> h.start, end |-> h.end, label |-> h.label,
     action |-> action_for(load.rules, principal, h.label)]

LEMMA FindingsAre ==
    ASSUME NEW load \in Loads, NEW principal, NEW text, NEW pointer, NEW at,
           string_holds(load, text)
    PROVE  /\ \A f \in findings_in(load, principal, text, pointer, at) :
                \E h \in text.hits : f = Finding(load, principal, h, pointer, at)
           /\ \A h \in text.hits :
                Finding(load, principal, h, pointer, at)
                    \in findings_in(load, principal, text, pointer, at)
<1>1. load.presidio = "off"
  BY ExtBridgeAssumption
<1>2. analyze(load, text) = {}
  BY <1>1 DEF analyze
<1>3. scan_text(text) = text.hits
  BY DEF scan_text, string_holds
<1> QED BY <1>2, <1>3 DEF findings_in, Finding

\* They are spans of the string, and their labels have rules.
LEMMA FindingsSpan ==
    ASSUME NEW load \in Loads, NEW principal, NEW text, NEW pointer, NEW at,
           string_holds(load, text)
    PROVE  /\ Spans(findings_in(load, principal, text, pointer, at), text.len)
           /\ \A f \in findings_in(load, principal, text, pointer, at) :
                f.label \in DOMAIN load.rules
<1> SUFFICES ASSUME NEW f \in findings_in(load, principal, text, pointer, at)
             PROVE  /\ f.start \in Nat /\ f.end \in Nat /\ f.start < f.end /\ f.end <= text.len
                    /\ f.action \in Actions /\ f.label \in DOMAIN load.rules
  BY DEF Spans
<1>1. PICK h \in text.hits : f = Finding(load, principal, h, pointer, at)
  BY FindingsAre
<1>2. /\ h.start \in Nat /\ h.end \in Nat /\ h.label \in DOMAIN load.rules
      /\ h.start < h.end /\ h.end <= text.len
  BY DEF string_holds
<1>3. action_for(load.rules, principal, h.label) \in Actions
  BY <1>2, ExtBridgeAssumption DEF action_for
<1> QED BY <1>1, <1>2, <1>3 DEF Finding

\* Masking them never fails: no rule tokenizes and no span leaves the string.
LEMMA MaskingWorks ==
    ASSUME NEW load \in Loads, NEW principal, NEW text, NEW pointer, NEW at,
           string_holds(load, text)
    PROVE  ~redact_fails(load, text, findings_in(load, principal, text, pointer, at))
<1> DEFINE F == findings_in(load, principal, text, pointer, at)
<1>1. Spans(F, text.len) /\ text.len \in Nat /\ \A f \in F : f.label \in DOMAIN load.rules
  BY FindingsSpan DEF string_holds
<1> HIDE DEF F
<1>2. Spans(selected(F), text.len)
  BY <1>1 DEF Spans, selected
<1>3. kept(selected(F)) \subseteq selected(F)
  BY <1>1, <1>2, KeptWithin
<1>4. \A f \in kept(selected(F)) : f.label \in DOMAIN load.rules /\ ~(f.end > text.len)
  BY <1>1, <1>2, <1>3 DEF selected, Spans
<1>5. \A l \in DOMAIN load.rules : load.rules[l].masking # "tokenize"
  BY ExtBridgeAssumption
<1>6. ~redact_fails(load, text, F)
  BY <1>4, <1>5 DEF redact_fails, mask_fails
<1> QED BY <1>6 DEF F

\* redact_string masks what the gateway masks of the same text.
LEMMA StringMasked ==
    ASSUME NEW load \in Loads, NEW text, NEW pointer, NEW at, string_holds(load, text)
    PROVE  redact_string(load, text)
               = masked_by(findings_in(load, local_principal, text, pointer, at))
<1> DEFINE F == findings_in(load, local_principal, text, <<"/">>, <<1, 1>>)
           G == findings_in(load, local_principal, text, pointer, at)
<1>1. ~redact_fails(load, text, F)
  BY MaskingWorks
<1>2. redact_string(load, text) = masked_by(F)
  BY <1>1 DEF redact_string
<1>3. Spans(F, text.len) /\ Spans(G, text.len) /\ text.len \in Nat
  BY FindingsSpan DEF string_holds
<1>4. ASSUME NEW h \in text.hits
      PROVE  /\ Finding(load, local_principal, h, <<"/">>, <<1, 1>>) \in F
             /\ Finding(load, local_principal, h, pointer, at) \in G
             /\ Twins(Finding(load, local_principal, h, <<"/">>, <<1, 1>>),
                      Finding(load, local_principal, h, pointer, at))
  BY FindingsAre DEF Finding, Twins
<1>5. /\ \A f \in F : \E h \in text.hits :
             f = Finding(load, local_principal, h, <<"/">>, <<1, 1>>)
      /\ \A g \in G : \E h \in text.hits : g = Finding(load, local_principal, h, pointer, at)
  BY FindingsAre
<1> HIDE DEF F, G
<1>6. Alike(F, G)
  BY <1>4, <1>5 DEF Alike
<1>7. Alike(selected(F), selected(G))
  BY <1>6 DEF Alike, selected, Twins
<1>8. Spans(selected(F), text.len) /\ Spans(selected(G), text.len)
  BY <1>3 DEF Spans, selected
<1>9. AllPositions(kept(selected(F))) = AllPositions(kept(selected(G)))
  BY <1>3, <1>7, <1>8, SameKept
<1>10. masked_by(F) = masked_by(G)
  BY <1>9 DEF masked_by, AllPositions
<1> QED BY <1>2, <1>10 DEF G

--------------------------------------------------------------------------------
(* What redact_json masks                                                   *)

\* The gateway gets through the body, and what it masks M masks as well.
Covers(result, M) ==
    /\ result.ok
    /\ \A k \in DOMAIN result.masks : \A i \in DOMAIN result.masks[k] :
         result.masks[k][i] \subseteq M[k][i]

\* The nodes of a body are strings under every rules that may be loaded.
LEMMA NodeHolds ==
    ASSUME NEW r \in Requests, NEW load \in Loads, NEW n \in nodes_of(BodyOf[r])
    PROVE  /\ n[1] \in DOMAIN BodyOf[r].parts /\ n[2] \in DOMAIN BodyOf[r].parts[n[1]].nodes
           /\ string_holds(load, BodyOf[r].parts[n[1]].nodes[n[2]])
<1>1. PICK k \in DOMAIN BodyOf[r].parts :
           n \in {<<k, i>> : i \in DOMAIN BodyOf[r].parts[k].nodes}
  BY DEF nodes_of
<1>2. PICK i \in DOMAIN BodyOf[r].parts[k].nodes : n = <<k, i>>
  BY <1>1
<1>3. n[1] = k /\ n[2] = i
  BY <1>2
<1>4. string_holds(load, BodyOf[r].parts[k].nodes[i])
  BY ExtBridgeAssumption
<1> QED BY <1>3, <1>4

\* The gateway's masks where only strings are scanned, as the bridge does.
LEMMA NodesCovered ==
    ASSUME NEW r \in Requests, NEW load \in Loads, detector_compiles(load),
           NEW scanned \in SUBSET nodes_of(BodyOf[r]),
           \A n \in scanned : BodyOf[r].parts[n[1]].string
    PROVE  Covers(process_nodes(load, local_principal, BodyOf[r], scanned),
                  redact_json(load, BodyOf[r]))
<1> DEFINE body == BodyOf[r]
           Text(n) == body.parts[n[1]].nodes[n[2]]
           Found(n) == findings_in(load, local_principal, Text(n), <<n[1]>>, n)
           masks == [k \in DOMAIN body.parts |->
                       [i \in DOMAIN body.parts[k].nodes |->
                          IF <<k, i>> \in scanned THEN masked_by(Found(<<k, i>>)) ELSE {}]]
           result == process_nodes(load, local_principal, body, scanned)
           own == redact_json(load, body)
<1>1. ASSUME NEW n \in scanned
      PROVE  ~analysis_fails(load, Text(n)) /\ ~redact_fails(load, Text(n), Found(n))
  <2>1. string_holds(load, Text(n))
    BY NodeHolds
  <2>2. load.presidio = "off"
    BY ExtBridgeAssumption
  <2> HIDE DEF Text
  <2>3. ~redact_fails(load, Text(n), Found(n))
    BY <2>1, MaskingWorks
  <2> QED BY <2>2, <2>3 DEF analysis_fails
<1>2. result.ok /\ result.masks = masks
  BY <1>1 DEF process_nodes, Processed
<1>3. ASSUME NEW k \in DOMAIN body.parts, NEW i \in DOMAIN body.parts[k].nodes
      PROVE  masks[k][i] \subseteq own[k][i]
  <2>1. own[k][i] = IF body.parts[k].string THEN redact_string(load, body.parts[k].nodes[i]) ELSE {}
    BY DEF redact_json
  <2>2. masks[k][i] = IF <<k, i>> \in scanned THEN masked_by(Found(<<k, i>>)) ELSE {}
    OBVIOUS
  <2>3. CASE <<k, i>> \in scanned
    <3>1. string_holds(load, body.parts[k].nodes[i]) /\ body.parts[k].string
      BY <2>3, NodeHolds
    <3>2. redact_string(load, body.parts[k].nodes[i])
              = masked_by(findings_in(load, local_principal, body.parts[k].nodes[i], <<k>>, <<k, i>>))
      BY <3>1, StringMasked
    <3>3. Found(<<k, i>>)
              = findings_in(load, local_principal, body.parts[k].nodes[i], <<k>>, <<k, i>>)
      OBVIOUS
    <3> HIDE DEF Found, own, masks
    <3> QED BY <2>1, <2>2, <2>3, <3>1, <3>2, <3>3
  <2>4. CASE <<k, i>> \notin scanned
    <3> HIDE DEF masks
    <3> QED BY <2>2, <2>4
  <2> QED BY <2>3, <2>4
<1>4. /\ DOMAIN masks = DOMAIN body.parts
      /\ \A k \in DOMAIN body.parts : DOMAIN masks[k] = DOMAIN body.parts[k].nodes
  OBVIOUS
<1> HIDE DEF masks, own, result
<1>5. Covers(result, own)
  BY <1>2, <1>3, <1>4 DEF Covers
<1> QED BY <1>5 DEF result, own

\* Whatever a request's body, redact_json masks what the gateway's text
\* pipeline masks, and the gateway does not fail.
LEMMA BodyCovered ==
    ASSUME NEW r \in Requests, NEW load \in Loads, detector_compiles(load)
    PROVE  Covers(process_payload(load, local_principal, BodyOf[r], "request"),
                  redact_json(load, BodyOf[r]))
<1> DEFINE body == BodyOf[r]
<1>1. CASE body.kind = "json"
  <2>1. \A n \in string_nodes(load, body) : body.parts[n[1]].string
    BY DEF string_nodes
  <2>2. string_nodes(load, body) \in SUBSET nodes_of(body)
    BY DEF string_nodes
  <2>3. process_payload(load, local_principal, body, "request")
            = process_nodes(load, local_principal, body, string_nodes(load, body))
    BY <1>1 DEF process_payload
  <2> QED BY <2>1, <2>2, <2>3, NodesCovered
<1>2. CASE body.kind = "text" /\ body.utf8
  <2>1. \A n \in nodes_of(body) : body.parts[n[1]].string
    BY <1>2, NodeHolds, ExtBridgeAssumption
  <2>2. process_payload(load, local_principal, body, "request")
            = process_nodes(load, local_principal, body, nodes_of(body))
    BY <1>2 DEF process_payload
  <2> QED BY <2>1, <2>2, NodesCovered
<1>3. CASE body.kind = "text" /\ ~body.utf8
  <2>1. process_payload(load, local_principal, body, "request") = passthrough(body)
    BY <1>3 DEF process_payload
  <2>2. passthrough(body).ok /\ passthrough(body).masks = NoMasks(body)
    BY DEF passthrough, Processed
  <2>3. \A k \in DOMAIN NoMasks(body) : \A i \in DOMAIN NoMasks(body)[k] : NoMasks(body)[k][i] = {}
    BY DEF NoMasks
  <2> QED BY <2>1, <2>2, <2>3 DEF Covers
<1> QED BY <1>1, <1>2, <1>3, ExtBridgeAssumption

--------------------------------------------------------------------------------
(* The theorems                                                             *)

\* Nothing has happened yet.
LEMMA Start == Init => IInv
<1> SUFFICES ASSUME Init PROVE IInv
  OBVIOUS
<1>1. Covered = {}
  BY DEF Init, Covered
<1>2. Types
  <2>1. Cardinality(Covered) = 0
    BY <1>1, FS_EmptySet
  <2>2. req \in [Requests -> RequestRecords]
    BY DEF Init, RequestRecords, Carriable
  <2>3. tasks \in Seq(Asks \cup Answers) /\ queue \in Seq(Asks)
    BY DEF Init
  <2>4. seq = 0 /\ pending = {} /\ isolated = "absent"
    BY DEF Init
  <2> QED BY <2>1, <2>2, <2>3, <2>4 DEF Types
<1>3. PendingExact /\ MessagesOK /\ OnlyWhenReady /\ CarriedOK
  BY DEF Init, PendingExact, MessagesOK, OnlyWhenReady, CarriedOK
<1> QED BY <1>2, <1>3 DEF IInv

\* One step per action of Next.
LEMMA Step == IInv /\ [Next]_vars => IInv'
<1> SUFFICES ASSUME IInv, [Next]_vars PROVE IInv'
  OBVIOUS
<1>1. ASSUME NEW r \in Requests, NEW kind \in {"fetch", "xhr"}, NEW covered \in BOOLEAN,
             send(r, kind, covered)
      PROVE  IInv'
  BY <1>1, StepSend
<1>2. ASSUME NEW p \in pending, timeout(p)
      PROVE  IInv'
  BY <1>2, StepTimeout
<1>3. ASSUME inject \/ boot_fails
      PROVE  IInv'
  BY <1>3, StepInject
<1>4. ASSUME NEW load \in Loads, NEW thrown \in SUBSET Ids, boot(load, thrown)
      PROVE  IInv'
  BY <1>4, StepBoot
<1>5. ASSUME NEW thrown \in BOOLEAN, deliver_redact(thrown)
      PROVE  IInv'
  BY <1>5, StepDeliverRedact
<1>6. CASE deliver_redacted
  BY <1>6, StepDeliverRedacted
<1>7. CASE UNCHANGED vars
  BY <1>7 DEF vars, IInv, Types, Covered, PendingExact, MessagesOK, AskOK, AnswerOK, Scrubbed,
              OnlyWhenReady, CarriedOK
<1> QED BY <1>1, <1>2, <1>3, <1>4, <1>5, <1>6, <1>7 DEF Next, Deliver

\* The invariant holds throughout.
LEMMA Invariance == Spec => []IInv
BY Start, Step, PTL DEF Spec

\* Whatever the order of answers, timers and the boot, no request carries the
\* body of another away: the ids next_id hands out are never shared.
THEOREM BodiesNotMixed == Spec => []OwnBody
<1>1. IInv => OwnBody
  <2> SUFFICES ASSUME IInv PROVE OwnBody
    OBVIOUS
  <2>1. seq \in 0..Cardinality(Requests) /\ seq \in Nat
    BY SeqNat DEF IInv
  <2>2. \A r \in Requests : req[r].state \in {"idle", "waiting", "sent", "rejected"}
    BY DEF IInv, Types, RequestRecords
  <2>3. \A p \in pending : p[1] \in 1..seq
    BY DEF IInv, Types
  <2>4. TypeOK
    BY <2>1, <2>2, <2>3 DEF TypeOK, IInv, PendingExact, OnlyWhenReady
  <2> QED BY <2>4 DEF OwnBody, IInv, CarriedOK
<1> QED BY <1>1, Invariance, PTL

\* A request that was sent or rejected stays as it is: an answer that comes
\* after the timer finds no entry in the map.
THEOREM SettledForGood == Spec => SettledOnce
<1>1. ASSUME IInv, Next, NEW r \in Requests, req[r].state \in {"sent", "rejected"}
      PROVE  req'[r] = req[r]
  <2>1. \A p \in pending : p[2] # r
    BY <1>1 DEF IInv, PendingExact
  <2>2. ASSUME NEW p \in pending, NEW c
        PROVE  Settle(p, c)[r] = req[r] /\ [req EXCEPT ![p[2]].state = "rejected"][r] = req[r]
    BY <1>1, <2>1 DEF Settle, IInv, Types
  <2>3. ASSUME NEW s \in Requests, NEW kind \in {"fetch", "xhr"}, NEW covered \in BOOLEAN,
               send(s, kind, covered)
        PROVE  req'[r] = req[r]
    <3>1. s # r
      BY <1>1, <2>3 DEF send
    <3> QED BY <1>1, <2>3, <3>1 DEF send, IInv, Types
  <2>4. ASSUME NEW p \in pending, timeout(p)
        PROVE  req'[r] = req[r]
    BY <2>2, <2>4 DEF timeout
  <2>5. CASE deliver_redacted
    <3> DEFINE answered == {p \in pending : p[1] = Head(tasks).id}
    <3>1. CASE answered = {}
      BY <2>5, <3>1 DEF deliver_redacted
    <3>2. CASE answered # {}
      <4>1. (CHOOSE p \in answered : TRUE) \in pending
        BY <3>2
      <4> QED BY <2>2, <2>5, <3>2, <4>1 DEF deliver_redacted
    <3> QED BY <3>1, <3>2
  <2>6. CASE \/ inject \/ boot_fails
             \/ \E load \in Loads, thrown \in SUBSET Ids : boot(load, thrown)
             \/ \E thrown \in BOOLEAN : deliver_redact(thrown)
    BY <2>6 DEF inject, boot_fails, boot, deliver_redact
  <2> QED BY <1>1, <2>3, <2>4, <2>5, <2>6 DEF Next, Deliver
<1>2. IInv /\ [Next]_vars =>
        [\A r \in Requests : req[r].state \in {"sent", "rejected"} => req'[r] = req[r]]_vars
  BY <1>1
<1> QED BY <1>2, Invariance, PTL DEF Spec, SettledOnce

\* Whatever the page calls, whenever the script comes and the timers fire: what
\* leaves of a covered body hides every value the gateway's rules would mask.
THEOREM NothingRawLeaves == Spec => []NoRawBody
<1>1. IInv => NoRawBody
  <2> SUFFICES ASSUME IInv, rules # None => detector_compiles(rules), NEW r \in Requests,
                      req[r].covered, req[r].sent # None, req[r].sent # Empty
               PROVE  /\ rules # None
                      /\ Covers(process_payload(rules, local_principal, BodyOf[r], "request"),
                                req[r].sent.masks)
    BY DEF NoRawBody, Covers
  <2>1. rules \in Loads /\ req[r].sent = Scrubbed(r)
    BY DEF IInv, CarriedOK, OnlyWhenReady
  <2>2. rules # None
    BY <2>1, ExtBridgeAssumption
  <2>3. req[r].sent.masks = redact_json(rules, BodyOf[r])
    BY <2>1 DEF Scrubbed, Carries
  <2>4. Covers(process_payload(rules, local_principal, BodyOf[r], "request"),
               redact_json(rules, BodyOf[r]))
    BY <2>1, <2>2, BodyCovered
  <2> QED BY <2>2, <2>3, <2>4
<1> QED BY <1>1, Invariance, PTL
================================================================================
