----------------------------- MODULE AuditLogProofs -----------------------------
(***************************************************************************)
(* Proofs about the audit trail, for every set of requests, every number   *)
(* of sinks and all capacities of the ring.                                *)
(***************************************************************************)
EXTENDS AuditLog, WellFoundedInduction, TLAPS

--------------------------------------------------------------------------------
(* The inductive invariant                                                  *)

\* r is the latest part of p.
Recent(r, p) ==
    Len(r) <= Len(p) /\ \A i \in 1..Len(r) : r[i] = p[Len(p) - Len(r) + i]

Lines == Seq(AuditRecords)

Types ==
    /\ up \in BOOLEAN
    /\ sinks \in 0..MaxSinks /\ (up => sinks # 0)
    /\ queue \in [Sinks -> Lines]
    /\ half \in [Sinks -> BOOLEAN]
    /\ file \in Seq(Lines)
    /\ open \in BOOLEAN /\ (open => file # <<>>)
    /\ em \in [Emitters -> [sink : Sinks \cup {None}, pushed : 0..2, sent : 0..2]]
    /\ \A e \in Emitters :
         /\ em[e].sent <= em[e].pushed
         /\ em[e].sent < em[e].pushed => em[e].sink # None
    /\ lost \subseteq AuditRecords

Ring ==
    /\ store \in [capacity : Nat \ {0}, records : Lines]
    /\ pushed \in Lines
    /\ Len(store.records) <= store.capacity
    /\ Recent(store.records, pushed)

--------------------------------------------------------------------------------
(* The ring                                                                 *)

\* A record is pushed to the ring and to the history.
LEMMA RecentPush ==
    ASSUME NEW S, NEW r \in Seq(S), NEW p \in Seq(S), NEW x \in S, Recent(r, p)
    PROVE  Recent(Append(r, x), Append(p, x))
<1>1. /\ Len(r) \in Nat /\ Len(p) \in Nat /\ Len(r) <= Len(p)
      /\ Len(Append(r, x)) = Len(r) + 1 /\ Len(Append(p, x)) = Len(p) + 1
      /\ \A i \in 1..Len(r) : r[i] = p[Len(p) - Len(r) + i]
  BY DEF Recent
<1>2. ASSUME NEW i \in 1..(Len(r) + 1)
      PROVE  Append(r, x)[i] = Append(p, x)[Len(p) + 1 - (Len(r) + 1) + i]
  <2>1. Len(p) + 1 - (Len(r) + 1) + i = Len(p) - Len(r) + i
    BY <1>1
  <2>2. CASE i = Len(r) + 1
    <3>1. Len(p) - Len(r) + i = Len(p) + 1
      BY <1>1, <2>2
    <3>2. QED
      BY <1>1, <2>1, <2>2, <3>1
  <2>3. CASE i # Len(r) + 1
    <3>1. i \in 1..Len(r) /\ Len(p) - Len(r) + i \in 1..Len(p)
      BY <1>1, <2>3
    <3>2. Append(r, x)[i] = r[i]
          /\ Append(p, x)[Len(p) - Len(r) + i] = p[Len(p) - Len(r) + i]
      BY <1>1, <3>1
    <3>3. QED
      BY <1>1, <2>1, <3>1, <3>2
  <2>4. QED
    BY <2>2, <2>3
<1> DEFINE a == Append(r, x)
           b == Append(p, x)
<1>3. /\ Len(a) = Len(r) + 1 /\ Len(b) = Len(p) + 1
      /\ \A i \in 1..(Len(r) + 1) : a[i] = b[Len(p) + 1 - (Len(r) + 1) + i]
  BY <1>1, <1>2
<1> HIDE DEF a, b
<1>4. Recent(a, b)
  BY <1>1, <1>3 DEF Recent
<1>5. QED
  BY <1>4 DEF a, b

\* The ring loses its oldest record.
LEMMA RecentTail ==
    ASSUME NEW S, NEW r \in Seq(S), NEW p \in Seq(S), r # <<>>, Recent(r, p)
    PROVE  Tail(r) \in Seq(S) /\ Len(Tail(r)) = Len(r) - 1 /\ Recent(Tail(r), p)
<1>1. /\ Len(r) \in Nat \ {0} /\ Len(p) \in Nat /\ Len(r) <= Len(p)
      /\ \A i \in 1..Len(r) : r[i] = p[Len(p) - Len(r) + i]
  BY DEF Recent
<1>2. /\ Tail(r) \in Seq(S) /\ Len(Tail(r)) = Len(r) - 1
      /\ \A i \in 1..(Len(r) - 1) : Tail(r)[i] = r[i + 1]
  OBVIOUS
<1>3. ASSUME NEW i \in 1..(Len(r) - 1)
      PROVE  Tail(r)[i] = p[Len(p) - (Len(r) - 1) + i]
  <2>1. i + 1 \in 1..Len(r) /\ Len(p) - (Len(r) - 1) + i = Len(p) - Len(r) + (i + 1)
    BY <1>1
  <2>2. QED
    BY <1>1, <1>2, <2>1
<1>4. QED
  BY <1>1, <1>2, <1>3 DEF Recent

\* The ring is cut to its latest n records.
LEMMA RecentCut ==
    ASSUME NEW S, NEW r \in Seq(S), NEW p \in Seq(S), NEW n \in Nat, Recent(r, p)
    PROVE  LastOf(r, n) \in Seq(S) /\ Len(LastOf(r, n)) <= n /\ Recent(LastOf(r, n), p)
<1>1. /\ Len(r) \in Nat /\ Len(p) \in Nat /\ Len(r) <= Len(p)
      /\ \A i \in 1..Len(r) : r[i] = p[Len(p) - Len(r) + i]
  BY DEF Recent
<1>2. CASE Len(r) <= n
  <2>1. LastOf(r, n) = r
    BY <1>1, <1>2 DEF LastOf
  <2>2. QED
    BY <1>2, <2>1
<1>3. CASE Len(r) > n
  <2> DEFINE from == Len(r) - n + 1
             c    == SubSeq(r, from, Len(r))
  <2>1. LastOf(r, n) = c
    BY <1>3 DEF LastOf
  <2>2. from \in Nat /\ from >= 1 /\ Len(r) - from + 1 = n
    BY <1>1, <1>3
  <2>3. /\ c \in Seq(S) /\ Len(c) = n
        /\ \A i \in 1..n : c[i] = r[from + i - 1]
    BY <1>1, <2>2
  <2>4. ASSUME NEW i \in 1..n
        PROVE  c[i] = p[Len(p) - n + i]
    <3>1. from + i - 1 \in 1..Len(r) /\ Len(p) - Len(r) + (from + i - 1) = Len(p) - n + i
      BY <1>1, <1>3
    <3>2. QED
      BY <1>1, <2>3, <3>1
  <2> HIDE DEF c
  <2>5. Recent(c, p)
    BY <1>1, <1>3, <2>3, <2>4 DEF Recent
  <2>6. QED
    BY <2>1, <2>3, <2>5
<1>4. QED
  BY <1>1, <1>2, <1>3

\* The latest part of p is the one LastOf cuts off.
LEMMA RecentIs ==
    ASSUME NEW S, NEW r \in Seq(S), NEW p \in Seq(S), Recent(r, p)
    PROVE  r = LastOf(p, Len(r))
<1>1. /\ Len(r) \in Nat /\ Len(p) \in Nat /\ Len(r) <= Len(p)
      /\ \A i \in 1..Len(r) : r[i] = p[Len(p) - Len(r) + i]
  BY DEF Recent
<1>2. CASE Len(p) > Len(r)
  <2> DEFINE from == Len(p) - Len(r) + 1
             c    == SubSeq(p, from, Len(p))
  <2>1. LastOf(p, Len(r)) = c
    BY <1>2 DEF LastOf
  <2>2. from \in Nat /\ from >= 1 /\ Len(p) - from + 1 = Len(r)
    BY <1>1, <1>2
  <2>3. /\ c \in Seq(S) /\ Len(c) = Len(r)
        /\ \A i \in 1..Len(r) : c[i] = p[from + i - 1]
    BY <1>1, <2>2
  <2>4. \A i \in 1..Len(r) : from + i - 1 = Len(p) - Len(r) + i
    BY <1>1
  <2>5. \A i \in 1..Len(r) : c[i] = r[i]
    BY <1>1, <2>3, <2>4
  <2> HIDE DEF c
  <2>6. c = r
    BY <2>3, <2>5
  <2>7. QED
    BY <2>1, <2>6
<1>3. CASE Len(p) = Len(r)
  <2>1. \A i \in 1..Len(r) : Len(p) - Len(r) + i = i
    BY <1>1, <1>3
  <2>2. \A i \in 1..Len(r) : r[i] = p[i]
    BY <1>1, <2>1
  <2>3. r = p
    BY <1>3, <2>2
  <2>4. LastOf(p, Len(r)) = p
    BY <1>1, <1>3 DEF LastOf
  <2>5. QED
    BY <2>3, <2>4
<1>4. QED
  BY <1>1, <1>2, <1>3

\* One push to a ring, full or not.
LEMMA PushKeeps ==
    ASSUME Ring, NEW x \in AuditRecords,
           store' = push(store, x), pushed' = Append(pushed, x)
    PROVE  Ring'
<1> DEFINE old  == IF Len(store.records) >= store.capacity THEN Tail(store.records)
                   ELSE store.records
           more == Append(old, x)
<1>1. /\ store \in [capacity : Nat \ {0}, records : Lines] /\ pushed \in Lines
      /\ store.records \in Lines /\ store.capacity \in Nat \ {0}
      /\ Len(store.records) <= store.capacity /\ Recent(store.records, pushed)
  BY DEF Ring
<1>2. old \in Lines /\ Len(old) < store.capacity /\ Recent(old, pushed)
  <2>1. CASE Len(store.records) >= store.capacity
    <3>1. store.records # <<>>
      BY <1>1, <2>1 DEF Lines
    <3>2. /\ Tail(store.records) \in Lines
          /\ Len(Tail(store.records)) = Len(store.records) - 1
          /\ Recent(Tail(store.records), pushed)
      BY <1>1, <3>1, RecentTail DEF Lines
    <3>3. Len(store.records) \in Nat
      BY <1>1 DEF Lines
    <3>4. QED
      BY <1>1, <2>1, <3>2, <3>3
  <2>2. CASE ~(Len(store.records) >= store.capacity)
    BY <1>1, <2>2 DEF Lines
  <2>3. QED
    BY <2>1, <2>2
<1> HIDE DEF old
<1>3. more \in Lines /\ Len(more) = Len(old) + 1 /\ Len(old) \in Nat
  BY <1>2 DEF Lines
<1>4. pushed' \in Lines /\ Recent(more, pushed')
  BY <1>1, <1>2, RecentPush DEF Lines
<1>5. store' = [store EXCEPT !.records = more]
  BY DEF push, old
<1> HIDE DEF more
<1>6. /\ store' \in [capacity : Nat \ {0}, records : Lines]
      /\ store'.records = more /\ store'.capacity = store.capacity
  BY <1>1, <1>3, <1>5
<1>7. Len(more) <= store.capacity
  BY <1>1, <1>2, <1>3
<1>8. QED
  BY <1>4, <1>6, <1>7 DEF Ring

\* The ring gets another capacity; a capacity of 0 holds one record.
LEMMA ResizeKeeps ==
    ASSUME NEW s, NEW c \in Nat, NEW p \in Lines, s.records \in Lines, Recent(s.records, p)
    PROVE  /\ set_capacity(s, c) \in [capacity : Nat \ {0}, records : Lines]
           /\ Len(set_capacity(s, c).records) <= set_capacity(s, c).capacity
           /\ Recent(set_capacity(s, c).records, p)
<1> DEFINE n   == IF c > 1 THEN c ELSE 1
           cut == LastOf(s.records, n)
<1>1. n \in Nat \ {0}
  OBVIOUS
<1> HIDE DEF n
<1>2. cut \in Lines /\ Len(cut) <= n /\ Recent(cut, p)
  BY <1>1, RecentCut DEF Lines
<1>3. set_capacity(s, c) = [capacity |-> n, records |-> cut]
  BY DEF set_capacity, n
<1> HIDE DEF cut
<1>4. /\ set_capacity(s, c) \in [capacity : Nat \ {0}, records : Lines]
      /\ set_capacity(s, c).records = cut /\ set_capacity(s, c).capacity = n
  BY <1>1, <1>2, <1>3
<1>5. QED
  BY <1>2, <1>4

\* Every step keeps the ring.
LEMMA RingStep ==
    ASSUME Ring, Types, [Next]_vars
    PROVE  Ring'
<1>1. CASE UNCHANGED <<store, pushed>>
  BY <1>1 DEF Ring
<1>2. ASSUME NEW e \in Emitters, emit_push(e)
      PROVE  Ring'
  <2> DEFINE record == <<e, em[e].pushed + 1>>
  <2>1. /\ em[e].pushed < 2
        /\ store' = push(store, record) /\ pushed' = Append(pushed, record)
    BY <1>2 DEF emit_push
  <2>2. em[e].pushed \in 0..2
    BY DEF Types
  <2>3. record \in AuditRecords
    <3>1. em[e].pushed + 1 \in {1, 2}
      BY <2>1, <2>2
    <3>2. QED
      BY <3>1 DEF AuditRecords
  <2> HIDE DEF record
  <2>4. QED
    BY <2>1, <2>3, PushKeeps
<1>3. ASSUME NEW c \in Capacities, start(c)
      PROVE  Ring'
  <2> DEFINE fresh == [capacity |-> 0, records |-> <<>>]
  <2>1. store' = set_capacity(fresh, c) /\ pushed' = pushed
    BY <1>3 DEF start
  <2>2. fresh.records = <<>> /\ <<>> \in Lines
    BY DEF Lines
  <2>3. pushed \in Lines /\ Recent(<<>>, pushed)
    BY DEF Ring, Lines, Recent
  <2>4. c \in Nat
    BY AuditLogAssumption
  <2> HIDE DEF fresh
  <2>5. fresh.records \in Lines /\ Recent(fresh.records, pushed)
    BY <2>2, <2>3
  <2>6. QED
    BY <2>1, <2>3, <2>4, <2>5, ResizeKeeps DEF Ring
<1>4. ASSUME NEW c \in Capacities, reload(c) \/ reload_fails(c)
      PROVE  Ring'
  <2>1. store' = set_capacity(store, c) /\ pushed' = pushed
    BY <1>4 DEF reload, reload_fails
  <2>2. store.records \in Lines /\ pushed \in Lines /\ Recent(store.records, pushed)
    BY DEF Ring
  <2>3. c \in Nat
    BY AuditLogAssumption
  <2>4. QED
    BY <2>1, <2>2, <2>3, ResizeKeeps DEF Ring
<1>5. CASE crash
  <2> DEFINE empty == <<>>
  <2>1. store' = [capacity |-> 1, records |-> empty] /\ pushed' = empty
    BY <1>5 DEF crash
  <2>2. empty \in Lines /\ Len(empty) <= 1 /\ Recent(empty, empty)
    BY DEF Lines, Recent
  <2> HIDE DEF empty
  <2>3. QED
    BY <2>1, <2>2 DEF Ring
<1>6. QED
  BY <1>1, <1>2, <1>3, <1>4, <1>5
  DEF Next, vars, Write, begin, emit_send, write_text, write_newline

--------------------------------------------------------------------------------
(* The types of channels, file and requests                                 *)

\* A text at the end of the file: more of the last line, or a line of its own.
LEMMA TextTypes ==
    ASSUME NEW f \in Seq(Lines), NEW x \in AuditRecords, f # <<>>
    PROVE  /\ Len(f) \in 1..Len(f) /\ f[Len(f)] \in Lines
           /\ Append(f[Len(f)], x) \in Lines
           /\ [f EXCEPT ![Len(f)] = Append(f[Len(f)], x)] \in Seq(Lines)
           /\ [f EXCEPT ![Len(f)] = Append(f[Len(f)], x)] # <<>>
<1>1. Len(f) \in 1..Len(f) /\ f[Len(f)] \in Lines
  OBVIOUS
<1>2. Append(f[Len(f)], x) \in Lines
  BY <1>1 DEF Lines
<1> DEFINE line == Append(f[Len(f)], x)
<1> HIDE DEF line
<1>3. [f EXCEPT ![Len(f)] = line] \in Seq(Lines) /\ [f EXCEPT ![Len(f)] = line] # <<>>
  <2> DEFINE L == Lines
  <2> HIDE DEF L
  <2>1. f \in Seq(L) /\ line \in L /\ Len(f) \in 1..Len(f)
    BY <1>1, <1>2 DEF L, line
  <2>2. [f EXCEPT ![Len(f)] = line] \in Seq(L) /\ Len([f EXCEPT ![Len(f)] = line]) = Len(f)
    BY <2>1
  <2>3. Len(<<>>) = 0 /\ Len(f) # 0
    BY <2>1
  <2>4. QED
    BY <2>2, <2>3 DEF L
<1>4. QED
  BY <1>1, <1>2, <1>3 DEF line

\* What a new line of one text, or an empty one, is.
LEMMA LineTypes ==
    ASSUME NEW f \in Seq(Lines), NEW x \in AuditRecords
    PROVE  /\ <<x>> \in Lines /\ <<>> \in Lines
           /\ Append(f, <<x>>) \in Seq(Lines) /\ Append(f, <<x>>) # <<>>
           /\ Append(f, <<>>) \in Seq(Lines) /\ Append(f, <<>>) # <<>>
<1>1. <<x>> \in Lines /\ <<>> \in Lines
  BY DEF Lines
<1>2. ASSUME NEW l \in Lines
      PROVE  Append(f, l) \in Seq(Lines) /\ Append(f, l) # <<>>
  <2>1. Append(f, l) \in Seq(Lines) /\ Len(Append(f, l)) = Len(f) + 1 /\ Len(f) \in Nat
    OBVIOUS
  <2>2. Len(<<>>) = 0
    OBVIOUS
  <2>3. QED
    BY <2>1, <2>2
<1>3. QED
  BY <1>1, <1>2

EmStates == [sink : Sinks \cup {None}, pushed : 0..2, sent : 0..2]

\* A request may send only what it pushed, and holds a sink to send it to.
EmOK(q) == q \in EmStates /\ q.sent <= q.pushed /\ (q.sent < q.pushed => q.sink # None)

\* Every step keeps the types.
LEMMA TypesStep ==
    ASSUME Types, [Next]_vars
    PROVE  Types'
<1> DEFINE L == Lines
<1>1. /\ up \in BOOLEAN /\ sinks \in 0..MaxSinks /\ (up => sinks # 0) /\ MaxSinks \in Nat
      /\ queue \in [Sinks -> L] /\ half \in [Sinks -> BOOLEAN]
      /\ file \in Seq(L) /\ open \in BOOLEAN /\ (open => file # <<>>)
      /\ lost \subseteq AuditRecords
      /\ em \in [Emitters -> EmStates] /\ \A e \in Emitters : EmOK(em[e])
  BY AuditLogAssumption DEF Types, EmStates, EmOK
<1> SUFFICES /\ up' \in BOOLEAN /\ sinks' \in 0..MaxSinks /\ (up' => sinks' # 0)
             /\ queue' \in [Sinks -> L] /\ half' \in [Sinks -> BOOLEAN]
             /\ file' \in Seq(L) /\ open' \in BOOLEAN /\ (open' => file' # <<>>)
             /\ lost' \subseteq AuditRecords
             /\ em' \in [Emitters -> EmStates] /\ \A e \in Emitters : EmOK(em'[e])
  BY DEF Types, EmStates, EmOK
<1> HIDE DEF L
<1>2. CASE UNCHANGED vars
  BY <1>1, <1>2 DEF vars
<1>3. ASSUME NEW e \in Emitters, begin(e)
      PROVE  em' \in [Emitters -> EmStates] /\ \A d \in Emitters : EmOK(em'[d])
  <2>1. em' = [em EXCEPT ![e].sink = sinks] /\ sinks \in Sinks /\ em[e] = Gone
    BY <1>1, <1>3 DEF begin, Sinks
  <2>2. [em[e] EXCEPT !.sink = sinks] \in EmStates
        /\ EmOK([em[e] EXCEPT !.sink = sinks])
    BY <1>1, <2>1 DEF EmStates, EmOK, Gone
  <2>3. QED
    BY <1>1, <2>1, <2>2 DEF EmStates
<1>4. ASSUME NEW e \in Emitters, emit_push(e)
      PROVE  em' \in [Emitters -> EmStates] /\ \A d \in Emitters : EmOK(em'[d])
  <2> DEFINE q == [em[e] EXCEPT !.pushed = em[e].pushed + 1]
  <2>1. /\ em' = [em EXCEPT ![e] = q] /\ em[e].sink # None
        /\ em[e].pushed = em[e].sent /\ em[e].pushed < 2
    BY <1>4 DEF emit_push
  <2>2. q \in EmStates /\ EmOK(q)
    BY <1>1, <2>1 DEF EmStates, EmOK
  <2> HIDE DEF q
  <2>3. QED
    BY <1>1, <2>1, <2>2
<1>5. ASSUME NEW e \in Emitters, emit_send(e)
      PROVE  /\ em' \in [Emitters -> EmStates] /\ \A d \in Emitters : EmOK(em'[d])
             /\ queue' \in [Sinks -> L]
  <2> DEFINE q == [em[e] EXCEPT !.sent = em[e].sent + 1]
             c == Append(queue[em[e].sink], <<e, em[e].pushed>>)
  <2>1. /\ em' = [em EXCEPT ![e] = q] /\ em[e].sent < em[e].pushed
        /\ queue' = [queue EXCEPT ![em[e].sink] = c]
    BY <1>5 DEF emit_send
  <2>2. q \in EmStates /\ EmOK(q) /\ em[e].sink \in Sinks /\ em[e].pushed \in {1, 2}
    BY <1>1, <2>1, SMTT(30) DEF EmStates, EmOK
  <2>3. c \in L
    <3>1. queue[em[e].sink] \in L /\ <<e, em[e].pushed>> \in AuditRecords
      BY <1>1, <2>2 DEF AuditRecords
    <3>2. QED
      BY <3>1 DEF L, Lines
  <2> HIDE DEF q, c
  <2>4. QED
    BY <1>1, <2>1, <2>2, <2>3
<1>6. ASSUME NEW g \in Sinks, NEW out \in WriteOutcomes, write_text(g, out)
      PROVE  /\ queue' \in [Sinks -> L] /\ half' \in [Sinks -> BOOLEAN]
             /\ file' \in Seq(L) /\ open' \in BOOLEAN /\ (open' => file' # <<>>)
             /\ lost' \subseteq AuditRecords
  <2> DEFINE record == Head(queue[g])
             rest   == Tail(queue[g])
  <2>1. record \in AuditRecords /\ rest \in L
    <3>1. queue[g] \in Lines /\ queue[g] # <<>>
      BY <1>1, <1>6 DEF write_text, L
    <3>2. QED
      BY <3>1 DEF L, Lines
  <2>2. queue' = [queue EXCEPT ![g] = rest]
    BY <1>6 DEF write_text
  <2>3. queue' \in [Sinks -> L]
    <3> HIDE DEF rest
    <3>1. QED
      BY <1>1, <2>1, <2>2
  <2>4. CASE out = "ok"
    <3>1. WriteText(record) /\ half' = [half EXCEPT ![g] = TRUE] /\ lost' = lost
      BY <1>6, <2>4 DEF write_text
    <3> HIDE DEF record
    <3>2. file' \in Seq(L) /\ file' # <<>> /\ open' = TRUE
      <4>1. CASE open
        <5>1. file # <<>> /\ file \in Seq(Lines)
          BY <1>1, <4>1 DEF L
        <5>2. file' = [file EXCEPT ![Len(file)] = Append(file[Len(file)], record)]
              /\ open' = TRUE
          BY <3>1, <4>1 DEF WriteText
        <5>3. QED
          BY <2>1, <5>1, <5>2, TextTypes DEF L
      <4>2. CASE ~open
        <5>1. file' = Append(file, <<record>>) /\ open' = TRUE /\ file \in Seq(Lines)
          BY <1>1, <3>1, <4>2 DEF WriteText, L
        <5>2. QED
          BY <2>1, <5>1, LineTypes DEF L
      <4>3. QED
        BY <4>1, <4>2
    <3>3. half' \in [Sinks -> BOOLEAN] /\ lost' \subseteq AuditRecords
      BY <1>1, <3>1
    <3>4. QED
      BY <2>3, <3>2, <3>3
  <2>5. CASE out # "ok"
    <3>1. lost' = lost \cup {record} /\ UNCHANGED <<file, open, half>>
      BY <1>6, <2>5 DEF write_text
    <3> HIDE DEF record
    <3>2. QED
      BY <1>1, <2>1, <2>3, <3>1
  <2>6. QED
    BY <2>4, <2>5
<1>7. ASSUME NEW g \in Sinks, write_newline(g)
      PROVE  /\ half' \in [Sinks -> BOOLEAN]
             /\ file' \in Seq(L) /\ open' \in BOOLEAN /\ (open' => file' # <<>>)
  <2>1. half' = [half EXCEPT ![g] = FALSE]
    BY <1>7 DEF write_newline
  <2>2. CASE open
    <3>1. open' = FALSE /\ file' = file
      BY <1>7, <2>2 DEF write_newline
    <3>2. QED
      BY <1>1, <2>1, <3>1
  <2>3. CASE ~open
    <3>1. open' = FALSE /\ file' = Append(file, <<>>) /\ file \in Seq(Lines)
      BY <1>1, <1>7, <2>3 DEF write_newline, L
    <3>2. <<>> \in Lines
      BY DEF Lines
    <3>3. file' \in Seq(L)
      BY <3>1, <3>2 DEF L
    <3>4. QED
      BY <1>1, <2>1, <3>1, <3>3
  <2>4. QED
    BY <2>2, <2>3
<1>8. CASE crash
  <2> DEFINE empty == <<>>
             died  == UNION {SE!ToSet(queue[g]) : g \in Sinks}
             gone  == [sink |-> None, pushed |-> 2, sent |-> 2]
  <2>1. /\ up' = FALSE /\ lost' = lost \cup died
        /\ queue' = [g \in Sinks |-> empty] /\ half' = [g \in Sinks |-> FALSE]
        /\ em' = [e \in Emitters |-> IF em[e] = Gone THEN Gone ELSE gone]
        /\ UNCHANGED <<sinks, file, open>>
    BY <1>8 DEF crash
  <2>2. empty \in L
    BY DEF L, Lines
  <2>3. died \subseteq AuditRecords
    <3>1. ASSUME NEW g \in Sinks
          PROVE  SE!ToSet(queue[g]) \subseteq AuditRecords
      <4>1. queue[g] \in Seq(AuditRecords)
        BY <1>1 DEF L, Lines
      <4>2. QED
        BY <4>1 DEF SE!ToSet
    <3>2. QED
      BY <3>1
  <2>4. /\ Gone \in EmStates /\ EmOK(Gone) /\ gone \in EmStates /\ EmOK(gone)
    BY DEF EmStates, EmOK, Gone
  <2> HIDE DEF empty, died, gone
  <2>5. em' \in [Emitters -> EmStates] /\ \A e \in Emitters : EmOK(em'[e])
    BY <2>1, <2>4
  <2>6. queue' \in [Sinks -> L] /\ half' \in [Sinks -> BOOLEAN]
    BY <2>1, <2>2
  <2>7. QED
    BY <1>1, <2>1, <2>3, <2>5, <2>6
<1>9. ASSUME NEW c \in Capacities, start(c) \/ reload(c) \/ reload_fails(c)
      PROVE  /\ up' = TRUE /\ sinks' \in 1..MaxSinks
             /\ UNCHANGED <<queue, half, file, open, em, lost>>
  BY <1>1, <1>9 DEF start, reload, reload_fails
<1>10. CASE \E e \in Emitters : begin(e) \/ emit_push(e) \/ emit_send(e)
  BY <1>1, <1>3, <1>4, <1>5, <1>10, SMTT(30) DEF begin, emit_push, emit_send
<1>11. CASE \E g \in Sinks : Write(g)
  BY <1>1, <1>6, <1>7, <1>11 DEF Write, write_text, write_newline
<1>12. CASE \E c \in Capacities : start(c) \/ reload(c) \/ reload_fails(c)
  <2>1. /\ up' = TRUE /\ sinks' \in 1..MaxSinks
        /\ UNCHANGED <<queue, half, file, open, em, lost>>
    BY <1>9, <1>12
  <2>2. sinks' \in 0..MaxSinks /\ sinks' # 0
    BY <1>1, <2>1
  <2>3. QED
    BY <1>1, <2>1, <2>2
<1>13. QED
  BY <1>2, <1>8, <1>10, <1>11, <1>12 DEF Next

\* The program starts without a ring, a file or a sink.
LEMMA InitInv == Init => Types /\ Ring
<1> SUFFICES ASSUME Init PROVE Types /\ Ring
  OBVIOUS
<1> DEFINE L == Lines
           none == <<>>
<1>1. /\ up = FALSE /\ store = [capacity |-> 1, records |-> none] /\ sinks = 0
      /\ queue = [g \in Sinks |-> none] /\ half = [g \in Sinks |-> FALSE]
      /\ file = none /\ open = FALSE /\ em = [e \in Emitters |-> Gone]
      /\ pushed = none /\ lost = {}
  BY DEF Init
<1>2. none \in L /\ none \in Seq(L) /\ Len(none) <= 1 /\ Recent(none, none)
  BY DEF L, Lines, Recent
<1>3. Gone \in EmStates /\ Gone.sent = 0 /\ Gone.pushed = 0
  BY DEF EmStates, Gone
<1>4. MaxSinks \in Nat
  BY AuditLogAssumption
<1> HIDE DEF none, L
<1>5. Ring
  <2>1. /\ store \in [capacity : Nat \ {0}, records : L] /\ pushed \in L
        /\ store.records = none /\ store.capacity = 1
    BY <1>1, <1>2
  <2>2. QED
    BY <1>1, <1>2, <2>1 DEF Ring, L
<1>6. Types
  <2>1. em \in [Emitters -> EmStates] /\ \A e \in Emitters : em[e].sent = 0 /\ em[e].pushed = 0
    BY <1>1, <1>3
  <2>2. queue \in [Sinks -> L] /\ half \in [Sinks -> BOOLEAN] /\ file \in Seq(L)
    BY <1>1, <1>2
  <2>3. \A e \in Emitters : /\ em[e].sent <= em[e].pushed
                            /\ em[e].sent < em[e].pushed => em[e].sink # None
    BY <2>1
  <2>4. up \in BOOLEAN /\ sinks \in 0..MaxSinks /\ open \in BOOLEAN /\ lost \subseteq AuditRecords
    <3>1. sinks \in 0..MaxSinks
      BY <1>1, <1>4
    <3>2. up \in BOOLEAN /\ open \in BOOLEAN /\ lost \subseteq AuditRecords
      BY <1>1
    <3>3. QED
      BY <3>1, <3>2
  <2>5. (up => sinks # 0) /\ (open => file # <<>>)
    BY <1>1
  <2>6. queue \in [Sinks -> Lines] /\ file \in Seq(Lines)
    BY <2>2 DEF L
  <2>7. em \in [Emitters -> [sink : Sinks \cup {None}, pushed : 0..2, sent : 0..2]]
    BY <2>1 DEF EmStates
  <2>8. QED
    BY <2>2, <2>3, <2>4, <2>5, <2>6, <2>7, Zenon DEF Types
<1>7. QED
  BY <1>5, <1>6

\* set_capacity, push: for every capacity, number of requests and reload, the
\* ring is the latest of what was pushed, without a gap, and within its
\* capacity.
THEOREM RingHoldsLatest == Spec => []RingIsRecent
<1>1. Types /\ Ring => RingIsRecent
  <2> SUFFICES ASSUME Types, Ring PROVE RingIsRecent
    OBVIOUS
  <2>1. /\ store.capacity \in Nat \ {0} /\ store.records \in Seq(AuditRecords)
        /\ pushed \in Seq(AuditRecords)
        /\ Len(store.records) <= store.capacity /\ Recent(store.records, pushed)
    BY DEF Ring, Lines
  <2>2. store.records = LastOf(pushed, Len(store.records))
    BY <2>1, RecentIs
  <2>3. \A s \in Seq(AuditRecords) : SE!ToSet(s) \subseteq AuditRecords
    BY DEF SE!ToSet
  <2>4. TypeOK
    <3>1. /\ \A g \in Sinks : SE!ToSet(queue[g]) \subseteq AuditRecords /\ half[g] \in BOOLEAN
          /\ SE!ToSet(store.records) \subseteq AuditRecords
      BY <2>1, <2>3 DEF Types, Lines
    <3>2. \A i \in DOMAIN file : SE!ToSet(file[i]) \subseteq AuditRecords
      <4>1. \A i \in DOMAIN file : file[i] \in Lines
        BY DEF Types
      <4>2. QED
        BY <2>3, <4>1 DEF Lines
    <3>3. QED
      BY <2>1, <3>1, <3>2 DEF TypeOK, Types
  <2>5. QED
    BY <2>1, <2>2, <2>4 DEF RingIsRecent
<1>2. QED
  BY <1>1, InitInv, TypesStep, RingStep, PTL DEF Spec

--------------------------------------------------------------------------------
(* The texts of the file                                                    *)

\* Of a set of numbers one is the least.
LEMMA Least ==
    ASSUME NEW T \in SUBSET Nat, T # {}
    PROVE  \E x \in T : \A y \in T : x <= y
<1> DEFINE R == {ss \in Nat \X Nat : ss[1] < ss[2]}
<1>1. IsWellFoundedOn(R, Nat)
  BY NatLessThanWellFounded DEF OpToRel
<1>2. \A x, y \in Nat : x < y => <<x, y>> \in R
  OBVIOUS
<1> HIDE DEF R
<1>3. PICK x \in T : \A y \in T : <<y, x>> \notin R
  BY <1>1, WFMin
<1>4. \A y \in T : ~(y < x)
  BY <1>2, <1>3
<1> QED BY <1>3, <1>4

\* f[i] joins the first i lines of s, for i up to n.
Joins(f, s, n) ==
    f = [i \in 1..n |-> IF i = 1 THEN s[i] ELSE f[i - 1] \o s[i]]

\* What such a function returns.
First(f, s, n) == 1 \in 1..n => f[1] = s[1]
After(f, s, n) == \A i \in 1..n : i # 1 => f[i] = f[i - 1] \o s[i]

LEMMA JoinsAt ==
    ASSUME NEW n \in Nat, NEW s, NEW f, Joins(f, s, n)
    PROVE  First(f, s, n) /\ After(f, s, n)
<1> DEFINE F(i) == IF i = 1 THEN s[i] ELSE f[i - 1] \o s[i]
<1>1. f = [i \in 1..n |-> F(i)]
  BY DEF Joins
<1> HIDE DEF F
<1>2. \A i \in 1..n : f[i] = F(i)
  BY <1>1
<1>3. ASSUME NEW i \in 1..n, i # 1
      PROVE  f[i] = f[i - 1] \o s[i]
  BY <1>2, <1>3, Zenon DEF F
<1>4. ASSUME 1 \in 1..n
      PROVE  f[1] = s[1]
  BY <1>2, <1>4, Zenon DEF F
<1>5. QED
  BY <1>3, <1>4, Zenon DEF First, After

\* It returns sequences.
LEMMA JoinsTypes ==
    ASSUME NEW S, NEW n \in Nat, NEW s, \A i \in 1..n : s[i] \in Seq(S),
           NEW f, Joins(f, s, n)
    PROVE  \A i \in 1..n : f[i] \in Seq(S)
<1> DEFINE T == {i \in 1..n : f[i] \notin Seq(S)}
<1> SUFFICES ASSUME T # {} PROVE FALSE
  OBVIOUS
<1>1. T \in SUBSET Nat
  OBVIOUS
<1>2. PICK i \in T : \A j \in T : i <= j
  BY <1>1, Least
<1>3. i \in 1..n /\ f[i] \notin Seq(S) /\ s[i] \in Seq(S)
  OBVIOUS
<1>a. First(f, s, n) /\ After(f, s, n)
  BY JoinsAt
<1>4. CASE i = 1
  BY <1>3, <1>4, <1>a DEF First
<1>5. CASE i # 1
  <2>a. f[i] = f[i - 1] \o s[i]
    BY <1>3, <1>5, <1>a, Zenon DEF After
  <2>b. i - 1 \in 1..n
    BY <1>3, <1>5
  <2>1. i - 1 \in 1..n /\ f[i] = f[i - 1] \o s[i]
    BY <2>a, <2>b, Zenon
  <2>2. i - 1 \notin T
    BY <1>2, <1>3
  <2>3. f[i - 1] \in Seq(S)
    BY <2>1, <2>2
  <2>4. QED
    BY <1>3, <2>1, <2>3
<1>6. QED
  BY <1>4, <1>5

\* s and t agree up to k.
SameTo(s, t, k) == \A i \in 1..k : s[i] = t[i]

\* Where two sequences of lines agree, their joins do.
LEMMA JoinsAgree ==
    ASSUME NEW m \in Nat, NEW n \in Nat, NEW k \in Nat, k <= m, k <= n,
           NEW s, NEW t, NEW f, NEW g, Joins(f, s, m), Joins(g, t, n),
           SameTo(s, t, k)
    PROVE  SameTo(f, g, k)
<1> DEFINE T == {i \in 1..k : f[i] # g[i]}
<1> SUFFICES ASSUME T # {} PROVE FALSE
  BY DEF SameTo
<1>1. T \in SUBSET Nat
  OBVIOUS
<1>2. PICK i \in T : \A j \in T : i <= j
  BY <1>1, Least
<1>3. i \in 1..k /\ i \in 1..m /\ i \in 1..n /\ f[i] # g[i] /\ s[i] = t[i]
  BY DEF SameTo
<1>a. First(f, s, m) /\ After(f, s, m) /\ First(g, t, n) /\ After(g, t, n)
  BY JoinsAt
<1>4. CASE i = 1
  BY <1>3, <1>4, <1>a DEF First
<1>5. CASE i # 1
  <2>1. f[i] = f[i - 1] \o s[i] /\ g[i] = g[i - 1] \o t[i]
    BY <1>3, <1>5, <1>a DEF After
  <2>2. i - 1 \in 1..k /\ i - 1 \notin T
    BY <1>2, <1>3, <1>5
  <2>3. QED
    BY <1>3, <2>1, <2>2
<1>6. QED
  BY <1>4, <1>5

\* Such a function exists for every length.
LEMMA JoinsExist ==
    ASSUME NEW n \in Nat, NEW s
    PROVE  \E f : Joins(f, s, n)
<1> DEFINE T == {m \in Nat : ~\E f : Joins(f, s, m)}
<1> SUFFICES ASSUME T # {} PROVE FALSE
  OBVIOUS
<1>1. T \in SUBSET Nat
  OBVIOUS
<1>2. PICK m \in T : \A j \in T : m <= j
  BY <1>1, Least
<1>3. m \in Nat /\ ~\E f : Joins(f, s, m)
  OBVIOUS
<1>4. CASE m = 0
  <2> DEFINE f == [i \in 1..0 |-> s[i]]
  <2>1. Joins(f, s, 0)
    BY DEF Joins
  <2>2. QED
    BY <1>3, <1>4, <2>1
<1>5. CASE m # 0
  <2>1. m - 1 \in Nat /\ m - 1 \notin T
    BY <1>2, <1>3, <1>5
  <2>2. PICK g : Joins(g, s, m - 1)
    BY <2>1
  <2> DEFINE f == [i \in 1..m |-> IF i = m THEN IF m = 1 THEN s[m] ELSE g[m - 1] \o s[m]
                                  ELSE g[i]]
  <2>3. ASSUME NEW i \in 1..m
        PROVE  f[i] = IF i = 1 THEN s[i] ELSE f[i - 1] \o s[i]
    <3>1. CASE i = m
      BY <1>3, <3>1
    <3>2. CASE i # m
      <4>1. i \in 1..(m - 1) /\ f[i] = g[i] /\ (i # 1 => i - 1 \in 1..m /\ i - 1 # m)
        BY <1>3, <3>2
      <4>2. i # 1 => f[i - 1] = g[i - 1]
        BY <4>1
      <4>a. First(g, s, m - 1) /\ After(g, s, m - 1)
        BY <2>1, <2>2, JoinsAt
      <4>3. i = 1 => g[i] = s[i]
        BY <4>1, <4>a DEF First
      <4>4. i # 1 => g[i] = g[i - 1] \o s[i]
        BY <4>1, <4>a DEF After
      <4> HIDE DEF f
      <4>5. QED
        BY <4>1, <4>2, <4>3, <4>4
    <3>3. QED
      BY <3>1, <3>2
  <2>4. f = [i \in 1..m |-> f[i]]
    OBVIOUS
  <2> HIDE DEF f
  <2>5. Joins(f, s, m)
    BY <2>3, <2>4 DEF Joins
  <2>6. QED
    BY <1>3, <2>5
<1>6. QED
  BY <1>4, <1>5

\* FlattenSeq is the last of the joins.
LEMMA FlattenIs ==
    ASSUME NEW s, Len(s) \in Nat \ {0}
    PROVE  \E f : Joins(f, s, Len(s)) /\ SE!FlattenSeq(s) = f[Len(s)]
<1> DEFINE f == CHOOSE g : g = [i \in 1..Len(s) |-> IF i = 1 THEN s[i] ELSE g[i - 1] \o s[i]]
<1>1. SE!FlattenSeq(s) = f[Len(s)]
  BY DEF SE!FlattenSeq
<1>2. \E g : g = [i \in 1..Len(s) |-> IF i = 1 THEN s[i] ELSE g[i - 1] \o s[i]]
  BY JoinsExist DEF Joins
<1>3. f = [i \in 1..Len(s) |-> IF i = 1 THEN s[i] ELSE f[i - 1] \o s[i]]
  BY <1>2
<1> HIDE DEF f
<1>4. QED
  BY <1>1, <1>3 DEF Joins

\* A sequence is the function of its elements.
LEMMA Elements ==
    ASSUME NEW S, NEW s \in Seq(S)
    PROVE  s = [i \in 1..Len(s) |-> s[i]]
  OBVIOUS

\* An appended element may be taken out of a concatenation.
LEMMA AppendOut ==
    ASSUME NEW S, NEW a \in Seq(S), NEW b \in Seq(S), NEW x \in S
    PROVE  a \o Append(b, x) = Append(a \o b, x)
<1> DEFINE u == a \o Append(b, x)
           v == Append(a \o b, x)
<1>1. u \in Seq(S) /\ v \in Seq(S) /\ Len(u) = Len(v) /\ Len(u) = Len(a) + Len(b) + 1
  OBVIOUS
<1>2. ASSUME NEW i \in 1..Len(u)
      PROVE  u[i] = v[i]
  BY <1>1
<1>3. u = v
  <2> HIDE DEF u, v
  <2>1. u = [i \in 1..Len(u) |-> u[i]] /\ v = [i \in 1..Len(v) |-> v[i]]
    BY <1>1, Elements
  <2>2. QED
    BY <1>1, <1>2, <2>1
<1>4. QED
  BY <1>3 DEF u, v

\* The texts of lines are texts.
LEMMA FlattenTypes ==
    ASSUME NEW S, NEW s \in Seq(Seq(S))
    PROVE  SE!FlattenSeq(s) \in Seq(S)
<1>1. CASE Len(s) = 0
  <2>1. SE!FlattenSeq(s) = s
    BY <1>1 DEF SE!FlattenSeq
  <2>2. s = <<>>
    BY <1>1
  <2>3. QED
    BY <2>1, <2>2
<1>2. CASE Len(s) # 0
  <2>1. Len(s) \in Nat \ {0} /\ \A i \in 1..Len(s) : s[i] \in Seq(S)
    BY <1>2
  <2>2. PICK f : Joins(f, s, Len(s)) /\ SE!FlattenSeq(s) = f[Len(s)]
    BY <2>1, FlattenIs
  <2>3. \A i \in 1..Len(s) : f[i] \in Seq(S)
    BY <2>1, <2>2, JoinsTypes
  <2>4. QED
    BY <2>1, <2>2, <2>3
<1>3. QED
  BY <1>1, <1>2

\* A new line adds its texts at the end.
LEMMA FlattenLine ==
    ASSUME NEW S, NEW s \in Seq(Seq(S)), NEW line \in Seq(S)
    PROVE  SE!FlattenSeq(Append(s, line)) = SE!FlattenSeq(s) \o line
<1> DEFINE n == Len(s)
           t == Append(s, line)
<1>1. n \in Nat /\ Len(t) = n + 1 /\ t[n + 1] = line /\ \A i \in 1..n : t[i] = s[i]
  OBVIOUS
<1>0. n = Len(s)
  OBVIOUS
<1> HIDE DEF t, n
<1>2. PICK g : Joins(g, t, n + 1) /\ SE!FlattenSeq(t) = g[n + 1]
  <2>1. Len(t) \in Nat \ {0}
    BY <1>1
  <2>2. QED
    BY <1>1, <2>1, FlattenIs
<1>3. First(g, t, n + 1) /\ After(g, t, n + 1)
  BY <1>1, <1>2, JoinsAt
<1>4. CASE n = 0
  <2>a. Len(s) = 0
    BY <1>0, <1>4
  <2>b. SE!FlattenSeq(s) = s
    BY <2>a DEF SE!FlattenSeq
  <2>1. SE!FlattenSeq(s) = s /\ s = <<>>
    BY <2>a, <2>b
  <2>2. SE!FlattenSeq(t) = line
    BY <1>1, <1>2, <1>3, <1>4 DEF First
  <2>3. QED
    BY <2>1, <2>2 DEF t
<1>5. CASE n # 0
  <2>1. PICK f : Joins(f, s, n) /\ SE!FlattenSeq(s) = f[n]
    BY <1>0, <1>1, <1>5, FlattenIs
  <2>2. \A i \in 1..n : g[i] = f[i]
    <3>1. n \in Nat /\ n + 1 \in Nat /\ n <= n + 1 /\ n <= n
      BY <1>1
    <3>2. SameTo(t, s, n)
      BY <1>1 DEF SameTo
    <3>3. SameTo(g, f, n)
      BY <1>2, <2>1, <3>1, <3>2, JoinsAgree
    <3>4. QED
      BY <3>3 DEF SameTo
  <2>3. g[n + 1] = g[n] \o t[n + 1]
    <3>1. n + 1 \in 1..(n + 1) /\ n + 1 # 1 /\ (n + 1) - 1 = n
      BY <1>1, <1>5
    <3>2. g[n + 1] = g[(n + 1) - 1] \o t[n + 1]
      BY <1>3, <3>1, Zenon DEF After
    <3>3. QED
      BY <3>1, <3>2
  <2>4. g[n] = f[n]
    BY <1>1, <1>5, <2>2
  <2>5. QED
    BY <1>1, <1>2, <2>1, <2>3, <2>4 DEF t
<1>6. QED
  BY <1>4, <1>5

\* So does a text that joins an unfinished line.
LEMMA FlattenText ==
    ASSUME NEW S, NEW s \in Seq(Seq(S)), s # <<>>, NEW x \in S
    PROVE  SE!FlattenSeq([s EXCEPT ![Len(s)] = Append(s[Len(s)], x)])
             = Append(SE!FlattenSeq(s), x)
<1> DEFINE n == Len(s)
           t == [s EXCEPT ![n] = Append(s[n], x)]
<1>1. /\ n \in Nat \ {0} /\ n = Len(s) /\ s[n] \in Seq(S)
      /\ \A i \in 1..n : s[i] \in Seq(S)
      /\ Len(t) = n /\ t[n] = Append(s[n], x) /\ \A i \in 1..(n - 1) : t[i] = s[i]
  OBVIOUS
<1> HIDE DEF t, n
<1>2. PICK g : Joins(g, t, n) /\ SE!FlattenSeq(t) = g[n]
  BY <1>1, FlattenIs
<1>3. PICK f : Joins(f, s, n) /\ SE!FlattenSeq(s) = f[n]
  BY <1>1, FlattenIs
<1>4. First(g, t, n) /\ After(g, t, n) /\ First(f, s, n) /\ After(f, s, n)
  BY <1>1, <1>2, <1>3, JoinsAt
<1>5. CASE n = 1
  <2>1. g[1] = t[1] /\ f[1] = s[1]
    BY <1>4, <1>5 DEF First
  <2>2. QED
    BY <1>1, <1>2, <1>3, <1>5, <2>1 DEF t, n
<1>6. CASE n # 1
  <2>1. n \in 1..n /\ n - 1 \in 1..n /\ n - 1 \in Nat /\ n - 1 <= n /\ n - 1 \in 1..(n - 1)
    BY <1>1, <1>6
  <2>2. g[n] = g[n - 1] \o t[n] /\ f[n] = f[n - 1] \o s[n]
    BY <1>4, <1>6, <2>1, Zenon DEF After
  <2>3. \A i \in 1..(n - 1) : g[i] = f[i]
    <3>1. n \in Nat /\ n - 1 \in Nat /\ n - 1 <= n
      BY <1>1, <2>1
    <3>2. SameTo(t, s, n - 1)
      BY <1>1 DEF SameTo
    <3>3. SameTo(g, f, n - 1)
      BY <1>2, <1>3, <3>1, <3>2, JoinsAgree
    <3>4. QED
      BY <3>3 DEF SameTo
  <2>4. g[n - 1] = f[n - 1]
    BY <2>1, <2>3
  <2>5. f[n - 1] \in Seq(S)
    BY <1>1, <1>3, <2>1, JoinsTypes
  <2>6. f[n - 1] \o Append(s[n], x) = Append(f[n - 1] \o s[n], x)
    <3>1. \A a, b \in Seq(S) : a \o Append(b, x) = Append(a \o b, x)
      BY AppendOut
    <3>2. QED
      BY <1>1, <2>5, <3>1, Zenon
  <2>7. SE!FlattenSeq(t) = Append(SE!FlattenSeq(s), x)
    BY <1>1, <1>2, <1>3, <2>2, <2>4, <2>6
  <2>8. QED
    BY <2>7 DEF t, n
<1>7. QED
  BY <1>5, <1>6
--------------------------------------------------------------------------------
(* The order of the file                                                    *)

\* A record stands in a sequence.
Stands(r, s) == \E i \in 1..Len(s) : s[i] = r

\* No record stands in it twice.
Distinct(s) == \A i, j \in 1..Len(s) : s[i] = s[j] => i = j

\* Wherever b stands, a stands before it.
Preceded(s, a, b) ==
    \A i \in 1..Len(s) : s[i] = b => \E j \in 1..(i - 1) : s[j] = a

\* A record is in the file, or will never be.
Past(r) == r \in lost \/ Stands(r, Written)

\* No record is twice in the channels and the file.
Once ==
    /\ Distinct(Written)
    /\ \A g \in Sinks : Distinct(queue[g])
    /\ \A g \in Sinks, r \in AuditRecords : Stands(r, queue[g]) => ~Stands(r, Written)

\* What stands in a channel or the file was sent, in a channel by a request
\* that holds that channel's sink; the next record is sent before one is pushed.
Sent ==
    \A e \in Emitters :
        /\ em[e].pushed <= em[e].sent + 1
        /\ \A k \in {1, 2} : Stands(<<e, k>>, Written) => k <= em[e].sent
        /\ \A g \in Sinks, k \in {1, 2} :
             Stands(<<e, k>>, queue[g]) => em[e].sink = g /\ k <= em[e].sent

\* A first record that was sent is where it was sent, or past.
FirstFound ==
    \A e \in Emitters :
        em[e].sent # 0 /\ em[e].sink # None
            => Past(<<e, 1>>) \/ Stands(<<e, 1>>, queue[em[e].sink])

\* In channel and file the first record of a request precedes the second.
InOrder ==
    \A e \in Emitters :
        /\ \A g \in Sinks : Past(<<e, 1>>) \/ Preceded(queue[g], <<e, 1>>, <<e, 2>>)
        /\ <<e, 1>> \in lost \/ Preceded(Written, <<e, 1>>, <<e, 2>>)

Order == Once /\ Sent /\ FirstFound /\ InOrder

\* What stands in a longer sequence.
LEMMA StandsAppend ==
    ASSUME NEW S, NEW s \in Seq(S), NEW x \in S, NEW r
    PROVE  Stands(r, Append(s, x)) <=> Stands(r, s) \/ r = x
<1> DEFINE t == Append(s, x)
           n == Len(s)
<1>1. /\ n \in Nat /\ Len(t) = n + 1 /\ t[n + 1] = x
      /\ \A i \in 1..n : t[i] = s[i]
  OBVIOUS
<1> SUFFICES (\E i \in 1..(n + 1) : t[i] = r) <=> (\E i \in 1..n : s[i] = r) \/ r = x
  BY <1>1 DEF Stands
<1> HIDE DEF t, n
<1>2. \A i \in 1..(n + 1) : i \in 1..n \/ i = n + 1
  BY <1>1
<1>3. \A i \in 1..n : i \in 1..(n + 1)
  BY <1>1
<1>4. n + 1 \in 1..(n + 1)
  BY <1>1
<1>5. QED
  BY <1>1, <1>2, <1>3, <1>4

\* A taken record stood in front, what stands in the rest stood behind it.
LEMMA StandsTail ==
    ASSUME NEW S, NEW s \in Seq(S), s # <<>>, NEW r
    PROVE  Stands(r, s) <=> Stands(r, Tail(s)) \/ r = Head(s)
<1> DEFINE t == Tail(s)
           n == Len(s)
<1>1. /\ n \in Nat /\ n >= 1 /\ Len(t) = n - 1 /\ Head(s) = s[1]
      /\ \A i \in 1..(n - 1) : t[i] = s[i + 1]
  OBVIOUS
<1> SUFFICES (\E i \in 1..n : s[i] = r) <=> (\E i \in 1..(n - 1) : t[i] = r) \/ r = s[1]
  BY <1>1 DEF Stands
<1> HIDE DEF t, n
<1>2. \A i \in 1..n : i = 1 \/ (i - 1 \in 1..(n - 1) /\ t[i - 1] = s[i])
  BY <1>1
<1>3. \A i \in 1..(n - 1) : i + 1 \in 1..n
  BY <1>1
<1>4. 1 \in 1..n
  BY <1>1
<1>5. QED
  BY <1>1, <1>2, <1>3, <1>4, ZenonT(60)

\* A new record leaves a sequence without a record twice.
LEMMA DistinctAppend ==
    ASSUME NEW S, NEW s \in Seq(S), NEW x \in S, Distinct(s), ~Stands(x, s)
    PROVE  Distinct(Append(s, x))
<1> DEFINE t == Append(s, x)
           n == Len(s)
<1>1. /\ n \in Nat /\ Len(t) = n + 1 /\ t[n + 1] = x
      /\ \A i \in 1..n : t[i] = s[i]
  OBVIOUS
<1>2. /\ \A i \in 1..n : s[i] # x
      /\ \A i, j \in 1..n : s[i] = s[j] => i = j
  BY DEF Distinct, Stands
<1> HIDE DEF t, n
<1>3. \A i \in 1..(n + 1) : i \in 1..n \/ i = n + 1
  BY <1>1
<1>4. \A i, j \in 1..(n + 1) : t[i] = t[j] => i = j
  BY <1>1, <1>2, <1>3
<1>5. Distinct(t)
  BY <1>1, <1>4 DEF Distinct
<1>6. QED
  BY <1>5 DEF t

\* Nor does a taken one stand in the rest.
LEMMA DistinctTail ==
    ASSUME NEW S, NEW s \in Seq(S), s # <<>>, Distinct(s)
    PROVE  Distinct(Tail(s)) /\ ~Stands(Head(s), Tail(s))
<1> DEFINE t == Tail(s)
           n == Len(s)
<1>1. /\ n \in Nat /\ n >= 1 /\ Len(t) = n - 1 /\ Head(s) = s[1]
      /\ \A i \in 1..(n - 1) : t[i] = s[i + 1]
  OBVIOUS
<1>2. \A i, j \in 1..n : s[i] = s[j] => i = j
  BY DEF Distinct
<1> HIDE DEF t, n
<1>3. \A i \in 1..(n - 1) : i \in Int /\ i + 1 \in 1..n /\ i + 1 # 1
  BY <1>1
<1>4. \A i, j \in 1..(n - 1) : t[i] = t[j] => i = j
  <2> TAKE i, j \in 1..(n - 1)
  <2>1. t[i] = t[j] => i + 1 = j + 1
    BY <1>1, <1>2, <1>3
  <2>2. QED
    BY <1>3, <2>1
<1>5. \A i \in 1..(n - 1) : t[i] # s[1]
  <2> TAKE i \in 1..(n - 1)
  <2>1. 1 \in 1..n
    BY <1>1
  <2>2. QED
    BY <1>1, <1>2, <1>3, <2>1
<1>6. Distinct(t) /\ ~Stands(s[1], t)
  BY <1>1, <1>4, <1>5 DEF Distinct, Stands
<1>7. QED
  BY <1>1, <1>6 DEF t

\* b is appended where a stands.
LEMMA PrecededAppend ==
    ASSUME NEW S, NEW s \in Seq(S), NEW x \in S, NEW a, NEW b,
           Preceded(s, a, b), x = b => Stands(a, s)
    PROVE  Preceded(Append(s, x), a, b)
<1> DEFINE t == Append(s, x)
           n == Len(s)
<1>1. /\ n \in Nat /\ Len(t) = n + 1 /\ t[n + 1] = x
      /\ \A i \in 1..n : t[i] = s[i]
  OBVIOUS
<1>2. /\ \A i \in 1..n : s[i] = b => \E j \in 1..(i - 1) : s[j] = a
      /\ x = b => \E j \in 1..n : s[j] = a
  BY DEF Preceded, Stands
<1> HIDE DEF t, n
<1>3. ASSUME NEW i \in 1..(n + 1), t[i] = b
      PROVE  \E j \in 1..(i - 1) : t[j] = a
  <2>1. CASE i = n + 1
    <3>1. PICK j \in 1..n : s[j] = a
      BY <1>1, <1>2, <1>3, <2>1
    <3>2. j \in 1..(i - 1) /\ t[j] = a
      BY <1>1, <2>1, <3>1
    <3>3. QED
      BY <3>2
  <2>2. CASE i # n + 1
    <3>1. i \in 1..n
      BY <1>1, <2>2
    <3>2. PICK j \in 1..(i - 1) : s[j] = a
      BY <1>1, <1>2, <1>3, <3>1
    <3>3. j \in 1..n
      BY <1>1, <3>1
    <3>4. t[j] = a
      BY <1>1, <3>2, <3>3
    <3>5. QED
      BY <3>4
  <2>3. QED
    BY <2>1, <2>2
<1>4. Preceded(t, a, b)
  BY <1>1, <1>3 DEF Preceded
<1>5. QED
  BY <1>4 DEF t

\* The first is not b, and if it is not a, the rest keeps its order.
LEMMA PrecededTail ==
    ASSUME NEW S, NEW s \in Seq(S), s # <<>>, NEW a, NEW b, Preceded(s, a, b)
    PROVE  Head(s) # b /\ (Head(s) # a => Preceded(Tail(s), a, b))
<1> DEFINE t == Tail(s)
           n == Len(s)
<1>1. /\ n \in Nat /\ n >= 1 /\ Len(t) = n - 1 /\ Head(s) = s[1]
      /\ \A i \in 1..(n - 1) : t[i] = s[i + 1]
  OBVIOUS
<1>2. \A i \in 1..n : s[i] = b => \E j \in 1..(i - 1) : s[j] = a
  BY DEF Preceded
<1> HIDE DEF t, n
<1>3. s[1] # b
  <2>1. 1 \in 1..n /\ 1..(1 - 1) = {}
    BY <1>1
  <2>2. QED
    BY <1>2, <2>1
<1>4. ASSUME s[1] # a, NEW i \in 1..(n - 1), t[i] = b
      PROVE  \E j \in 1..(i - 1) : t[j] = a
  <2>1. i \in Int /\ i + 1 \in 1..n /\ s[i + 1] = b /\ (i + 1) - 1 = i
    BY <1>1, <1>4
  <2>2. PICK j \in 1..i : s[j] = a
    BY <1>2, <2>1
  <2>3. j \in Int /\ j # 1 /\ j - 1 \in 1..(i - 1) /\ j - 1 \in 1..(n - 1) /\ (j - 1) + 1 = j
    BY <1>1, <1>4, <2>2
  <2>4. t[j - 1] = s[(j - 1) + 1]
    BY <1>1, <2>3, Zenon
  <2>5. t[j - 1] = a
    BY <2>2, <2>3, <2>4
  <2>6. QED
    BY <2>3, <2>5
<1>5. s[1] # a => Preceded(t, a, b)
  BY <1>1, <1>4 DEF Preceded
<1>6. QED
  BY <1>1, <1>3, <1>5 DEF t

\* A text that is written is the next text of the file.
LEMMA WrittenText ==
    ASSUME Types, NEW x \in AuditRecords, WriteText(x)
    PROVE  Written' = Append(Written, x)
<1>1. CASE open
  <2>1. file \in Seq(Seq(AuditRecords)) /\ file # <<>>
    BY <1>1 DEF Types, Lines
  <2>2. file' = [file EXCEPT ![Len(file)] = Append(file[Len(file)], x)]
    BY <1>1 DEF WriteText
  <2>3. QED
    BY <2>1, <2>2, FlattenText DEF Written
<1>2. CASE ~open
  <2>1. file \in Seq(Seq(AuditRecords)) /\ <<x>> \in Seq(AuditRecords)
    BY DEF Types, Lines
  <2>2. file' = Append(file, <<x>>)
    BY <1>2 DEF WriteText
  <2>3. Written' = Written \o <<x>>
    BY <2>1, <2>2, FlattenLine DEF Written
  <2>4. Written \in Seq(AuditRecords)
    BY <2>1, FlattenTypes DEF Written
  <2>5. QED
    BY <2>3, <2>4
<1>3. QED
  BY <1>1, <1>2

\* A newline is no text.
LEMMA WrittenNewline ==
    ASSUME Types, NEW g \in Sinks, write_newline(g)
    PROVE  Written' = Written
<1>1. CASE open
  BY <1>1 DEF write_newline, Written
<1>2. CASE ~open
  <2> DEFINE none == <<>>
  <2>1. file \in Seq(Seq(AuditRecords)) /\ none \in Seq(AuditRecords)
    BY DEF Types, Lines
  <2>2. file' = Append(file, none)
    BY <1>2 DEF write_newline
  <2>3. Written' = Written \o none
    <3> HIDE DEF none
    <3>1. QED
      BY <2>1, <2>2, FlattenLine DEF Written
  <2>4. Written \in Seq(AuditRecords)
    BY <2>1, FlattenTypes DEF Written
  <2>5. QED
    BY <2>3, <2>4
<1>3. QED
  BY <1>1, <1>2

\* Steps that leave the requests' sinks and what they sent alone, and channels
\* and file, keep the order.
LEMMA OrderStill ==
    ASSUME Order, UNCHANGED <<queue, lost>>, Written' = Written,
           \A e \in Emitters : /\ em'[e].sent = em[e].sent /\ em'[e].sink = em[e].sink
                               /\ em'[e].pushed <= em'[e].sent + 1
    PROVE  Order'
<1>1. Once'
  BY DEF Order, Once
<1>2. Sent'
  BY DEF Order, Sent
<1>3. FirstFound'
  BY DEF Order, FirstFound, Past
<1>4. InOrder'
  BY DEF Order, InOrder, Past
<1>5. QED
  BY <1>1, <1>2, <1>3, <1>4 DEF Order

\* A request takes a sink: nothing of it was sent yet.
LEMMA OrderBegin ==
    ASSUME Types, Order, NEW e \in Emitters, begin(e)
    PROVE  Order'
<1>1. /\ queue' = queue /\ lost' = lost /\ Written' = Written
      /\ em[e] = Gone /\ em' = [em EXCEPT ![e].sink = sinks]
  BY DEF begin, Written
<1>2. /\ em'[e].sent = 0 /\ em'[e].pushed = 0 /\ em[e].sent = 0
      /\ \A d \in Emitters : d # e => em'[d] = em[d]
  BY <1>1 DEF Types, Gone
<1>3. \A k \in {1, 2} : ~(k <= em[e].sent)
  BY <1>2
<1>4. Once'
  BY <1>1 DEF Order, Once
<1>5. Sent'
  <2> SUFFICES ASSUME NEW d \in Emitters
               PROVE  /\ em'[d].pushed <= em'[d].sent + 1
                      /\ \A k \in {1, 2} : Stands(<<d, k>>, Written') => k <= em'[d].sent
                      /\ \A g \in Sinks, k \in {1, 2} :
                           Stands(<<d, k>>, queue'[g]) => em'[d].sink = g /\ k <= em'[d].sent
    BY DEF Sent
  <2>1. CASE d = e
    <3>1. em'[d].pushed <= em'[d].sent + 1
      BY <1>2, <2>1
    <3>2. QED
      BY <1>1, <1>3, <2>1, <3>1 DEF Order, Sent
  <2>2. CASE d # e
    BY <1>1, <1>2, <2>2 DEF Order, Sent
  <2>3. QED
    BY <2>1, <2>2
<1>6. FirstFound'
  BY <1>1, <1>2 DEF Order, FirstFound, Past
<1>7. InOrder'
  BY <1>1 DEF Order, InOrder, Past
<1>8. QED
  BY <1>4, <1>5, <1>6, <1>7 DEF Order

\* A crash empties the channels; the requests it caught send nothing more.
LEMMA OrderCrash ==
    ASSUME Types, Order, crash
    PROVE  Order'
<1> DEFINE none == <<>>
           died == UNION {SE!ToSet(queue[g]) : g \in Sinks}
           gone == [sink |-> None, pushed |-> 2, sent |-> 2]
<1>1. /\ queue' = [g \in Sinks |-> none] /\ lost' = lost \cup died /\ Written' = Written
      /\ em' = [e \in Emitters |-> IF em[e] = Gone THEN Gone ELSE gone]
  BY DEF crash, Written
<1>2. (\A r : ~Stands(r, none)) /\ Distinct(none) /\ \A a, b : Preceded(none, a, b)
  BY DEF Stands, Distinct, Preceded
<1>3. gone.sent = 2 /\ gone.pushed = 2 /\ gone.sink = None
      /\ Gone.sent = 0 /\ Gone.pushed = 0 /\ Gone.sink = None
  BY DEF Gone
<1> HIDE DEF none, died, gone
<1>4. Once'
  BY <1>1, <1>2 DEF Order, Once
<1>5. Sent'
  <2> SUFFICES ASSUME NEW d \in Emitters
               PROVE  /\ em'[d].pushed <= em'[d].sent + 1
                      /\ \A k \in {1, 2} : Stands(<<d, k>>, Written) => k <= em'[d].sent
                      /\ \A g \in Sinks, k \in {1, 2} : ~Stands(<<d, k>>, queue'[g])
    BY <1>1 DEF Sent
  <2>1. em'[d].pushed <= em'[d].sent + 1
    BY <1>1, <1>3
  <2>2. \A k \in {1, 2} : Stands(<<d, k>>, Written) => k <= em'[d].sent
    <3>1. \A k \in {1, 2} : Stands(<<d, k>>, Written) => k <= em[d].sent
      BY DEF Order, Sent
    <3>2. CASE em[d] = Gone
      BY <1>1, <3>1, <3>2
    <3>3. CASE em[d] # Gone
      BY <1>1, <1>3, <3>3
    <3>4. QED
      BY <3>2, <3>3
  <2>3. QED
    BY <1>1, <1>2, <2>1, <2>2
<1>6. FirstFound'
  BY <1>1, <1>3 DEF FirstFound
<1>7. InOrder'
  BY <1>1, <1>2 DEF Order, InOrder
<1>8. QED
  BY <1>4, <1>5, <1>6, <1>7 DEF Order

\* A request sends: the record is new, and goes to the sink its first went to.
LEMMA OrderSend ==
    ASSUME Types, Order, NEW e \in Emitters, emit_send(e)
    PROVE  Order'
<1> DEFINE home == em[e].sink
           k0   == em[e].pushed
           x    == <<e, k0>>
           q    == Append(queue[home], x)
<1>1. /\ queue' = [queue EXCEPT ![home] = q] /\ lost' = lost /\ Written' = Written
      /\ em' = [em EXCEPT ![e].sent = em[e].sent + 1] /\ em[e].sent < k0
  BY DEF emit_send, Written
<1>2. em[e].sent \in 0..2 /\ k0 \in 0..2 /\ k0 <= em[e].sent + 1 /\ home \in Sinks
  BY <1>1 DEF Types, Order, Sent
<1>3. k0 = em[e].sent + 1 /\ k0 \in {1, 2} /\ x \in AuditRecords
  BY <1>1, <1>2 DEF AuditRecords
<1>4. /\ em'[e].sent = k0 /\ em'[e].pushed = k0 /\ em'[e].sink = home
      /\ \A d \in Emitters : d # e => em'[d] = em[d]
  BY <1>1, <1>3 DEF Types
<1>5. /\ queue'[home] = q /\ \A g \in Sinks : g # home => queue'[g] = queue[g]
      /\ \A g \in Sinks : queue[g] \in Seq(AuditRecords)
  BY <1>1, <1>2 DEF Types, Lines
<1>6. ~Stands(x, Written) /\ \A g \in Sinks : ~Stands(x, queue[g])
  <2>1. ~(k0 <= em[e].sent)
    BY <1>2, <1>3
  <2>2. QED
    BY <1>3, <2>1 DEF Order, Sent
<1>7. \A r : Stands(r, q) <=> Stands(r, queue[home]) \/ r = x
  BY <1>2, <1>3, <1>5, StandsAppend
<1>8. \A g \in Sinks : \A r : Stands(r, queue'[g]) => Stands(r, queue[g]) \/ (g = home /\ r = x)
  BY <1>5, <1>7
<1>9. Once'
  <2>1. Distinct(q)
    <3>1. Distinct(queue[home])
      BY <1>2 DEF Order, Once
    <3>2. QED
      BY <1>2, <1>3, <1>5, <1>6, <3>1, DistinctAppend
  <2>2. \A g \in Sinks : Distinct(queue'[g])
    BY <1>5, <2>1 DEF Order, Once
  <2>3. \A g \in Sinks, r \in AuditRecords : Stands(r, queue'[g]) => ~Stands(r, Written)
    BY <1>6, <1>8 DEF Order, Once
  <2>4. QED
    BY <1>1, <2>2, <2>3 DEF Order, Once
<1>10. Sent'
  <2> SUFFICES ASSUME NEW d \in Emitters
               PROVE  /\ em'[d].pushed <= em'[d].sent + 1
                      /\ \A k \in {1, 2} : Stands(<<d, k>>, Written') => k <= em'[d].sent
                      /\ \A g \in Sinks, k \in {1, 2} :
                           Stands(<<d, k>>, queue'[g]) => em'[d].sink = g /\ k <= em'[d].sent
    BY DEF Sent
  <2>1. CASE d = e
    <3>1. em'[d].pushed <= em'[d].sent + 1
      BY <1>3, <1>4, <2>1
    <3>2. \A k \in {1, 2} : k <= em[e].sent => k <= em'[e].sent
      BY <1>2, <1>3, <1>4
    <3>3. \A k \in {1, 2} : Stands(<<d, k>>, Written') => k <= em'[d].sent
      BY <1>1, <2>1, <3>2 DEF Order, Sent
    <3>4. ASSUME NEW g \in Sinks, NEW k \in {1, 2}, Stands(<<d, k>>, queue'[g])
          PROVE  em'[d].sink = g /\ k <= em'[d].sent
      <4>1. CASE Stands(<<d, k>>, queue[g])
        BY <1>4, <2>1, <3>2, <4>1 DEF Order, Sent
      <4>2. CASE ~Stands(<<d, k>>, queue[g])
        <5>1. g = home /\ <<d, k>> = x
          BY <1>8, <3>4, <4>2
        <5>2. k = k0
          BY <5>1
        <5>3. k0 <= k0
          BY <1>3
        <5>4. QED
          BY <1>4, <2>1, <5>1, <5>2, <5>3
      <4>3. QED
        BY <4>1, <4>2
    <3>5. QED
      BY <3>1, <3>3, <3>4
  <2>2. CASE d # e
    <3>1. \A g \in Sinks, k \in {1, 2} : Stands(<<d, k>>, queue'[g]) => Stands(<<d, k>>, queue[g])
      <4>1. \A k : <<d, k>> # x
        BY <2>2
      <4>2. QED
        BY <1>8, <4>1
    <3>2. /\ em[d].pushed <= em[d].sent + 1
          /\ \A k \in {1, 2} : Stands(<<d, k>>, Written) => k <= em[d].sent
          /\ \A g \in Sinks, k \in {1, 2} :
               Stands(<<d, k>>, queue[g]) => em[d].sink = g /\ k <= em[d].sent
      BY Zenon DEF Order, Sent
    <3>3. em'[d] = em[d]
      BY <1>4, <2>2
    <3>4. QED
      BY <1>1, <3>1, <3>2, <3>3, Zenon
  <2>3. QED
    BY <2>1, <2>2
<1>11. FirstFound'
  <2> SUFFICES ASSUME NEW d \in Emitters, em'[d].sent # 0, em'[d].sink # None,
                      ~Past(<<d, 1>>)
               PROVE  Stands(<<d, 1>>, queue'[em'[d].sink])
    BY <1>1 DEF FirstFound, Past
  <2>1. CASE d = e /\ k0 = 1
    BY <1>4, <1>5, <1>7, <2>1
  <2>2. CASE d = e /\ k0 # 1
    <3>1. em[e].sent # 0 /\ home # None
      BY <1>2, <1>3, <2>2, AuditLogAssumption DEF Sinks
    <3>2. Stands(<<d, 1>>, queue[home])
      BY <2>2, <3>1 DEF Order, FirstFound
    <3>3. QED
      BY <1>4, <1>5, <1>7, <2>2, <3>2
  <2>3. CASE d # e
    <3>1. Stands(<<d, 1>>, queue[em[d].sink]) /\ em'[d].sink = em[d].sink
      BY <1>4, <2>3 DEF Order, FirstFound
    <3>2. em[d].sink \in Sinks
      BY <1>4, <2>3 DEF Types
    <3>3. QED
      BY <1>5, <1>7, <3>1, <3>2
  <2>4. QED
    BY <2>1, <2>2, <2>3
<1>12. InOrder'
  <2> SUFFICES ASSUME NEW d \in Emitters, NEW g \in Sinks, ~Past(<<d, 1>>)
               PROVE  Preceded(queue'[g], <<d, 1>>, <<d, 2>>)
    BY <1>1 DEF Order, InOrder, Past
  <2>1. Preceded(queue[g], <<d, 1>>, <<d, 2>>)
    BY DEF Order, InOrder
  <2>2. CASE g = home
    <3>1. x = <<d, 2>> => Stands(<<d, 1>>, queue[home])
      <4> SUFFICES ASSUME x = <<d, 2>> PROVE Stands(<<d, 1>>, queue[home])
        OBVIOUS
      <4>1. d = e /\ k0 = 2
        OBVIOUS
      <4>2. em[e].sent # 0 /\ home # None
        BY <1>2, <1>3, <4>1, AuditLogAssumption DEF Sinks
      <4>3. QED
        BY <4>1, <4>2 DEF Order, FirstFound
    <3> HIDE DEF x, home
    <3>2. Preceded(Append(queue[home], x), <<d, 1>>, <<d, 2>>)
      <4>1. queue[home] \in Seq(AuditRecords) /\ Preceded(queue[home], <<d, 1>>, <<d, 2>>)
        BY <1>2, <1>5, <2>1, <2>2
      <4>2. QED
        BY <1>3, <3>1, <4>1, PrecededAppend
    <3>3. QED
      BY <1>5, <2>2, <3>2
  <2>3. CASE g # home
    BY <1>5, <2>1, <2>3
  <2>4. QED
    BY <2>2, <2>3
<1>13. QED
  BY <1>9, <1>10, <1>11, <1>12 DEF Order

\* The task of a sink takes the oldest record of its channel and writes it to
\* the file, or loses it.
LEMMA OrderWrite ==
    ASSUME Types, Order, NEW g \in Sinks, NEW out \in WriteOutcomes, write_text(g, out)
    PROVE  Order'
<1> DEFINE x    == Head(queue[g])
           rest == Tail(queue[g])
<1>1. /\ queue' = [queue EXCEPT ![g] = rest] /\ em' = em
      /\ queue[g] \in Seq(AuditRecords) /\ queue[g] # <<>> /\ x \in AuditRecords
      /\ \A h \in Sinks : queue[h] \in Seq(AuditRecords)
      /\ Written \in Seq(AuditRecords)
  <2>1. queue[g] \in Seq(AuditRecords) /\ queue[g] # <<>>
    BY DEF Types, Lines, write_text
  <2>2. x \in AuditRecords
    BY <2>1
  <2>3. Written \in Seq(AuditRecords)
    BY FlattenTypes DEF Types, Lines, Written
  <2>4. QED
    BY <2>1, <2>2, <2>3 DEF Types, Lines, write_text
<1>2. \/ Written' = Append(Written, x) /\ lost' = lost
      \/ Written' = Written /\ lost' = lost \cup {x}
  <2>1. CASE out = "ok"
    <3>1. WriteText(x) /\ lost' = lost
      BY <2>1 DEF write_text
    <3> HIDE DEF x
    <3>2. QED
      BY <1>1, <3>1, WrittenText
  <2>2. CASE out # "ok"
    BY <2>2 DEF write_text, Written
  <2>3. QED
    BY <2>1, <2>2
<1>3. /\ queue'[g] = rest /\ \A h \in Sinks : h # g => queue'[h] = queue[h]
  BY <1>1 DEF Types
<1>4. \A r : Stands(r, queue[g]) <=> Stands(r, rest) \/ r = x
  BY <1>1, StandsTail
<1>5. Distinct(queue[g])
  BY DEF Order, Once
<1>6. Distinct(rest) /\ ~Stands(x, rest)
  BY <1>1, <1>5, DistinctTail
<1> HIDE DEF rest, x
<1>7. \A h \in Sinks : \A r : Stands(r, queue'[h]) => Stands(r, queue[h])
  BY <1>3, <1>4
<1>a. \A r : Stands(r, Append(Written, x)) <=> Stands(r, Written) \/ r = x
  BY <1>1, StandsAppend
<1>8. \A r : Stands(r, Written') => Stands(r, Written) \/ r = x
  BY <1>2, <1>a
<1>9. ~Stands(x, Written) /\ Stands(x, queue[g])
  BY <1>1, <1>4 DEF Order, Once
<1>10. PICK e \in Emitters, k0 \in {1, 2} : x = <<e, k0>>
  BY <1>1 DEF AuditRecords
<1>11. em[e].sink = g
  BY <1>9, <1>10 DEF Order, Sent
<1>12. \A h \in Sinks : ~Stands(x, queue'[h])
  <2> TAKE h \in Sinks
  <2>1. CASE h = g
    BY <1>3, <1>6, <2>1
  <2>2. CASE h # g
    BY <1>3, <1>10, <1>11, <2>2 DEF Order, Sent
  <2>3. QED
    BY <2>1, <2>2
<1>13. /\ x \in lost' \/ Stands(x, Written')
       /\ \A r : r \in lost \/ Stands(r, Written) => r \in lost' \/ Stands(r, Written')
  BY <1>2, <1>a
<1>14. Once'
  <2>1. Distinct(Written')
    BY <1>1, <1>2, <1>9, DistinctAppend DEF Order, Once
  <2>2. \A h \in Sinks : Distinct(queue'[h])
    BY <1>3, <1>6 DEF Order, Once
  <2>3. \A h \in Sinks, r \in AuditRecords : Stands(r, queue'[h]) => ~Stands(r, Written')
    BY <1>7, <1>8, <1>12 DEF Order, Once
  <2>4. QED
    BY <2>1, <2>2, <2>3 DEF Once
<1>15. Sent'
  <2> SUFFICES ASSUME NEW d \in Emitters
               PROVE  /\ em'[d].pushed <= em'[d].sent + 1
                      /\ \A k \in {1, 2} : Stands(<<d, k>>, Written') => k <= em'[d].sent
                      /\ \A h \in Sinks, k \in {1, 2} :
                           Stands(<<d, k>>, queue'[h]) => em'[d].sink = h /\ k <= em'[d].sent
    BY DEF Sent
  <2>1. /\ em[d].pushed <= em[d].sent + 1
        /\ \A k \in {1, 2} : Stands(<<d, k>>, Written) => k <= em[d].sent
        /\ \A h \in Sinks, k \in {1, 2} :
             Stands(<<d, k>>, queue[h]) => em[d].sink = h /\ k <= em[d].sent
    BY Zenon DEF Order, Sent
  <2>2. \A k \in {1, 2} : <<d, k>> = x => Stands(<<d, k>>, queue[g])
    BY <1>9
  <2>3. QED
    BY <1>1, <1>7, <1>8, <2>1, <2>2, Zenon
<1>16. FirstFound'
  <2> SUFFICES ASSUME NEW d \in Emitters, em[d].sent # 0, em[d].sink # None,
                      <<d, 1>> \notin lost', ~Stands(<<d, 1>>, Written')
               PROVE  Stands(<<d, 1>>, queue'[em[d].sink])
    BY <1>1 DEF FirstFound, Past
  <2>1. ~Past(<<d, 1>>) /\ <<d, 1>> # x
    BY <1>13 DEF Past
  <2>2. Stands(<<d, 1>>, queue[em[d].sink])
    BY <2>1 DEF Order, FirstFound
  <2>3. em[d].sink \in Sinks
    BY DEF Types
  <2>4. QED
    BY <1>3, <1>4, <2>1, <2>2, <2>3
<1>17. InOrder'
  <2> SUFFICES ASSUME NEW d \in Emitters
               PROVE  /\ \A h \in Sinks : \/ <<d, 1>> \in lost'
                                          \/ Stands(<<d, 1>>, Written')
                                          \/ Preceded(queue'[h], <<d, 1>>, <<d, 2>>)
                      /\ <<d, 1>> \in lost' \/ Preceded(Written', <<d, 1>>, <<d, 2>>)
    BY DEF InOrder, Past
  <2>1. ASSUME NEW h \in Sinks, <<d, 1>> \notin lost', ~Stands(<<d, 1>>, Written')
        PROVE  Preceded(queue'[h], <<d, 1>>, <<d, 2>>)
    <3>1. ~Past(<<d, 1>>) /\ <<d, 1>> # x
      BY <1>13, <2>1 DEF Past
    <3>2. Preceded(queue[h], <<d, 1>>, <<d, 2>>)
      BY <3>1 DEF Order, InOrder
    <3>3. CASE h = g
      <4>1. Preceded(rest, <<d, 1>>, <<d, 2>>)
        BY <1>1, <3>1, <3>2, <3>3, PrecededTail DEF rest, x
      <4>2. QED
        BY <1>3, <3>3, <4>1
    <3>4. CASE h # g
      BY <1>3, <3>2, <3>4
    <3>5. QED
      BY <3>3, <3>4
  <2>2. ASSUME <<d, 1>> \notin lost'
        PROVE  Preceded(Written', <<d, 1>>, <<d, 2>>)
    <3>1. <<d, 1>> \notin lost
      BY <1>2, <2>2
    <3>2. Preceded(Written, <<d, 1>>, <<d, 2>>)
      BY <3>1 DEF Order, InOrder
    <3>3. CASE Written' = Written
      BY <3>2, <3>3
    <3>4. CASE Written' = Append(Written, x)
      <4>1. x = <<d, 2>> => Stands(<<d, 1>>, Written)
        <5> SUFFICES ASSUME x = <<d, 2>>, ~Stands(<<d, 1>>, Written) PROVE FALSE
          OBVIOUS
        <5>1. ~Past(<<d, 1>>)
          BY <3>1 DEF Past
        <5>2. Preceded(queue[g], <<d, 1>>, <<d, 2>>)
          BY <5>1 DEF Order, InOrder
        <5>3. QED
          BY <1>1, <5>2, PrecededTail DEF x
      <4>2. QED
        BY <1>1, <3>2, <3>4, <4>1, PrecededAppend
    <3>5. QED
      BY <1>2, <3>3, <3>4
  <2>3. QED
    BY <2>1, <2>2
<1>18. QED
  BY <1>14, <1>15, <1>16, <1>17 DEF Order

\* Every step keeps the order.
LEMMA OrderStep ==
    ASSUME Types, Order, [Next]_vars
    PROVE  Order'
<1>1. ASSUME NEW e \in Emitters, emit_push(e)
      PROVE  Order'
  <2>1. /\ UNCHANGED <<queue, lost, file>> /\ em[e].pushed = em[e].sent
        /\ em' = [em EXCEPT ![e].pushed = em[e].pushed + 1]
    BY <1>1 DEF emit_push
  <2>2. \A d \in Emitters : /\ em[d].sent \in Nat
                            /\ em'[d].sent = em[d].sent /\ em'[d].sink = em[d].sink
                            /\ em'[d].pushed = IF d = e THEN em[e].sent + 1 ELSE em[d].pushed
    BY <2>1 DEF Types
  <2>3. \A d \in Emitters : em[d].pushed <= em[d].sent + 1
    BY DEF Order, Sent
  <2>4. \A d \in Emitters : em'[d].pushed <= em'[d].sent + 1
    BY <2>2, <2>3
  <2>5. Written' = Written
    BY <2>1 DEF Written
  <2>6. QED
    BY <2>1, <2>2, <2>4, <2>5, OrderStill
<1>2. ASSUME UNCHANGED <<queue, lost, em>>, Written' = Written
      PROVE  Order'
  <2>1. \A d \in Emitters : em'[d].pushed <= em'[d].sent + 1
    BY <1>2 DEF Order, Sent
  <2>2. QED
    BY <1>2, <2>1, OrderStill
<1>3. ASSUME NEW g \in Sinks, write_newline(g)
      PROVE  Order'
  <2>1. UNCHANGED <<em, lost, queue>>
    BY <1>3 DEF write_newline
  <2>2. QED
    BY <1>2, <1>3, <2>1, WrittenNewline
<1>4. ASSUME NEW c \in Capacities, start(c) \/ reload(c) \/ reload_fails(c)
      PROVE  Order'
  <2>1. UNCHANGED <<queue, em, lost, file>>
    BY <1>4 DEF start, reload, reload_fails
  <2>2. QED
    BY <1>2, <2>1 DEF Written
<1>5. CASE UNCHANGED vars
  BY <1>2, <1>5 DEF vars, Written
<1>6. QED
  BY <1>1, <1>3, <1>4, <1>5, OrderBegin, OrderSend, OrderWrite, OrderCrash DEF Next, Write

\* Nothing was sent or written at the start.
LEMMA InitOrder == Init => Order
<1> SUFFICES ASSUME Init PROVE Order
  OBVIOUS
<1> DEFINE none == <<>>
<1>1. /\ queue = [g \in Sinks |-> none] /\ lost = {} /\ em = [e \in Emitters |-> Gone]
      /\ file = none
  BY DEF Init
<1>2. Written = none
  BY <1>1 DEF Written, SE!FlattenSeq
<1>3. (\A r : ~Stands(r, none)) /\ Distinct(none) /\ \A a, b : Preceded(none, a, b)
  BY DEF Stands, Distinct, Preceded
<1>4. Gone.sent = 0 /\ Gone.pushed = 0
  BY DEF Gone
<1> HIDE DEF none
<1>5. QED
  BY <1>1, <1>2, <1>3, <1>4 DEF Order, Once, Sent, FirstFound, InOrder

\* emit, write_text, reload: whatever the number of requests, sinks and
\* reloads, no record is in the file twice, and a request's second record never
\* stands before its first.
THEOREM TrailInOrder == Spec => []FileOrder
<1> DEFINE Inv == Types /\ Order
<1>1. Init => Inv
  BY InitInv, InitOrder
<1>2. Inv /\ [Next]_vars => Inv'
  BY TypesStep, OrderStep
<1>3. Inv => FileOrder
  <2> SUFFICES ASSUME Inv PROVE FileOrder
    OBVIOUS
  <2>1. DOMAIN Written = 1..Len(Written)
    <3>1. Written \in Seq(AuditRecords)
      BY FlattenTypes DEF Types, Lines, Written
    <3>2. QED
      BY <3>1
  <2>2. Distinct(Written)
    BY DEF Order, Once
  <2>3. \A e \in Emitters : <<e, 1>> \in lost \/ Preceded(Written, <<e, 1>>, <<e, 2>>)
    BY DEF Order, InOrder
  <2>4. QED
    BY <2>1, <2>2, <2>3, Zenon DEF FileOrder, Distinct, Preceded
<1>4. QED
  BY <1>1, <1>2, <1>3, PTL DEF Spec
--------------------------------------------------------------------------------
(* Sequences drawn from others                                              *)

\* Wherever a and b stand, a stands before b.
Sorted(s, a, b) == \A i, j \in 1..Len(s) : s[i] = a /\ s[j] = b => i < j

\* Increasing places.
Increasing(at, n) == \A k, l \in 1..n : k < l => at[k] < at[l]

\* t is what stands in s at some places, in their order.
Drawn(t, s) ==
    \E at \in [1..Len(t) -> 1..Len(s)] :
        Increasing(at, Len(t)) /\ \A k \in 1..Len(t) : t[k] = s[at[k]]

\* What is preceded wherever it stands, and stands once, is sorted.
LEMMA SortedPreceded ==
    ASSUME NEW S, NEW s \in Seq(S), NEW a, NEW b, Distinct(s), Preceded(s, a, b)
    PROVE  Sorted(s, a, b)
<1> SUFFICES ASSUME NEW i \in 1..Len(s), NEW j \in 1..Len(s), s[i] = a, s[j] = b
             PROVE  i < j
  BY DEF Sorted
<1>1. PICK h \in 1..(j - 1) : s[h] = a
  BY DEF Preceded
<1>2. h \in 1..Len(s) /\ h < j
  BY <1>1
<1>3. h = i
  BY <1>1, <1>2 DEF Distinct
<1>4. QED
  BY <1>2, <1>3

\* What does not stand in s is sorted there.
LEMMA SortedAbsent ==
    ASSUME NEW s, NEW a, NEW b, ~Stands(a, s) \/ ~Stands(b, s)
    PROVE  Sorted(s, a, b)
  BY DEF Sorted, Stands

\* b may be appended, and a where b does not stand.
LEMMA SortedAppend ==
    ASSUME NEW S, NEW s \in Seq(S), NEW x \in S, NEW a, NEW b, a # b,
           Sorted(s, a, b), x = a => ~Stands(b, s)
    PROVE  Sorted(Append(s, x), a, b)
<1> DEFINE t == Append(s, x)
           n == Len(s)
<1>1. /\ n \in Nat /\ Len(t) = n + 1 /\ t[n + 1] = x
      /\ \A i \in 1..n : t[i] = s[i]
  OBVIOUS
<1>2. /\ \A i, j \in 1..n : s[i] = a /\ s[j] = b => i < j
      /\ x = a => \A j \in 1..n : s[j] # b
  BY DEF Sorted, Stands
<1> HIDE DEF t, n
<1>3. ASSUME NEW i \in 1..(n + 1), NEW j \in 1..(n + 1), t[i] = a, t[j] = b
      PROVE  i < j
  <2>1. CASE j = n + 1
    <3>1. i # n + 1
      BY <1>1, <1>3, <2>1
    <3>2. QED
      BY <1>1, <2>1, <3>1
  <2>2. CASE j # n + 1
    <3>1. j \in 1..n /\ s[j] = b
      BY <1>1, <1>3, <2>2
    <3>2. i # n + 1
      BY <1>1, <1>2, <1>3, <3>1
    <3>3. i \in 1..n /\ s[i] = a
      BY <1>1, <1>3, <3>2
    <3>4. QED
      BY <1>2, <3>1, <3>3
  <2>3. QED
    BY <2>1, <2>2
<1>4. Sorted(t, a, b)
  BY <1>1, <1>3 DEF Sorted
<1>5. QED
  BY <1>4 DEF t

\* What is drawn from s keeps its order, adds nothing and repeats nothing.
Keeps(t, s) ==
    /\ \A r : Stands(r, t) => Stands(r, s)
    /\ Distinct(s) => Distinct(t)
    /\ \A a, b : Sorted(s, a, b) => Sorted(t, a, b)

LEMMA DrawnKeeps ==
    ASSUME NEW S, NEW s \in Seq(S), NEW t \in Seq(S), Drawn(t, s)
    PROVE  Keeps(t, s)
<1>1. PICK at \in [1..Len(t) -> 1..Len(s)] :
         Increasing(at, Len(t)) /\ \A k \in 1..Len(t) : t[k] = s[at[k]]
  BY DEF Drawn
<1>2. \A k \in 1..Len(t) : at[k] \in 1..Len(s) /\ at[k] \in Nat /\ k \in Nat /\ t[k] = s[at[k]]
  BY <1>1
<1>3. \A k, l \in 1..Len(t) : k < l => at[k] < at[l]
  BY <1>1 DEF Increasing
<1>4. \A r : Stands(r, t) => Stands(r, s)
  BY <1>2 DEF Stands
<1>5. ASSUME Distinct(s) PROVE Distinct(t)
  <2> SUFFICES ASSUME NEW i \in 1..Len(t), NEW j \in 1..Len(t), t[i] = t[j]
               PROVE  i = j
    BY DEF Distinct
  <2>0. at[i] \in 1..Len(s) /\ at[j] \in 1..Len(s) /\ s[at[i]] = s[at[j]]
    BY <1>2
  <2>1. at[i] = at[j]
    BY <1>5, <2>0, Zenon DEF Distinct
  <2>2. ~(at[i] < at[j]) /\ ~(at[j] < at[i])
    BY <1>2, <2>1
  <2>3. ~(i < j) /\ ~(j < i)
    BY <1>3, <2>2
  <2>4. QED
    BY <1>2, <2>3
<1>6. ASSUME NEW a, NEW b, Sorted(s, a, b) PROVE Sorted(t, a, b)
  <2> SUFFICES ASSUME NEW i \in 1..Len(t), NEW j \in 1..Len(t), t[i] = a, t[j] = b
               PROVE  i < j
    BY DEF Sorted
  <2>1. at[i] < at[j]
    BY <1>2, <1>6 DEF Sorted
  <2>2. QED
    BY <1>2, <1>3, <2>1
<1>7. QED
  BY <1>4, <1>5, <1>6 DEF Keeps
--------------------------------------------------------------------------------
(* What was pushed, and what is lost                                        *)

\* The history of pushes holds every record once, the first of a request before
\* its second, and none that the request has not pushed.
Pushed ==
    /\ Distinct(pushed)
    /\ \A e \in Emitters :
         /\ Sorted(pushed, <<e, 1>>, <<e, 2>>)
         /\ \A k \in {1, 2} : Stands(<<e, k>>, pushed) => k <= em[e].pushed

\* A lost record was sent, and is in no channel and not in the file.
LostGone ==
    \A e \in Emitters, k \in {1, 2} :
        <<e, k>> \in lost =>
            /\ k <= em[e].sent
            /\ ~Stands(<<e, k>>, Written)
            /\ \A g \in Sinks : ~Stands(<<e, k>>, queue[g])

\* A request pushes its next record.
LEMMA PushedPush ==
    ASSUME Types, Ring, Pushed, NEW e \in Emitters, emit_push(e)
    PROVE  Pushed'
<1> DEFINE k0 == em[e].pushed + 1
           x  == <<e, k0>>
<1>1. /\ pushed' = Append(pushed, x) /\ em' = [em EXCEPT ![e].pushed = k0]
      /\ em[e].pushed < 2 /\ pushed \in Seq(AuditRecords)
  BY DEF emit_push, Ring, Lines
<1>2. em[e].pushed \in 0..2
  BY DEF Types
<1>3. k0 \in {1, 2} /\ ~(k0 <= em[e].pushed) /\ x \in AuditRecords
  BY <1>1, <1>2 DEF AuditRecords
<1>4. ~Stands(x, pushed)
  BY <1>3 DEF Pushed
<1>5. k0 = 1 => ~Stands(<<e, 2>>, pushed)
  <2>1. k0 = 1 => ~(2 <= em[e].pushed)
    BY <1>2
  <2>2. QED
    BY <2>1 DEF Pushed
<1>6. em'[e].pushed = k0 /\ \A d \in Emitters : d # e => em'[d] = em[d]
  BY <1>1 DEF Types
<1>7. \A k \in {1, 2} : k <= em[e].pushed => k <= k0
  BY <1>2
<1>8. k0 <= k0
  BY <1>3
<1>9. \A r : Stands(r, pushed') <=> Stands(r, pushed) \/ r = x
  BY <1>1, <1>3, StandsAppend
<1>10. Distinct(pushed')
  BY <1>1, <1>3, <1>4, DistinctAppend DEF Pushed
<1>11. ASSUME NEW d \in Emitters
       PROVE  Sorted(pushed', <<d, 1>>, <<d, 2>>)
  <2>1. Sorted(pushed, <<d, 1>>, <<d, 2>>) /\ <<d, 1>> # <<d, 2>>
    BY DEF Pushed
  <2>2. x = <<d, 1>> => ~Stands(<<d, 2>>, pushed)
    BY <1>5
  <2> HIDE DEF x
  <2>3. QED
    BY <1>1, <1>3, <2>1, <2>2, SortedAppend
<1>12. ASSUME NEW d \in Emitters, NEW k \in {1, 2}, Stands(<<d, k>>, pushed')
       PROVE  k <= em'[d].pushed
  <2>1. CASE Stands(<<d, k>>, pushed)
    <3>1. k <= em[d].pushed
      BY <2>1 DEF Pushed
    <3>2. CASE d = e
      BY <1>6, <1>7, <3>1, <3>2
    <3>3. CASE d # e
      BY <1>6, <3>1, <3>3
    <3>4. QED
      BY <3>2, <3>3
  <2>2. CASE <<d, k>> = x
    <3>1. d = e /\ k = k0
      BY <2>2
    <3>2. QED
      BY <1>6, <1>8, <3>1
  <2>3. QED
    BY <1>9, <1>12, <2>1, <2>2
<1>13. QED
  BY <1>10, <1>11, <1>12 DEF Pushed

\* Every step keeps that.
LEMMA PushedStep ==
    ASSUME Types, Ring, Pushed, [Next]_vars
    PROVE  Pushed'
<1>1. ASSUME pushed' = pushed, \A d \in Emitters : em'[d].pushed = em[d].pushed
      PROVE  Pushed'
  BY <1>1 DEF Pushed
<1>2. ASSUME NEW e \in Emitters, begin(e)
      PROVE  Pushed'
  <2>1. pushed' = pushed /\ em' = [em EXCEPT ![e].sink = sinks]
    BY <1>2 DEF begin
  <2>2. \A d \in Emitters : em'[d].pushed = em[d].pushed
    BY <2>1 DEF Types
  <2>3. QED
    BY <1>1, <2>1, <2>2
<1>3. ASSUME NEW e \in Emitters, emit_send(e)
      PROVE  Pushed'
  <2>1. pushed' = pushed /\ em' = [em EXCEPT ![e].sent = em[e].sent + 1]
    BY <1>3 DEF emit_send
  <2>2. \A d \in Emitters : em'[d].pushed = em[d].pushed
    BY <2>1 DEF Types
  <2>3. QED
    BY <1>1, <2>1, <2>2
<1>4. CASE crash
  <2> DEFINE none == <<>>
  <2>1. pushed' = none
    BY <1>4 DEF crash
  <2>2. (\A r : ~Stands(r, none)) /\ Distinct(none)
    BY DEF Stands, Distinct
  <2> HIDE DEF none
  <2>3. QED
    BY <2>1, <2>2, SortedAbsent DEF Pushed
<1>5. CASE UNCHANGED <<pushed, em>>
  BY <1>1, <1>5
<1>6. QED
  BY <1>2, <1>3, <1>4, <1>5, PushedPush
  DEF Next, vars, Write, write_text, write_newline, start, reload, reload_fails

\* A record is sent: it was not lost before.
LEMMA LostSend ==
    ASSUME Types, Order, LostGone, NEW e \in Emitters, emit_send(e)
    PROVE  LostGone'
<1> DEFINE home == em[e].sink
           k0   == em[e].pushed
           x    == <<e, k0>>
           q    == Append(queue[home], x)
<1>1. /\ queue' = [queue EXCEPT ![home] = q] /\ lost' = lost /\ Written' = Written
      /\ em' = [em EXCEPT ![e].sent = em[e].sent + 1] /\ em[e].sent < k0
  BY DEF emit_send, Written
<1>2. em[e].sent \in 0..2 /\ k0 \in 0..2 /\ home \in Sinks
  BY <1>1 DEF Types
<1>3. k0 \in {1, 2} /\ ~(k0 <= em[e].sent) /\ x \in AuditRecords
  BY <1>1, <1>2 DEF AuditRecords
<1>4. x \notin lost
  BY <1>3 DEF LostGone
<1>5. /\ queue'[home] = q /\ \A g \in Sinks : g # home => queue'[g] = queue[g]
      /\ queue[home] \in Seq(AuditRecords)
  BY <1>1, <1>2 DEF Types, Lines
<1>6. \A r : Stands(r, q) <=> Stands(r, queue[home]) \/ r = x
  BY <1>3, <1>5, StandsAppend
<1>7. \A k \in {1, 2} : \A d \in Emitters : k <= em[d].sent => k <= em'[d].sent
  <2> TAKE k \in {1, 2}
  <2> TAKE d \in Emitters
  <2>1. /\ em[d].sent \in 0..2
        /\ em \in [Emitters -> [sink : Sinks \cup {None}, pushed : 0..2, sent : 0..2]]
    BY DEF Types
  <2>2. em'[d].sent = IF d = e THEN em[e].sent + 1 ELSE em[d].sent
    BY <1>1, <2>1
  <2>3. QED
    BY <1>2, <2>1, <2>2
<1> HIDE DEF x, q
<1>8. \A g \in Sinks : \A r : Stands(r, queue'[g]) => Stands(r, queue[g]) \/ r = x
  BY <1>5, <1>6
<1> SUFFICES ASSUME NEW d \in Emitters, NEW k \in {1, 2}, <<d, k>> \in lost
             PROVE  /\ k <= em'[d].sent
                    /\ ~Stands(<<d, k>>, Written)
                    /\ \A g \in Sinks : ~Stands(<<d, k>>, queue'[g])
  BY <1>1 DEF LostGone
<1>9. /\ k <= em[d].sent /\ ~Stands(<<d, k>>, Written)
      /\ \A g \in Sinks : ~Stands(<<d, k>>, queue[g])
  BY DEF LostGone
<1>10. QED
  BY <1>4, <1>7, <1>8, <1>9

\* A record is written, or lost for good.
LEMMA LostWrite ==
    ASSUME Types, Order, LostGone, NEW g \in Sinks, NEW out \in WriteOutcomes,
           write_text(g, out)
    PROVE  LostGone'
<1> DEFINE x    == Head(queue[g])
           rest == Tail(queue[g])
<1>1. /\ queue' = [queue EXCEPT ![g] = rest] /\ em' = em
      /\ queue[g] \in Seq(AuditRecords) /\ queue[g] # <<>> /\ x \in AuditRecords
      /\ Written \in Seq(AuditRecords)
  <2>1. queue[g] \in Seq(AuditRecords) /\ queue[g] # <<>>
    BY DEF Types, Lines, write_text
  <2>2. x \in AuditRecords
    BY <2>1
  <2>3. Written \in Seq(AuditRecords)
    BY FlattenTypes DEF Types, Lines, Written
  <2>4. QED
    BY <2>1, <2>2, <2>3 DEF write_text
<1>2. \/ Written' = Append(Written, x) /\ lost' = lost
      \/ Written' = Written /\ lost' = lost \cup {x}
  <2>1. CASE out = "ok"
    <3>1. WriteText(x) /\ lost' = lost
      BY <2>1 DEF write_text
    <3> HIDE DEF x
    <3>2. QED
      BY <1>1, <3>1, WrittenText
  <2>2. CASE out # "ok"
    BY <2>2 DEF write_text, Written
  <2>3. QED
    BY <2>1, <2>2
<1>3. /\ queue'[g] = rest /\ \A h \in Sinks : h # g => queue'[h] = queue[h]
  BY <1>1 DEF Types
<1>4. \A r : Stands(r, queue[g]) <=> Stands(r, rest) \/ r = x
  BY <1>1, StandsTail
<1>5. Distinct(queue[g])
  BY DEF Order, Once
<1>6. ~Stands(x, rest)
  BY <1>1, <1>5, DistinctTail
<1> HIDE DEF rest, x
<1>7. \A h \in Sinks : \A r : Stands(r, queue'[h]) => Stands(r, queue[h])
  BY <1>3, <1>4
<1>a. \A r : Stands(r, Append(Written, x)) <=> Stands(r, Written) \/ r = x
  BY <1>1, StandsAppend
<1>8. ~Stands(x, Written) /\ Stands(x, queue[g])
  BY <1>1, <1>4 DEF Order, Once
<1>9. PICK e \in Emitters, k0 \in {1, 2} : x = <<e, k0>>
  BY <1>1 DEF AuditRecords
<1>10. em[e].sink = g /\ k0 <= em[e].sent
  BY <1>8, <1>9 DEF Order, Sent
<1>11. x \notin lost
  BY <1>8, <1>9 DEF LostGone
<1>12. \A h \in Sinks : ~Stands(x, queue'[h])
  <2> TAKE h \in Sinks
  <2>1. CASE h = g
    BY <1>3, <1>6, <2>1
  <2>2. CASE h # g
    BY <1>3, <1>9, <1>10, <2>2 DEF Order, Sent
  <2>3. QED
    BY <2>1, <2>2
<1> SUFFICES ASSUME NEW d \in Emitters, NEW k \in {1, 2}, <<d, k>> \in lost'
             PROVE  /\ k <= em[d].sent
                    /\ ~Stands(<<d, k>>, Written')
                    /\ \A h \in Sinks : ~Stands(<<d, k>>, queue'[h])
  BY <1>1 DEF LostGone
<1>13. CASE <<d, k>> \in lost
  <2>1. /\ k <= em[d].sent /\ ~Stands(<<d, k>>, Written)
        /\ \A h \in Sinks : ~Stands(<<d, k>>, queue[h])
    BY <1>13 DEF LostGone
  <2>2. <<d, k>> # x
    BY <1>11, <1>13
  <2>3. ~Stands(<<d, k>>, Written')
    BY <1>2, <1>a, <2>1, <2>2
  <2>4. QED
    BY <1>7, <2>1, <2>3
<1>14. CASE <<d, k>> \notin lost
  <2>1. <<d, k>> = x /\ Written' = Written
    BY <1>2, <1>14
  <2>2. d = e /\ k = k0
    BY <1>9, <2>1
  <2>3. ~Stands(<<d, k>>, Written')
    BY <1>8, <2>1
  <2>4. \A h \in Sinks : ~Stands(<<d, k>>, queue'[h])
    BY <1>12, <2>1
  <2>5. QED
    BY <1>10, <2>2, <2>3, <2>4
<1>15. QED
  BY <1>13, <1>14

\* The process dies: what the channels held was sent and is not in the file.
LEMMA LostCrash ==
    ASSUME Types, Order, LostGone, crash
    PROVE  LostGone'
<1> DEFINE none == <<>>
           died == UNION {SE!ToSet(queue[g]) : g \in Sinks}
           gone == [sink |-> None, pushed |-> 2, sent |-> 2]
<1>1. /\ queue' = [g \in Sinks |-> none] /\ lost' = lost \cup died /\ Written' = Written
      /\ em' = [e \in Emitters |-> IF em[e] = Gone THEN Gone ELSE gone]
  BY DEF crash, Written
<1>2. \A r : ~Stands(r, none)
  BY DEF Stands
<1>3. gone.sent = 2
  OBVIOUS
<1>4. \A r \in died : \E g \in Sinks : Stands(r, queue[g])
  <2>1. \A g \in Sinks : queue[g] \in Seq(AuditRecords)
    BY DEF Types, Lines
  <2>2. \A g \in Sinks : \A r \in SE!ToSet(queue[g]) : Stands(r, queue[g])
    BY <2>1 DEF SE!ToSet, Stands
  <2>3. QED
    BY <2>2
<1> HIDE DEF none, died, gone
<1> SUFFICES ASSUME NEW d \in Emitters, NEW k \in {1, 2}, <<d, k>> \in lost'
             PROVE  k <= em'[d].sent /\ ~Stands(<<d, k>>, Written)
  BY <1>1, <1>2 DEF LostGone
<1>5. k <= em[d].sent /\ ~Stands(<<d, k>>, Written)
  <2>1. CASE <<d, k>> \in lost
    BY <2>1 DEF LostGone
  <2>2. CASE <<d, k>> \notin lost
    <3>1. PICK g \in Sinks : Stands(<<d, k>>, queue[g])
      BY <1>1, <1>4, <2>2
    <3>2. <<d, k>> \in AuditRecords
      BY DEF AuditRecords
    <3>3. QED
      BY <3>1, <3>2 DEF Order, Once, Sent
  <2>3. QED
    BY <2>1, <2>2
<1>6. k <= em'[d].sent
  <2>1. CASE em[d] = Gone
    BY <1>1, <1>5, <2>1
  <2>2. CASE em[d] # Gone
    BY <1>1, <1>3, <2>2
  <2>3. QED
    BY <2>1, <2>2
<1>7. QED
  BY <1>5, <1>6

\* Every step keeps that.
LEMMA LostStep ==
    ASSUME Types, Order, LostGone, [Next]_vars
    PROVE  LostGone'
<1>1. ASSUME UNCHANGED <<queue, lost>>, Written' = Written,
             \A d \in Emitters : em'[d].sent = em[d].sent
      PROVE  LostGone'
  BY <1>1 DEF LostGone
<1>2. ASSUME NEW e \in Emitters, begin(e) \/ emit_push(e)
      PROVE  LostGone'
  <2>1. UNCHANGED <<queue, lost>> /\ Written' = Written
    BY <1>2 DEF begin, emit_push, Written
  <2>2. em' = [em EXCEPT ![e].sink = sinks] \/ em' = [em EXCEPT ![e].pushed = em[e].pushed + 1]
    BY <1>2 DEF begin, emit_push
  <2>a. em \in [Emitters -> [sink : Sinks \cup {None}, pushed : 0..2, sent : 0..2]]
    BY DEF Types
  <2>b. \A d \in Emitters : em'[d].sent = em[d].sent
    BY <2>2, <2>a
  <2>3. QED
    BY <1>1, <2>1, <2>b
<1>3. ASSUME NEW g \in Sinks, write_newline(g)
      PROVE  LostGone'
  <2>1. UNCHANGED <<em, lost, queue>>
    BY <1>3 DEF write_newline
  <2>2. QED
    BY <1>1, <1>3, <2>1, WrittenNewline
<1>4. CASE UNCHANGED <<queue, lost, em, file>>
  BY <1>1, <1>4 DEF Written
<1>5. QED
  BY <1>2, <1>3, <1>4, LostSend, LostWrite, LostCrash
  DEF Next, Write, vars, start, reload, reload_fails

\* In the file the first record of a request stands before its second.
LEMMA WrittenSorted ==
    ASSUME Types, Order, LostGone, NEW e \in Emitters
    PROVE  Distinct(Written) /\ Sorted(Written, <<e, 1>>, <<e, 2>>)
<1>1. Written \in Seq(AuditRecords) /\ Distinct(Written)
  BY FlattenTypes DEF Types, Lines, Written, Order, Once
<1>2. CASE <<e, 1>> \in lost
  <2>1. ~Stands(<<e, 1>>, Written)
    BY <1>2 DEF LostGone
  <2>2. QED
    BY <1>1, <2>1, SortedAbsent
<1>3. CASE <<e, 1>> \notin lost
  <2>1. Preceded(Written, <<e, 1>>, <<e, 2>>)
    BY <1>3 DEF Order, InOrder
  <2>2. QED
    BY <1>1, <2>1, SortedPreceded
<1>4. QED
  BY <1>2, <1>3
--------------------------------------------------------------------------------
(* Selections                                                               *)

\* f[i] selects from the first i elements of s, for i up to n.
Picks(f, s, I, n) ==
    f = [i \in 0..n |-> IF i = 0 THEN <<>>
                        ELSE IF i \in I THEN Append(f[i - 1], s[i]) ELSE f[i - 1]]

\* What such a function returns.
Takes(f, s, I, n) ==
    /\ f[0] = <<>>
    /\ \A i \in 1..n : i \in I => f[i] = Append(f[i - 1], s[i])
    /\ \A i \in 1..n : i \notin I => f[i] = f[i - 1]

LEMMA PicksTake ==
    ASSUME NEW n \in Nat, NEW s, NEW I, NEW f, Picks(f, s, I, n)
    PROVE  Takes(f, s, I, n)
<1> DEFINE F(i) == IF i = 0 THEN <<>>
                   ELSE IF i \in I THEN Append(f[i - 1], s[i]) ELSE f[i - 1]
<1>1. f = [i \in 0..n |-> F(i)]
  BY DEF Picks
<1> HIDE DEF F
<1>2. \A i \in 0..n : f[i] = F(i)
  BY <1>1
<1>3. 0 \in 0..n /\ \A i \in 1..n : i \in 0..n /\ i # 0
  OBVIOUS
<1>4. f[0] = <<>>
  BY <1>2, <1>3 DEF F
<1>5. \A i \in 1..n : f[i] = IF i \in I THEN Append(f[i - 1], s[i]) ELSE f[i - 1]
  BY <1>2, <1>3, Zenon DEF F
<1>6. QED
  BY <1>4, <1>5, Zenon DEF Takes

\* Such a function exists for every length.
LEMMA PicksExist ==
    ASSUME NEW n \in Nat, NEW s, NEW I
    PROVE  \E f : Picks(f, s, I, n)
<1> DEFINE T == {m \in Nat : ~\E f : Picks(f, s, I, m)}
<1> SUFFICES ASSUME T # {} PROVE FALSE
  OBVIOUS
<1>1. T \in SUBSET Nat
  OBVIOUS
<1>2. PICK m \in T : \A j \in T : m <= j
  BY <1>1, Least
<1>3. m \in Nat /\ ~\E f : Picks(f, s, I, m)
  OBVIOUS
<1>4. CASE m = 0
  <2> DEFINE f == [i \in 0..0 |-> <<>>]
  <2>1. f = [i \in 0..0 |-> IF i = 0 THEN <<>>
                            ELSE IF i \in I THEN Append(f[i - 1], s[i]) ELSE f[i - 1]]
    OBVIOUS
  <2> HIDE DEF f
  <2>2. Picks(f, s, I, 0)
    BY <2>1 DEF Picks
  <2>3. QED
    BY <1>3, <1>4, <2>2
<1>5. CASE m # 0
  <2>1. m - 1 \in Nat /\ m - 1 \notin T
    BY <1>2, <1>3, <1>5
  <2>2. PICK g : Picks(g, s, I, m - 1)
    BY <2>1
  <2>3. Takes(g, s, I, m - 1)
    BY <2>1, <2>2, PicksTake
  <2> DEFINE last == IF m \in I THEN Append(g[m - 1], s[m]) ELSE g[m - 1]
             f    == [i \in 0..m |-> IF i = m THEN last ELSE g[i]]
  <2> HIDE DEF last
  <2>4. f[m] = last /\ \A i \in 0..(m - 1) : f[i] = g[i]
    BY <1>3
  <2>5. f = [i \in 0..m |-> f[i]]
    OBVIOUS
  <2> HIDE DEF f
  <2>6. ASSUME NEW i \in 0..m
        PROVE  f[i] = IF i = 0 THEN <<>>
                      ELSE IF i \in I THEN Append(f[i - 1], s[i]) ELSE f[i - 1]
    <3>1. CASE i = 0
      BY <1>3, <1>5, <2>3, <2>4, <3>1 DEF Takes
    <3>2. CASE i = m
      <4>1. f[i - 1] = g[m - 1] /\ i # 0
        BY <1>3, <1>5, <2>4, <3>2
      <4>2. QED
        BY <2>4, <3>2, <4>1 DEF last
    <3>3. CASE i # 0 /\ i # m
      <4>1. i \in 1..(m - 1) /\ f[i] = g[i] /\ f[i - 1] = g[i - 1]
        BY <1>3, <2>4, <3>3
      <4>2. QED
        BY <2>3, <3>3, <4>1, Zenon DEF Takes
    <3>4. QED
      BY <3>1, <3>2, <3>3
  <2>7. Picks(f, s, I, m)
    BY <2>5, <2>6 DEF Picks
  <2>8. QED
    BY <1>3, <2>7
<1>6. QED
  BY <1>4, <1>5

\* t is what the first n elements of s have at the places I, in their order.
Choice(at, t, s, I, n) ==
    /\ at \in [1..Len(t) -> 1..n]
    /\ Increasing(at, Len(t))
    /\ \A k \in 1..Len(t) : at[k] \in I /\ t[k] = s[at[k]]
    /\ \A i \in 1..n : i \in I => \E k \in 1..Len(t) : at[k] = i

Chosen(t, s, I, n) == \E at : Choice(at, t, s, I, n)

\* An element at a place of I is appended to the choice.
LEMMA ChosenAppend ==
    ASSUME NEW S, NEW n \in Nat, NEW s, NEW I, NEW t \in Seq(S), Chosen(t, s, I, n),
           n + 1 \in I, s[n + 1] \in S
    PROVE  Chosen(Append(t, s[n + 1]), s, I, n + 1)
<1>1. PICK at : Choice(at, t, s, I, n)
  BY DEF Chosen
<1> DEFINE m  == Len(t)
           u  == Append(t, s[n + 1])
           up2 == [k \in 1..(m + 1) |-> IF k = m + 1 THEN n + 1 ELSE at[k]]
<1>2. /\ m \in Nat /\ Len(u) = m + 1 /\ u[m + 1] = s[n + 1]
      /\ \A k \in 1..m : u[k] = t[k]
  OBVIOUS
<1>3. /\ \A k \in 1..m : at[k] \in 1..n /\ at[k] \in I /\ t[k] = s[at[k]]
      /\ \A k, l \in 1..m : k < l => at[k] < at[l]
      /\ \A i \in 1..n : i \in I => \E k \in 1..m : at[k] = i
  BY <1>1 DEF Choice, Increasing
<1>4. up2[m + 1] = n + 1 /\ \A k \in 1..m : up2[k] = at[k]
  BY <1>2
<1>5. \A k \in 1..(m + 1) : k \in 1..m \/ k = m + 1
  BY <1>2
<1>6. up2 \in [1..(m + 1) -> 1..(n + 1)]
  <2>1. \A k \in 1..(m + 1) : (IF k = m + 1 THEN n + 1 ELSE at[k]) \in 1..(n + 1)
    BY <1>3, <1>5
  <2>2. QED
    BY <2>1
<1> HIDE DEF up2, u, m
<1>7. ASSUME NEW k \in 1..(m + 1), NEW l \in 1..(m + 1), k < l
      PROVE  up2[k] < up2[l]
  <2>1. k \in 1..m
    BY <1>2, <1>7
  <2>2. CASE l = m + 1
    <3>1. at[k] < n + 1
      BY <1>3, <2>1
    <3>2. QED
      BY <1>4, <2>1, <2>2, <3>1
  <2>3. CASE l # m + 1
    BY <1>3, <1>4, <1>5, <1>7, <2>1, <2>3
  <2>4. QED
    BY <2>2, <2>3
<1>8. \A k \in 1..(m + 1) : up2[k] \in I /\ u[k] = s[up2[k]]
  BY <1>2, <1>3, <1>4, <1>5
<1>9. ASSUME NEW i \in 1..(n + 1), i \in I
      PROVE  \E k \in 1..(m + 1) : up2[k] = i
  <2>1. CASE i = n + 1
    <3>1. m + 1 \in 1..(m + 1)
      BY <1>2
    <3>2. QED
      BY <1>4, <2>1, <3>1
  <2>2. CASE i # n + 1
    <3>1. PICK k \in 1..m : at[k] = i
      <4>1. i \in 1..n
        BY <2>2
      <4>2. QED
        BY <1>3, <1>9, <4>1
    <3>2. k \in 1..(m + 1)
      BY <1>2
    <3>3. QED
      BY <1>4, <3>1, <3>2
  <2>3. QED
    BY <2>1, <2>2
<1>10. Choice(up2, u, s, I, n + 1)
  BY <1>2, <1>6, <1>7, <1>8, <1>9 DEF Choice, Increasing
<1>11. QED
  BY <1>10 DEF Chosen, u

\* An element elsewhere is passed over.
LEMMA ChosenPass ==
    ASSUME NEW S, NEW n \in Nat, NEW s, NEW I, NEW t \in Seq(S), Chosen(t, s, I, n),
           n + 1 \notin I
    PROVE  Chosen(t, s, I, n + 1)
<1>1. PICK at : Choice(at, t, s, I, n)
  BY DEF Chosen
<1>2. 1..n \subseteq 1..(n + 1) /\ \A i \in 1..(n + 1) : i \in 1..n \/ i = n + 1
  OBVIOUS
<1>3. at \in [1..Len(t) -> 1..(n + 1)]
  BY <1>1, <1>2 DEF Choice
<1>4. Choice(at, t, s, I, n + 1)
  BY <1>1, <1>2, <1>3, Zenon DEF Choice
<1>5. QED
  BY <1>4 DEF Chosen

\* What a selection is.
SelectedIs(t, s, I) == Chosen(t, s, I, Len(s))

LEMMA SelectedChosen ==
    ASSUME NEW S, NEW s \in Seq(S), NEW I
    PROVE  Selected(s, I) \in Seq(S) /\ SelectedIs(Selected(s, I), s, I)
<1> DEFINE n == Len(s)
           f == CHOOSE g : g = [i \in 0..n |-> IF i = 0 THEN <<>>
                                ELSE IF i \in I THEN Append(g[i - 1], s[i]) ELSE g[i - 1]]
<1>1. Selected(s, I) = f[n]
  BY DEF Selected
<1>2. n \in Nat /\ n = Len(s)
  OBVIOUS
<1>3. \E g : g = [i \in 0..n |-> IF i = 0 THEN <<>>
                   ELSE IF i \in I THEN Append(g[i - 1], s[i]) ELSE g[i - 1]]
  <2>1. PICK g : Picks(g, s, I, n)
    BY <1>2, PicksExist
  <2>2. QED
    BY <2>1, Zenon DEF Picks
<1>4. f = [i \in 0..n |-> IF i = 0 THEN <<>>
            ELSE IF i \in I THEN Append(f[i - 1], s[i]) ELSE f[i - 1]]
  BY <1>3
<1>5. \A i \in 1..n : s[i] \in S
  OBVIOUS
<1> HIDE DEF f, n
<1>6. Picks(f, s, I, n)
  BY <1>4, Zenon DEF Picks
<1>7. Takes(f, s, I, n)
  BY <1>2, <1>6, PicksTake
<1> DEFINE Good(i) == f[i] \in Seq(S) /\ Chosen(f[i], s, I, i)
           T       == {i \in 0..n : ~Good(i)}
<1>8. T = {}
  <2> SUFFICES ASSUME T # {} PROVE FALSE
    OBVIOUS
  <2>1. T \in SUBSET Nat
    BY <1>2
  <2>2. PICK i \in T : \A j \in T : i <= j
    BY <2>1, Least
  <2>3. i \in 0..n /\ ~Good(i)
    OBVIOUS
  <2>4. CASE i = 0
    <3> DEFINE none == <<>>
               nil  == [k \in 1..0 |-> 0]
    <3>1. f[0] = none /\ none \in Seq(S) /\ Len(none) = 0
      BY <1>7 DEF Takes
    <3>2. nil \in [1..0 -> 1..0] /\ 1..0 = {}
      OBVIOUS
    <3> HIDE DEF none, nil
    <3>3. Choice(nil, none, s, I, 0)
      BY <3>1, <3>2 DEF Choice, Increasing
    <3>4. Good(0)
      BY <3>1, <3>3 DEF Chosen
    <3>5. QED
      BY <2>3, <2>4, <3>4
  <2>5. CASE i # 0
    <3>1. i \in 1..n /\ i - 1 \in 0..n /\ i - 1 \in Nat /\ (i - 1) + 1 = i /\ ~(i <= i - 1)
      BY <1>2, <2>3, <2>5
    <3>2. Good(i - 1)
      BY <2>2, <3>1
    <3> DEFINE p == f[i - 1]
               m == i - 1
    <3>3. p \in Seq(S) /\ Chosen(p, s, I, m) /\ m \in Nat /\ m + 1 = i /\ s[i] \in S
      BY <1>5, <3>1, <3>2
    <3>4. (i \in I => f[i] = Append(p, s[i])) /\ (i \notin I => f[i] = p)
      BY <1>7, <3>1, Zenon DEF Takes
    <3> HIDE DEF p, m
    <3>5. CASE i \in I
      <4>1. Append(p, s[i]) \in Seq(S)
        BY <3>3
      <4>2. Chosen(Append(p, s[m + 1]), s, I, m + 1)
        BY <3>3, <3>5, ChosenAppend
      <4>3. QED
        BY <2>3, <3>3, <3>4, <3>5, <4>1, <4>2
    <3>6. CASE i \notin I
      <4>1. Chosen(p, s, I, m + 1)
        BY <3>3, <3>6, ChosenPass
      <4>2. QED
        BY <2>3, <3>3, <3>4, <3>6, <4>1
    <3>7. QED
      BY <3>5, <3>6
  <2>6. QED
    BY <2>4, <2>5
<1>9. Good(n)
  <2>1. n \in 0..n
    BY <1>2
  <2>2. QED
    BY <1>8, <2>1
<1>10. QED
  BY <1>1, <1>2, <1>9 DEF SelectedIs

\* What stands in a selection, and that it keeps the order.
Selects(t, s, I) ==
    /\ Keeps(t, s)
    /\ \A r : Stands(r, t) <=> \E i \in 1..Len(s) : i \in I /\ s[i] = r

LEMMA SelectedSelects ==
    ASSUME NEW S, NEW s \in Seq(S), NEW I
    PROVE  Selected(s, I) \in Seq(S) /\ Selects(Selected(s, I), s, I)
<1> DEFINE t == Selected(s, I)
           n == Len(s)
<1>1. t \in Seq(S) /\ SelectedIs(t, s, I)
  BY SelectedChosen
<1> HIDE DEF t
<1>2. PICK at : Choice(at, t, s, I, n)
  BY <1>1 DEF SelectedIs, Chosen
<1>3. Drawn(t, s)
  BY <1>2 DEF Drawn, Choice
<1>4. /\ \A k \in 1..Len(t) : at[k] \in 1..n /\ at[k] \in I /\ t[k] = s[at[k]]
      /\ \A i \in 1..n : i \in I => \E k \in 1..Len(t) : at[k] = i
  BY <1>2 DEF Choice
<1>5. ASSUME NEW r, Stands(r, t)
      PROVE  \E i \in 1..n : i \in I /\ s[i] = r
  BY <1>4, <1>5 DEF Stands
<1>6. ASSUME NEW r, NEW i \in 1..n, i \in I, s[i] = r
      PROVE  Stands(r, t)
  <2>1. PICK k \in 1..Len(t) : at[k] = i
    BY <1>4, <1>6
  <2>2. t[k] = r
    BY <1>4, <1>6, <2>1
  <2>3. QED
    BY <2>2 DEF Stands
<1>7. Keeps(t, s)
  BY <1>1, <1>3, DrawnKeeps
<1>8. Selects(t, s, I)
  BY <1>5, <1>6, <1>7 DEF Selects
<1>9. QED
  BY <1>1, <1>8 DEF t

\* The latest part of a history is drawn from it.
LEMMA RecentKeeps ==
    ASSUME NEW S, NEW r \in Seq(S), NEW p \in Seq(S), Recent(r, p)
    PROVE  Keeps(r, p)
<1> DEFINE m  == Len(r)
           n  == Len(p)
           at == [i \in 1..m |-> n - m + i]
<1>1. m \in Nat /\ n \in Nat /\ m <= n /\ \A i \in 1..m : r[i] = p[n - m + i]
  BY DEF Recent
<1>2. \A i \in 1..m : n - m + i \in 1..n
  BY <1>1
<1>3. at \in [1..m -> 1..n] /\ \A i \in 1..m : at[i] = n - m + i
  BY <1>2
<1>4. Increasing(at, m)
  <2> SUFFICES ASSUME NEW k \in 1..m, NEW l \in 1..m, k < l PROVE at[k] < at[l]
    BY DEF Increasing
  <2>1. at[k] = n - m + k /\ at[l] = n - m + l
    OBVIOUS
  <2>2. QED
    BY <1>1, <2>1
<1>5. \A i \in 1..m : r[i] = p[at[i]]
  BY <1>1, <1>3
<1> HIDE DEF at
<1>6. Drawn(r, p)
  BY <1>3, <1>4, <1>5 DEF Drawn
<1>7. QED
  BY <1>6, DrawnKeeps

\* The last ones of a sequence, too.
LEMMA LastOfKeeps ==
    ASSUME NEW S, NEW s \in Seq(S), NEW n \in Nat
    PROVE  LastOf(s, n) \in Seq(S) /\ Keeps(LastOf(s, n), s)
<1>1. Len(s) \in Nat /\ \A i \in 1..Len(s) : Len(s) - Len(s) + i = i
  OBVIOUS
<1>2. Recent(s, s)
  BY <1>1 DEF Recent
<1>3. LastOf(s, n) \in Seq(S) /\ Recent(LastOf(s, n), s)
  BY <1>2, RecentCut
<1>4. QED
  BY <1>3, RecentKeeps

\* A reversed sequence holds the same, in the other order.
Turned(t, s) ==
    /\ \A r : Stands(r, t) <=> Stands(r, s)
    /\ Distinct(s) => Distinct(t)
    /\ \A a, b : Sorted(s, a, b) => Sorted(t, b, a)

LEMMA ReverseTurns ==
    ASSUME NEW S, NEW s \in Seq(S)
    PROVE  SE!Reverse(s) \in Seq(S) /\ Turned(SE!Reverse(s), s)
<1> DEFINE n == Len(s)
           t == SE!Reverse(s)
<1>1. n \in Nat /\ \A i \in 1..n : (n - i) + 1 \in 1..n /\ n - ((n - i) + 1) + 1 = i
  OBVIOUS
<1>2. t = [i \in 1..n |-> s[(n - i) + 1]]
  BY DEF SE!Reverse
<1>3. \A i \in 1..n : s[(n - i) + 1] \in S
  BY <1>1
<1>4. t \in Seq(S) /\ Len(t) = n /\ \A i \in 1..n : t[i] = s[(n - i) + 1]
  BY <1>1, <1>2, <1>3
<1> HIDE DEF t, n
<1>5. \A i \in 1..n : t[(n - i) + 1] = s[i]
  BY <1>1, <1>4
<1>6. ASSUME NEW r PROVE (\E i \in 1..n : t[i] = r) <=> (\E i \in 1..n : s[i] = r)
  BY <1>1, <1>4, <1>5
<1>7. ASSUME Distinct(s), NEW i \in 1..n, NEW j \in 1..n, t[i] = t[j]
      PROVE  i = j
  <2>1. (n - i) + 1 \in 1..n /\ (n - j) + 1 \in 1..n /\ s[(n - i) + 1] = s[(n - j) + 1]
    BY <1>1, <1>4, <1>7
  <2>2. (n - i) + 1 = (n - j) + 1
    BY <1>7, <2>1, Zenon DEF Distinct, n
  <2>3. QED
    BY <1>1, <2>2
<1>8. ASSUME NEW a, NEW b, Sorted(s, a, b), NEW i \in 1..n, NEW j \in 1..n, t[i] = b, t[j] = a
      PROVE  i < j
  <2>1. (n - i) + 1 \in 1..n /\ (n - j) + 1 \in 1..n /\ s[(n - i) + 1] = b /\ s[(n - j) + 1] = a
    BY <1>1, <1>4, <1>8
  <2>2. (n - j) + 1 < (n - i) + 1
    BY <1>8, <2>1, Zenon DEF Sorted, n
  <2>3. QED
    BY <1>1, <2>2
<1>9. n = Len(s)
  BY DEF n
<1>10. Turned(t, s)
  <2>1. \A r : Stands(r, t) <=> Stands(r, s)
    BY <1>4, <1>6, <1>9 DEF Stands
  <2>2. Distinct(s) => Distinct(t)
    BY <1>4, <1>7 DEF Distinct
  <2>3. ASSUME NEW a, NEW b, Sorted(s, a, b)
        PROVE  Sorted(t, b, a)
    <3>1. \A i, j \in 1..n : t[i] = b /\ t[j] = a => i < j
      BY <1>8, <2>3
    <3>2. QED
      BY <1>4, <3>1 DEF Sorted
  <2>4. QED
    BY <2>1, <2>2, <2>3 DEF Turned
<1>11. QED
  BY <1>4, <1>10 DEF t

--------------------------------------------------------------------------------
(* The lines that parse                                                     *)

\* b goes on from a.
Extends(a, b) == Len(a) <= Len(b) /\ \A k \in 1..Len(a) : b[k] = a[k]

LEMMA ExtendsMore ==
    ASSUME NEW S, NEW a \in Seq(S), NEW b \in Seq(S), NEW c \in Seq(S), Extends(a, b)
    PROVE  Extends(a, b \o c)
<1> DEFINE d == b \o c
<1>1. /\ Len(a) \in Nat /\ Len(b) \in Nat /\ Len(c) \in Nat /\ Len(d) = Len(b) + Len(c)
      /\ \A k \in 1..Len(b) : d[k] = b[k]
  OBVIOUS
<1>2. Len(a) <= Len(b) /\ \A k \in 1..Len(a) : b[k] = a[k]
  BY DEF Extends
<1> HIDE DEF d
<1>3. Len(a) <= Len(d) /\ \A k \in 1..Len(a) : d[k] = a[k]
  BY <1>1, <1>2
<1>4. QED
  BY <1>3 DEF Extends, d

\* A longer join goes on from a shorter one.
LEMMA JoinsExtend ==
    ASSUME NEW S, NEW n \in Nat, NEW s, \A i \in 1..n : s[i] \in Seq(S),
           NEW f, Joins(f, s, n), NEW i \in 1..n, NEW j \in 1..n, i <= j
    PROVE  Extends(f[i], f[j])
<1> DEFINE T == {m \in i..n : ~Extends(f[i], f[m])}
<1> SUFFICES ASSUME T # {} PROVE FALSE
  OBVIOUS
<1>1. T \in SUBSET Nat
  OBVIOUS
<1>2. PICK m \in T : \A l \in T : m <= l
  BY <1>1, Least
<1>3. m \in i..n /\ ~Extends(f[i], f[m])
  OBVIOUS
<1>4. \A l \in 1..n : f[l] \in Seq(S)
  BY JoinsTypes
<1>5. CASE m = i
  <2>1. Len(f[i]) <= Len(f[i])
    BY <1>4
  <2>2. QED
    BY <1>3, <1>5, <2>1 DEF Extends
<1>6. CASE m # i
  <2>1. m - 1 \in i..n /\ m - 1 \in 1..n /\ m \in 1..n /\ m # 1 /\ ~(m <= m - 1)
    BY <1>3, <1>6
  <2>2. Extends(f[i], f[m - 1])
    BY <1>2, <2>1
  <2>3. f[m] = f[m - 1] \o s[m]
    BY <2>1, JoinsAt, Zenon DEF After
  <2>4. f[i] \in Seq(S) /\ f[m - 1] \in Seq(S) /\ s[m] \in Seq(S)
    BY <1>4, <2>1
  <2>5. QED
    BY <1>3, <2>2, <2>3, <2>4, ExtendsMore
<1>7. QED
  BY <1>5, <1>6

\* A concatenation ends as its second part does.
Closes(a, b) ==
    /\ Len(a) \in Nat /\ Len(a \o b) = Len(a) + Len(b)
    /\ (a \o b)[Len(a) + Len(b)] = b[Len(b)]

LEMMA ConcatCloses ==
    ASSUME NEW S, NEW a \in Seq(S), NEW b \in Seq(S), Len(b) # 0
    PROVE  Closes(a, b)
<1>1. Len(a) \in Nat /\ Len(b) \in Nat /\ Len(a \o b) = Len(a) + Len(b)
  OBVIOUS
<1>2. /\ Len(a) + Len(b) \in 1..(Len(a) + Len(b)) /\ Len(a) + Len(b) > Len(a)
      /\ (Len(a) + Len(b)) - Len(a) = Len(b)
  BY <1>1
<1>3. (a \o b)[Len(a) + Len(b)] = b[(Len(a) + Len(b)) - Len(a)]
  BY <1>1, <1>2
<1>4. QED
  BY <1>1, <1>2, <1>3 DEF Closes

\* A line of one text ends the join up to it, which is one longer than before.
Ends(f, s, i) ==
    /\ Len(f[i]) \in Nat \ {0}
    /\ f[i][Len(f[i])] = s[i][1]
    /\ i # 1 => Len(f[i]) = Len(f[i - 1]) + 1

LEMMA JoinsOne ==
    ASSUME NEW S, NEW n \in Nat, NEW s, \A i \in 1..n : s[i] \in Seq(S),
           NEW f, Joins(f, s, n), NEW i \in 1..n, Len(s[i]) = 1
    PROVE  Ends(f, s, i)
<1>1. First(f, s, n) /\ After(f, s, n)
  BY JoinsAt
<1>2. \A l \in 1..n : f[l] \in Seq(S)
  BY JoinsTypes
<1>3. CASE i = 1
  <2>1. f[i] = s[i]
    BY <1>1, <1>3 DEF First
  <2>2. Len(f[i]) = 1
    BY <2>1
  <2>3. QED
    BY <1>3, <2>1, <2>2 DEF Ends
<1>4. CASE i # 1
  <2>1. f[i] = f[i - 1] \o s[i]
    BY <1>1, <1>4, Zenon DEF After
  <2>2. i - 1 \in 1..n
    BY <1>4
  <2>3. f[i - 1] \in Seq(S) /\ s[i] \in Seq(S)
    BY <1>2, <2>2
  <2>a. Len(s[i]) # 0
    OBVIOUS
  <2>4. Closes(f[i - 1], s[i])
    BY <2>3, <2>a, ConcatCloses
  <2>5. /\ Len(f[i]) = Len(f[i - 1]) + Len(s[i]) /\ Len(f[i - 1]) \in Nat
        /\ f[i][Len(f[i - 1]) + Len(s[i])] = s[i][Len(s[i])]
    BY <2>1, <2>4 DEF Closes
  <2> DEFINE m == Len(s[i])
             h == Len(f[i - 1])
  <2>6. m = 1 /\ h \in Nat /\ Len(f[i]) = h + m /\ f[i][h + m] = s[i][m]
    BY <2>5
  <2>7. h = Len(f[i - 1])
    OBVIOUS
  <2> HIDE DEF m, h
  <2>8. Len(f[i]) = h + 1 /\ f[i][h + 1] = s[i][1] /\ h + 1 \in Nat \ {0}
    BY <2>6
  <2>9. QED
    BY <2>7, <2>8, Zenon DEF Ends
<1>5. QED
  BY <1>3, <1>4

\* The text of such a line stands in the file's text, later for a later line.
Singles == {i \in DOMAIN file : Len(file[i]) = 1}

PlacesIn(at) ==
    /\ \A i \in Singles : at[i] \in 1..Len(Written) /\ Written[at[i]] = file[i][1]
    /\ \A i, j \in Singles : i < j => at[i] < at[j]

LEMMA SinglesPlaced ==
    ASSUME Types
    PROVE  \E at : PlacesIn(at)
<1> DEFINE n == Len(file)
           S == AuditRecords
<1>1. file \in Seq(Seq(S)) /\ n \in Nat /\ n = Len(file) /\ DOMAIN file = 1..n
      /\ \A i \in 1..n : file[i] \in Seq(S)
  BY DEF Types, Lines
<1> HIDE DEF n, S
<1>2. CASE n = 0
  <2>1. Singles = {}
    BY <1>1, <1>2 DEF Singles
  <2>2. PlacesIn(<<>>)
    BY <2>1 DEF PlacesIn
  <2>3. QED
    BY <2>2
<1>3. CASE n # 0
  <2>1. PICK f : Joins(f, file, n) /\ Written = f[n]
    <3>1. Len(file) \in Nat \ {0}
      BY <1>1, <1>3
    <3>2. QED
      BY <1>1, <3>1, FlattenIs DEF Written
  <2>2. \A i \in 1..n : f[i] \in Seq(S)
    BY <1>1, <2>1, JoinsTypes
  <2> DEFINE at == [i \in 1..n |-> Len(f[i])]
  <2>3. \A i \in 1..n : at[i] = Len(f[i]) /\ Len(f[i]) \in Nat
    BY <2>2
  <2> HIDE DEF at
  <2>4. \A i \in Singles : i \in 1..n /\ Len(file[i]) = 1
    BY <1>1 DEF Singles
  <2>5. ASSUME NEW i \in 1..n, NEW j \in 1..n, i <= j
        PROVE  Len(f[i]) <= Len(f[j]) /\ \A k \in 1..Len(f[i]) : f[j][k] = f[i][k]
    <3>1. Extends(f[i], f[j])
      BY <1>1, <2>1, <2>5, JoinsExtend
    <3>2. QED
      BY <3>1 DEF Extends
  <2>6. ASSUME NEW i \in Singles
        PROVE  /\ Len(f[i]) \in Nat \ {0} /\ f[i][Len(f[i])] = file[i][1]
               /\ i # 1 => Len(f[i]) = Len(f[i - 1]) + 1
    <3>1. Ends(f, file, i)
      BY <1>1, <2>1, <2>4, JoinsOne
    <3>2. QED
      BY <3>1 DEF Ends
  <2>7. ASSUME NEW i \in Singles
        PROVE  at[i] \in 1..Len(Written) /\ Written[at[i]] = file[i][1]
    <3>1. i \in 1..n /\ n \in 1..n /\ i <= n
      BY <1>1, <1>3, <2>4
    <3>2. Len(f[i]) <= Len(f[n]) /\ \A k \in 1..Len(f[i]) : f[n][k] = f[i][k]
      BY <2>5, <3>1
    <3>3. Len(f[i]) \in 1..Len(f[i]) /\ Len(f[i]) \in 1..Len(f[n])
      BY <2>3, <2>6, <3>1, <3>2
    <3>4. QED
      BY <2>1, <2>3, <2>6, <3>1, <3>2, <3>3
  <2>8. ASSUME NEW i \in Singles, NEW j \in Singles, i < j
        PROVE  at[i] < at[j]
    <3>1. i \in 1..n /\ j \in 1..n /\ j - 1 \in 1..n /\ i <= j - 1 /\ j # 1
      BY <1>1, <2>4, <2>8
    <3>2. Len(f[i]) <= Len(f[j - 1])
      BY <2>5, <3>1
    <3>3. Len(f[j]) = Len(f[j - 1]) + 1
      BY <2>6, <3>1
    <3>4. QED
      BY <2>3, <3>1, <3>2, <3>3
  <2>9. PlacesIn(at)
    BY <2>7, <2>8 DEF PlacesIn
  <2>10. QED
    BY <2>9
<1>4. QED
  BY <1>2, <1>3

\* What the file yields is drawn from its text.
LEMMA ReadKeeps ==
    ASSUME Types, NEW limit \in Nat
    PROVE  /\ read_recent_audit_file(limit) \in Lines
           /\ Keeps(read_recent_audit_file(limit), Written)
<1> DEFINE parsed == Selected(file, Singles)
           texts  == [i \in DOMAIN parsed |-> parsed[i][1]]
<1>1. read_recent_audit_file(limit) = LastOf(texts, limit)
  BY DEF read_recent_audit_file, Singles
<1>2. file \in Seq(Lines) /\ Written \in Seq(AuditRecords)
  BY FlattenTypes DEF Types, Lines, Written
<1>3. parsed \in Seq(Lines) /\ SelectedIs(parsed, file, Singles)
  BY <1>2, SelectedChosen
<1>4. texts = [i \in 1..Len(parsed) |-> parsed[i][1]]
  BY <1>3
<1> DEFINE m == Len(parsed)
<1> HIDE DEF parsed
<1>5. PICK at : Choice(at, parsed, file, Singles, Len(file))
  BY <1>3 DEF SelectedIs, Chosen
<1>6. m \in Nat /\ \A k \in 1..m : at[k] \in Singles /\ parsed[k] = file[at[k]]
      /\ at[k] \in 1..Len(file)
  BY <1>3, <1>5 DEF Choice
<1>7. \A k, l \in 1..m : k < l => at[k] < at[l]
  BY <1>5 DEF Choice, Increasing
<1>8. PICK p : PlacesIn(p)
  BY SinglesPlaced
<1>9. /\ \A i \in Singles : p[i] \in 1..Len(Written) /\ Written[p[i]] = file[i][1]
      /\ \A i, j \in Singles : i < j => p[i] < p[j]
  BY <1>8 DEF PlacesIn
<1> DEFINE q == [k \in 1..m |-> p[at[k]]]
<1>10. q \in [1..m -> 1..Len(Written)] /\ \A k \in 1..m : q[k] = p[at[k]]
  BY <1>6, <1>9
<1>11. ASSUME NEW k \in 1..m, NEW l \in 1..m, k < l PROVE q[k] < q[l]
  BY <1>6, <1>7, <1>9, <1>10, <1>11
<1>12. \A k \in 1..m : texts[k] = Written[q[k]]
  BY <1>4, <1>6, <1>9, <1>10
<1>13. \A k \in 1..m : Written[q[k]] \in AuditRecords
  BY <1>2, <1>10
<1>14. texts \in Seq(AuditRecords) /\ Len(texts) = m
  BY <1>4, <1>6, <1>12, <1>13
<1> HIDE DEF q, texts, m
<1>15. Drawn(texts, Written)
  BY <1>10, <1>11, <1>12, <1>14 DEF Drawn, Increasing
<1>16. Keeps(texts, Written)
  BY <1>2, <1>14, <1>15, DrawnKeeps
<1>17. LastOf(texts, limit) \in Seq(AuditRecords) /\ Keeps(LastOf(texts, limit), texts)
  BY <1>14, LastOfKeeps
<1>18. Keeps(LastOf(texts, limit), Written)
  BY <1>16, <1>17, Zenon DEF Keeps
<1>19. QED
  BY <1>1, <1>17, <1>18 DEF Lines
--------------------------------------------------------------------------------
(* The listing                                                              *)

\* What stands in one sequence after another.
LEMMA StandsConcat ==
    ASSUME NEW S, NEW a \in Seq(S), NEW b \in Seq(S), NEW r
    PROVE  Stands(r, a \o b) <=> Stands(r, a) \/ Stands(r, b)
<1> DEFINE c == a \o b
           m == Len(a)
           n == Len(b)
<1>1. /\ m \in Nat /\ n \in Nat /\ Len(c) = m + n
      /\ \A i \in 1..m : c[i] = a[i]
      /\ \A i \in 1..(m + n) : i > m => c[i] = b[i - m]
  OBVIOUS
<1>2. m = Len(a) /\ n = Len(b)
  OBVIOUS
<1> HIDE DEF c, m, n
<1>3. \A i \in 1..(m + n) : i \in 1..m \/ (i > m /\ i - m \in 1..n)
  BY <1>1
<1>4. \A i \in 1..m : i \in 1..(m + n)
  BY <1>1
<1>5. \A i \in 1..n : m + i \in 1..(m + n) /\ m + i > m /\ (m + i) - m = i
  BY <1>1
<1>6. \A i \in 1..n : c[m + i] = b[i]
  BY <1>1, <1>5
<1>7. ASSUME Stands(r, c)
      PROVE  Stands(r, a) \/ Stands(r, b)
  <2>1. PICK i \in 1..(m + n) : c[i] = r
    BY <1>1, <1>7 DEF Stands
  <2>2. CASE i \in 1..m
    BY <1>1, <1>2, <2>1, <2>2 DEF Stands
  <2>3. CASE i \notin 1..m
    BY <1>1, <1>2, <1>3, <2>1, <2>3 DEF Stands
  <2>4. QED
    BY <2>2, <2>3
<1>8. ASSUME Stands(r, a) \/ Stands(r, b)
      PROVE  Stands(r, c)
  BY <1>1, <1>2, <1>4, <1>5, <1>6, <1>8 DEF Stands
<1>9. QED
  BY <1>7, <1>8 DEF c

\* The first part has no b, the second no a.
LEMMA SortedConcat ==
    ASSUME NEW S, NEW s \in Seq(S), NEW t \in Seq(S), NEW a, NEW b,
           ~Stands(b, s), ~Stands(a, t)
    PROVE  Sorted(s \o t, a, b)
<1> DEFINE c == s \o t
           m == Len(s)
           n == Len(t)
<1>1. /\ m \in Nat /\ n \in Nat /\ Len(c) = m + n
      /\ \A i \in 1..m : c[i] = s[i]
      /\ \A i \in 1..(m + n) : i > m => c[i] = t[i - m]
  OBVIOUS
<1>2. (\A i \in 1..m : s[i] # b) /\ (\A i \in 1..n : t[i] # a)
  BY DEF Stands
<1> HIDE DEF c, m, n
<1>3. \A i \in 1..(m + n) : i \in 1..m \/ (i > m /\ i - m \in 1..n)
  BY <1>1
<1>4. ASSUME NEW i \in 1..(m + n), NEW j \in 1..(m + n), c[i] = a, c[j] = b
      PROVE  i < j
  <2>1. i \in 1..m
    <3> SUFFICES ASSUME i > m, i - m \in 1..n PROVE FALSE
      BY <1>3
    <3>1. c[i] = t[i - m]
      BY <1>1
    <3>2. QED
      BY <1>2, <1>4, <3>1
  <2>2. j \notin 1..m
    BY <1>1, <1>2, <1>4
  <2>3. QED
    BY <1>1, <2>1, <2>2
<1>5. Sorted(c, a, b)
  BY <1>1, <1>4 DEF Sorted
<1>6. QED
  BY <1>5 DEF c

\* Newest first: of every request the second record before the first.
NewestFirst(s) == \A e \in Emitters : Sorted(s, <<e, 2>>, <<e, 1>>)

\* Ordering by time keeps what there is.
TimeSorted(t, s) ==
    /\ t \in Lines
    /\ NewestFirst(t)
    /\ \A r \in AuditRecords : Stands(r, t) <=> Stands(r, s)

LEMMA ByTimeSorted ==
    ASSUME NEW s \in Lines
    PROVE  TimeSorted(by_time(s), s)
<1> DEFINE I2 == {i \in DOMAIN s : s[i][2] = 2}
           I1 == {i \in DOMAIN s : s[i][2] = 1}
           p  == Selected(s, I2)
           q  == Selected(s, I1)
<1>1. s \in Seq(AuditRecords) /\ DOMAIN s = 1..Len(s)
  BY DEF Lines
<1>2. p \in Seq(AuditRecords) /\ Selects(p, s, I2)
  BY <1>1, SelectedSelects
<1>3. q \in Seq(AuditRecords) /\ Selects(q, s, I1)
  BY <1>1, SelectedSelects
<1>4. by_time(s) = p \o q
  BY DEF by_time
<1>5. \A i \in 1..Len(s) : (i \in I2 <=> s[i][2] = 2) /\ (i \in I1 <=> s[i][2] = 1)
  BY <1>1
<1> HIDE DEF p, q, I1, I2
<1>6. \A r : Stands(r, p) <=> r[2] = 2 /\ Stands(r, s)
  BY <1>2, <1>5 DEF Selects, Stands
<1>7. \A r : Stands(r, q) <=> r[2] = 1 /\ Stands(r, s)
  BY <1>3, <1>5 DEF Selects, Stands
<1>8. \A r : Stands(r, p \o q) <=> Stands(r, p) \/ Stands(r, q)
  BY <1>2, <1>3, StandsConcat
<1>9. ASSUME NEW e \in Emitters
      PROVE  Sorted(p \o q, <<e, 2>>, <<e, 1>>)
  <2>1. ~Stands(<<e, 1>>, p) /\ ~Stands(<<e, 2>>, q)
    BY <1>6, <1>7
  <2>2. QED
    BY <1>2, <1>3, <2>1, SortedConcat
<1>10. ASSUME NEW r \in AuditRecords
       PROVE  Stands(r, p \o q) <=> Stands(r, s)
  <2>1. r[2] = 1 \/ r[2] = 2
    BY DEF AuditRecords
  <2>2. QED
    BY <1>6, <1>7, <1>8, <2>1
<1>11. p \o q \in Lines
  BY <1>2, <1>3 DEF Lines
<1> DEFINE t == p \o q
<1> HIDE DEF t
<1>12. TimeSorted(t, s)
  BY <1>9, <1>10, <1>11 DEF TimeSorted, NewestFirst, t
<1>13. QED
  BY <1>4, <1>12 DEF t

\* The places of the first of each element.
Firsts(s) == {i \in DOMAIN s : \A j \in 1..(i - 1) : s[j] # s[i]}

\* Taking them leaves each element once.
Thinned(t, s) ==
    /\ Keeps(t, s)
    /\ Distinct(t)
    /\ \A r : Stands(r, t) <=> Stands(r, s)

LEMMA FirstsThin ==
    ASSUME NEW S, NEW s \in Seq(S)
    PROVE  Selected(s, Firsts(s)) \in Seq(S) /\ Thinned(Selected(s, Firsts(s)), s)
<1> DEFINE I == Firsts(s)
           t == Selected(s, I)
           n == Len(s)
<1>1. n \in Nat /\ DOMAIN s = 1..n /\ n = Len(s)
  OBVIOUS
<1>2. t \in Seq(S) /\ Selects(t, s, I) /\ SelectedIs(t, s, I)
  BY SelectedSelects, SelectedChosen
<1>3. \A i \in 1..n : i \in I <=> \A j \in 1..(i - 1) : s[j] # s[i]
  BY <1>1 DEF Firsts
<1>4. \A i \in I : i \in 1..n
  BY <1>1 DEF Firsts
<1> HIDE DEF t, I, n
<1>5. ASSUME NEW i \in I, NEW j \in I, s[i] = s[j]
      PROVE  i = j
  <2>1. i \in 1..n /\ j \in 1..n
    BY <1>4
  <2>2. ~(i < j)
    <3> SUFFICES ASSUME i < j PROVE FALSE
      OBVIOUS
    <3>1. i \in 1..(j - 1)
      BY <1>1, <2>1
    <3>2. QED
      BY <1>3, <1>5, <2>1, <3>1
  <2>3. ~(j < i)
    <3> SUFFICES ASSUME j < i PROVE FALSE
      OBVIOUS
    <3>1. j \in 1..(i - 1)
      BY <1>1, <2>1
    <3>2. QED
      BY <1>3, <1>5, <2>1, <3>1
  <2>4. QED
    BY <1>1, <2>1, <2>2, <2>3
<1>6. Distinct(t)
  <2>1. PICK at : Choice(at, t, s, I, n)
    BY <1>1, <1>2 DEF SelectedIs, Chosen
  <2>2. \A k \in 1..Len(t) : at[k] \in I /\ t[k] = s[at[k]] /\ at[k] \in 1..n
    BY <2>1 DEF Choice
  <2>3. \A k, l \in 1..Len(t) : k < l => at[k] < at[l]
    BY <2>1 DEF Choice, Increasing
  <2> SUFFICES ASSUME NEW k \in 1..Len(t), NEW l \in 1..Len(t), t[k] = t[l]
               PROVE  k = l
    BY DEF Distinct
  <2>4. at[k] = at[l]
    BY <1>5, <2>2
  <2>5. ~(at[k] < at[l]) /\ ~(at[l] < at[k])
    BY <2>2, <2>4
  <2>6. ~(k < l) /\ ~(l < k)
    BY <2>3, <2>5
  <2>7. QED
    BY <2>6
<1>7. ASSUME NEW r, Stands(r, s)
      PROVE  Stands(r, t)
  <2> DEFINE T == {i \in 1..n : s[i] = r}
  <2>1. T \in SUBSET Nat /\ T # {}
    BY <1>1, <1>7 DEF Stands
  <2>2. PICK i \in T : \A j \in T : i <= j
    BY <2>1, Least
  <2>3. i \in 1..n /\ s[i] = r
    OBVIOUS
  <2>4. ASSUME NEW j \in 1..(i - 1)
        PROVE  s[j] # s[i]
    <3>1. j \in 1..n /\ ~(i <= j)
      BY <1>1, <2>3
    <3>2. QED
      BY <2>2, <2>3, <3>1
  <2>5. i \in I
    BY <1>3, <2>3, <2>4
  <2>6. QED
    BY <1>1, <1>2, <2>3, <2>5 DEF Selects
<1>8. Keeps(t, s)
  BY <1>2 DEF Selects
<1>9. Thinned(t, s)
  BY <1>6, <1>7, <1>8 DEF Thinned, Keeps
<1>10. QED
  BY <1>2, <1>9 DEF t, I

\* What a source tells: each record once, and newest first.
Tells(s) == s \in Lines /\ Distinct(s) /\ NewestFirst(s)

\* Ring and file together.
LEMMA MergedTells ==
    ASSUME Types, Ring, NEW limit \in Nat
    PROVE  /\ Tells(merged(limit))
           /\ \A r \in AuditRecords :
                Stands(r, merged(limit))
                  <=> \/ Stands(r, store.records)
                      \/ Stands(r, read_recent_audit_file(limit))
<1> DEFINE read  == read_recent_audit_file(limit)
           both  == store.records \o read
           all   == by_time(both)
           thin  == Selected(all, Firsts(all))
<1>1. store.records \in Seq(AuditRecords) /\ read \in Seq(AuditRecords)
  BY ReadKeeps DEF Ring, Lines
<1> HIDE DEF read
<1>2. both \in Lines /\ \A r : Stands(r, both) <=> Stands(r, store.records) \/ Stands(r, read)
  BY <1>1, StandsConcat DEF Lines
<1>3. merged(limit) = thin
  BY DEF merged, Firsts, read
<1> HIDE DEF both
<1>4. TimeSorted(all, both)
  BY <1>2, ByTimeSorted
<1> HIDE DEF all
<1>5. all \in Seq(AuditRecords) /\ NewestFirst(all)
  BY <1>4 DEF TimeSorted, Lines
<1>6. thin \in Seq(AuditRecords) /\ Thinned(thin, all)
  BY <1>5, FirstsThin
<1> HIDE DEF thin
<1>7. Tells(thin)
  <2>1. NewestFirst(thin)
    BY <1>5, <1>6 DEF NewestFirst, Thinned, Keeps
  <2>2. QED
    BY <1>6, <2>1 DEF Tells, Thinned, Lines
<1>8. \A r \in AuditRecords : Stands(r, thin) <=> Stands(r, store.records) \/ Stands(r, read)
  BY <1>2, <1>4, <1>6 DEF TimeSorted, Thinned
<1>9. QED
  BY <1>3, <1>7, <1>8 DEF read

\* The ring, from the newest.
LEMMA MemoryTells ==
    ASSUME Ring, Pushed
    PROVE  /\ Tells(SE!Reverse(store.records))
           /\ \A r : Stands(r, SE!Reverse(store.records)) <=> Stands(r, store.records)
<1> DEFINE s == store.records
           t == SE!Reverse(s)
<1>1. s \in Seq(AuditRecords) /\ pushed \in Seq(AuditRecords) /\ Recent(s, pushed)
  BY DEF Ring, Lines
<1> HIDE DEF s
<1>2. Keeps(s, pushed)
  BY <1>1, RecentKeeps
<1>3. Distinct(s) /\ \A e \in Emitters : Sorted(s, <<e, 1>>, <<e, 2>>)
  BY <1>2 DEF Pushed, Keeps
<1>4. t \in Seq(AuditRecords) /\ Turned(t, s)
  BY <1>1, ReverseTurns
<1> HIDE DEF t
<1>5. Tells(t) /\ \A r : Stands(r, t) <=> Stands(r, s)
  BY <1>3, <1>4 DEF Turned, Tells, NewestFirst, Lines
<1>6. QED
  BY <1>5 DEF t, s

\* The file, from its last line that parses.
LEMMA FileTells ==
    ASSUME Types, Order, LostGone, NEW limit \in Nat
    PROVE  Tells(SE!Reverse(read_recent_audit_file(limit)))
<1> DEFINE s == read_recent_audit_file(limit)
           t == SE!Reverse(s)
<1>1. s \in Seq(AuditRecords) /\ Keeps(s, Written)
  BY ReadKeeps DEF Lines
<1> HIDE DEF s
<1>2. \A e \in Emitters : Distinct(Written) /\ Sorted(Written, <<e, 1>>, <<e, 2>>)
  BY WrittenSorted
<1>3. Distinct(s) /\ \A e \in Emitters : Sorted(s, <<e, 1>>, <<e, 2>>)
  BY <1>1, <1>2 DEF Keeps, Order, Once
<1>4. t \in Seq(AuditRecords) /\ Turned(t, s)
  BY <1>1, ReverseTurns
<1> HIDE DEF t
<1>5. Tells(t)
  BY <1>3, <1>4 DEF Turned, Tells, NewestFirst, Lines
<1>6. QED
  BY <1>5 DEF t, s

\* The listing for one request: its records, all of them, newest first.
ListsOwn(list, s, e) ==
    /\ list \in Lines
    /\ \A r : Stands(r, list) <=> Stands(r, s) /\ r[1] = e
    /\ Len(list) = 2 => list = <<<<e, 2>>, <<e, 1>>>>

\* A record of a request is its first or its second.
LEMMA OwnIs ==
    ASSUME NEW e, NEW r \in AuditRecords, r[1] = e
    PROVE  r = <<e, 1>> \/ r = <<e, 2>>
<1>1. PICK d \in Emitters, j \in {1, 2} : r = <<d, j>>
  BY DEF AuditRecords
<1>2. d = e
  BY <1>1
<1>3. QED
  BY <1>1, <1>2

\* A request has two records, so the cut takes nothing.
LEMMA OwnShort ==
    ASSUME NEW e \in Emitters, NEW own \in Seq(AuditRecords), Distinct(own),
           \A k \in 1..Len(own) : own[k][1] = e
    PROVE  Len(own) <= 2
<1>1. Len(own) \in Nat
  OBVIOUS
<1>2. \A k \in 1..Len(own) : own[k] = <<e, 1>> \/ own[k] = <<e, 2>>
  <2> TAKE k \in 1..Len(own)
  <2>1. own[k] \in AuditRecords /\ own[k][1] = e
    OBVIOUS
  <2>2. QED
    BY <2>1, OwnIs
<1> SUFFICES ASSUME ~(Len(own) <= 2) PROVE FALSE
  OBVIOUS
<1>3. 1 \in 1..Len(own) /\ 2 \in 1..Len(own) /\ 3 \in 1..Len(own)
  BY <1>1
<1>4. own[1] # own[2] /\ own[1] # own[3] /\ own[2] # own[3]
  BY <1>3 DEF Distinct
<1>5. QED
  BY <1>2, <1>3, <1>4

LEMMA CutLists ==
    ASSUME NEW e \in Emitters, NEW s, Tells(s),
           NEW I, \A i \in 1..Len(s) : i \in I <=> s[i][1] = e,
           NEW own \in Seq(AuditRecords), Selects(own, s, I)
    PROVE  ListsOwn(SubSeq(own, 1, IF 2 < Len(own) THEN 2 ELSE Len(own)), s, e)
<1>1. s \in Seq(AuditRecords) /\ Distinct(s) /\ Sorted(s, <<e, 2>>, <<e, 1>>)
  BY DEF Tells, NewestFirst, Lines
<1>2. \A r : Stands(r, own) <=> \E i \in 1..Len(s) : i \in I /\ s[i] = r
  BY DEF Selects
<1>3. \A r : (\E i \in 1..Len(s) : i \in I /\ s[i] = r) <=> Stands(r, s) /\ r[1] = e
  BY DEF Stands
<1>4. \A r : Stands(r, own) <=> Stands(r, s) /\ r[1] = e
  BY <1>2, <1>3
<1>5. Distinct(own) /\ Sorted(own, <<e, 2>>, <<e, 1>>)
  BY <1>1 DEF Selects, Keeps
<1>6. \A k \in 1..Len(own) : Stands(own[k], own)
  BY DEF Stands
<1>7. \A k \in 1..Len(own) : own[k][1] = e
  BY <1>4, <1>6
<1>8. Len(own) <= 2
  BY <1>5, <1>7, OwnShort
<1>9. SubSeq(own, 1, IF 2 < Len(own) THEN 2 ELSE Len(own)) = own
  <2>1. Len(own) \in Nat
    OBVIOUS
  <2>2. (IF 2 < Len(own) THEN 2 ELSE Len(own)) = Len(own)
    BY <1>8, <2>1
  <2>3. SubSeq(own, 1, Len(own)) = own
    OBVIOUS
  <2>4. QED
    BY <2>2, <2>3
<1>10. ASSUME Len(own) = 2
       PROVE  own = <<<<e, 2>>, <<e, 1>>>>
  <2>1. 1 \in 1..Len(own) /\ 2 \in 1..Len(own)
    BY <1>10
  <2>2. own[1] \in AuditRecords /\ own[2] \in AuditRecords
    BY <2>1
  <2>3. own[1][1] = e /\ own[2][1] = e
    BY <1>7, <2>1
  <2>4. own[1] = <<e, 1>> \/ own[1] = <<e, 2>>
    BY <2>2, <2>3, OwnIs
  <2>5. own[2] = <<e, 1>> \/ own[2] = <<e, 2>>
    BY <2>2, <2>3, OwnIs
  <2>6. <<e, 1>> \in AuditRecords /\ <<e, 2>> \in AuditRecords
    BY DEF AuditRecords
  <2>7. own[1] # own[2]
    <3>1. 1 # 2
      OBVIOUS
    <3>2. QED
      BY <1>5, <2>1, <3>1, Zenon DEF Distinct
  <2>8. ~(own[1] = <<e, 1>> /\ own[2] = <<e, 2>>)
    <3>1. ~(2 < 1)
      OBVIOUS
    <3>2. QED
      BY <1>5, <2>1, <3>1, Zenon DEF Sorted
  <2>9. own[1] = <<e, 2>> /\ own[2] = <<e, 1>>
    BY <2>4, <2>5, <2>7, <2>8
  <2>10. QED
    BY <1>10, <2>6, <2>9
<1>11. ListsOwn(own, s, e)
  BY <1>4, <1>10 DEF ListsOwn, Lines
<1>12. QED
  BY <1>9, <1>11

\* What an administrator gets for one request.
LEMMA AdminLists ==
    ASSUME NEW e \in Emitters, NEW source, Tells(records_of(source, 2))
    PROVE  ListsOwn(admin_audits(source, 2, e), records_of(source, 2), e)
<1> DEFINE s   == records_of(source, 2)
           I   == {i \in DOMAIN s : s[i][1] = e}
           own == Selected(s, I)
<1>1. admin_audits(source, 2, e) = SubSeq(own, 1, IF 2 < Len(own) THEN 2 ELSE Len(own))
  BY Zenon DEF admin_audits
<1>2. Tells(s)
  OBVIOUS
<1> HIDE DEF s
<1>3. s \in Seq(AuditRecords)
  BY <1>2 DEF Tells, Lines
<1>4. \A i \in 1..Len(s) : i \in I <=> s[i][1] = e
  BY <1>3
<1>5. own \in Seq(AuditRecords) /\ Selects(own, s, I)
  BY <1>3, SelectedSelects
<1> HIDE DEF I, own
<1>6. ListsOwn(SubSeq(own, 1, IF 2 < Len(own) THEN 2 ELSE Len(own)), s, e)
  BY <1>2, <1>4, <1>5, CutLists
<1>7. QED
  BY <1>1, <1>6 DEF s

\* What is in the set of a sequence of records stands in it.
LEMMA InSet ==
    ASSUME NEW s \in Lines, NEW r
    PROVE  r \in SE!ToSet(s) <=> Stands(r, s)
<1>1. DOMAIN s = 1..Len(s)
  BY DEF Lines
<1>2. QED
  BY <1>1 DEF SE!ToSet, Stands

\* The invariants give what is told.
LEMMA Telling ==
    ASSUME Types, Ring, Pushed, Order, LostGone
    PROVE  TrailTold
<1> SUFFICES ASSUME NEW e \in Emitters
             PROVE  LET own   == {r \in SE!ToSet(store.records) : r[1] = e}
                        told  == admin_audits("both", 2, e)
                        brief == admin_audits("memory", 2, e)
                    IN  /\ SE!ToSet(brief) = own
                        /\ own \subseteq SE!ToSet(told)
                        /\ SE!ToSet(told) \subseteq own \cup SE!ToSet(Written)
                        /\ \A list \in {told, brief, admin_audits("file", 2, e)} :
                             Len(list) = 2 => list = <<<<e, 2>>, <<e, 1>>>>
  BY DEF TrailTold
<1> DEFINE told   == admin_audits("both", 2, e)
           brief  == admin_audits("memory", 2, e)
           filed  == admin_audits("file", 2, e)
           ring   == store.records
           read   == read_recent_audit_file(2)
           memory == SE!Reverse(ring)
           back   == SE!Reverse(read)
           both   == merged(2)
<1>0. 2 \in Nat
  OBVIOUS
<1>1. /\ records_of("both", 2) = both /\ records_of("memory", 2) = memory
      /\ records_of("file", 2) = back
  BY DEF records_of
<1>2. Tells(memory) /\ \A r : Stands(r, memory) <=> Stands(r, ring)
  BY MemoryTells
<1>3. Tells(back)
  BY <1>0, FileTells
<1>4. /\ Tells(both)
      /\ \A r \in AuditRecords : Stands(r, both) <=> Stands(r, ring) \/ Stands(r, read)
  BY <1>0, MergedTells
<1>5. \A r : Stands(r, read) => Stands(r, Written)
  BY <1>0, ReadKeeps DEF Keeps
<1>6. ring \in Lines /\ Written \in Lines
  BY FlattenTypes DEF Ring, Types, Lines, Written
<1>7. /\ Tells(records_of("both", 2)) /\ Tells(records_of("memory", 2))
      /\ Tells(records_of("file", 2))
  BY <1>1, <1>2, <1>3, <1>4
<1>8. ListsOwn(told, records_of("both", 2), e)
  BY <1>7, AdminLists
<1>9. ListsOwn(brief, records_of("memory", 2), e)
  BY <1>7, AdminLists
<1>10. ListsOwn(filed, records_of("file", 2), e)
  BY <1>7, AdminLists
<1> HIDE DEF told, brief, filed, ring, read, memory, back, both
<1>11. ListsOwn(told, both, e) /\ ListsOwn(brief, memory, e) /\ ListsOwn(filed, back, e)
  BY <1>1, <1>8, <1>9, <1>10
<1>12. /\ told \in Lines /\ brief \in Lines
       /\ \A r : Stands(r, told) <=> Stands(r, both) /\ r[1] = e
       /\ \A r : Stands(r, brief) <=> Stands(r, memory) /\ r[1] = e
  BY <1>11 DEF ListsOwn
<1>13. \A list \in {told, brief, filed} : Len(list) = 2 => list = <<<<e, 2>>, <<e, 1>>>>
  <2> DEFINE best == <<<<e, 2>>, <<e, 1>>>>
  <2>1. /\ Len(told) = 2 => told = best
        /\ Len(brief) = 2 => brief = best
        /\ Len(filed) = 2 => filed = best
    BY <1>11, Zenon DEF ListsOwn
  <2> HIDE DEF best
  <2>2. ASSUME NEW list \in {told, brief, filed}
        PROVE  Len(list) = 2 => list = best
    <3>1. list = told \/ list = brief \/ list = filed
      OBVIOUS
    <3>2. QED
      BY <2>1, <3>1, Zenon
  <2>3. QED
    BY <2>2 DEF best
<1>14. \A r : r \in SE!ToSet(ring) <=> Stands(r, ring)
  BY <1>6, InSet
<1>15. \A r : r \in SE!ToSet(told) <=> Stands(r, told)
  BY <1>12, InSet
<1>16. \A r : r \in SE!ToSet(brief) <=> Stands(r, brief)
  BY <1>12, InSet
<1>17. \A r : r \in SE!ToSet(Written) <=> Stands(r, Written)
  BY <1>6, InSet
<1>18. \A r : Stands(r, told) \/ Stands(r, ring) => r \in AuditRecords
  BY <1>6, <1>12 DEF Stands, Lines
<1> DEFINE own == {r \in SE!ToSet(ring) : r[1] = e}
<1>19. SE!ToSet(brief) = own
  BY <1>2, <1>12, <1>14, <1>16
<1>20. own \subseteq SE!ToSet(told)
  BY <1>4, <1>12, <1>14, <1>15, <1>18
<1>21. SE!ToSet(told) \subseteq own \cup SE!ToSet(Written)
  BY <1>4, <1>5, <1>12, <1>14, <1>15, <1>17, <1>18
<1>22. QED
  BY <1>13, <1>19, <1>20, <1>21 DEF told, brief, filed, ring

\* admin_audits, read_recent_audit_file, merged_audits: whatever the capacity of
\* the ring, the requests, sinks, reloads, restarts and failed writes, who asks
\* for the trail of one request sees from memory what the ring holds of it, from
\* both sources at least that, and nothing twice or out of order.
THEOREM TrailIsTold == Spec => []TrailTold
<1> DEFINE Inv == Types /\ Ring /\ Pushed /\ Order /\ LostGone
<1>1. Init => Inv
  <2> SUFFICES ASSUME Init PROVE Pushed /\ LostGone /\ Order
    BY InitInv
  <2>1. Order
    BY InitOrder
  <2> DEFINE none == <<>>
  <2>2. pushed = none /\ lost = {}
    BY DEF Init
  <2>3. (\A r : ~Stands(r, none)) /\ Distinct(none)
    BY DEF Stands, Distinct
  <2> HIDE DEF none
  <2>4. Pushed /\ LostGone
    BY <2>2, <2>3, SortedAbsent DEF Pushed, LostGone
  <2>5. QED
    BY <2>1, <2>4
<1>2. Inv /\ [Next]_vars => Inv'
  BY TypesStep, RingStep, PushedStep, OrderStep, LostStep
<1>3. Inv => TrailTold
  BY Telling
<1>4. QED
  BY <1>1, <1>2, <1>3, PTL DEF Spec
================================================================================
