--------------------------- MODULE SessionStoreProofs ---------------------------
(***************************************************************************)
(* Proofs about the session table, for any number of sessions, labels and  *)
(* calls and any configuration: sessions need not even be finitely many.   *)
(***************************************************************************)
EXTENDS SessionStore, FiniteSetTheorems, TLAPS

Entries == SessionEntry(0..MaxTime)
Tables  == [SessionIds -> Entries \cup {None}]
Records == [labels : SUBSET Labels, at : 0..MaxTime, escalated : BOOLEAN]
Limit   == IF Config.max_entries > 1 THEN Config.max_entries ELSE 1

--------------------------------------------------------------------------------
(* The table                                                                *)

\* What retain leaves is what was there and is not too old.
LEMMA Retained ==
    ASSUME NEW s \in Tables, NEW t \in 0..MaxTime
    PROVE  LET r == retain(s, Config, t)
           IN  /\ r \in Tables
               /\ Live(r) \subseteq Live(s)
               /\ \A id \in SessionIds :
                    r[id] = IF s[id] # None /\ t - s[id].updated_at <= Config.ttl
                            THEN s[id] ELSE None
BY DEF retain, Live, Tables

\* One entry at most makes room, and only if the session has none itself.
LEMMA Room ==
    ASSUME NEW s \in Tables, NEW id \in SessionIds, NEW r \in make_room(s, id, Config)
    PROVE  /\ r \in Tables
           /\ \/ /\ r = s
                 /\ \/ s[id] # None \/ Live(s) = {}
                    \/ ~(Cardinality(Live(s)) >= Config.max_entries)
              \/ \E k \in Live(s) : /\ k # id /\ s[id] = None
                                    /\ r = [s EXCEPT ![k] = None]
                                    /\ Live(r) = Live(s) \ {k}
<1>1. CASE Cardinality(Live(s)) >= Config.max_entries /\ s[id] = None /\ Live(s) # {}
  <2>1. PICK k \in oldest(s) : r = [s EXCEPT ![k] = None]
    BY <1>1 DEF make_room
  <2>2. k \in Live(s) /\ k \in SessionIds /\ k # id
    BY <1>1 DEF oldest, Live
  <2>3. r \in Tables /\ Live(r) = Live(s) \ {k}
    BY <2>1, <2>2 DEF Tables, Live
  <2> QED BY <1>1, <2>1, <2>2, <2>3
<1>2. CASE ~(Cardinality(Live(s)) >= Config.max_entries /\ s[id] = None /\ Live(s) # {})
  BY <1>2 DEF make_room
<1> QED BY <1>1, <1>2

\* Nothing but the entry of the session changes.
LEMMA Inserted ==
    ASSUME NEW s \in Tables, NEW id \in SessionIds, NEW labels \in SUBSET Labels,
           NEW t \in 0..MaxTime
    PROVE  LET r == insert(s, id, labels, t)
           IN  /\ r \in Tables
               /\ Live(r) = Live(s) \cup {id}
               /\ \A k \in SessionIds : k # id => r[k] = s[k]
<1> DEFINE e == [labels     |-> labels \cup IF s[id] = None THEN {} ELSE s[id].labels,
                 updated_at |-> t]
           r == insert(s, id, labels, t)
<1>1. e \in Entries /\ e # None
  <2>1. s[id] # None => s[id].labels \in SUBSET Labels
    BY DEF Tables, Entries, SessionEntry
  <2>2. e \in Entries
    BY <2>1 DEF Entries, SessionEntry
  <2> QED BY <2>2, SessionStoreAssumption DEF Entries
<1>2. r = [s EXCEPT ![id] = e]
  BY DEF insert
<1> HIDE DEF e, r
<1>3. r \in Tables /\ r[id] = e /\ \A k \in SessionIds : k # id => r[k] = s[k]
  BY <1>1, <1>2 DEF Tables
<1>4. Live(r) = Live(s) \cup {id}
  BY <1>1, <1>3 DEF Live
<1> QED BY <1>3, <1>4 DEF r

\* One element makes a finite set larger by at most one.
LEMMA Grown ==
    ASSUME NEW S, IsFiniteSet(S), NEW x
    PROVE  /\ IsFiniteSet(S \cup {x}) /\ Cardinality(S \cup {x}) \in Nat /\ Cardinality(S) \in Nat
           /\ Cardinality(S \cup {x}) <= Cardinality(S) + 1
           /\ x \in S => S \cup {x} = S
<1>1. Cardinality(S) \in Nat
  BY FS_CardinalityType
<1>2. CASE x \in S
  <2>1. S \cup {x} = S
    BY <1>2
  <2> QED BY <1>1, <2>1
<1>3. CASE x \notin S
  <2>1. IsFiniteSet(S \cup {x}) /\ Cardinality(S \cup {x}) = Cardinality(S) + 1
    BY <1>3, FS_AddElement
  <2> QED BY <1>1, <1>3, <2>1
<1> QED BY <1>2, <1>3

--------------------------------------------------------------------------------
(* The calls of a session                                                   *)

\* A call leaves the turns of the earlier calls alone.
LEMMA TurnsKept ==
    ASSUME calls \in [SessionIds -> Seq(Records)], NEW id \in SessionIds, NEW r \in Records,
           calls' = [calls EXCEPT ![id] = Append(@, r)],
           NEW n \in Nat, n = Len(calls[id])
    PROVE  /\ Len(calls'[id]) = n + 1
           /\ calls'[id][n + 1] = r
           /\ \A i \in 1..n : calls'[id][i] = calls[id][i]
           /\ \A k \in 1..n : LabelsOf(id, k)' = LabelsOf(id, k)
<1> DEFINE c == calls[id]
<1>1. c \in Seq(Records) /\ calls'[id] = Append(c, r)
  OBVIOUS
<1>2. /\ Len(calls'[id]) = n + 1 /\ calls'[id][n + 1] = r
      /\ \A i \in 1..n : calls'[id][i] = c[i]
  BY <1>1
<1>3. ASSUME NEW k \in 1..n
      PROVE  LabelsOf(id, k)' = LabelsOf(id, k)
  <2>1. Turn(id, k)' = Turn(id, k)
    <3>1. \A i \in 1..k : \A j \in i..(k - 1) :
             calls'[id][j + 1] = c[j + 1] /\ calls'[id][j] = c[j]
      BY <1>1, <1>2
    <3> QED BY <3>1 DEF Turn
  <2>2. \A i \in Turn(id, k) : calls'[id][i].labels = calls[id][i].labels
    <3>1. \A i \in Turn(id, k) : i \in 1..n
      BY DEF Turn
    <3> QED BY <1>2, <3>1
  <2>3. LabelsOf(id, k)' = UNION {calls'[id][i].labels : i \in Turn(id, k)}
    BY <2>1 DEF LabelsOf
  <2>4. LabelsOf(id, k) = UNION {calls[id][i].labels : i \in Turn(id, k)}
    BY DEF LabelsOf
  <2>5. {calls'[id][i].labels : i \in Turn(id, k)} = {calls[id][i].labels : i \in Turn(id, k)}
    BY <2>2, Zenon
  <2> QED BY <2>3, <2>4, <2>5, Zenon
<1> QED BY <1>1, <1>2, <1>3

\* It continues the turn if the pause is not too long.
LEMMA TurnContinued ==
    ASSUME calls \in [SessionIds -> Seq(Records)], NEW id \in SessionIds, NEW r \in Records,
           calls' = [calls EXCEPT ![id] = Append(@, r)],
           NEW n \in Nat, n = Len(calls[id]), NEW m \in Nat, m = n + 1,
           n > 0, r.at - calls[id][n].at <= Config.ttl
    PROVE  LabelsOf(id, m)' = r.labels \cup LabelsOf(id, n)
<1> DEFINE c == calls[id]
           D(i) == calls'[id][i]
           T == {i \in 1..m : \A j \in i..n : D(j + 1).at - D(j).at <= Config.ttl}
<1>1. /\ D(m) = r
      /\ \A i \in 1..n : D(i) = c[i]
  BY TurnsKept
<1>2. LabelsOf(id, m)' = UNION {D(i).labels : i \in T}
  <2>1. m - 1 = n
    OBVIOUS
  <2> QED BY <2>1 DEF LabelsOf, Turn
<1>3. m \in T
  OBVIOUS
<1>4. ASSUME NEW i \in 1..n
      PROVE  i \in T <=> i \in Turn(id, n)
  <2>1. \A j \in i..n : j = n \/ j \in i..(n - 1)
    OBVIOUS
  <2>2. \A j \in i..(n - 1) : j \in i..n /\ D(j + 1) = c[j + 1] /\ D(j) = c[j]
    BY <1>1
  <2>3. D(n + 1) = r /\ D(n) = c[n] /\ n \in i..n /\ i \in 1..m
    BY <1>1
  <2>4. i \in T <=> \A j \in i..n : D(j + 1).at - D(j).at <= Config.ttl
    BY <2>3
  <2>5. i \in Turn(id, n) <=> \A j \in i..(n - 1) : c[j + 1].at - c[j].at <= Config.ttl
    BY DEF Turn
  <2>6. r.at - c[n].at <= Config.ttl
    OBVIOUS
  <2> HIDE DEF c, D, T
  <2>7. ASSUME i \in Turn(id, n), NEW j \in i..n
        PROVE  D(j + 1).at - D(j).at <= Config.ttl
    <3>1. CASE j = n
      BY <2>3, <2>6, <3>1
    <3>2. CASE j \in i..(n - 1)
      BY <2>2, <2>5, <2>7, <3>2
    <3> QED BY <2>1, <3>1, <3>2
  <2>8. ASSUME i \in T, NEW j \in i..(n - 1)
        PROVE  c[j + 1].at - c[j].at <= Config.ttl
    BY <2>2, <2>4, <2>8
  <2> QED BY <2>4, <2>5, <2>7, <2>8
<1>5. T = Turn(id, n) \cup {m}
  <2>1. \A i \in T : i \in 1..n \/ i = m
    OBVIOUS
  <2>2. \A i \in Turn(id, n) : i \in 1..n
    BY DEF Turn
  <2> HIDE DEF T
  <2> QED BY <1>3, <1>4, <2>1, <2>2
<1>6. \A i \in Turn(id, n) : D(i).labels = c[i].labels
  BY <1>1 DEF Turn
<1>7. LabelsOf(id, n) = UNION {c[i].labels : i \in Turn(id, n)}
  BY DEF LabelsOf
<1> HIDE DEF T, D, c
<1>8. ASSUME NEW x
      PROVE  x \in UNION {D(i).labels : i \in T} <=> x \in r.labels \/ x \in LabelsOf(id, n)
  <2>1. (\E i \in T : x \in D(i).labels) <=>
          (x \in D(m).labels \/ \E i \in Turn(id, n) : x \in c[i].labels)
    BY <1>5, <1>6
  <2> QED BY <1>1, <1>7, <2>1
<1> QED BY <1>2, <1>8

\* It begins a turn of its own if the pause was longer, or it is the first.
LEMMA TurnBegun ==
    ASSUME calls \in [SessionIds -> Seq(Records)], NEW id \in SessionIds, NEW r \in Records,
           calls' = [calls EXCEPT ![id] = Append(@, r)],
           NEW n \in Nat, n = Len(calls[id]), NEW m \in Nat, m = n + 1,
           ~(n > 0 /\ r.at - calls[id][n].at <= Config.ttl)
    PROVE  LabelsOf(id, m)' = r.labels
<1> DEFINE c == calls[id]
           D(i) == calls'[id][i]
           T == {i \in 1..m : \A j \in i..n : D(j + 1).at - D(j).at <= Config.ttl}
<1>1. /\ D(m) = r
      /\ \A i \in 1..n : D(i) = c[i]
  BY TurnsKept
<1>2. LabelsOf(id, m)' = UNION {D(i).labels : i \in T}
  <2>1. m - 1 = n
    OBVIOUS
  <2> QED BY <2>1 DEF LabelsOf, Turn
<1>3. m \in T
  OBVIOUS
<1>4. ASSUME NEW i \in T, i # m
      PROVE  FALSE
  <2>1. i \in 1..n /\ n \in i..n /\ n > 0
    BY <1>4
  <2>2. D(n + 1) = r /\ D(n) = c[n]
    BY <1>1, <2>1
  <2> QED BY <2>1, <2>2
<1>5. T = {m}
  BY <1>3, <1>4
<1> HIDE DEF T, D
<1>6. \A x : (\E i \in T : x \in D(i).labels) <=> x \in r.labels
  BY <1>1, <1>5
<1>7. UNION {D(i).labels : i \in T} = r.labels
  BY <1>6
<1> QED BY <1>2, <1>7

--------------------------------------------------------------------------------
(* The inductive invariant                                                  *)

Types ==
    /\ sessions \in Tables
    /\ now \in 0..MaxTime
    /\ calls \in [SessionIds -> Seq(Records)]
    /\ swept \in [SessionIds -> 0..MaxTime]
    /\ forgotten \subseteq SessionIds

\* Finitely many sessions are in the table, and finitely many calls were made.
Bounded ==
    /\ IsFiniteSet(Live(sessions))
    /\ Cardinality(Live(sessions)) <= Limit
    /\ IsFiniteSet(CallsMade)
    /\ \A id \in SessionIds : Len(calls[id]) <= MaxCalls

\* The entry of a session has the date of its last call and labels of its turn.
Dated(id) ==
    LET n == Len(calls[id])
    IN  sessions[id] # None =>
            /\ n > 0
            /\ sessions[id].updated_at = calls[id][n].at
            /\ sessions[id].labels \subseteq LabelsOf(id, n)

\* It has all labels of its turn; a session without an entry had it swept when
\* the turn was over.
Exact(id) ==
    LET n == Len(calls[id])
    IN  /\ sessions[id] # None => sessions[id].labels = LabelsOf(id, n)
        /\ sessions[id] = None /\ n > 0 => swept[id] - calls[id][n].at > Config.ttl
        /\ \A k \in 1..n :
             calls[id][k].escalated <=> Cardinality(LabelsOf(id, k)) >= Config.threshold

Charged ==
    Config.enabled => \A id \in SessionIds : Dated(id) /\ (id \notin forgotten => Exact(id))

IInv == Types /\ Bounded /\ Charged

--------------------------------------------------------------------------------
(* Each action preserves it                                                 *)

\* A session whose entry was only retained or swept is charged as before.
LEMMA Aged ==
    ASSUME IInv, Config.enabled, NEW t \in 0..MaxTime, Sweep(t), NEW id \in SessionIds,
           calls'[id] = calls[id], sessions'[id] = retain(sessions, Config, t)[id]
    PROVE  Dated(id)' /\ (id \notin forgotten => Exact(id)')
<1>1. PICK n \in Nat : n = Len(calls[id])
  BY DEF IInv, Types
<1>2. \A k \in 1..n : LabelsOf(id, k)' = LabelsOf(id, k)
  BY DEF LabelsOf, Turn
<1>3. Dated(id) /\ (id \notin forgotten => Exact(id))
  BY DEF IInv, Charged
<1>4. /\ sessions'[id] = IF sessions[id] # None /\ t - sessions[id].updated_at <= Config.ttl
                         THEN sessions[id] ELSE None
      /\ swept'[id] = IF sessions[id] # None /\ sessions'[id] = None THEN t ELSE swept[id]
  BY Retained DEF IInv, Types, Sweep
<1>5. Dated(id)'
  BY <1>1, <1>2, <1>3, <1>4 DEF Dated
<1>6. ASSUME id \notin forgotten
      PROVE  Exact(id)'
  <2>1. sessions'[id] # None => sessions'[id].labels = LabelsOf(id, n)'
    <3> SUFFICES ASSUME sessions'[id] # None
                 PROVE  sessions'[id].labels = LabelsOf(id, n)'
      OBVIOUS
    <3>1. sessions'[id] = sessions[id] /\ n > 0
      BY <1>1, <1>3, <1>4 DEF Dated
    <3> QED BY <1>1, <1>2, <1>3, <1>6, <3>1 DEF Exact
  <2>2. sessions'[id] = None /\ n > 0 => swept'[id] - calls'[id][n].at > Config.ttl
    <3> SUFFICES ASSUME sessions'[id] = None, n > 0
                 PROVE  swept'[id] - calls'[id][n].at > Config.ttl
      OBVIOUS
    <3>1. CASE sessions[id] = None
      BY <1>1, <1>3, <1>4, <1>6, <3>1 DEF Exact
    <3>2. CASE sessions[id] # None
      <4>1. sessions[id].updated_at = calls[id][n].at
        BY <1>1, <1>3, <3>2 DEF Dated
      <4>2. sessions[id].updated_at \in 0..MaxTime /\ MaxTime \in Nat /\ Config.ttl \in Nat
        BY <3>2, SessionStoreAssumption DEF IInv, Types, Tables, Entries, SessionEntry
      <4>3. ~(t - sessions[id].updated_at <= Config.ttl) /\ swept'[id] = t
        BY <1>4, <3>2
      <4> QED BY <4>1, <4>2, <4>3
    <3> QED BY <3>1, <3>2
  <2>3. \A k \in 1..n : calls'[id][k].escalated <=>
                          Cardinality(LabelsOf(id, k)') >= Config.threshold
    BY <1>1, <1>2, <1>3, <1>6 DEF Exact
  <2> QED BY <1>1, <2>1, <2>2, <2>3 DEF Exact
<1> QED BY <1>5, <1>6

\* What a call counts: below the bound there is room for one more call of every
\* session.
LEMMA CallCounted ==
    ASSUME IInv, Cardinality(CallsMade) < MaxCalls, NEW id \in SessionIds, NEW r \in Records,
           calls' = [calls EXCEPT ![id] = Append(@, r)]
    PROVE  /\ calls' \in [SessionIds -> Seq(Records)]
           /\ IsFiniteSet(CallsMade)'
           /\ \A k \in SessionIds : Len(calls'[k]) <= MaxCalls
<1>1. PICK n \in Nat : n = Len(calls[id])
  BY DEF IInv, Types
<1>2. /\ calls' \in [SessionIds -> Seq(Records)]
      /\ Len(calls'[id]) = n + 1
      /\ \A k \in SessionIds : k # id => calls'[k] = calls[k]
  BY <1>1 DEF IInv, Types
<1>3. n < MaxCalls
  <2> DEFINE S == {<<id, i>> : i \in 1..n}
             f == [i \in 1..n |-> <<id, i>>]
  <2>1. n <= MaxCalls /\ MaxCalls \in Nat
    BY <1>1, SessionStoreAssumption DEF IInv, Bounded
  <2>2. S \subseteq CallsMade
    BY <1>1, <2>1 DEF CallsMade
  <2>3. f \in Bijection(1..n, S)
    BY DEF Bijection, Injection, Surjection, IsInjective
  <2>4. Cardinality(S) = n
    BY <2>3, FS_CountingElements DEF ExistsBijection
  <2>5. IsFiniteSet(CallsMade)
    BY DEF IInv, Bounded
  <2>6. Cardinality(S) <= Cardinality(CallsMade) /\ Cardinality(CallsMade) \in Nat
    BY <2>2, <2>5, FS_Subset, FS_CardinalityType
  <2> QED BY <2>1, <2>4, <2>6
<1>4. \A k \in SessionIds : Len(calls'[k]) <= MaxCalls
  <2>1. MaxCalls \in Nat
    BY SessionStoreAssumption
  <2> QED BY <1>2, <1>3, <2>1 DEF IInv, Bounded
<1>5. IsFiniteSet(CallsMade)'
  <2>1. CallsMade' \subseteq CallsMade \cup {<<id, n + 1>>}
    <3> SUFFICES ASSUME NEW c \in CallsMade', c # <<id, n + 1>>
                 PROVE  c \in CallsMade
      OBVIOUS
    <3>1. c \in SessionIds \X (1..MaxCalls) /\ c[2] <= Len(calls'[c[1]])
      BY DEF CallsMade
    <3>2. PICK k \in SessionIds, i \in 1..MaxCalls : c = <<k, i>>
      BY <3>1
    <3>3. i <= Len(calls[k])
      BY <1>1, <1>2, <3>1, <3>2
    <3> QED BY <3>1, <3>2, <3>3 DEF CallsMade
  <2>2. IsFiniteSet(CallsMade \cup {<<id, n + 1>>})
    BY FS_AddElement DEF IInv, Bounded
  <2>3. IsFiniteSet(CallsMade')
    BY <2>1, <2>2, FS_Subset
  <2> QED BY <2>3
<1> QED BY <1>2, <1>4, <1>5

\* A call of record_and_check, with sessions off.
LEMMA StepDisabled ==
    ASSUME IInv, ~Config.enabled, NEW id \in SessionIds, NEW labels \in SUBSET Labels,
           NEW t \in 0..now, record_and_check(id, labels, t)
    PROVE  IInv'
<1> DEFINE r == [labels |-> labels, at |-> t, escalated |-> FALSE]
<1>1. /\ Cardinality(CallsMade) < MaxCalls
      /\ calls' = [calls EXCEPT ![id] = Append(@, r)]
      /\ UNCHANGED <<sessions, swept, forgotten, now>>
  BY DEF record_and_check
<1>2. r \in Records
  BY SessionStoreAssumption DEF IInv, Types, Records
<1> HIDE DEF r
<1>3. /\ calls' \in [SessionIds -> Seq(Records)]
      /\ IsFiniteSet(CallsMade)'
      /\ \A k \in SessionIds : Len(calls'[k]) <= MaxCalls
  BY <1>1, <1>2, CallCounted
<1>4. Types'
  BY <1>1, <1>3 DEF IInv, Types
<1>5. Bounded'
  BY <1>1, <1>3 DEF IInv, Bounded, Live
<1> QED BY <1>4, <1>5 DEF IInv, Charged

\* A call of record_and_check: the table keeps to its limit, and the session is
\* charged with the labels of its turn.
LEMMA StepRecord ==
    ASSUME IInv, Config.enabled, NEW id \in SessionIds, NEW labels \in SUBSET Labels,
           NEW t \in 0..now, record_and_check(id, labels, t)
    PROVE  IInv'
<1> DEFINE R == retain(sessions, Config, t)
<1>5. PICK r \in Records :
         r = [labels |-> labels, at |-> t, escalated |-> escalates(sessions', id, Config)]
  <2>1. escalates(sessions', id, Config) \in BOOLEAN
    BY DEF escalates
  <2>2. t \in 0..MaxTime
    BY SessionStoreAssumption DEF IInv, Types
  <2> QED BY <2>1, <2>2 DEF Records
<1>1. /\ Cardinality(CallsMade) < MaxCalls
      /\ calls' = [calls EXCEPT ![id] = Append(@, r)]
      /\ Sweep(t)
      /\ forgotten' = forgotten \cup (Live(R) \ Live(sessions'))
                        \cup (IF t < swept[id] THEN {id} ELSE {})
      /\ UNCHANGED now
  BY <1>5 DEF record_and_check
<1>2. PICK room \in make_room(R, id, Config) : sessions' = insert(room, id, labels, t)
  BY DEF record_and_check, recorded
<1>3. t \in 0..MaxTime /\ now \in 0..MaxTime /\ MaxTime \in Nat
  BY SessionStoreAssumption DEF IInv, Types
<1>4. /\ R \in Tables /\ Live(R) \subseteq Live(sessions)
      /\ \A k \in SessionIds :
           R[k] = IF sessions[k] # None /\ t - sessions[k].updated_at <= Config.ttl
                  THEN sessions[k] ELSE None
  BY <1>3, Retained DEF IInv, Types
<1>6. /\ r.labels = labels /\ r.at = t
      /\ r.escalated <=> Cardinality(sessions'[id].labels) >= Config.threshold
  BY <1>5 DEF escalates
<1> HIDE DEF R
<1>7. /\ room \in Tables
      /\ \/ /\ room = R
            /\ R[id] # None \/ Live(R) = {} \/ ~(Cardinality(Live(R)) >= Config.max_entries)
         \/ \E k \in Live(R) : /\ k # id /\ R[id] = None
                               /\ room = [R EXCEPT ![k] = None]
                               /\ Live(room) = Live(R) \ {k}
  BY <1>4, Room
<1>8. /\ sessions' \in Tables
      /\ Live(sessions') = Live(room) \cup {id}
      /\ \A k \in SessionIds : k # id => sessions'[k] = room[k]
      /\ sessions'[id].updated_at = t
      /\ sessions'[id].labels = labels \cup (IF room[id] = None THEN {} ELSE room[id].labels)
  <2>1. room \in Tables /\ t \in 0..MaxTime
    BY <1>3, <1>7
  <2>2. /\ sessions' \in Tables
        /\ Live(sessions') = Live(room) \cup {id}
        /\ \A k \in SessionIds : k # id => sessions'[k] = room[k]
    BY <1>2, <2>1, Inserted, SMTT(30)
  <2>3. /\ sessions'[id].updated_at = t
        /\ sessions'[id].labels = labels \cup (IF room[id] = None THEN {} ELSE room[id].labels)
    BY <1>2, <2>1 DEF insert, Tables
  <2> QED BY <2>2, <2>3
<1>9. /\ calls' \in [SessionIds -> Seq(Records)]
      /\ IsFiniteSet(CallsMade)'
      /\ \A k \in SessionIds : Len(calls'[k]) <= MaxCalls
  BY <1>1, <1>5, CallCounted
<1>10. room[id] = R[id]
  BY <1>4, <1>7 DEF Tables
<1>11. Types'
  <2>1. swept' \in [SessionIds -> 0..MaxTime]
    BY <1>1, <1>3 DEF Sweep, IInv, Types
  <2>2. Live(R) \subseteq SessionIds
    BY DEF Live
  <2> QED BY <1>1, <1>8, <1>9, <2>1, <2>2 DEF IInv, Types
<1>12. Bounded'
  <2>1. /\ IsFiniteSet(Live(R)) /\ Cardinality(Live(R)) \in Nat
        /\ Cardinality(Live(R)) <= Limit
    <3>1. IsFiniteSet(Live(sessions)) /\ Cardinality(Live(sessions)) <= Limit
      BY DEF IInv, Bounded
    <3>2. IsFiniteSet(Live(R)) /\ Cardinality(Live(R)) <= Cardinality(Live(sessions))
      BY <1>4, <3>1, FS_Subset
    <3>3. Cardinality(Live(R)) \in Nat /\ Cardinality(Live(sessions)) \in Nat
      BY <3>1, <3>2, FS_CardinalityType
    <3>4. Limit \in Nat
      BY SessionStoreAssumption DEF Limit
    <3> QED BY <3>1, <3>2, <3>3, <3>4
  <2>2. Config.max_entries \in Nat
    BY SessionStoreAssumption
  <2>3. IsFiniteSet(Live(room) \cup {id}) /\ Cardinality(Live(room) \cup {id}) <= Limit
    <3>1. CASE room = R /\ R[id] # None
      <4>1. id \in Live(room)
        BY <3>1 DEF Live
      <4>2. Live(room) \cup {id} = Live(R)
        BY <3>1, <4>1
      <4> QED BY <2>1, <4>2
    <3>2. CASE room = R /\ Live(R) = {}
      <4>1. Live(room) \cup {id} = {id}
        BY <3>2
      <4>2. IsFiniteSet({id}) /\ Cardinality({id}) = 1
        BY FS_Singleton
      <4> QED BY <2>2, <4>1, <4>2 DEF Limit
    <3>3. CASE room = R /\ ~(Cardinality(Live(R)) >= Config.max_entries)
      <4>1. /\ IsFiniteSet(Live(R) \cup {id}) /\ Cardinality(Live(R) \cup {id}) \in Nat
            /\ Cardinality(Live(R) \cup {id}) <= Cardinality(Live(R)) + 1
        BY <2>1, Grown
      <4> QED BY <2>1, <2>2, <3>3, <4>1 DEF Limit
    <3>4. ASSUME NEW k \in Live(R), Live(room) = Live(R) \ {k}
          PROVE  IsFiniteSet(Live(room) \cup {id}) /\ Cardinality(Live(room) \cup {id}) <= Limit
      <4>1. IsFiniteSet(Live(room)) /\ Cardinality(Live(room)) = Cardinality(Live(R)) - 1
        BY <2>1, <3>4, FS_RemoveElement
      <4>2. /\ IsFiniteSet(Live(room) \cup {id}) /\ Cardinality(Live(room) \cup {id}) \in Nat
            /\ Cardinality(Live(room) \cup {id}) <= Cardinality(Live(room)) + 1
            /\ Cardinality(Live(room)) \in Nat
        BY <4>1, Grown
      <4>3. Limit \in Nat
        BY SessionStoreAssumption DEF Limit
      <4> QED BY <2>1, <4>1, <4>2, <4>3
    <3> QED BY <1>7, <3>1, <3>2, <3>3, <3>4
  <2>4. Live(sessions)' = Live(room) \cup {id}
    BY <1>8 DEF Live
  <2> QED BY <1>9, <2>3, <2>4 DEF Bounded
<1>13. ASSUME NEW k \in SessionIds, k # id
       PROVE  (Dated(k) /\ (k \notin forgotten => Exact(k)))'
  <2>1. calls'[k] = calls[k] /\ sessions'[k] = room[k]
    BY <1>1, <1>8, <1>13 DEF IInv, Types
  <2>2. CASE room[k] = R[k]
    <3>1. Dated(k)' /\ (k \notin forgotten => Exact(k)')
      BY <1>1, <1>3, <2>1, <2>2, Aged DEF R
    <3> QED BY <1>1, <3>1
  <2>3. CASE room[k] # R[k]
    <3>1. room[k] = None /\ k \in Live(R)
      BY <1>4, <1>7, <2>3 DEF Tables, Live
    <3>2. k \in forgotten'
      BY <1>1, <1>8, <2>1, <3>1 DEF Live
    <3> QED BY <2>1, <3>1, <3>2 DEF Dated
  <2> QED BY <2>2, <2>3
<1>14. (Dated(id) /\ (id \notin forgotten => Exact(id)))'
  <2>1. PICK n \in Nat, m \in Nat : n = Len(calls[id]) /\ m = n + 1
    BY DEF IInv, Types
  <2>10. calls \in [SessionIds -> Seq(Records)] /\ calls' = [calls EXCEPT ![id] = Append(@, r)]
    BY <1>1 DEF IInv, Types
  <2>2. /\ Len(calls'[id]) = m
        /\ calls'[id][m] = r
        /\ \A i \in 1..n : calls'[id][i] = calls[id][i]
        /\ \A k \in 1..n : LabelsOf(id, k)' = LabelsOf(id, k)
    BY <2>1, <2>10, TurnsKept, ZenonT(60)
  <2>11. n > 0 /\ t - calls[id][n].at <= Config.ttl =>
           LabelsOf(id, m)' = labels \cup LabelsOf(id, n)
    BY <1>6, <2>1, <2>10, TurnContinued, ZenonT(60)
  <2>12. ~(n > 0 /\ t - calls[id][n].at <= Config.ttl) => LabelsOf(id, m)' = labels
    BY <1>6, <2>1, <2>10, TurnBegun
  <2>3. Dated(id) /\ (id \notin forgotten => Exact(id))
    BY DEF IInv, Charged
  <2>4. sessions'[id] # None
    BY <1>8 DEF Live
  <2>5. /\ R[id] = None => sessions'[id].labels = labels
        /\ R[id] # None => sessions'[id].labels = labels \cup R[id].labels
    BY <1>8, <1>10
  <2>6. R[id] # None =>
          /\ R[id] = sessions[id] /\ sessions[id] # None /\ n > 0
          /\ t - calls[id][n].at <= Config.ttl
    BY <1>4, <2>1, <2>3 DEF Dated
  <2>7. Dated(id)'
    <3>1. sessions'[id].labels \subseteq LabelsOf(id, m)'
      <4>1. CASE R[id] = None
        BY <1>6, <2>2, <2>11, <2>12, <2>5, <4>1
      <4>2. CASE R[id] # None
        <5>1. R[id].labels \subseteq LabelsOf(id, n)
          BY <2>1, <2>3, <2>6, <4>2 DEF Dated
        <5> QED BY <1>6, <2>2, <2>11, <2>12, <2>5, <2>6, <4>2, <5>1
      <4> QED BY <4>1, <4>2
    <3>2. m > 0 /\ sessions'[id].updated_at = calls'[id][m].at
      BY <1>6, <1>8, <2>1, <2>2
    <3> QED BY <2>2, <3>1, <3>2 DEF Dated
  <2>8. ASSUME id \notin forgotten'
        PROVE  Exact(id)'
    <3>1. id \notin forgotten /\ ~(t < swept[id]) /\ Exact(id)
      BY <1>1, <2>3, <2>8
    <3>2. sessions'[id].labels = LabelsOf(id, m)'
      <4>1. CASE R[id] # None
        <5>1. R[id].labels = LabelsOf(id, n)
          BY <2>1, <2>6, <3>1, <4>1 DEF Exact
        <5> QED BY <1>6, <2>2, <2>11, <2>12, <2>5, <2>6, <4>1, <5>1
      <4>2. CASE R[id] = None
        <5>1. ~(n > 0 /\ t - calls[id][n].at <= Config.ttl)
          <6> SUFFICES ASSUME n > 0, t - calls[id][n].at <= Config.ttl PROVE FALSE
            OBVIOUS
          <6>1. calls[id][n].at \in 0..MaxTime /\ swept[id] \in 0..MaxTime
            <7>1. calls[id] \in Seq(Records) /\ n \in 1..Len(calls[id])
              BY <2>1 DEF IInv, Types
            <7>2. calls[id][n] \in Records
              BY <7>1
            <7> QED BY <7>2 DEF IInv, Types, Records
          <6>2. CASE sessions[id] = None
            <7>1. swept[id] - calls[id][n].at > Config.ttl
              BY <2>1, <3>1, <6>2 DEF Exact
            <7>2. Config.ttl \in Nat
              BY SessionStoreAssumption
            <7> QED BY <1>3, <3>1, <6>1, <7>1, <7>2
          <6>3. CASE sessions[id] # None
            <7>1. sessions[id].updated_at = calls[id][n].at
              BY <2>1, <2>3, <6>3 DEF Dated
            <7> QED BY <1>4, <4>2, <6>3, <7>1
          <6> QED BY <6>2, <6>3
        <5> QED BY <1>6, <2>2, <2>11, <2>12, <2>5, <4>2, <5>1
      <4> QED BY <4>1, <4>2
    <3>3. ASSUME NEW k \in 1..m
          PROVE  calls'[id][k].escalated <=> Cardinality(LabelsOf(id, k)') >= Config.threshold
      <4>1. CASE k = m
        BY <1>6, <2>2, <3>2, <4>1
      <4>2. CASE k # m
        <5>1. k \in 1..n
          BY <2>1, <4>2
        <5> QED BY <2>1, <2>2, <3>1, <5>1 DEF Exact
      <4> QED BY <4>1, <4>2
    <3> QED BY <2>2, <2>4, <3>2, <3>3 DEF Exact
  <2> QED BY <2>7, <2>8
<1> QED BY <1>11, <1>12, <1>13, <1>14 DEF IInv, Charged

\* Counting the sessions sweeps the table.
LEMMA StepActive ==
    ASSUME IInv, NEW t \in 0..now, active_sessions(t)
    PROVE  IInv'
<1> DEFINE R == retain(sessions, Config, t)
<1>1. Config.enabled /\ sessions' = R /\ Sweep(t) /\ UNCHANGED <<now, calls, forgotten>>
  BY DEF active_sessions
<1>2. t \in 0..MaxTime
  BY SessionStoreAssumption DEF IInv, Types
<1>3. R \in Tables /\ Live(R) \subseteq Live(sessions)
  BY <1>2, Retained DEF IInv, Types
<1> HIDE DEF R
<1>4. Types'
  <2>1. swept' \in [SessionIds -> 0..MaxTime]
    BY <1>1, <1>2 DEF Sweep, IInv, Types
  <2> QED BY <1>1, <1>3, <2>1 DEF IInv, Types
<1>5. Bounded'
  <2>1. IsFiniteSet(Live(sessions)) /\ Cardinality(Live(sessions)) <= Limit
    BY DEF IInv, Bounded
  <2>2. IsFiniteSet(Live(R)) /\ Cardinality(Live(R)) <= Cardinality(Live(sessions))
    BY <1>3, <2>1, FS_Subset
  <2>3. Cardinality(Live(R)) \in Nat /\ Cardinality(Live(sessions)) \in Nat /\ Limit \in Nat
    BY <2>1, <2>2, FS_CardinalityType, SessionStoreAssumption DEF Limit
  <2>4. Live(sessions)' = Live(R) /\ CallsMade' = CallsMade
    BY <1>1 DEF Live, CallsMade
  <2> QED BY <1>1, <2>1, <2>2, <2>3, <2>4 DEF IInv, Bounded
<1>6. ASSUME NEW id \in SessionIds
      PROVE  (Dated(id) /\ (id \notin forgotten => Exact(id)))'
  <2>1. Dated(id)' /\ (id \notin forgotten => Exact(id)')
    BY <1>1, <1>2, Aged DEF R
  <2> QED BY <1>1, <2>1
<1> QED BY <1>4, <1>5, <1>6 DEF IInv, Charged

\* Time passes, or nothing happens.
LEMMA StepTick ==
    ASSUME IInv, tick \/ UNCHANGED vars
    PROVE  IInv'
<1>1. UNCHANGED <<sessions, calls, swept, forgotten>> /\ now' \in 0..MaxTime
  BY SessionStoreAssumption DEF tick, vars, IInv, Types
<1>2. Types' /\ Bounded'
  BY <1>1 DEF IInv, Types, Bounded, Live, CallsMade
<1>3. Charged'
  <2>1. \A id, k : LabelsOf(id, k)' = LabelsOf(id, k)
    BY <1>1 DEF LabelsOf, Turn
  <2>2. ASSUME NEW id \in SessionIds
        PROVE  (Dated(id) => Dated(id)') /\ (Exact(id) => Exact(id)')
    BY <1>1, <2>1 DEF Dated, Exact
  <2> QED BY <1>1, <2>2 DEF IInv, Charged
<1> QED BY <1>2, <1>3 DEF IInv

--------------------------------------------------------------------------------
(* The theorems                                                             *)

\* The table is empty.
LEMMA Start == Init => IInv
<1> SUFFICES ASSUME Init PROVE IInv
  OBVIOUS
<1>1. Types
  BY SessionStoreAssumption DEF Init, Types, Tables
<1>2. Bounded
  <2>1. Live(sessions) = {} /\ \A id \in SessionIds : calls[id] = <<>> /\ Len(calls[id]) = 0
    BY DEF Init, Live
  <2>2. CallsMade = {}
    <3> SUFFICES ASSUME NEW c \in CallsMade PROVE FALSE
      OBVIOUS
    <3>1. PICK id \in SessionIds, i \in 1..MaxCalls : c = <<id, i>> /\ c[2] <= Len(calls[c[1]])
      BY DEF CallsMade
    <3> QED BY <2>1, <3>1
  <2>3. IsFiniteSet({}) /\ Cardinality({}) = 0
    BY FS_EmptySet
  <2> QED BY <2>1, <2>2, <2>3, SessionStoreAssumption DEF Bounded, Limit
<1>3. Charged
  BY DEF Init, Charged, Dated, Exact
<1> QED BY <1>1, <1>2, <1>3 DEF IInv

\* One step per action.
LEMMA Step == IInv /\ [Next]_vars => IInv'
<1> SUFFICES ASSUME IInv, [Next]_vars PROVE IInv'
  OBVIOUS
<1>1. ASSUME NEW id \in SessionIds, NEW labels \in SUBSET Labels, NEW t \in 0..now,
             record_and_check(id, labels, t)
      PROVE  IInv'
  BY <1>1, StepRecord, StepDisabled
<1>2. ASSUME NEW t \in 0..now, active_sessions(t)
      PROVE  IInv'
  BY <1>2, StepActive
<1>3. CASE tick \/ UNCHANGED vars
  BY <1>3, StepTick
<1> QED BY <1>1, <1>2, <1>3 DEF Next

\* The invariant holds throughout.
LEMMA Invariance == Spec => []IInv
BY Start, Step, PTL DEF Spec

\* make_room keeps the table of record_and_check within max_entries, or at one
\* entry when that is zero, however many sessions call.
THEOREM TableNeverOutgrows == Spec => []TableBounded
<1>1. IInv => TableBounded
  <2> SUFFICES ASSUME IInv PROVE TableBounded
    OBVIOUS
  <2>1. \A id \in SessionIds : \A i \in 1..Len(calls[id]) : calls[id][i] \in Records
    BY DEF IInv, Types
  <2>2. TypeOK
    BY <2>1 DEF TypeOK, IInv, Types, Bounded, Tables, Entries, Records
  <2> QED BY <2>2 DEF TableBounded, IInv, Bounded, Limit
<1> QED BY <1>1, Invariance, PTL

\* record_and_check escalates exactly when the labels of the session's unbroken
\* turn reach the threshold, in whatever order the calls read the clock and
\* take the mutex, unless the session was evicted or overtaken.
THEOREM SplittingDoesNotHelp == Spec => []EscalationExact
<1>1. IInv => EscalationExact
  <2> SUFFICES ASSUME IInv, Config.enabled, NEW id \in SessionIds
               PROVE  /\ sessions[id] # None =>
                           sessions[id].labels \subseteq LabelsOf(id, Len(calls[id]))
                      /\ id \notin forgotten => \A k \in 1..Len(calls[id]) :
                           calls[id][k].escalated <=>
                               Cardinality(LabelsOf(id, k)) >= Config.threshold
    BY DEF EscalationExact
  <2>1. Dated(id) /\ (id \notin forgotten => Exact(id))
    BY DEF IInv, Charged
  <2> QED BY <2>1 DEF Dated, Exact
<1> QED BY <1>1, Invariance, PTL
================================================================================
