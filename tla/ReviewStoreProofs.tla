--------------------------- MODULE ReviewStoreProofs ---------------------------
(***************************************************************************)
(* Proofs about the review queue, for every set of tickets, fingerprints,  *)
(* capacities and TTLs, and for every way an append may fail.              *)
(***************************************************************************)
EXTENDS ReviewStore, FiniteSetTheorems, TLAPS

Events == CreatedEvents \cup ResolvedEvents

--------------------------------------------------------------------------------
(* What the helpers return                                                  *)

\* An empty store is a store.
LEMMA EmptyInnerType ==
    ASSUME NEW c \in Nat
    PROVE  EmptyInner(c) \in ReviewStoreInner
BY DEF EmptyInner, ReviewStoreInner

\* A store is the record of its five fields, and stays one when they are
\* replaced by values of their types.
LEMMA InnerRecord ==
    ASSUME NEW s \in ReviewStoreInner
    PROVE  /\ s.capacity \in Nat
           /\ s.order \in Seq(TicketIds)
           /\ s.tickets \in [TicketIds -> ReviewTicket \cup {None}]
           /\ s.pending \in [Fingerprints -> TicketIds \cup {None}]
           /\ s.overrides \in [Fingerprints -> StoredOverride \cup {None}]
BY DEF ReviewStoreInner

\* Each field of a store may be replaced by another of its type.
LEMMA InnerUpdate ==
    ASSUME NEW s \in ReviewStoreInner,
           NEW o \in Seq(TicketIds),
           NEW t \in [TicketIds -> ReviewTicket \cup {None}],
           NEW p \in [Fingerprints -> TicketIds \cup {None}],
           NEW v \in [Fingerprints -> StoredOverride \cup {None}],
           NEW r,
           \/ r = [s EXCEPT !.overrides = v]
           \/ r = [s EXCEPT !.tickets = t]
           \/ r = [s EXCEPT !.pending = p, !.overrides = v]
           \/ r = [s EXCEPT !.order = o, !.pending = p, !.tickets = t]
           \/ r = [s EXCEPT !.order = o, !.tickets = t, !.pending = p, !.overrides = v]
    PROVE  r \in ReviewStoreInner
<1> DEFINE T == [TicketIds -> ReviewTicket \cup {None}]
           P == [Fingerprints -> TicketIds \cup {None}]
           V == [Fingerprints -> StoredOverride \cup {None}]
           O == Seq(TicketIds)
<1>1. ReviewStoreInner = [capacity: Nat, order: O, tickets: T, pending: P, overrides: V]
  BY DEF ReviewStoreInner
<1>2. t \in T /\ p \in P /\ v \in V /\ o \in O
  OBVIOUS
<1> HIDE DEF T, P, V, O
<1> QED BY <1>1, <1>2

\* prune_expired_overrides only ever removes overrides.
LEMMA PruneFields ==
    ASSUME NEW s \in ReviewStoreInner
    PROVE  /\ prune_expired_overrides(s) \in ReviewStoreInner
           /\ prune_expired_overrides(s).capacity = s.capacity
           /\ prune_expired_overrides(s).order = s.order
           /\ prune_expired_overrides(s).tickets = s.tickets
           /\ prune_expired_overrides(s).pending = s.pending
           /\ \A f \in Fingerprints :
                prune_expired_overrides(s).overrides[f] \in {s.overrides[f], None}
BY DEF prune_expired_overrides, ReviewStoreInner

\* trim_to_capacity drops a set of tickets and every index entry of their
\* fingerprints, and nothing else.
LEMMA TrimFields ==
    ASSUME NEW s \in ReviewStoreInner
    PROVE  LET r == trim_to_capacity(s)
           IN  /\ r \in ReviewStoreInner
               /\ r.capacity = s.capacity
               /\ \E gone \in SUBSET TicketIds :
                    /\ \A t \in TicketIds :
                         r.tickets[t] = IF t \in gone THEN None ELSE s.tickets[t]
                    /\ \A f \in Fingerprints :
                         IF \E t \in gone : s.tickets[t] # None /\ s.tickets[t].fp = f
                         THEN r.pending[f] = None /\ r.overrides[f] = None
                         ELSE /\ r.pending[f] = s.pending[f]
                              /\ r.overrides[f] = s.overrides[f]
<1> DEFINE excess  == IF Len(s.order) > s.capacity THEN Len(s.order) - s.capacity ELSE 0
           evicted == {s.order[i] : i \in 1..excess}
           dropped == {f \in Fingerprints :
                         \E t \in evicted : s.tickets[t] # None /\ s.tickets[t].fp = f}
           r       == trim_to_capacity(s)
<1>1. /\ s.order \in Seq(TicketIds)
      /\ Len(s.order) \in Nat
      /\ s.capacity \in Nat
  BY DEF ReviewStoreInner
<1>2. excess \in 0..Len(s.order)
  BY <1>1
<1>3. evicted \subseteq TicketIds
  BY <1>1, <1>2
<1>4. SubSeq(s.order, excess + 1, Len(s.order)) \in Seq(TicketIds)
  BY <1>1, <1>2
<1>5. r = [s EXCEPT
           !.order     = SubSeq(s.order, excess + 1, Len(s.order)),
           !.tickets   = [t \in TicketIds |-> IF t \in evicted THEN None ELSE s.tickets[t]],
           !.pending   = [f \in Fingerprints |-> IF f \in dropped THEN None ELSE s.pending[f]],
           !.overrides = [f \in Fingerprints |-> IF f \in dropped THEN None ELSE s.overrides[f]]]
  BY DEF trim_to_capacity
<1>6. /\ r.capacity = s.capacity
      /\ r.order = SubSeq(s.order, excess + 1, Len(s.order))
      /\ r.tickets = [t \in TicketIds |-> IF t \in evicted THEN None ELSE s.tickets[t]]
      /\ r.pending = [f \in Fingerprints |-> IF f \in dropped THEN None ELSE s.pending[f]]
      /\ r.overrides = [f \in Fingerprints |-> IF f \in dropped THEN None ELSE s.overrides[f]]
  <2> HIDE DEF r, evicted, dropped, excess
  <2> QED BY <1>5 DEF ReviewStoreInner
<1>7. r \in ReviewStoreInner
  <2>1. /\ [t \in TicketIds |-> IF t \in evicted THEN None ELSE s.tickets[t]]
             \in [TicketIds -> ReviewTicket \cup {None}]
        /\ [f \in Fingerprints |-> IF f \in dropped THEN None ELSE s.pending[f]]
             \in [Fingerprints -> TicketIds \cup {None}]
        /\ [f \in Fingerprints |-> IF f \in dropped THEN None ELSE s.overrides[f]]
             \in [Fingerprints -> StoredOverride \cup {None}]
    <3> HIDE DEF evicted, dropped
    <3> QED BY DEF ReviewStoreInner
  <2> HIDE DEF evicted, dropped, excess
  <2> QED BY <1>4, <1>5, <2>1, InnerUpdate
<1>8. QED
  <2> HIDE DEF r, excess
  <2>1. \A t \in TicketIds : r.tickets[t] = IF t \in evicted THEN None ELSE s.tickets[t]
    BY <1>6
  <2>2. \A f \in Fingerprints :
           IF \E t \in evicted : s.tickets[t] # None /\ s.tickets[t].fp = f
           THEN r.pending[f] = None /\ r.overrides[f] = None
           ELSE r.pending[f] = s.pending[f] /\ r.overrides[f] = s.overrides[f]
    BY <1>6
  <2> HIDE DEF evicted
  <2> QED BY <1>3, <1>6, <1>7, <2>1, <2>2 DEF r

\* WithTicket files one pending ticket under its id and fingerprint.
LEMMA WithTicketFields ==
    ASSUME NEW s \in ReviewStoreInner, NEW e \in CreatedEvents
    PROVE  LET r == WithTicket(s, e)
           IN  /\ r \in ReviewStoreInner
               /\ r.capacity = s.capacity
               /\ r.order = Append(s.order, e.id)
               /\ r.overrides = s.overrides
               /\ \A f \in Fingerprints :
                    r.pending[f] = IF f = e.fp THEN e.id ELSE s.pending[f]
               /\ \A t \in TicketIds \ {e.id} : r.tickets[t] = s.tickets[t]
               /\ r.tickets[e.id] \in ReviewTicket
               /\ r.tickets[e.id].fp = e.fp
               /\ r.tickets[e.id].principal = e.principal
               /\ r.tickets[e.id].status = "pending"
<1> DEFINE ticket == [fp |-> e.fp, principal |-> e.principal, post |-> e.post,
                      status |-> "pending", expires |-> 0]
           o == Append(s.order, e.id)
           p == [s.pending EXCEPT ![e.fp] = e.id]
           t == [s.tickets EXCEPT ![e.id] = ticket]
<1>1. /\ ticket \in ReviewTicket
      /\ e.id \in TicketIds
      /\ e.fp \in Fingerprints
  BY DEF CreatedEvents, ReviewTicket, ReviewStatus
<1>2. /\ ticket.fp = e.fp
      /\ ticket.principal = e.principal
      /\ ticket.status = "pending"
  OBVIOUS
<1> HIDE DEF ticket
<1>3. /\ s.order \in Seq(TicketIds)
      /\ s.tickets \in [TicketIds -> ReviewTicket \cup {None}]
      /\ s.pending \in [Fingerprints -> TicketIds \cup {None}]
      /\ s.overrides \in [Fingerprints -> StoredOverride \cup {None}]
  BY DEF ReviewStoreInner
<1>4. /\ o \in Seq(TicketIds)
      /\ p \in [Fingerprints -> TicketIds \cup {None}]
      /\ t \in [TicketIds -> ReviewTicket \cup {None}]
  BY <1>1, <1>3
<1>5. WithTicket(s, e) = [s EXCEPT !.order = o, !.pending = p, !.tickets = t]
  BY DEF WithTicket, ticket
<1>6. \A x \in TicketIds : t[x] = IF x = e.id THEN ticket ELSE s.tickets[x]
  BY <1>1, <1>3
<1>7. \A f \in Fingerprints : p[f] = IF f = e.fp THEN e.id ELSE s.pending[f]
  BY <1>1, <1>3
<1> HIDE DEF o, p, t
<1>8. WithTicket(s, e) \in ReviewStoreInner
  BY <1>3, <1>4, <1>5, InnerUpdate
<1>9. /\ WithTicket(s, e).capacity = s.capacity
      /\ WithTicket(s, e).order = o
      /\ WithTicket(s, e).overrides = s.overrides
      /\ WithTicket(s, e).pending = p
      /\ WithTicket(s, e).tickets = t
  BY <1>5 DEF ReviewStoreInner
<1> QED BY <1>1, <1>2, <1>6, <1>7, <1>8, <1>9 DEF o

\* WithStatus puts the verdict on the ticket and touches no index.
LEMMA WithStatusFields ==
    ASSUME NEW s \in ReviewStoreInner, NEW e \in ResolvedEvents,
           s.tickets[e.id] # None
    PROVE  LET r == WithStatus(s, e)
           IN  /\ r \in ReviewStoreInner
               /\ r.capacity = s.capacity
               /\ r.order = s.order
               /\ r.pending = s.pending
               /\ r.overrides = s.overrides
               /\ \A t \in TicketIds \ {e.id} : r.tickets[t] = s.tickets[t]
               /\ r.tickets[e.id] \in ReviewTicket
               /\ r.tickets[e.id].fp = s.tickets[e.id].fp
               /\ r.tickets[e.id].principal = s.tickets[e.id].principal
               /\ r.tickets[e.id].post = s.tickets[e.id].post
               /\ r.tickets[e.id].status = e.status
               /\ r.tickets[e.id].expires = e.expires
<1> DEFINE ticket == [s.tickets[e.id] EXCEPT !.status = e.status, !.expires = e.expires]
           t == [s.tickets EXCEPT ![e.id] = ticket]
<1>1. /\ e.id \in TicketIds
      /\ e.status \in Verdicts
      /\ e.expires \in Nat
  BY DEF ResolvedEvents
<1>2. /\ s.order \in Seq(TicketIds)
      /\ s.tickets \in [TicketIds -> ReviewTicket \cup {None}]
      /\ s.pending \in [Fingerprints -> TicketIds \cup {None}]
      /\ s.overrides \in [Fingerprints -> StoredOverride \cup {None}]
  BY DEF ReviewStoreInner
<1>3. s.tickets[e.id] \in ReviewTicket
  BY <1>1, <1>2
<1>4. /\ ticket \in ReviewTicket
      /\ ticket.fp = s.tickets[e.id].fp
      /\ ticket.principal = s.tickets[e.id].principal
      /\ ticket.post = s.tickets[e.id].post
      /\ ticket.status = e.status
      /\ ticket.expires = e.expires
  BY <1>1, <1>3 DEF ReviewTicket, ReviewStatus
<1>5. WithStatus(s, e) = [s EXCEPT !.tickets = t]
  BY DEF WithStatus
<1> HIDE DEF ticket
<1>6. \A x \in TicketIds : t[x] = IF x = e.id THEN ticket ELSE s.tickets[x]
  BY <1>1, <1>2
<1>7. t \in [TicketIds -> ReviewTicket \cup {None}]
  BY <1>1, <1>2, <1>4
<1> HIDE DEF t
<1>8. WithStatus(s, e) \in ReviewStoreInner
  BY <1>2, <1>5, <1>7, InnerUpdate
<1>9. /\ WithStatus(s, e).capacity = s.capacity
      /\ WithStatus(s, e).order = s.order
      /\ WithStatus(s, e).pending = s.pending
      /\ WithStatus(s, e).overrides = s.overrides
      /\ WithStatus(s, e).tickets = t
  BY <1>5 DEF ReviewStoreInner
<1> QED BY <1>1, <1>4, <1>6, <1>8, <1>9

\* WithOverride moves the fingerprint from the pending index to the overrides.
LEMMA WithOverrideFields ==
    ASSUME NEW s \in ReviewStoreInner, NEW e \in ResolvedEvents,
           s.tickets[e.id] \in ReviewTicket
    PROVE  LET r == WithOverride(s, e)
               fp == s.tickets[e.id].fp
           IN  /\ r \in ReviewStoreInner
               /\ r.capacity = s.capacity
               /\ r.order = s.order
               /\ r.tickets = s.tickets
               /\ \A f \in Fingerprints :
                    r.pending[f] = IF f = fp THEN None ELSE s.pending[f]
               /\ \A f \in Fingerprints :
                    r.overrides[f] =
                      IF f = fp THEN [ticket |-> e.id, status |-> e.status,
                                      action |-> s.tickets[e.id].post,
                                      expires |-> e.expires]
                      ELSE s.overrides[f]
BY DEF WithOverride, ReviewStoreInner, ResolvedEvents, ReviewTicket, StoredOverride

--------------------------------------------------------------------------------
(* The helpers keep the indexes in agreement with the tickets               *)

\* Forgetting expired overrides leaves the others in agreement.
LEMMA PruneIndexes ==
    ASSUME NEW s \in ReviewStoreInner, IndexesAgree(s)
    PROVE  IndexesAgree(prune_expired_overrides(s))
<1> DEFINE r == prune_expired_overrides(s)
<1> HIDE DEF r
<1> QED BY PruneFields DEF IndexesAgree, r

\* IndexesAgree of one fingerprint.
PendingAgrees(s, f) ==
    /\ s.tickets[s.pending[f]] # None
    /\ s.tickets[s.pending[f]].fp = f

OverrideAgrees(s, f) ==
    /\ s.tickets[s.overrides[f].ticket] # None
    /\ s.tickets[s.overrides[f].ticket].fp = f
    /\ s.tickets[s.overrides[f].ticket].status = s.overrides[f].status
    /\ s.tickets[s.overrides[f].ticket].expires = s.overrides[f].expires
    /\ s.tickets[s.overrides[f].ticket].post = s.overrides[f].action

LEMMA AgreeAt ==
    ASSUME NEW s, IndexesAgree(s), NEW f \in Fingerprints
    PROVE  /\ s.pending[f] # None => PendingAgrees(s, f)
           /\ s.overrides[f] # None => OverrideAgrees(s, f)
BY Zenon DEF IndexesAgree, PendingAgrees, OverrideAgrees

\* Evicted tickets leave no index entry behind.
LEMMA TrimIndexes ==
    ASSUME NEW s \in ReviewStoreInner, IndexesAgree(s)
    PROVE  IndexesAgree(trim_to_capacity(s))
<1> DEFINE r == trim_to_capacity(s)
<1>1. PICK gone \in SUBSET TicketIds :
        /\ \A t \in TicketIds :
             r.tickets[t] = IF t \in gone THEN None ELSE s.tickets[t]
        /\ \A f \in Fingerprints :
             IF \E t \in gone : s.tickets[t] # None /\ s.tickets[t].fp = f
             THEN r.pending[f] = None /\ r.overrides[f] = None
             ELSE r.pending[f] = s.pending[f] /\ r.overrides[f] = s.overrides[f]
  BY TrimFields
<1> HIDE DEF r
<1>2. SUFFICES ASSUME NEW f \in Fingerprints
               PROVE  /\ r.pending[f] # None =>
                           /\ r.tickets[r.pending[f]] # None
                           /\ r.tickets[r.pending[f]].fp = f
                      /\ r.overrides[f] # None =>
                           LET o == r.overrides[f]
                           IN  /\ r.tickets[o.ticket] # None
                               /\ r.tickets[o.ticket].fp = f
                               /\ r.tickets[o.ticket].status = o.status
                               /\ r.tickets[o.ticket].expires = o.expires
                               /\ r.tickets[o.ticket].post = o.action
  BY DEF IndexesAgree, r
<1>3. /\ s.pending[f] # None => s.pending[f] \in TicketIds
      /\ s.overrides[f] # None => s.overrides[f].ticket \in TicketIds
  BY InnerRecord DEF StoredOverride
<1>4. ASSUME r.pending[f] # None
      PROVE  /\ r.tickets[r.pending[f]] # None
             /\ r.tickets[r.pending[f]].fp = f
  BY <1>1, <1>3, <1>4 DEF IndexesAgree
<1>5. ASSUME r.overrides[f] # None
      PROVE  r.overrides[f] = s.overrides[f] /\ s.overrides[f].ticket \notin gone
  BY <1>1, <1>3, <1>5 DEF IndexesAgree
<1>6. ASSUME r.overrides[f] # None
      PROVE  LET o == r.overrides[f]
             IN  /\ r.tickets[o.ticket] # None
                 /\ r.tickets[o.ticket].fp = f
                 /\ r.tickets[o.ticket].status = o.status
                 /\ r.tickets[o.ticket].expires = o.expires
                 /\ r.tickets[o.ticket].post = o.action
  <2>1. r.overrides[f] = s.overrides[f]
    BY <1>5, <1>6
  <2>2. r.tickets[s.overrides[f].ticket] = s.tickets[s.overrides[f].ticket]
    BY <1>1, <1>3, <1>5, <1>6, <2>1
  <2>3. OverrideAgrees(s, f)
    BY <1>6, <2>1, AgreeAt
  <2>4. QED
    BY <2>1, <2>2, <2>3 DEF OverrideAgrees
<1>7. QED
  BY <1>4, <1>6

\* A fresh ticket disturbs no entry: no override names it yet.
LEMMA WithTicketIndexes ==
    ASSUME NEW s \in ReviewStoreInner, IndexesAgree(s),
           NEW e \in CreatedEvents, s.tickets[e.id] = None
    PROVE  IndexesAgree(WithTicket(s, e))
<1> DEFINE r == WithTicket(s, e)
<1>1. /\ r.overrides = s.overrides
      /\ \A f \in Fingerprints : r.pending[f] = IF f = e.fp THEN e.id ELSE s.pending[f]
      /\ \A t \in TicketIds \ {e.id} : r.tickets[t] = s.tickets[t]
      /\ r.tickets[e.id] \in ReviewTicket
      /\ r.tickets[e.id].fp = e.fp
  BY WithTicketFields
<1>2. r.tickets[e.id] # None
  BY <1>1, ReviewStoreAssumption
<1>3. \A f \in Fingerprints :
        /\ s.pending[f] # None => s.pending[f] \in TicketIds
        /\ s.overrides[f] # None => s.overrides[f].ticket \in TicketIds
  BY InnerRecord DEF StoredOverride
<1> HIDE DEF r
<1> QED BY <1>1, <1>2, <1>3 DEF IndexesAgree, r

\* A pending ticket has no override, so giving it a verdict breaks none.
LEMMA WithStatusIndexes ==
    ASSUME NEW s \in ReviewStoreInner, IndexesAgree(s),
           NEW e \in ResolvedEvents, s.tickets[e.id] # None,
           s.tickets[e.id].status = "pending"
    PROVE  IndexesAgree(WithStatus(s, e))
<1> DEFINE r == WithStatus(s, e)
<1>1. /\ r.pending = s.pending
      /\ r.overrides = s.overrides
      /\ \A t \in TicketIds \ {e.id} : r.tickets[t] = s.tickets[t]
      /\ r.tickets[e.id] \in ReviewTicket
      /\ r.tickets[e.id].fp = s.tickets[e.id].fp
  BY WithStatusFields
<1>2. r.tickets[e.id] # None
  BY <1>1, ReviewStoreAssumption
<1>3. \A f \in Fingerprints :
        /\ s.pending[f] # None => s.pending[f] \in TicketIds
        /\ s.overrides[f] # None => /\ s.overrides[f].ticket \in TicketIds
                                    /\ s.overrides[f].status # "pending"
  BY InnerRecord DEF StoredOverride, Verdicts
<1> HIDE DEF r
<1> QED BY <1>1, <1>2, <1>3, SMTT(30) DEF IndexesAgree, r

\* The new override replaces the only one that could name the same ticket.
LEMMA WithOverrideIndexes ==
    ASSUME NEW s \in ReviewStoreInner, IndexesAgree(s),
           NEW e \in ResolvedEvents, s.tickets[e.id] # None
    PROVE  /\ WithOverride(WithStatus(s, e), e) \in ReviewStoreInner
           /\ IndexesAgree(WithOverride(WithStatus(s, e), e))
           /\ WithOverride(WithStatus(s, e), e).tickets = WithStatus(s, e).tickets
           /\ \A f \in Fingerprints :
                \/ WithOverride(WithStatus(s, e), e).overrides[f] = s.overrides[f]
                \/ WithOverride(WithStatus(s, e), e).overrides[f] =
                     [ticket |-> e.id, status |-> e.status,
                      action |-> s.tickets[e.id].post, expires |-> e.expires]
<1> DEFINE m  == WithStatus(s, e)
           r  == WithOverride(m, e)
           fp == s.tickets[e.id].fp
           o  == [ticket |-> e.id, status |-> e.status,
                  action |-> s.tickets[e.id].post, expires |-> e.expires]
<1>1. /\ m \in ReviewStoreInner
      /\ m.pending = s.pending
      /\ m.overrides = s.overrides
      /\ \A t \in TicketIds \ {e.id} : m.tickets[t] = s.tickets[t]
      /\ m.tickets[e.id] \in ReviewTicket
      /\ m.tickets[e.id].fp = fp
      /\ m.tickets[e.id].post = s.tickets[e.id].post
      /\ m.tickets[e.id].status = e.status
      /\ m.tickets[e.id].expires = e.expires
  BY WithStatusFields
<1> HIDE DEF m
<1>2. /\ r \in ReviewStoreInner
      /\ r.tickets = m.tickets
      /\ \A f \in Fingerprints : r.pending[f] = IF f = fp THEN None ELSE s.pending[f]
      /\ \A f \in Fingerprints : r.overrides[f] = IF f = fp THEN o ELSE s.overrides[f]
  BY <1>1, WithOverrideFields
<1> HIDE DEF r
<1>3. m.tickets[e.id] # None
  BY <1>1, ReviewStoreAssumption
<1>4. \A f \in Fingerprints :
        /\ s.pending[f] # None => s.pending[f] \in TicketIds
        /\ s.overrides[f] # None => s.overrides[f].ticket \in TicketIds
  BY InnerRecord DEF StoredOverride
<1>5. /\ o.ticket = e.id
      /\ o.status = e.status
      /\ o.action = s.tickets[e.id].post
      /\ o.expires = e.expires
  OBVIOUS
<1>6. e.id \in TicketIds
  BY DEF ResolvedEvents
<1>7. IndexesAgree(r)
  <2> HIDE DEF o
  <2>1. ASSUME NEW f \in Fingerprints, r.pending[f] # None
        PROVE  r.tickets[r.pending[f]] # None /\ r.tickets[r.pending[f]].fp = f
    <3>1. r.pending[f] = s.pending[f] /\ f # fp
      BY <1>2, <2>1
    <3>2. s.pending[f] # None /\ s.pending[f] \in TicketIds
      BY <1>4, <2>1, <3>1
    <3>3. PendingAgrees(s, f)
      BY <3>2, AgreeAt
    <3>4. QED
      BY <1>1, <1>2, <1>3, <3>1, <3>2, <3>3 DEF PendingAgrees
  <2>2. ASSUME NEW f \in Fingerprints, r.overrides[f] # None, f = fp
        PROVE  /\ r.overrides[f] = o
               /\ r.tickets[o.ticket] # None
               /\ r.tickets[o.ticket].fp = f
               /\ r.tickets[o.ticket].status = o.status
               /\ r.tickets[o.ticket].expires = o.expires
               /\ r.tickets[o.ticket].post = o.action
    BY <1>1, <1>2, <1>3, <1>5, <2>2
  <2>3. ASSUME NEW f \in Fingerprints, r.overrides[f] # None, f # fp
        PROVE  /\ r.overrides[f] = s.overrides[f]
               /\ r.tickets[s.overrides[f].ticket] = s.tickets[s.overrides[f].ticket]
    <3>1. r.overrides[f] = s.overrides[f]
      BY <1>2, <2>3
    <3>2. s.overrides[f].ticket \in TicketIds
      BY <1>4, <2>3, <3>1
    <3>3. OverrideAgrees(s, f)
      BY <2>3, <3>1, AgreeAt
    <3>4. QED
      BY <1>1, <1>2, <2>3, <3>1, <3>2, <3>3 DEF OverrideAgrees
  <2>4. QED
    <3> HIDE DEF fp
    <3>1. ASSUME NEW f \in Fingerprints, r.overrides[f] # None
          PROVE  LET v == r.overrides[f]
                 IN  /\ r.tickets[v.ticket] # None
                     /\ r.tickets[v.ticket].fp = f
                     /\ r.tickets[v.ticket].status = v.status
                     /\ r.tickets[v.ticket].expires = v.expires
                     /\ r.tickets[v.ticket].post = v.action
      <4>1. CASE f = fp
        BY <2>2, <3>1, <4>1
      <4>2. CASE f # fp
        <5>1. /\ r.overrides[f] = s.overrides[f]
              /\ r.tickets[s.overrides[f].ticket] = s.tickets[s.overrides[f].ticket]
          BY <2>3, <3>1, <4>2
        <5>2. OverrideAgrees(s, f)
          BY <3>1, <5>1, AgreeAt
        <5>3. QED
          BY <5>1, <5>2 DEF OverrideAgrees
      <4>3. QED
        BY <4>1, <4>2
    <3>2. QED
      BY <2>1, <3>1 DEF IndexesAgree
<1>8. QED
  BY <1>2, <1>7 DEF r, m

--------------------------------------------------------------------------------
(* The event log                                                            *)

\* The type field tells the kinds of lines apart.
LEMMA LineKinds ==
    ASSUME NEW l \in Lines
    PROVE  /\ l.type = "created" <=> l \in CreatedEvents
           /\ l.type = "resolved" <=> l \in ResolvedEvents
           /\ l \in Events => l # BadUtf8 /\ l # Garbage
BY DEF Lines, Events, CreatedEvents, ResolvedEvents, Garbage, BadUtf8

\* However an append ends: events already in the log stay or are destroyed,
\* the only new event is the appended one, at the end, and no line becomes
\* readable that was not.
LEMMA AppendFacts ==
    ASSUME log \in Seq(Lines), openLine \in BOOLEAN, openLine => Len(log) > 0,
           NEW e \in Events, NEW out, append_review_event(e, out)
    PROVE  /\ log' \in Seq(Lines)
           /\ openLine' \in BOOLEAN
           /\ openLine' => Len(log') > 0
           /\ Len(log') >= Len(log)
           /\ \A i \in 1..Len(log') : log'[i] \in Events =>
                \/ i \in 1..Len(log) /\ log'[i] = log[i]
                \/ i = Len(log) + 1 /\ log'[i] = e
           /\ \A i \in 1..Len(log) : Readable(i)' => Readable(i)
<1> DEFINE glued(t) == IF BadUtf8 \in {log[Len(log)], t} THEN BadUtf8 ELSE Garbage
<1>1. /\ Len(log) \in Nat
      /\ Garbage \in Lines /\ BadUtf8 \in Lines /\ e \in Lines
      /\ Garbage \notin Events /\ BadUtf8 \notin Events
      /\ Garbage # BadUtf8 /\ e # BadUtf8
  BY LineKinds DEF Lines, Events, Garbage, BadUtf8
<1>2. ASSUME NEW t \in Lines, t \in {e, Garbage, BadUtf8}, WriteLine(t)
      PROVE  /\ log' \in Seq(Lines)
             /\ Len(log') > 0
             /\ Len(log') >= Len(log)
             /\ \A i \in 1..Len(log') : log'[i] \in Events =>
                  \/ i \in 1..Len(log) /\ log'[i] = log[i]
                  \/ i = Len(log) + 1 /\ log'[i] = e
             /\ \A i \in 1..Len(log) : Readable(i)' => Readable(i)
  <2>1. CASE openLine
    <3>1. log' = [log EXCEPT ![Len(log)] = glued(t)]
      BY <1>2, <2>1 DEF WriteLine
    <3>2. glued(t) \in {Garbage, BadUtf8}
      OBVIOUS
    <3>3. log[Len(log)] = BadUtf8 => glued(t) = BadUtf8
      OBVIOUS
    <3> HIDE DEF glued
    <3>4. /\ log' \in Seq(Lines)
          /\ Len(log') = Len(log)
          /\ \A i \in 1..Len(log) : log'[i] = IF i = Len(log) THEN glued(t) ELSE log[i]
      BY <1>1, <2>1, <3>1, <3>2
    <3>5. \A i \in 1..Len(log) : Readable(i)' => Readable(i)
      BY <1>1, <3>3, <3>4 DEF Readable
    <3>6. QED
      BY <1>1, <2>1, <3>2, <3>4, <3>5
  <2>2. CASE ~openLine
    <3>1. log' = Append(log, t)
      BY <1>2, <2>2 DEF WriteLine
    <3>2. /\ log' \in Seq(Lines)
          /\ Len(log') = Len(log) + 1
          /\ \A i \in 1..Len(log) : log'[i] = log[i]
          /\ log'[Len(log) + 1] = t
      BY <1>1, <1>2, <3>1
    <3>3. \A i \in 1..Len(log) : Readable(i)' => Readable(i)
      BY <1>1, <3>2 DEF Readable
    <3>4. QED
      BY <1>1, <1>2, <3>2, <3>3
  <2>3. QED
    BY <2>1, <2>2
<1>3. CASE out = "refused"
  <2>1. log' = log /\ openLine' = openLine
    BY <1>3 DEF append_review_event
  <2>2. \A i \in 1..Len(log) : Readable(i)' => Readable(i)
    BY <2>1 DEF Readable
  <2>3. QED
    BY <1>1, <2>1, <2>2
<1>4. CASE out # "refused"
  <2>1. /\ openLine' \in BOOLEAN
        /\ \E t \in Lines : t \in {e, Garbage, BadUtf8} /\ WriteLine(t)
    BY <1>1, <1>4 DEF append_review_event
  <2>2. QED
    BY <1>2, <2>1
<1>5. QED
  BY <1>3, <1>4

\* Appending an event whose ticket is issued keeps the log well-formed, when
\* the event is a first filing or the first verdict on a filed ticket.
LEMMA LogStep ==
    ASSUME TypeOK, LogSound, VerdictFinal,
           NEW e \in Events, NEW out, append_review_event(e, out),
           issued \subseteq issued', asked \subseteq asked', e.id \in issued',
           e \in CreatedEvents => e.id \notin issued,
           e \in ResolvedEvents =>
             /\ e \in asked'
             /\ e.id \in issued
             /\ \A i \in 1..Len(log) :
                  Readable(i) /\ IsResolved(i) => log[i].id # e.id
    PROVE  LogSound' /\ VerdictFinal'
<1> USE DEF IsCreated, IsResolved
<1>1. /\ log \in Seq(Lines)
      /\ Len(log) \in Nat
      /\ openLine \in BOOLEAN
      /\ openLine => Len(log) > 0
  BY DEF TypeOK, LogSound
<1>2. /\ log' \in Seq(Lines)
      /\ openLine' => Len(log') > 0
      /\ \A i \in 1..Len(log') : log'[i] \in Events =>
           \/ i \in 1..Len(log) /\ log'[i] = log[i]
           \/ i = Len(log) + 1 /\ log'[i] = e
      /\ \A i \in 1..Len(log) : Readable(i)' => Readable(i)
  BY <1>1, AppendFacts
<1>3. \A i \in 1..Len(log') :
        /\ log'[i].type = "created" <=> log'[i] \in CreatedEvents
        /\ log'[i].type = "resolved" <=> log'[i] \in ResolvedEvents
        /\ log'[i].type \in {"created", "resolved"} =>
             \/ i \in 1..Len(log) /\ log'[i] = log[i]
             \/ i = Len(log) + 1 /\ log'[i] = e
  BY <1>2, LineKinds DEF Events
<1>4. /\ e.type \in {"created", "resolved"}
      /\ e.type = "created" => e \in CreatedEvents
      /\ e.type = "resolved" => e \in ResolvedEvents
  BY LineKinds DEF Events, CreatedEvents, ResolvedEvents
<1>5. \A i \in 1..Len(log') :
        /\ IsCreated(i)' \/ IsResolved(i)' => log'[i].id \in issued'
        /\ IsResolved(i)' => log'[i] \in asked'
  BY <1>3, <1>4 DEF LogSound
<1>6. ASSUME NEW i \in 1..Len(log'), NEW j \in 1..Len(log'), log'[i].id = log'[j].id
      PROVE  /\ IsCreated(i)' /\ IsCreated(j)' => i = j
             /\ IsCreated(i)' /\ IsResolved(j)' => i < j
  BY <1>1, <1>3, <1>4, <1>6 DEF LogSound
<1>7. ASSUME NEW i \in 1..Len(log'), NEW j \in 1..Len(log'), log'[i].id = log'[j].id,
             Readable(i)', Readable(j)', IsResolved(i)', IsResolved(j)'
      PROVE  i = j
  BY <1>1, <1>2, <1>3, <1>4, <1>7 DEF VerdictFinal
<1>8. LogSound'
  BY <1>2, <1>5, <1>6 DEF LogSound
<1>9. VerdictFinal'
  BY <1>7 DEF VerdictFinal
<1>10. QED
  BY <1>8, <1>9

--------------------------------------------------------------------------------
(* The steps                                                                *)

\* A step that leaves the log alone and only removes tickets and overrides.
LEMMA ShrinkStep ==
    ASSUME IInv, inner' \in ReviewStoreInner, IndexesAgree(inner'),
           \A t \in TicketIds : inner'.tickets[t] \in {inner.tickets[t], None},
           \A f \in Fingerprints : inner'.overrides[f] \in {inner.overrides[f], None},
           now' \in Nat, mode' = mode, mode' = "up",
           UNCHANGED <<cursor, log, openLine, issued, acked, asked>>
    PROVE  IInv'
<1> USE DEF IInv, IsCreated, IsResolved
<1>1. TypeOK'
  BY DEF TypeOK
<1>2. LogSound' /\ VerdictFinal'
  BY DEF LogSound, VerdictFinal, Readable
<1>3. \A i \in 1..Len(log) : Seen(i)' <=> Seen(i)
  BY DEF Seen, Readable
<1>4. \A i \in 1..Len(log) : IsResolved(i) => log[i].id \in TicketIds
  BY LineKinds DEF TypeOK, ResolvedEvents
<1>5. MemorySound'
  BY <1>3, <1>4 DEF MemorySound
<1>6. IndexSound'
  BY DEF IndexSound
<1>7. OverrideAsked'
  BY DEF OverrideAsked
<1>8. QED
  BY <1>1, <1>2, <1>5, <1>6, <1>7

\* get, lookup_override, list and pending_count keep the invariant.
LEMMA StepQuery ==
    ASSUME IInv, query \/ \E fp \in Fingerprints : upsert_pending_existing(fp)
    PROVE  IInv'
<1>1. /\ mode = "up"
      /\ inner' = prune_expired_overrides(inner)
      /\ UNCHANGED <<mode, cursor, log, openLine, now, issued, acked, asked>>
  BY DEF query, upsert_pending_existing
<1>2. inner \in ReviewStoreInner /\ IndexesAgree(inner) /\ now \in Nat
  BY DEF IInv, TypeOK, IndexSound
<1>3. QED
  BY <1>1, <1>2, PruneFields, PruneIndexes, ShrinkStep

\* A smaller capacity evicts, and the invariant is kept.
LEMMA StepSetCapacity ==
    ASSUME IInv, NEW c \in Capacities, set_capacity(c)
    PROVE  IInv'
<1> DEFINE s == [inner EXCEPT !.capacity = AtLeastOne(c)]
<1>1. inner \in ReviewStoreInner /\ IndexesAgree(inner) /\ now \in Nat
  BY DEF IInv, TypeOK, IndexSound
<1>2. AtLeastOne(c) \in Nat
  BY ReviewStoreAssumption DEF AtLeastOne
<1>3. /\ s \in ReviewStoreInner
      /\ s.tickets = inner.tickets
      /\ s.pending = inner.pending
      /\ s.overrides = inner.overrides
  BY <1>1, <1>2 DEF ReviewStoreInner
<1>4. IndexesAgree(s)
  BY <1>1, <1>3 DEF IndexesAgree
<1>5. inner' = trim_to_capacity(s)
  BY DEF set_capacity
<1> HIDE DEF s
<1>6. /\ inner' \in ReviewStoreInner
      /\ \A t \in TicketIds : inner'.tickets[t] \in {s.tickets[t], None}
      /\ \A f \in Fingerprints : inner'.overrides[f] \in {s.overrides[f], None}
  BY <1>3, <1>5, TrimFields
<1>7. IndexesAgree(inner')
  BY <1>3, <1>4, <1>5, TrimIndexes
<1>8. QED
  BY <1>1, <1>3, <1>6, <1>7, ShrinkStep DEF set_capacity

\* Time alone changes nothing the invariant speaks of.
LEMMA StepTick ==
    ASSUME IInv, tick
    PROVE  IInv'
<1> USE DEF IInv, tick, IsCreated, IsResolved
<1>1. TypeOK'
  BY DEF TypeOK
<1>2. LogSound' /\ VerdictFinal'
  BY DEF LogSound, VerdictFinal, Readable
<1>3. MemorySound'
  BY DEF MemorySound, Seen, Readable
<1>4. IndexSound' /\ OverrideAsked'
  BY DEF IndexSound, OverrideAsked
<1>5. QED
  BY <1>1, <1>2, <1>3, <1>4

\* An empty memory agrees with anything.
LEMMA EmptyStep ==
    ASSUME TypeOK, NEW c \in Nat, inner' = EmptyInner(c)
    PROVE  /\ inner' \in ReviewStoreInner
           /\ \A t \in TicketIds : inner'.tickets[t] = None
           /\ IndexSound'
           /\ OverrideAsked'
<1>1. inner' \in ReviewStoreInner
  BY EmptyInnerType
<1>2. /\ \A t \in TicketIds : inner'.tickets[t] = None
      /\ \A f \in Fingerprints : inner'.pending[f] = None /\ inner'.overrides[f] = None
  BY DEF EmptyInner
<1>3. QED
  BY <1>1, <1>2 DEF IndexSound, IndexesAgree, OverrideAsked

\* A new process starts from an empty memory and the same log.
LEMMA StepRestart ==
    ASSUME IInv, crash \/ \E c \in Capacities : new(c)
    PROVE  IInv'
<1> USE DEF IInv, IsCreated, IsResolved
<1>1. PICK c \in Nat : inner' = EmptyInner(c) /\ (mode' = "down" => c = 1)
  BY ReviewStoreAssumption DEF crash, new, AtLeastOne
<1>2. /\ mode' = "down" \/ (mode' = "loading" /\ cursor' = 0)
      /\ cursor' \in Nat
      /\ UNCHANGED <<log, openLine, now, issued, acked, asked>>
  BY DEF crash, new, TypeOK
<1>3. /\ inner' \in ReviewStoreInner
      /\ \A t \in TicketIds : inner'.tickets[t] = None
      /\ IndexSound'
      /\ OverrideAsked'
  BY <1>1, EmptyStep
<1>4. TypeOK'
  BY <1>2, <1>3 DEF TypeOK
<1>5. LogSound' /\ VerdictFinal'
  BY <1>2 DEF LogSound, VerdictFinal, Readable
<1>6. \A i \in 1..Len(log) : ~Seen(i)'
  BY <1>2 DEF Seen
<1>7. Len(log) \in Nat
  BY DEF TypeOK
<1>8. MemorySound'
  BY <1>1, <1>2, <1>3, <1>6, <1>7 DEF MemorySound
<1>9. QED
  BY <1>3, <1>4, <1>5, <1>8

\* The end of loading: everything readable has been seen.
LEMMA StepLoaded ==
    ASSUME IInv, loaded
    PROVE  IInv'
<1> USE DEF IInv, IsCreated, IsResolved
<1> DEFINE s == prune_expired_overrides(inner)
<1>1. /\ mode = "loading" /\ cursor = Len(log) /\ mode' = "up"
      /\ inner' = trim_to_capacity(s)
      /\ UNCHANGED <<cursor, log, openLine, now, issued, acked, asked>>
  BY DEF loaded
<1>2. inner \in ReviewStoreInner /\ IndexesAgree(inner)
  BY DEF TypeOK, IndexSound
<1>3. /\ s \in ReviewStoreInner
      /\ s.tickets = inner.tickets
      /\ \A f \in Fingerprints : s.overrides[f] \in {inner.overrides[f], None}
      /\ IndexesAgree(s)
  BY <1>2, PruneFields, PruneIndexes
<1> HIDE DEF s
<1>4. /\ inner' \in ReviewStoreInner
      /\ \A t \in TicketIds : inner'.tickets[t] \in {inner.tickets[t], None}
      /\ \A f \in Fingerprints : inner'.overrides[f] \in {inner.overrides[f], None}
      /\ IndexesAgree(inner')
  BY <1>1, <1>3, TrimFields, TrimIndexes
<1>5. TypeOK'
  BY <1>1, <1>4 DEF TypeOK
<1>6. LogSound' /\ VerdictFinal'
  BY <1>1 DEF LogSound, VerdictFinal, Readable
<1>7. \A i \in 1..Len(log) : Seen(i)' <=> Seen(i)
  BY <1>1 DEF Seen, Readable, TypeOK
<1>8. \A i \in 1..Len(log) : IsResolved(i) => log[i].id \in TicketIds
  BY LineKinds DEF TypeOK, ResolvedEvents
<1>9. MemorySound'
  BY <1>1, <1>4, <1>7, <1>8 DEF MemorySound
<1>10. IndexSound' /\ OverrideAsked'
  BY <1>1, <1>4 DEF IndexSound, OverrideAsked
<1>11. QED
  BY <1>5, <1>6, <1>9, <1>10

\* One replayed line: a filing meets no ticket of its id, because ids are
\* filed once; a verdict replaces the override of its own fingerprint.
LEMMA StepLoadLine ==
    ASSUME IInv, load_line
    PROVE  IInv'
<1> USE DEF IInv, IsCreated, IsResolved
<1> DEFINE n == cursor + 1
           l == log[n]
<1>1. /\ mode = "loading" /\ mode' = "loading"
      /\ cursor \in Nat /\ Len(log) \in Nat /\ n \in 1..Len(log)
      /\ l \in Lines
      /\ inner \in ReviewStoreInner
      /\ IndexesAgree(inner)
      /\ UNCHANGED <<log, openLine, now, issued, acked, asked>>
  BY DEF load_line, TypeOK, IndexSound
<1>2. LogSound' /\ VerdictFinal'
  BY <1>1 DEF LogSound, VerdictFinal, Readable
<1>3. \A i \in 1..Len(log) : Readable(i)' <=> Readable(i)
  BY <1>1 DEF Readable
<1>4. \A i \in 1..Len(log) :
        /\ IsResolved(i) => log[i].id \in TicketIds /\ log[i].status # "pending"
        /\ IsCreated(i) => log[i].id \in TicketIds /\ log[i].fp \in Fingerprints
  BY LineKinds DEF TypeOK, ResolvedEvents, CreatedEvents, Verdicts
<1>5. ASSUME inner' \in ReviewStoreInner, IndexesAgree(inner'), OverrideAsked',
             cursor' \in 0..Len(log), MemorySound'
      PROVE  IInv'
  BY <1>1, <1>2, <1>5 DEF TypeOK, IndexSound
<1>6. CASE l = BadUtf8
  <2>1. cursor' = Len(log) /\ inner' = inner
    BY <1>6 DEF load_line
  <2>2. \A i \in 1..Len(log) : Seen(i)' => i <= cursor /\ Seen(i)
    BY <1>1, <1>3, <1>6 DEF Seen, Readable
  <2>3. MemorySound'
    BY <1>1, <2>1, <2>2 DEF MemorySound
  <2>4. OverrideAsked'
    BY <1>1, <2>1 DEF OverrideAsked
  <2>5. QED
    BY <1>1, <1>5, <2>1, <2>3, <2>4
<1>7. CASE l # BadUtf8
  <2>1. cursor' = n /\ inner' = apply_review_event(inner, l)
    BY <1>7 DEF load_line
  <2>2. \A i \in 1..Len(log) : Seen(i)' => (i <= cursor /\ Seen(i)) \/ i = n
    BY <1>1, <1>3, <2>1 DEF Seen
  <2>3. CASE l.type = "created"
    <3>1. l \in CreatedEvents
      BY <1>1, <2>3, LineKinds
    <3>2. inner' = WithTicket(inner, l)
      BY <2>1, <2>3 DEF apply_review_event
    <3>3. inner.tickets[l.id] = None
      <4>1. l.id \in TicketIds
        BY <1>1, <1>4, <2>3
      <4>2. \A i \in 1..cursor : ~(IsCreated(i) /\ log[i].id = l.id)
        BY <1>1, <2>3 DEF LogSound
      <4>3. QED
        BY <1>1, <4>1, <4>2 DEF MemorySound
    <3>4. /\ inner' \in ReviewStoreInner
          /\ inner'.overrides = inner.overrides
          /\ \A t \in TicketIds \ {l.id} : inner'.tickets[t] = inner.tickets[t]
          /\ IndexesAgree(inner')
      BY <1>1, <3>1, <3>2, <3>3, WithTicketFields, WithTicketIndexes
    <3>5. OverrideAsked'
      BY <1>1, <3>4 DEF OverrideAsked
    <3>6. \A i \in 1..Len(log) : i <= n /\ IsResolved(i) => log[i].id # l.id
      BY <1>1, <2>3 DEF LogSound
    <3>7. ASSUME NEW t \in TicketIds, inner'.tickets[t] # None
          PROVE  t \in issued /\ \E i \in 1..n : IsCreated(i) /\ log[i].id = t
      <4>1. CASE t = l.id
        BY <1>1, <2>3, <4>1 DEF LogSound
      <4>2. CASE t # l.id
        BY <1>1, <3>4, <3>7, <4>2 DEF MemorySound
      <4>3. QED
        BY <4>1, <4>2
    <3>8. ASSUME NEW i \in 1..Len(log), Seen(i)', IsResolved(i)
          PROVE  \/ inner'.tickets[log[i].id] = None
                 \/ inner'.tickets[log[i].id].status # "pending"
      BY <1>1, <1>4, <2>2, <2>3, <3>4, <3>6, <3>8 DEF MemorySound
    <3>9. MemorySound'
      BY <1>1, <2>1, <3>7, <3>8 DEF MemorySound
    <3>10. QED
      BY <1>1, <1>5, <2>1, <3>4, <3>5, <3>9
  <2>4. CASE l.type = "resolved" /\ inner.tickets[l.id] # None
    <3>1. l \in ResolvedEvents
      BY <1>1, <2>4, LineKinds
    <3>2. inner' = WithOverride(WithStatus(inner, l), l)
      BY <2>1, <2>4 DEF apply_review_event
    <3>3. /\ inner' \in ReviewStoreInner
          /\ IndexesAgree(inner')
          /\ inner'.tickets = WithStatus(inner, l).tickets
          /\ \A f \in Fingerprints :
               \/ inner'.overrides[f] = inner.overrides[f]
               \/ inner'.overrides[f] =
                    [ticket |-> l.id, status |-> l.status,
                     action |-> inner.tickets[l.id].post, expires |-> l.expires]
      BY <1>1, <2>4, <3>1, <3>2, WithOverrideIndexes
    <3>4. /\ \A t \in TicketIds \ {l.id} : inner'.tickets[t] = inner.tickets[t]
          /\ inner'.tickets[l.id].status = l.status
      BY <1>1, <2>4, <3>1, <3>3, WithStatusFields
    <3>5. OverrideAsked'
      <4>1. l = [type |-> "resolved", id |-> l.id, status |-> l.status, expires |-> l.expires]
        BY <3>1 DEF ResolvedEvents
      <4>2. l \in asked
        BY <1>1, <2>4 DEF LogSound
      <4>3. QED
        BY <1>1, <3>3, <4>1, <4>2 DEF OverrideAsked
    <3>6. ASSUME NEW t \in TicketIds, inner'.tickets[t] # None
          PROVE  t \in issued /\ \E i \in 1..n : IsCreated(i) /\ log[i].id = t
      <4>1. inner.tickets[t] # None
        BY <2>4, <3>4, <3>6
      <4>2. QED
        BY <1>1, <4>1 DEF MemorySound
    <3>7. ASSUME NEW i \in 1..Len(log), Seen(i)', IsResolved(i)
          PROVE  \/ inner'.tickets[log[i].id] = None
                 \/ inner'.tickets[log[i].id].status # "pending"
      BY <1>1, <1>4, <2>2, <2>4, <3>4, <3>7 DEF MemorySound
    <3>8. MemorySound'
      BY <1>1, <2>1, <3>6, <3>7 DEF MemorySound
    <3>9. QED
      BY <1>1, <1>5, <2>1, <3>3, <3>5, <3>8
  <2>5. CASE l.type # "created" /\ ~(l.type = "resolved" /\ inner.tickets[l.id] # None)
    <3>1. inner' = inner
      BY <2>1, <2>5 DEF apply_review_event
    <3>2. MemorySound'
      BY <1>1, <2>1, <2>2, <2>5, <3>1 DEF MemorySound
    <3>3. OverrideAsked'
      BY <1>1, <3>1 DEF OverrideAsked
    <3>4. QED
      BY <1>1, <1>5, <2>1, <3>1, <3>2, <3>3
  <2>6. QED
    BY <2>3, <2>4, <2>5
<1>8. QED
  BY <1>6, <1>7

\* A method that appended an event, seen from memory: it is down and empty, or
\* up with tickets that are old, gone, or the event's own.
LEMMA AppendStep ==
    ASSUME IInv, mode = "up",
           NEW e \in Events, NEW out, append_review_event(e, out),
           LogSound', VerdictFinal',
           issued \subseteq issued', issued' \subseteq TicketIds, e.id \in issued',
           asked \subseteq asked', asked' \subseteq ResolvedEvents,
           UNCHANGED <<cursor, now>>,
           inner' \in ReviewStoreInner, IndexesAgree(inner'),
           mode' = "down" => inner' = EmptyInner(1),
           \A t \in TicketIds \ {e.id} : inner'.tickets[t] \in {inner.tickets[t], None},
           e \in CreatedEvents => e.id \notin issued,
           (e \in ResolvedEvents /\ mode' # "down") => inner'.tickets[e.id].status # "pending",
           \A f \in Fingerprints :
             \/ inner'.overrides[f] \in {inner.overrides[f], None}
             \/ [type |-> "resolved", id |-> inner'.overrides[f].ticket,
                 status |-> inner'.overrides[f].status,
                 expires |-> inner'.overrides[f].expires] \in asked'
    PROVE  IInv'
<1> USE DEF IsCreated, IsResolved
<1>1. /\ log \in Seq(Lines) /\ Len(log) \in Nat /\ openLine \in BOOLEAN
      /\ openLine => Len(log) > 0
      /\ acked \subseteq Lines /\ cursor \in Nat /\ now \in Nat
  BY DEF IInv, TypeOK, LogSound
<1>2. /\ log' \in Seq(Lines)
      /\ openLine' \in BOOLEAN
      /\ \A i \in 1..Len(log') : log'[i] \in Events =>
           \/ i \in 1..Len(log) /\ log'[i] = log[i]
           \/ i = Len(log) + 1 /\ log'[i] = e
      /\ \A i \in 1..Len(log) : Readable(i)' => Readable(i)
  BY <1>1, AppendFacts
<1>3. mode' \in {"up", "down"} /\ acked' \subseteq Lines
  BY <1>1 DEF append_review_event, Events, Lines
<1>4. TypeOK'
  BY <1>1, <1>2, <1>3 DEF TypeOK
<1>5. OverrideAsked'
  BY DEF IInv, OverrideAsked
<1>6. \A t \in TicketIds : inner'.tickets[t] # None => t \in issued'
  BY DEF IInv, MemorySound
<1>7. ASSUME NEW i \in 1..Len(log'), Seen(i)', IsResolved(i)'
      PROVE  \/ inner'.tickets[log'[i].id] = None
             \/ inner'.tickets[log'[i].id].status # "pending"
  <2>1. mode' = "up" /\ Readable(i)'
    BY <1>3, <1>7 DEF Seen
  <2>2. log'[i] \in ResolvedEvents /\ log'[i] \in Events
    BY <1>2, <1>7, LineKinds DEF Events
  <2>3. CASE i \in 1..Len(log) /\ log'[i] = log[i]
    <3>1. Seen(i) /\ IsResolved(i)
      BY <1>2, <1>7, <2>1, <2>3 DEF Seen
    <3>2. /\ log[i].id \in TicketIds
          /\ log[i].id \in issued
          /\ \/ inner.tickets[log[i].id] = None
             \/ inner.tickets[log[i].id].status # "pending"
      BY <2>2, <2>3, <3>1 DEF IInv, MemorySound, LogSound, ResolvedEvents
    <3>3. CASE log[i].id # e.id
      BY <2>3, <3>2, <3>3
    <3>4. CASE log[i].id = e.id
      BY <2>1, <2>3, <3>2, <3>4 DEF Events
    <3>5. QED
      BY <3>3, <3>4
  <2>4. CASE log'[i] = e
    BY <2>1, <2>2, <2>4
  <2>5. QED
    BY <1>2, <2>2, <2>3, <2>4
<1>8. MemorySound'
  BY <1>3, <1>6, <1>7 DEF MemorySound
<1>9. QED
  BY <1>4, <1>5, <1>8 DEF IInv, IndexSound

\* Filing a ticket under a fresh id, however the append ends.
LEMMA StepUpsertNew ==
    ASSUME IInv,
           NEW id \in TicketIds, NEW fp \in Fingerprints, NEW p \in Principals,
           NEW post \in PostActions, NEW out \in WriteOutcomes,
           upsert_pending_new(id, fp, p, post, out)
    PROVE  IInv'
<1> DEFINE e == [type |-> "created", id |-> id, fp |-> fp, principal |-> p, post |-> post]
           s == prune_expired_overrides(inner)
           w == WithTicket(s, e)
<1>1. /\ e \in CreatedEvents /\ e \in Events /\ e \notin ResolvedEvents
      /\ e.id = id
  BY DEF CreatedEvents, Events, ResolvedEvents
<1>2. /\ mode = "up"
      /\ id \notin issued
      /\ issued' = issued \cup {id}
      /\ append_review_event(e, out)
      /\ inner' = AfterAppend(out, trim_to_capacity(w), s)
      /\ UNCHANGED <<cursor, now, asked>>
  BY DEF upsert_pending_new
<1> HIDE DEF e
<1>3. /\ inner \in ReviewStoreInner /\ IndexesAgree(inner)
      /\ issued \subseteq TicketIds /\ asked \subseteq ResolvedEvents
      /\ inner.tickets[id] = None
  BY <1>2 DEF IInv, TypeOK, IndexSound, MemorySound
<1>4. /\ s \in ReviewStoreInner
      /\ s.tickets = inner.tickets
      /\ \A f \in Fingerprints : s.overrides[f] \in {inner.overrides[f], None}
      /\ IndexesAgree(s)
  BY <1>3, PruneFields, PruneIndexes
<1> HIDE DEF s
<1>5. /\ w \in ReviewStoreInner
      /\ w.overrides = s.overrides
      /\ \A t \in TicketIds \ {id} : w.tickets[t] = s.tickets[t]
      /\ IndexesAgree(w)
  BY <1>1, <1>3, <1>4, WithTicketFields, WithTicketIndexes
<1> HIDE DEF w
<1>6. /\ trim_to_capacity(w) \in ReviewStoreInner
      /\ \A t \in TicketIds : trim_to_capacity(w).tickets[t] \in {w.tickets[t], None}
      /\ \A f \in Fingerprints : trim_to_capacity(w).overrides[f] \in {w.overrides[f], None}
      /\ IndexesAgree(trim_to_capacity(w))
  BY <1>5, TrimFields, TrimIndexes
<1>7. /\ EmptyInner(1) \in ReviewStoreInner
      /\ \A t \in TicketIds : EmptyInner(1).tickets[t] = None
      /\ \A f \in Fingerprints : EmptyInner(1).overrides[f] = None
      /\ IndexesAgree(EmptyInner(1))
  BY EmptyInnerType DEF EmptyInner, IndexesAgree
<1>8. /\ inner' \in ReviewStoreInner
      /\ IndexesAgree(inner')
      /\ \A t \in TicketIds \ {id} : inner'.tickets[t] \in {inner.tickets[t], None}
      /\ \A f \in Fingerprints : inner'.overrides[f] \in {inner.overrides[f], None}
      /\ mode' = "down" => inner' = EmptyInner(1)
  <2>1. CASE out = "ok"
    <3>1. inner' = trim_to_capacity(w) /\ mode' = "up"
      BY <1>2, <2>1 DEF AfterAppend, append_review_event
    <3>2. QED BY <1>4, <1>5, <1>6, <3>1
  <2>2. CASE out = "killed"
    <3>1. inner' = EmptyInner(1)
      BY <1>2, <2>2 DEF AfterAppend
    <3>2. QED BY <1>7, <3>1
  <2>3. CASE out \notin {"ok", "killed"}
    <3>1. inner' = s /\ mode' = "up"
      BY <1>2, <2>3 DEF AfterAppend, append_review_event
    <3>2. QED BY <1>4, <3>1
  <2>4. QED
    BY <2>1, <2>2, <2>3
<1>9. LogSound' /\ VerdictFinal'
  BY <1>1, <1>2, LogStep DEF IInv
<1>10. QED
  BY <1>1, <1>2, <1>3, <1>8, <1>9, AppendStep

\* A verdict on a pending ticket, however the append ends.
LEMMA StepResolve ==
    ASSUME IInv,
           NEW id \in TicketIds, NEW v \in Verdicts, NEW ttl \in Ttls,
           NEW out \in WriteOutcomes, resolve(id, v, ttl, out)
    PROVE  IInv'
<1> DEFINE e == [type |-> "resolved", id |-> id, status |-> v, expires |-> now + ttl]
           s == prune_expired_overrides(inner)
           w == WithStatus(s, e)
           r == WithOverride(w, e)
<1>1. now + ttl \in Nat
  BY ReviewStoreAssumption DEF IInv, TypeOK
<1>2. /\ e \in ResolvedEvents /\ e \in Events /\ e \notin CreatedEvents
      /\ e.id = id /\ e.status = v /\ v # "pending"
      /\ e = [type |-> "resolved", id |-> e.id, status |-> e.status, expires |-> e.expires]
  BY <1>1 DEF CreatedEvents, Events, ResolvedEvents, Verdicts
<1>3. /\ mode = "up"
      /\ inner.tickets[id] # None
      /\ inner.tickets[id].status = "pending"
      /\ asked' = asked \cup {e}
      /\ append_review_event(e, out)
      /\ inner' = AfterAppend(out, r, w)
      /\ UNCHANGED <<cursor, now, issued>>
  BY DEF resolve
<1> HIDE DEF e
<1>4. /\ inner \in ReviewStoreInner /\ IndexesAgree(inner)
      /\ issued \subseteq TicketIds /\ asked \subseteq ResolvedEvents
      /\ id \in issued
  BY <1>3 DEF IInv, TypeOK, IndexSound, MemorySound
<1>5. /\ s \in ReviewStoreInner
      /\ s.tickets = inner.tickets
      /\ \A f \in Fingerprints : s.overrides[f] \in {inner.overrides[f], None}
      /\ IndexesAgree(s)
  BY <1>4, PruneFields, PruneIndexes
<1> HIDE DEF s
<1>6. /\ w \in ReviewStoreInner
      /\ w.overrides = s.overrides
      /\ \A t \in TicketIds \ {id} : w.tickets[t] = s.tickets[t]
      /\ w.tickets[id].status = v
      /\ IndexesAgree(w)
  BY <1>2, <1>3, <1>5, WithStatusFields, WithStatusIndexes
<1>7. /\ r \in ReviewStoreInner
      /\ IndexesAgree(r)
      /\ r.tickets = w.tickets
      /\ \A f \in Fingerprints :
           \/ r.overrides[f] = s.overrides[f]
           \/ r.overrides[f] = [ticket |-> e.id, status |-> e.status,
                                action |-> s.tickets[e.id].post, expires |-> e.expires]
  BY <1>2, <1>3, <1>5, WithOverrideIndexes
<1> HIDE DEF w, r
<1>8. \A f \in Fingerprints :
        \/ r.overrides[f] \in {inner.overrides[f], None}
        \/ [type |-> "resolved", id |-> r.overrides[f].ticket,
            status |-> r.overrides[f].status,
            expires |-> r.overrides[f].expires] \in asked'
  BY <1>2, <1>3, <1>5, <1>7
<1>9. /\ EmptyInner(1) \in ReviewStoreInner
      /\ \A t \in TicketIds : EmptyInner(1).tickets[t] = None
      /\ \A f \in Fingerprints : EmptyInner(1).overrides[f] = None
      /\ IndexesAgree(EmptyInner(1))
  BY EmptyInnerType DEF EmptyInner, IndexesAgree
<1>10. /\ inner' \in ReviewStoreInner
       /\ IndexesAgree(inner')
       /\ \A t \in TicketIds \ {id} : inner'.tickets[t] \in {inner.tickets[t], None}
       /\ \A f \in Fingerprints :
            \/ inner'.overrides[f] \in {inner.overrides[f], None}
            \/ [type |-> "resolved", id |-> inner'.overrides[f].ticket,
                status |-> inner'.overrides[f].status,
                expires |-> inner'.overrides[f].expires] \in asked'
       /\ mode' = "down" => inner' = EmptyInner(1)
       /\ mode' # "down" => inner'.tickets[id].status # "pending"
  <2>1. CASE out = "ok"
    <3>1. inner' = r /\ mode' = "up"
      BY <1>3, <2>1 DEF AfterAppend, append_review_event
    <3>2. QED BY <1>2, <1>5, <1>6, <1>7, <1>8, <3>1
  <2>2. CASE out = "killed"
    <3>1. inner' = EmptyInner(1) /\ mode' = "down"
      BY <1>3, <2>2 DEF AfterAppend, append_review_event
    <3>2. QED BY <1>9, <3>1
  <2>3. CASE out \notin {"ok", "killed"}
    <3>1. inner' = w /\ mode' = "up"
      BY <1>3, <2>3 DEF AfterAppend, append_review_event
    <3>2. QED BY <1>2, <1>5, <1>6, <3>1
  <2>4. QED
    BY <2>1, <2>2, <2>3
<1>11. \A i \in 1..Len(log) : Readable(i) /\ IsResolved(i) => log[i].id # e.id
  BY <1>2, <1>3 DEF IInv, MemorySound, Seen
<1>12. LogSound' /\ VerdictFinal'
  BY <1>2, <1>3, <1>4, <1>11, LogStep DEF IInv
<1>13. QED
  BY <1>2, <1>3, <1>4, <1>10, <1>12, AppendStep

--------------------------------------------------------------------------------
(* The theorems                                                             *)

\* The inductive invariant holds of the whole component.
LEMMA Invariance == Spec => []IInv
<1>1. Init => IInv
  <2> SUFFICES ASSUME Init PROVE IInv
    OBVIOUS
  <2>1. inner \in ReviewStoreInner
    BY EmptyInnerType DEF Init
  <2>2. TypeOK
    <3>1. log \in Seq(Lines) /\ cursor \in Nat /\ now \in Nat
      BY DEF Init
    <3>2. openLine \in BOOLEAN /\ mode \in {"down", "loading", "up"}
      BY DEF Init
    <3>3. issued \subseteq TicketIds /\ acked \subseteq Lines /\ asked \subseteq ResolvedEvents
      BY DEF Init
    <3>4. QED
      BY <2>1, <3>1, <3>2, <3>3 DEF TypeOK
  <2>3. LogSound /\ VerdictFinal
    BY DEF Init, LogSound, VerdictFinal
  <2>4. MemorySound
    BY DEF Init, MemorySound, EmptyInner
  <2>5. IndexSound /\ OverrideAsked
    BY DEF Init, IndexSound, IndexesAgree, OverrideAsked, EmptyInner
  <2>6. QED
    BY <2>2, <2>3, <2>4, <2>5 DEF IInv
<1>2. IInv /\ [Next]_vars => IInv'
  <2> SUFFICES ASSUME IInv, [Next]_vars PROVE IInv'
    OBVIOUS
  <2>1. CASE UNCHANGED vars
    BY <2>1 DEF vars, IInv, TypeOK, LogSound, MemorySound, VerdictFinal, IndexSound,
                OverrideAsked, Seen, Readable, IsCreated, IsResolved
  <2>2. CASE Next
    <3>1. CASE query \/ \E fp \in Fingerprints : upsert_pending_existing(fp)
      BY <3>1, StepQuery
    <3>2. ASSUME NEW id \in TicketIds, NEW fp \in Fingerprints, NEW p \in Principals,
                 NEW post \in PostActions, NEW out \in WriteOutcomes,
                 upsert_pending_new(id, fp, p, post, out)
          PROVE  IInv'
      BY <3>2, StepUpsertNew
    <3>3. ASSUME NEW id \in TicketIds, NEW v \in Verdicts, NEW ttl \in Ttls,
                 NEW out \in WriteOutcomes, resolve(id, v, ttl, out)
          PROVE  IInv'
      BY <3>3, StepResolve
    <3>4. ASSUME NEW c \in Capacities, set_capacity(c)
          PROVE  IInv'
      BY <3>4, StepSetCapacity
    <3>5. CASE crash \/ \E c \in Capacities : new(c)
      BY <3>5, StepRestart
    <3>6. CASE load_line
      BY <3>6, StepLoadLine
    <3>7. CASE loaded
      BY <3>7, StepLoaded
    <3>8. CASE tick
      BY <3>8, StepTick
    <3>9. QED
      BY <2>2, <3>1, <3>2, <3>3, <3>4, <3>5, <3>6, <3>7, <3>8 DEF Next
  <2>3. QED
    BY <2>1, <2>2
<1>3. QED
  BY <1>1, <1>2, PTL DEF Spec

\* The variables of the review queue keep their types.
THEOREM TypeCorrect == Spec => []TypeOK
<1>1. IInv => TypeOK
  BY DEF IInv
<1>2. QED
  BY <1>1, Invariance, PTL

\* The readable log never holds two verdicts for one ticket, whatever crashes,
\* torn lines and failed appends happened (resolve, load_existing).
THEOREM OneVerdictPerTicket == Spec => []VerdictFinal
<1>1. IInv => VerdictFinal
  BY DEF IInv
<1>2. QED
  BY <1>1, Invariance, PTL

\* No index entry of the store dangles, and every override agrees with the
\* ticket it came from (upsert_pending, resolve, trim_to_capacity, replay).
THEOREM IndexesSound == Spec => []IndexSound
<1>1. IInv => IndexSound
  BY DEF IInv
<1>2. QED
  BY <1>1, Invariance, PTL

\* Every override in force was asked for by an administrator, with that
\* verdict and that expiry, also after replaying a damaged log.
THEOREM OverridesAsked == Spec => []OverrideAsked
<1>1. IInv => OverrideAsked
  BY DEF IInv
<1>2. QED
  BY <1>1, Invariance, PTL

--------------------------------------------------------------------------------
(* The queue                                                                *)

\* On a value s of ReviewStoreInner: the queue lists the tickets of the map,
\* each once.
Queued(s) ==
    /\ \A i, j \in 1..Len(s.order) : s.order[i] = s.order[j] => i = j
    /\ \A t \in TicketIds :
         s.tickets[t] # None <=> \E i \in 1..Len(s.order) : s.order[i] = t

\* The part of the queue that trim_to_capacity keeps is its tail, and the
\* tickets it drops are those of the head: the queue fits and stays exact.
LEMMA TrimQueued ==
    ASSUME NEW s \in ReviewStoreInner, Queued(s)
    PROVE  /\ Queued(trim_to_capacity(s))
           /\ Len(trim_to_capacity(s).order) <= trim_to_capacity(s).capacity
<1> DEFINE excess  == IF Len(s.order) > s.capacity THEN Len(s.order) - s.capacity ELSE 0
           evicted == {s.order[i] : i \in 1..excess}
           dropped == {f \in Fingerprints :
                         \E t \in evicted : s.tickets[t] # None /\ s.tickets[t].fp = f}
           kept    == SubSeq(s.order, excess + 1, Len(s.order))
           r       == trim_to_capacity(s)
<1>1. /\ s.order \in Seq(TicketIds)
      /\ Len(s.order) \in Nat
      /\ s.capacity \in Nat
  BY DEF ReviewStoreInner
<1>2. /\ excess \in Nat /\ excess <= Len(s.order)
      /\ Len(s.order) - excess <= s.capacity
  BY <1>1
<1>3. r = [s EXCEPT
           !.order     = kept,
           !.tickets   = [t \in TicketIds |-> IF t \in evicted THEN None ELSE s.tickets[t]],
           !.pending   = [f \in Fingerprints |-> IF f \in dropped THEN None ELSE s.pending[f]],
           !.overrides = [f \in Fingerprints |-> IF f \in dropped THEN None ELSE s.overrides[f]]]
  BY DEF trim_to_capacity
<1> HIDE DEF excess
<1>4. /\ Len(kept) = Len(s.order) - excess
      /\ \A i \in 1..Len(kept) : kept[i] = s.order[excess + i]
  BY <1>1, <1>2
<1>5. /\ r.capacity = s.capacity
      /\ r.order = kept
      /\ r.tickets = [t \in TicketIds |-> IF t \in evicted THEN None ELSE s.tickets[t]]
  <2> HIDE DEF r, evicted, dropped, kept
  <2> QED BY <1>3 DEF ReviewStoreInner
<1>6. \A t \in TicketIds : r.tickets[t] = IF t \in evicted THEN None ELSE s.tickets[t]
  BY <1>5
<1> HIDE DEF r, kept
<1>7. \A i, j \in 1..Len(r.order) : r.order[i] = r.order[j] => i = j
  BY <1>1, <1>2, <1>4, <1>5, SMTT(30) DEF Queued
<1>8. ASSUME NEW t \in TicketIds, r.tickets[t] # None
      PROVE  \E i \in 1..Len(r.order) : r.order[i] = t
  <2>1. t \notin evicted /\ s.tickets[t] # None
    BY <1>6, <1>8
  <2>2. PICK i \in 1..Len(s.order) : s.order[i] = t
    BY <2>1 DEF Queued
  <2>3. i > excess
    BY <1>1, <1>2, <2>1, <2>2
  <2>4. i - excess \in 1..Len(kept) /\ kept[i - excess] = t
    BY <1>1, <1>2, <1>4, <2>2, <2>3
  <2>5. QED
    BY <1>5, <2>4
<1>9. ASSUME NEW i \in 1..Len(r.order)
      PROVE  r.tickets[r.order[i]] # None /\ r.order[i] \in TicketIds
  <2>1. /\ r.order[i] = s.order[excess + i]
        /\ excess + i \in 1..Len(s.order)
    BY <1>1, <1>2, <1>4, <1>5
  <2>2. s.order[excess + i] \in TicketIds /\ s.tickets[s.order[excess + i]] # None
    BY <1>1, <2>1 DEF Queued
  <2>3. s.order[excess + i] \notin evicted
    BY <1>1, <1>2, <2>1 DEF Queued
  <2>4. QED
    BY <1>6, <2>1, <2>2, <2>3
<1>10. Queued(r)
  BY <1>7, <1>8, <1>9 DEF Queued
<1>11. QED
  BY <1>2, <1>4, <1>5, <1>10 DEF r

\* A ticket that is not in the map joins the queue at its tail.
LEMMA WithTicketQueued ==
    ASSUME NEW s \in ReviewStoreInner, Queued(s),
           NEW e \in CreatedEvents, s.tickets[e.id] = None
    PROVE  Queued(WithTicket(s, e))
<1> DEFINE r == WithTicket(s, e)
<1>1. /\ r.order = Append(s.order, e.id)
      /\ \A t \in TicketIds \ {e.id} : r.tickets[t] = s.tickets[t]
      /\ r.tickets[e.id] \in ReviewTicket
  BY WithTicketFields
<1>2. r.tickets[e.id] # None
  BY <1>1, ReviewStoreAssumption
<1>3. e.id \in TicketIds /\ s.order \in Seq(TicketIds)
  BY DEF CreatedEvents, ReviewStoreInner
<1> HIDE DEF r
<1>4. /\ Len(r.order) = Len(s.order) + 1 /\ Len(s.order) \in Nat
      /\ \A i \in 1..Len(s.order) : r.order[i] = s.order[i]
      /\ r.order[Len(s.order) + 1] = e.id
  BY <1>1, <1>3
<1>5. \A i \in 1..Len(s.order) : s.order[i] # e.id
  BY <1>3 DEF Queued
<1>6. \A i \in 1..Len(r.order) : i \in 1..Len(s.order) \/ i = Len(s.order) + 1
  BY <1>4
<1>7. \A i, j \in 1..Len(r.order) : r.order[i] = r.order[j] => i = j
  BY <1>4, <1>5, <1>6 DEF Queued
<1>8. \A t \in TicketIds : r.tickets[t] # None <=> \E i \in 1..Len(r.order) : r.order[i] = t
  <2> TAKE t \in TicketIds
  <2>1. CASE t = e.id
    BY <1>2, <1>4, <2>1
  <2>2. CASE t # e.id
    <3>1. r.tickets[t] = s.tickets[t]
      BY <1>1, <2>2
    <3>2. (\E i \in 1..Len(r.order) : r.order[i] = t)
            <=> \E i \in 1..Len(s.order) : s.order[i] = t
      BY <1>4, <1>6, <2>2, SMTT(30)
    <3>3. QED
      BY <3>1, <3>2 DEF Queued
  <2>3. QED
    BY <2>1, <2>2
<1>9. QED
  BY <1>7, <1>8 DEF Queued, r

\* Two stores with the same queue and the same tickets on file.
LEMMA SameQueued ==
    ASSUME NEW s, NEW r, Queued(s), r.order = s.order,
           \A t \in TicketIds : r.tickets[t] = None <=> s.tickets[t] = None
    PROVE  Queued(r)
BY DEF Queued

\* A verdict, in memory alone or with its override, moves no ticket.
LEMMA VerdictQueued ==
    ASSUME NEW s \in ReviewStoreInner, Queued(s),
           NEW e \in ResolvedEvents, s.tickets[e.id] # None
    PROVE  /\ Queued(WithStatus(s, e))
           /\ WithStatus(s, e).order = s.order
           /\ WithStatus(s, e).capacity = s.capacity
           /\ Queued(WithOverride(WithStatus(s, e), e))
           /\ WithOverride(WithStatus(s, e), e).order = s.order
           /\ WithOverride(WithStatus(s, e), e).capacity = s.capacity
<1> DEFINE m == WithStatus(s, e)
           r == WithOverride(m, e)
<1>1. /\ m \in ReviewStoreInner
      /\ m.order = s.order
      /\ m.capacity = s.capacity
      /\ \A t \in TicketIds \ {e.id} : m.tickets[t] = s.tickets[t]
      /\ m.tickets[e.id] \in ReviewTicket
  BY WithStatusFields
<1>2. m.tickets[e.id] # None
  BY <1>1, ReviewStoreAssumption
<1> HIDE DEF m
<1>3. Queued(m)
  BY <1>1, <1>2, SameQueued
<1>4. /\ r.order = m.order
      /\ r.capacity = m.capacity
      /\ r.tickets = m.tickets
  BY <1>1, WithOverrideFields
<1> HIDE DEF r
<1>5. Queued(r)
  BY <1>3, <1>4, SameQueued
<1>6. QED
  BY <1>1, <1>3, <1>4, <1>5 DEF m, r

\* An empty store has an exact queue.
LEMMA EmptyQueued ==
    ASSUME NEW c
    PROVE  Queued(EmptyInner(c)) /\ Len(EmptyInner(c).order) = 0
BY DEF Queued, EmptyInner

\* One step of the store keeps the queue exact and within its capacity.
LEMMA QueueStep ==
    ASSUME IInv, QueueExact, [Next]_vars
    PROVE  QueueExact'
<1>1. /\ inner \in ReviewStoreInner /\ Queued(inner)
      /\ mode = "up" => Len(inner.order) <= inner.capacity
  BY DEF IInv, TypeOK, QueueExact, Queued
<1>2. SUFFICES /\ Queued(inner')
               /\ mode' = "up" => Len(inner'.order) <= inner'.capacity
  BY DEF QueueExact, Queued
<1>3. CASE UNCHANGED vars \/ tick
  BY <1>1, <1>3 DEF vars, tick
<1>4. /\ prune_expired_overrides(inner) \in ReviewStoreInner
      /\ prune_expired_overrides(inner).order = inner.order
      /\ prune_expired_overrides(inner).capacity = inner.capacity
      /\ prune_expired_overrides(inner).tickets = inner.tickets
      /\ Queued(prune_expired_overrides(inner))
  <2>1. /\ prune_expired_overrides(inner) \in ReviewStoreInner
        /\ prune_expired_overrides(inner).order = inner.order
        /\ prune_expired_overrides(inner).capacity = inner.capacity
        /\ prune_expired_overrides(inner).tickets = inner.tickets
    BY <1>1, PruneFields
  <2>2. Queued(prune_expired_overrides(inner))
    BY <1>1, <2>1, SameQueued
  <2>3. QED
    BY <2>1, <2>2
<1>5. CASE query \/ \E fp \in Fingerprints : upsert_pending_existing(fp)
  BY <1>1, <1>4, <1>5 DEF query, upsert_pending_existing
<1>6. ASSUME NEW id \in TicketIds, NEW fp \in Fingerprints, NEW p \in Principals,
             NEW post \in PostActions, NEW out \in WriteOutcomes,
             upsert_pending_new(id, fp, p, post, out)
      PROVE  Queued(inner') /\ (mode' = "up" => Len(inner'.order) <= inner'.capacity)
  <2> DEFINE e == [type |-> "created", id |-> id, fp |-> fp, principal |-> p, post |-> post]
             s == prune_expired_overrides(inner)
             w == WithTicket(s, e)
  <2>1. e \in CreatedEvents /\ e.id = id
    BY DEF CreatedEvents
  <2>2. /\ mode = "up"
        /\ id \notin issued
        /\ append_review_event(e, out)
        /\ inner' = AfterAppend(out, trim_to_capacity(w), s)
    BY <1>6 DEF upsert_pending_new
  <2> HIDE DEF e
  <2>3. inner.tickets[id] = None
    BY <2>2 DEF IInv, MemorySound
  <2>4. w \in ReviewStoreInner /\ Queued(w)
    BY <1>4, <2>1, <2>3, WithTicketFields, WithTicketQueued
  <2>5. /\ Queued(trim_to_capacity(w))
        /\ Len(trim_to_capacity(w).order) <= trim_to_capacity(w).capacity
    BY <2>4, TrimQueued
  <2> HIDE DEF w
  <2>6. /\ inner' \in {trim_to_capacity(w), s, EmptyInner(1)}
        /\ mode' = "up" => inner' \in {trim_to_capacity(w), s}
    BY <2>2 DEF AfterAppend, append_review_event
  <2>7. QED
    BY <1>1, <1>4, <2>2, <2>5, <2>6, EmptyQueued
<1>7. ASSUME NEW id \in TicketIds, NEW v \in Verdicts, NEW ttl \in Ttls,
             NEW out \in WriteOutcomes, resolve(id, v, ttl, out)
      PROVE  Queued(inner') /\ (mode' = "up" => Len(inner'.order) <= inner'.capacity)
  <2> DEFINE e == [type |-> "resolved", id |-> id, status |-> v, expires |-> now + ttl]
             s == prune_expired_overrides(inner)
  <2>1. now + ttl \in Nat
    BY ReviewStoreAssumption DEF IInv, TypeOK
  <2>2. e \in ResolvedEvents /\ e.id = id
    BY <2>1 DEF ResolvedEvents
  <2>3. /\ mode = "up"
        /\ inner.tickets[id] # None
        /\ append_review_event(e, out)
        /\ inner' = AfterAppend(out, WithOverride(WithStatus(s, e), e), WithStatus(s, e))
    BY <1>7 DEF resolve
  <2> HIDE DEF e
  <2>4. /\ Queued(WithStatus(s, e))
        /\ WithStatus(s, e).order = s.order
        /\ WithStatus(s, e).capacity = s.capacity
        /\ Queued(WithOverride(WithStatus(s, e), e))
        /\ WithOverride(WithStatus(s, e), e).order = s.order
        /\ WithOverride(WithStatus(s, e), e).capacity = s.capacity
    BY <1>4, <2>2, <2>3, VerdictQueued
  <2>5. /\ inner' \in {WithOverride(WithStatus(s, e), e), WithStatus(s, e), EmptyInner(1)}
        /\ mode' = "up" => inner' \in {WithOverride(WithStatus(s, e), e), WithStatus(s, e)}
    BY <2>3 DEF AfterAppend, append_review_event
  <2>6. QED
    BY <1>1, <1>4, <2>3, <2>4, <2>5, EmptyQueued
<1>8. ASSUME NEW c \in Capacities, set_capacity(c)
      PROVE  Queued(inner') /\ Len(inner'.order) <= inner'.capacity
  <2> DEFINE s == [inner EXCEPT !.capacity = AtLeastOne(c)]
  <2>1. AtLeastOne(c) \in Nat
    BY ReviewStoreAssumption DEF AtLeastOne
  <2>2. /\ s \in ReviewStoreInner
        /\ s.tickets = inner.tickets
        /\ s.order = inner.order
    BY <1>1, <2>1 DEF ReviewStoreInner
  <2>3. inner' = trim_to_capacity(s)
    BY <1>8 DEF set_capacity
  <2> HIDE DEF s
  <2>4. Queued(s)
    BY <1>1, <2>2, SameQueued
  <2>5. QED
    BY <2>2, <2>3, <2>4, TrimQueued
<1>9. CASE crash \/ \E c \in Capacities : new(c)
  BY <1>9, EmptyQueued DEF crash, new
<1>10. CASE load_line
  <2> DEFINE l == log[cursor + 1]
  <2>1. /\ mode = "loading" /\ mode' = "loading"
        /\ cursor \in Nat /\ Len(log) \in Nat /\ cursor + 1 \in 1..Len(log)
        /\ l \in Lines
        /\ inner' = inner \/ inner' = apply_review_event(inner, l)
    BY <1>10 DEF load_line, IInv, TypeOK
  <2>2. ASSUME l.type = "created"
        PROVE  l \in CreatedEvents /\ inner.tickets[l.id] = None
    <3>1. l \in CreatedEvents /\ l.id \in TicketIds
      BY <2>1, <2>2, LineKinds DEF CreatedEvents
    <3>2. \A i \in 1..cursor : ~(IsCreated(i) /\ log[i].id = l.id)
      BY <2>1, <2>2 DEF IInv, LogSound, IsCreated
    <3>3. QED
      BY <2>1, <3>1, <3>2 DEF IInv, MemorySound
  <2>3. l.type = "resolved" => l \in ResolvedEvents
    BY <2>1, LineKinds
  <2>4. CASE inner' = inner
    BY <1>1, <2>1, <2>4
  <2>5. CASE inner' = apply_review_event(inner, l)
    <3> HIDE DEF l
    <3>1. CASE l.type = "created"
      <4>1. inner' = WithTicket(inner, l)
        BY <2>5, <3>1 DEF apply_review_event
      <4>2. QED
        BY <1>1, <2>1, <2>2, <3>1, <4>1, WithTicketQueued
    <3>2. CASE l.type = "resolved" /\ inner.tickets[l.id] # None
      <4>1. inner' = WithOverride(WithStatus(inner, l), l)
        BY <2>5, <3>2 DEF apply_review_event
      <4>2. QED
        BY <1>1, <2>1, <2>3, <3>2, <4>1, VerdictQueued
    <3>3. CASE l.type # "created" /\ ~(l.type = "resolved" /\ inner.tickets[l.id] # None)
      <4>1. inner' = inner
        BY <2>5, <3>3 DEF apply_review_event
      <4>2. QED
        BY <1>1, <2>1, <4>1
    <3>4. QED
      BY <3>1, <3>2, <3>3
  <2>6. QED
    BY <2>1, <2>4, <2>5
<1>11. CASE loaded
  BY <1>4, <1>11, TrimQueued DEF loaded
<1>12. QED
  BY <1>3, <1>5, <1>6, <1>7, <1>8, <1>9, <1>10, <1>11 DEF Next

\* The queue lists exactly the tickets of the map, each once, and a running
\* store never holds more than its capacity: whatever order filings, verdicts,
\* capacity changes, failed appends, crashes and replays come in.
THEOREM QueueStaysExact == Spec => []QueueExact
<1>1. Init => QueueExact
  BY EmptyQueued DEF Init, QueueExact, Queued
<1>2. IInv /\ QueueExact /\ [Next]_vars => QueueExact'
  BY QueueStep
<1>3. QED
  BY <1>1, <1>2, Invariance, PTL DEF Spec

--------------------------------------------------------------------------------
(* Appends that complete or write nothing                                   *)

\* Every append ends with the whole line in the file or with nothing in it.
WholeAppends == WriteOutcomes \subseteq {"ok", "refused"}

\* The log is made of whole events, so every line is there for a restart.
CleanLog ==
    /\ openLine = FALSE
    /\ \A i \in 1..Len(log) : log[i] \in Events

\* A ticket in memory has its filing in the log.
Filed ==
    \A t \in TicketIds : inner.tickets[t] # None =>
        \E i \in 1..Len(log) : IsCreated(i) /\ log[i].id = t

\* What was acknowledged is in the log.
AckedWritten ==
    \A e \in acked : \E i \in 1..Len(log) : log[i] = e

\* Memory carries the verdict of every line it has seen.
VerdictsHeld ==
    \A i \in 1..Len(log) : Seen(i) /\ IsResolved(i) =>
        \/ inner.tickets[log[i].id] = None
        \/ inner.tickets[log[i].id].status = log[i].status

\* The inductive invariant of a store whose appends are whole.
DurableInv == IInv /\ CleanLog /\ Filed /\ AckedWritten /\ VerdictsHeld

\* The queue has room for every ticket there can be.
RoomForAll ==
    IsFiniteSet(TicketIds) /\ \A c \in Capacities : Cardinality(TicketIds) <= c

\* Nothing is evicted: memory has every ticket it has seen a filing of.
Unevicted ==
    /\ mode # "down" => Cardinality(TicketIds) <= inner.capacity
    /\ \A i \in 1..Len(log) : Seen(i) /\ IsCreated(i) =>
         /\ inner.tickets[log[i].id] # None
         /\ inner.tickets[log[i].id].fp = log[i].fp

\* A request is filed again only after its earlier ticket was decided.
Refiled ==
    \A i, j \in 1..Len(log) :
        (IsCreated(i) /\ IsCreated(j) /\ log[i].fp = log[j].fp /\ i < j) =>
            \E k \in 1..(j - 1) : IsResolved(k) /\ log[k].id = log[i].id

\* The pending index leads to every ticket whose verdict memory has not seen.
Waiting ==
    \A t \in TicketIds : inner.tickets[t] # None =>
        \/ inner.pending[inner.tickets[t].fp] = t
        \/ \E i \in 1..Len(log) : Seen(i) /\ IsResolved(i) /\ log[i].id = t

\* The inductive invariant of a store that also never evicts.
RoomyInv == DurableInv /\ QueueExact /\ Unevicted /\ Refiled /\ Waiting

\* The log and the acknowledgements stay, memory sees no more of the log than
\* before and at most forgets tickets.
Quiet ==
    /\ UNCHANGED <<log, openLine, acked>>
    /\ \A i \in 1..Len(log) : Seen(i)' => Seen(i)
    /\ \A t \in TicketIds : inner'.tickets[t] \in {inner.tickets[t], None}

\* Event e is written as a line of its own and acknowledged: the filing of a
\* fresh ticket, or the verdict on a pending one.
Wrote(e) ==
    /\ mode = "up" /\ mode' = "up"
    /\ log' = Append(log, e)
    /\ openLine' = FALSE
    /\ acked' = acked \cup {e}
    /\ \A t \in TicketIds \ {e.id} : inner'.tickets[t] \in {inner.tickets[t], None}
    /\ e \in CreatedEvents => e.id \notin issued
    /\ e \in ResolvedEvents =>
         /\ inner.tickets[e.id] # None
         /\ inner.tickets[e.id].status = "pending"
         /\ inner'.tickets[e.id].status = e.status

\* The append of verdict e was refused: only memory has it.
Unwritten(e) ==
    /\ mode = "up" /\ mode' = "up"
    /\ UNCHANGED <<log, openLine, acked>>
    /\ \A t \in TicketIds \ {e.id} : inner'.tickets[t] = inner.tickets[t]
    /\ inner.tickets[e.id] # None
    /\ inner.tickets[e.id].status = "pending"

\* What a whole append does to the file.
LEMMA WholeAppend ==
    ASSUME CleanLog, NEW e, NEW out \in {"ok", "refused"}, append_review_event(e, out)
    PROVE  /\ mode' = mode
           /\ openLine' = FALSE
           /\ out = "ok" => log' = Append(log, e) /\ acked' = acked \cup {e}
           /\ out = "refused" => log' = log /\ acked' = acked
<1>1. openLine = FALSE
  BY DEF CleanLog
<1>2. mode' = mode
  BY DEF append_review_event
<1>3. CASE out = "ok"
  BY <1>1, <1>2, <1>3 DEF append_review_event, WriteLine
<1>4. CASE out = "refused"
  BY <1>1, <1>2, <1>4 DEF append_review_event
<1>5. QED
  BY <1>3, <1>4

\* What trimming and pruning may do to the tickets.
LEMMA FewerTickets ==
    ASSUME NEW s \in ReviewStoreInner
    PROVE  /\ prune_expired_overrides(s).tickets = s.tickets
           /\ \A t \in TicketIds : trim_to_capacity(s).tickets[t] \in {s.tickets[t], None}
BY PruneFields, TrimFields

\* The steps of the store, by what they do to the log and to the tickets.
LEMMA StepKinds ==
    ASSUME WholeAppends, IInv, CleanLog, [Next]_vars
    PROVE  \/ Quiet
           \/ load_line
           \/ \E e \in Events : Wrote(e)
           \/ \E e \in ResolvedEvents : Unwritten(e)
<1>1. /\ inner \in ReviewStoreInner
      /\ cursor \in Nat /\ Len(log) \in Nat
      /\ openLine = FALSE
  BY DEF IInv, TypeOK, CleanLog
<1> DEFINE s == prune_expired_overrides(inner)
<1>2. s \in ReviewStoreInner /\ s.tickets = inner.tickets
  BY <1>1, PruneFields
<1>3. CASE UNCHANGED vars \/ tick
  <2>1. UNCHANGED <<mode, inner, cursor, log, openLine, acked>>
    BY <1>3 DEF vars, tick
  <2>2. \A i \in 1..Len(log) : Seen(i)' => Seen(i)
    BY <2>1 DEF Seen, Readable
  <2>3. QED
    BY <2>1, <2>2 DEF Quiet
<1>4. CASE query \/ \E fp \in Fingerprints : upsert_pending_existing(fp)
  <2>1. UNCHANGED <<mode, cursor, log, openLine, acked>> /\ inner' = s
    BY <1>4 DEF query, upsert_pending_existing
  <2>2. \A i \in 1..Len(log) : Seen(i)' => Seen(i)
    BY <2>1 DEF Seen, Readable
  <2> HIDE DEF s
  <2>3. QED
    BY <1>2, <2>1, <2>2 DEF Quiet
<1>5. ASSUME NEW id \in TicketIds, NEW fp \in Fingerprints, NEW p \in Principals,
             NEW post \in PostActions, NEW out \in WriteOutcomes,
             upsert_pending_new(id, fp, p, post, out)
      PROVE  Quiet \/ \E e \in Events : Wrote(e)
  <2> DEFINE e == [type |-> "created", id |-> id, fp |-> fp, principal |-> p, post |-> post]
             w == WithTicket(s, e)
  <2>1. /\ e \in CreatedEvents /\ e \in Events /\ e \notin ResolvedEvents
        /\ e.id = id
    BY DEF CreatedEvents, Events, ResolvedEvents
  <2>2. /\ mode = "up"
        /\ id \notin issued
        /\ append_review_event(e, out)
        /\ inner' = AfterAppend(out, trim_to_capacity(w), s)
        /\ cursor' = cursor
    BY <1>5 DEF upsert_pending_new
  <2> HIDE DEF e, s
  <2>3. /\ w \in ReviewStoreInner
        /\ \A t \in TicketIds \ {id} : w.tickets[t] = inner.tickets[t]
    BY <1>2, <2>1, WithTicketFields
  <2> HIDE DEF w
  <2>4. CASE out = "ok"
    <3>1. inner' = trim_to_capacity(w)
      BY <2>2, <2>4 DEF AfterAppend
    <3>2. \A t \in TicketIds \ {id} : inner'.tickets[t] \in {inner.tickets[t], None}
      BY <2>3, <3>1, FewerTickets
    <3>3. /\ mode' = "up" /\ openLine' = FALSE
          /\ log' = Append(log, e) /\ acked' = acked \cup {e}
      BY <2>2, <2>4, WholeAppend
    <3>4. Wrote(e)
      BY <2>1, <2>2, <3>2, <3>3 DEF Wrote
    <3>5. QED
      BY <2>1, <3>4
  <2>5. CASE out = "refused"
    <3>1. inner' = s
      BY <2>2, <2>5 DEF AfterAppend
    <3>2. mode' = mode /\ openLine' = FALSE /\ log' = log /\ acked' = acked
      BY <2>2, <2>5, WholeAppend
    <3>3. \A i \in 1..Len(log) : Seen(i)' => Seen(i)
      BY <2>2, <3>2 DEF Seen, Readable
    <3>4. QED
      BY <1>1, <1>2, <3>1, <3>2, <3>3 DEF Quiet
  <2>6. QED
    BY <2>4, <2>5 DEF WholeAppends
<1>6. ASSUME NEW id \in TicketIds, NEW v \in Verdicts, NEW ttl \in Ttls,
             NEW out \in WriteOutcomes, resolve(id, v, ttl, out)
      PROVE  (\E e \in Events : Wrote(e)) \/ \E e \in ResolvedEvents : Unwritten(e)
  <2> DEFINE e == [type |-> "resolved", id |-> id, status |-> v, expires |-> now + ttl]
             w == WithStatus(s, e)
             r == WithOverride(w, e)
  <2>1. now + ttl \in Nat
    BY ReviewStoreAssumption DEF IInv, TypeOK
  <2>2. /\ e \in ResolvedEvents /\ e \in Events /\ e \notin CreatedEvents
        /\ e.id = id
    BY <2>1 DEF ResolvedEvents, CreatedEvents, Events
  <2>3. /\ mode = "up"
        /\ inner.tickets[id] # None
        /\ inner.tickets[id].status = "pending"
        /\ append_review_event(e, out)
        /\ inner' = AfterAppend(out, r, w)
    BY <1>6 DEF resolve
  <2> HIDE DEF e, s
  <2>4. /\ w \in ReviewStoreInner
        /\ \A t \in TicketIds \ {id} : w.tickets[t] = inner.tickets[t]
        /\ w.tickets[id] \in ReviewTicket
        /\ w.tickets[id].status = e.status
    BY <1>2, <2>2, <2>3, WithStatusFields
  <2> HIDE DEF w
  <2>5. r.tickets = w.tickets
    BY <2>2, <2>4, WithOverrideFields
  <2> HIDE DEF r
  <2>6. CASE out = "ok"
    <3>1. inner' = r
      BY <2>3, <2>6 DEF AfterAppend
    <3>2. /\ mode' = "up" /\ openLine' = FALSE
          /\ log' = Append(log, e) /\ acked' = acked \cup {e}
      BY <2>3, <2>6, WholeAppend
    <3>3. Wrote(e)
      BY <2>2, <2>3, <2>4, <2>5, <3>1, <3>2 DEF Wrote
    <3>4. QED
      BY <2>2, <3>3
  <2>7. CASE out = "refused"
    <3>1. inner' = w
      BY <2>3, <2>7 DEF AfterAppend
    <3>2. mode' = mode /\ openLine' = FALSE /\ log' = log /\ acked' = acked
      BY <2>3, <2>7, WholeAppend
    <3>3. Unwritten(e)
      BY <1>1, <2>2, <2>3, <2>4, <3>1, <3>2 DEF Unwritten
    <3>4. QED
      BY <2>2, <3>3
  <2>8. QED
    BY <2>6, <2>7 DEF WholeAppends
<1>7. ASSUME NEW c \in Capacities, set_capacity(c)
      PROVE  Quiet
  <2> DEFINE q == [inner EXCEPT !.capacity = AtLeastOne(c)]
  <2>1. AtLeastOne(c) \in Nat
    BY ReviewStoreAssumption DEF AtLeastOne
  <2>2. q \in ReviewStoreInner /\ q.tickets = inner.tickets
    BY <1>1, <2>1 DEF ReviewStoreInner
  <2>3. inner' = trim_to_capacity(q) /\ UNCHANGED <<mode, cursor, log, openLine, acked>>
    BY <1>7 DEF set_capacity
  <2> HIDE DEF q
  <2>4. \A t \in TicketIds : inner'.tickets[t] \in {inner.tickets[t], None}
    BY <2>2, <2>3, FewerTickets
  <2>5. \A i \in 1..Len(log) : Seen(i)' => Seen(i)
    BY <2>3 DEF Seen, Readable
  <2>6. QED
    BY <2>3, <2>4, <2>5 DEF Quiet
<1>8. CASE crash \/ \E c \in Capacities : new(c)
  <2>1. PICK c : inner' = EmptyInner(c)
    BY <1>8 DEF crash, new
  <2>2. /\ mode' = "down" \/ (mode' = "loading" /\ cursor' = 0)
        /\ UNCHANGED <<log, openLine, acked>>
    BY <1>8 DEF crash, new
  <2>3. \A t \in TicketIds : inner'.tickets[t] = None
    BY <2>1 DEF EmptyInner
  <2>4. \A i \in 1..Len(log) : ~Seen(i)'
    BY <2>2 DEF Seen
  <2>5. QED
    BY <2>2, <2>3, <2>4 DEF Quiet
<1>9. CASE loaded
  <2>1. /\ mode = "loading" /\ cursor = Len(log) /\ mode' = "up"
        /\ inner' = trim_to_capacity(s)
        /\ UNCHANGED <<cursor, log, openLine, acked>>
    BY <1>9 DEF loaded
  <2>2. \A i \in 1..Len(log) : Seen(i)' => Seen(i)
    BY <1>1, <2>1 DEF Seen, Readable
  <2> HIDE DEF s
  <2>3. \A t \in TicketIds : inner'.tickets[t] \in {inner.tickets[t], None}
    BY <1>2, <2>1, FewerTickets
  <2>4. QED
    BY <2>1, <2>2, <2>3 DEF Quiet
<1>10. QED
  BY <1>3, <1>4, <1>5, <1>6, <1>7, <1>8, <1>9 DEF Next

\* With a clean log every line is readable, and replay applies each in turn.
LEMMA ReplayOne ==
    ASSUME IInv, CleanLog, load_line
    PROVE  LET l == log[cursor + 1]
           IN  /\ mode = "loading" /\ mode' = "loading"
               /\ cursor \in Nat /\ Len(log) \in Nat
               /\ cursor + 1 \in 1..Len(log) /\ cursor' = cursor + 1
               /\ UNCHANGED <<log, openLine, acked, issued>>
               /\ inner \in ReviewStoreInner
               /\ \/ /\ l \in CreatedEvents
                     /\ IsCreated(cursor + 1) /\ ~IsResolved(cursor + 1)
                     /\ l.id \in TicketIds
                     /\ inner.tickets[l.id] = None
                     /\ inner' = WithTicket(inner, l)
                  \/ /\ l \in ResolvedEvents
                     /\ IsResolved(cursor + 1) /\ ~IsCreated(cursor + 1)
                     /\ l.id \in TicketIds
                     /\ inner.tickets[l.id] # None
                     /\ inner' = WithOverride(WithStatus(inner, l), l)
                  \/ /\ l \in ResolvedEvents
                     /\ IsResolved(cursor + 1) /\ ~IsCreated(cursor + 1)
                     /\ l.id \in TicketIds
                     /\ inner.tickets[l.id] = None
                     /\ inner' = inner
<1> USE DEF IsCreated, IsResolved
<1> DEFINE n == cursor + 1
           l == log[n]
<1>1. /\ mode = "loading" /\ mode' = "loading"
      /\ cursor \in Nat /\ Len(log) \in Nat /\ n \in 1..Len(log)
      /\ l \in Lines
      /\ inner \in ReviewStoreInner
      /\ UNCHANGED <<log, openLine, acked, issued>>
  BY DEF load_line, IInv, TypeOK
<1>2. /\ l \in Events /\ l # BadUtf8
      /\ l.type = "created" <=> l \in CreatedEvents
      /\ l.type = "resolved" <=> l \in ResolvedEvents
  BY <1>1, LineKinds DEF CleanLog
<1>3. cursor' = n /\ inner' = apply_review_event(inner, l)
  BY <1>2 DEF load_line
<1>4. CASE l.type = "created"
  <2>1. l \in CreatedEvents /\ l.id \in TicketIds
    BY <1>2, <1>4 DEF CreatedEvents
  <2>2. inner' = WithTicket(inner, l)
    BY <1>3, <1>4 DEF apply_review_event
  <2>3. \A i \in 1..cursor : ~(IsCreated(i) /\ log[i].id = l.id)
    BY <1>1, <1>4 DEF IInv, LogSound
  <2>4. inner.tickets[l.id] = None
    BY <1>1, <2>1, <2>3 DEF IInv, MemorySound
  <2> HIDE DEF n, l
  <2>5. QED
    BY <1>1, <1>3, <1>4, <2>1, <2>2, <2>4 DEF n, l
<1>5. CASE l.type # "created"
  <2>1. l \in ResolvedEvents /\ l.type = "resolved" /\ l.id \in TicketIds
    BY <1>2, <1>5 DEF Events, ResolvedEvents
  <2>2. inner' = IF inner.tickets[l.id] # None
                 THEN WithOverride(WithStatus(inner, l), l) ELSE inner
    BY <1>3, <1>5, <2>1 DEF apply_review_event
  <2> HIDE DEF n, l
  <2>3. QED
    BY <1>1, <1>3, <1>5, <2>1, <2>2 DEF n, l
<1>6. QED
  BY <1>4, <1>5

\* Every line of a clean log is readable.
LEMMA CleanReadable ==
    ASSUME log \in Seq(Lines), CleanLog, NEW i \in 1..Len(log)
    PROVE  Readable(i)
BY LineKinds DEF CleanLog, Readable

\* One step of a store whose appends are whole.
LEMMA DurableStep ==
    ASSUME WholeAppends, DurableInv, IInv', [Next]_vars
    PROVE  DurableInv'
<1> USE DEF IsCreated, IsResolved
<1>1. /\ IInv /\ CleanLog /\ Filed /\ AckedWritten /\ VerdictsHeld
      /\ log \in Seq(Lines) /\ Len(log) \in Nat
      /\ issued \subseteq TicketIds
  BY DEF DurableInv, IInv, TypeOK
<1>2. \A i \in 1..Len(log) :
        /\ IsResolved(i) => log[i] \in ResolvedEvents /\ log[i].id \in TicketIds
        /\ IsCreated(i) => log[i] \in CreatedEvents /\ log[i].id \in TicketIds
  BY <1>1, LineKinds DEF CreatedEvents, ResolvedEvents
<1>3. SUFFICES CleanLog' /\ Filed' /\ AckedWritten' /\ VerdictsHeld'
  BY DEF DurableInv
<1>4. CASE Quiet
  <2>1. CleanLog' /\ Filed' /\ AckedWritten'
    BY <1>1, <1>4 DEF Quiet, CleanLog, Filed, AckedWritten
  <2>2. VerdictsHeld'
    BY <1>1, <1>2, <1>4 DEF Quiet, VerdictsHeld
  <2>3. QED
    BY <2>1, <2>2
<1>5. ASSUME NEW e \in ResolvedEvents, Unwritten(e)
      PROVE  CleanLog' /\ Filed' /\ AckedWritten' /\ VerdictsHeld'
  <2>1. /\ mode = "up" /\ mode' = "up"
        /\ UNCHANGED <<log, openLine, acked>>
        /\ \A t \in TicketIds \ {e.id} : inner'.tickets[t] = inner.tickets[t]
        /\ inner.tickets[e.id] # None
        /\ inner.tickets[e.id].status = "pending"
        /\ e.id \in TicketIds
    BY <1>5 DEF Unwritten, ResolvedEvents
  <2>2. CleanLog' /\ AckedWritten'
    BY <1>1, <2>1 DEF CleanLog, AckedWritten
  <2>3. Filed'
    BY <1>1, <2>1 DEF Filed
  <2>4. \A i \in 1..Len(log) : Seen(i)' => Seen(i)
    BY <2>1 DEF Seen, Readable
  <2>5. \A i \in 1..Len(log) : Seen(i) /\ IsResolved(i) => log[i].id # e.id
    BY <1>1, <2>1 DEF IInv, MemorySound
  <2>6. VerdictsHeld'
    BY <1>1, <1>2, <2>1, <2>4, <2>5 DEF VerdictsHeld
  <2>7. QED
    BY <2>2, <2>3, <2>6
<1>6. ASSUME NEW e \in Events, Wrote(e)
      PROVE  CleanLog' /\ Filed' /\ AckedWritten' /\ VerdictsHeld'
  <2>1. /\ mode = "up" /\ mode' = "up"
        /\ log' = Append(log, e)
        /\ openLine' = FALSE
        /\ acked' = acked \cup {e}
        /\ \A t \in TicketIds \ {e.id} : inner'.tickets[t] \in {inner.tickets[t], None}
        /\ e \in CreatedEvents => e.id \notin issued
        /\ e \in ResolvedEvents =>
             /\ inner.tickets[e.id] # None
             /\ inner.tickets[e.id].status = "pending"
             /\ inner'.tickets[e.id].status = e.status
    BY <1>6 DEF Wrote
  <2>2. /\ e \in Lines /\ e.id \in TicketIds
        /\ e.type = "created" <=> e \in CreatedEvents
        /\ e.type = "resolved" <=> e \in ResolvedEvents
    BY LineKinds DEF Events, Lines, CreatedEvents, ResolvedEvents
  <2>3. /\ Len(log') = Len(log) + 1
        /\ \A i \in 1..Len(log) : log'[i] = log[i]
        /\ log'[Len(log) + 1] = e
        /\ \A i \in 1..Len(log') : i \in 1..Len(log) \/ i = Len(log) + 1
    BY <1>1, <2>1, <2>2
  <2>4. CleanLog'
    BY <1>1, <2>1, <2>3 DEF CleanLog
  <2>5. AckedWritten'
    <3> SUFFICES ASSUME NEW x \in acked' PROVE \E i \in 1..Len(log') : log'[i] = x
      BY DEF AckedWritten
    <3>1. CASE x = e
      BY <1>1, <2>3, <3>1
    <3>2. CASE x \in acked
      <4>1. PICK i \in 1..Len(log) : log[i] = x
        BY <1>1, <3>2 DEF AckedWritten
      <4>2. i \in 1..Len(log') /\ log'[i] = x
        BY <1>1, <2>3, <4>1
      <4>3. QED
        BY <4>2
    <3>3. QED
      BY <2>1, <3>1, <3>2
  <2>6. Filed'
    <3> SUFFICES ASSUME NEW t \in TicketIds, inner'.tickets[t] # None
                 PROVE  \E i \in 1..Len(log') : log'[i].type = "created" /\ log'[i].id = t
      BY DEF Filed
    <3>1. CASE t = e.id /\ e \in CreatedEvents
      BY <1>1, <2>2, <2>3, <3>1
    <3>2. CASE t # e.id \/ e \in ResolvedEvents
      <4>1. inner.tickets[t] # None
        BY <2>1, <3>2
      <4>2. PICK i \in 1..Len(log) : IsCreated(i) /\ log[i].id = t
        BY <1>1, <4>1 DEF Filed
      <4>3. i \in 1..Len(log') /\ log'[i] = log[i]
        BY <1>1, <2>3
      <4>4. QED
        BY <4>2, <4>3
    <3>3. QED
      BY <3>1, <3>2 DEF Events
  <2>7. VerdictsHeld'
    <3> SUFFICES ASSUME NEW i \in 1..Len(log'), Seen(i)', log'[i].type = "resolved"
                 PROVE  \/ inner'.tickets[log'[i].id] = None
                        \/ inner'.tickets[log'[i].id].status = log'[i].status
      BY DEF VerdictsHeld
    <3>1. CASE i = Len(log) + 1
      BY <2>1, <2>2, <2>3, <3>1
    <3>2. CASE i \in 1..Len(log)
      <4>1. /\ log'[i] = log[i] /\ IsResolved(i) /\ Readable(i) /\ Seen(i)
            /\ log[i].id \in TicketIds /\ log[i].id \in issued
        BY <1>1, <1>2, <2>1, <2>3, <3>2, CleanReadable DEF Seen, IInv, LogSound
      <4>2. log[i].id # e.id
        BY <1>1, <2>1, <3>2, <4>1 DEF Events, IInv, MemorySound
      <4>3. QED
        BY <1>1, <2>1, <4>1, <4>2 DEF VerdictsHeld
    <3>3. QED
      BY <2>3, <3>1, <3>2
  <2>8. QED
    BY <2>4, <2>5, <2>6, <2>7
<1>7. CASE load_line
  <2> DEFINE n == cursor + 1
             l == log[n]
  <2>1. /\ mode = "loading" /\ mode' = "loading"
        /\ cursor \in Nat
        /\ n \in 1..Len(log) /\ cursor' = n
        /\ UNCHANGED <<log, openLine, acked, issued>>
        /\ inner \in ReviewStoreInner
        /\ \/ l \in CreatedEvents /\ IsCreated(n) /\ ~IsResolved(n) /\ l.id \in TicketIds
              /\ inner.tickets[l.id] = None /\ inner' = WithTicket(inner, l)
           \/ l \in ResolvedEvents /\ IsResolved(n) /\ ~IsCreated(n) /\ l.id \in TicketIds
              /\ inner.tickets[l.id] # None
              /\ inner' = WithOverride(WithStatus(inner, l), l)
           \/ l \in ResolvedEvents /\ IsResolved(n) /\ ~IsCreated(n) /\ l.id \in TicketIds
              /\ inner.tickets[l.id] = None /\ inner' = inner
    BY <1>1, <1>7, ReplayOne
  <2>2. CleanLog' /\ AckedWritten'
    BY <1>1, <2>1 DEF CleanLog, AckedWritten
  <2>3. \A i \in 1..Len(log) : Seen(i)' => (i <= cursor /\ Seen(i)) \/ i = n
    BY <1>1, <2>1 DEF Seen, Readable
  <2>4. /\ \A t \in TicketIds \ {l.id} : inner'.tickets[t] = inner.tickets[t]
        /\ (IsResolved(n) /\ inner.tickets[l.id] # None) =>
             inner'.tickets[l.id].status = l.status
        /\ (IsResolved(n) /\ inner.tickets[l.id] = None) =>
             inner'.tickets[l.id] = None
    <3> HIDE DEF l, n
    <3>1. CASE l \in CreatedEvents /\ inner' = WithTicket(inner, l) /\ ~IsResolved(n)
      BY <2>1, <3>1, WithTicketFields
    <3>2. CASE /\ l \in ResolvedEvents /\ inner.tickets[l.id] # None
               /\ inner' = WithOverride(WithStatus(inner, l), l)
      <4>1. /\ WithStatus(inner, l) \in ReviewStoreInner
            /\ \A t \in TicketIds \ {l.id} : WithStatus(inner, l).tickets[t] = inner.tickets[t]
            /\ WithStatus(inner, l).tickets[l.id] \in ReviewTicket
            /\ WithStatus(inner, l).tickets[l.id].status = l.status
        BY <2>1, <3>2, WithStatusFields
      <4>2. inner'.tickets = WithStatus(inner, l).tickets
        BY <3>2, <4>1, WithOverrideFields
      <4>3. QED
        BY <3>2, <4>1, <4>2
    <3>3. CASE inner.tickets[l.id] = None /\ inner' = inner
      BY <3>3
    <3>4. QED
      BY <2>1, <3>1, <3>2, <3>3
  <2>5. Filed'
    <3> SUFFICES ASSUME NEW t \in TicketIds, inner'.tickets[t] # None
                 PROVE  \E i \in 1..Len(log) : IsCreated(i) /\ log[i].id = t
      BY <2>1 DEF Filed
    <3>1. CASE t = l.id /\ IsCreated(n)
      BY <2>1, <3>1
    <3>2. CASE ~(t = l.id /\ IsCreated(n))
      <4>1. inner.tickets[t] # None
        BY <2>1, <2>4, <3>2
      <4>2. QED
        BY <1>1, <4>1 DEF Filed
    <3>3. QED
      BY <3>1, <3>2
  <2>6. VerdictsHeld'
    <3> SUFFICES ASSUME NEW i \in 1..Len(log), Seen(i)', IsResolved(i)
                 PROVE  \/ inner'.tickets[log[i].id] = None
                        \/ inner'.tickets[log[i].id].status = log[i].status
      BY <2>1 DEF VerdictsHeld
    <3>1. CASE i = n
      BY <2>4, <3>1
    <3>2. CASE i <= cursor /\ Seen(i)
      <4>1. log[i].id \in TicketIds
        BY <1>2
      <4>2. log[i].id # l.id
        <5>1. Readable(i) /\ Readable(n)
          BY <1>1, <2>1, CleanReadable
        <5>2. CASE IsResolved(n)
          BY <1>1, <2>1, <3>2, <5>1, <5>2 DEF IInv, VerdictFinal
        <5>3. CASE IsCreated(n)
          BY <1>1, <2>1, <3>2, <5>3 DEF IInv, LogSound
        <5>4. QED
          BY <2>1, <5>2, <5>3
      <4>3. QED
        BY <1>1, <2>4, <3>2, <4>1, <4>2 DEF VerdictsHeld
    <3>3. QED
      BY <2>3, <3>1, <3>2
  <2>7. QED
    BY <2>2, <2>5, <2>6
<1>8. QED
  BY <1>1, <1>4, <1>5, <1>6, <1>7, StepKinds

\* The invariant of a store whose appends are whole.
LEMMA DurableInvariance ==
    ASSUME WholeAppends
    PROVE  Spec => []DurableInv
<1>1. Init /\ IInv => DurableInv
  BY DEF Init, DurableInv, CleanLog, Filed, AckedWritten, VerdictsHeld, EmptyInner
<1>2. DurableInv /\ IInv' /\ [Next]_vars => DurableInv'
  BY DurableStep
<1>3. QED
  BY <1>1, <1>2, Invariance, PTL DEF Spec

\* Where an append completes or writes nothing, every acknowledged event is in
\* the log for the next restart, and a running process holds the verdict it
\* acknowledged (append_review_event, resolve, load_existing).
THEOREM AcknowledgedSurvives ==
    ASSUME WholeAppends
    PROVE  Spec => []AckedSurvives
<1>1. ASSUME DurableInv PROVE AckedSurvives
  <2> SUFFICES ASSUME NEW e \in acked
               PROVE  /\ \E i \in 1..Len(log) : Readable(i) /\ log[i] = e
                      /\ (e.type = "resolved" /\ mode = "up" /\ inner.tickets[e.id] # None) =>
                           inner.tickets[e.id].status = e.status
    BY DEF AckedSurvives
  <2>1. /\ CleanLog /\ log \in Seq(Lines) /\ VerdictsHeld /\ AckedWritten
    BY <1>1 DEF DurableInv, IInv, TypeOK
  <2>2. PICK i \in 1..Len(log) : log[i] = e
    BY <2>1 DEF AckedWritten
  <2>3. Readable(i)
    BY <2>1, CleanReadable
  <2>4. QED
    BY <2>1, <2>2, <2>3 DEF VerdictsHeld, Seen, IsResolved
<1>2. QED
  BY <1>1, DurableInvariance, PTL

\* The verdict a clean log holds on a ticket: that of its only verdict line,
\* otherwise whether it was filed.
VerdictsRead ==
    /\ DurableVerdict = [t \in TicketIds |-> DurableVerdict[t]]
    /\ \A t \in TicketIds, i \in 1..Len(log) :
         IsResolved(i) /\ log[i].id = t => DurableVerdict[t] = log[i].status
    /\ \A t \in TicketIds :
         (\A i \in 1..Len(log) : ~(IsResolved(i) /\ log[i].id = t)) =>
           DurableVerdict[t] =
             IF \E i \in 1..Len(log) : IsCreated(i) /\ log[i].id = t
             THEN "pending" ELSE "none"

\* The refinement mapping reads just that off the log.
LEMMA DurableVerdictIs == DurableInv => VerdictsRead
<1> SUFFICES ASSUME log \in Seq(Lines), CleanLog, VerdictFinal
             PROVE  VerdictsRead
  BY DEF DurableInv, IInv, TypeOK
<1> USE DEF IsCreated, IsResolved
<1>1. \A i \in 1..Len(log) : Readable(i)
  BY CleanReadable
<1>2. DurableVerdict = [t \in TicketIds |-> DurableVerdict[t]]
  BY DEF DurableVerdict
<1>3. ASSUME NEW t \in TicketIds, NEW i \in 1..Len(log), IsResolved(i), log[i].id = t
      PROVE  DurableVerdict[t] = log[i].status
  <2> DEFINE k == CHOOSE j \in 1..Len(log) :
                    Readable(j) /\ log[j].type = "resolved" /\ log[j].id = t
  <2>1. DurableVerdict[t] = log[k].status
    BY <1>1, <1>3 DEF DurableVerdict
  <2>2. k \in 1..Len(log) /\ log[k].type = "resolved" /\ log[k].id = t
    BY <1>1, <1>3
  <2> HIDE DEF k
  <2>3. k = i
    BY <1>1, <1>3, <2>2 DEF VerdictFinal
  <2>4. QED
    BY <2>1, <2>3
<1>4. ASSUME NEW t \in TicketIds,
             \A i \in 1..Len(log) : ~(IsResolved(i) /\ log[i].id = t)
      PROVE  DurableVerdict[t] =
               IF \E i \in 1..Len(log) : IsCreated(i) /\ log[i].id = t
               THEN "pending" ELSE "none"
  <2>1. DurableVerdict[t] =
          IF \E i \in 1..Len(log) : Readable(i) /\ log[i].type = "created" /\ log[i].id = t
          THEN "pending" ELSE "none"
    BY <1>4 DEF DurableVerdict
  <2>2. QED
    BY <1>1, <2>1
<1>5. QED
  BY <1>2, <1>3, <1>4 DEF VerdictsRead

\* Every step of the store is a step of the ledger or leaves it alone.
LEMMA LedgerStep ==
    ASSUME WholeAppends, DurableInv, VerdictsRead, VerdictsRead', [Next]_vars
    PROVE  [Ledger!Next]_DurableVerdict
<1> USE DEF IsCreated, IsResolved
<1>1. /\ IInv /\ CleanLog /\ log \in Seq(Lines) /\ Len(log) \in Nat /\ VerdictFinal
      /\ Filed
  BY DEF DurableInv, IInv, TypeOK
<1>2. CASE log' = log
  BY <1>2 DEF DurableVerdict, Readable
<1>3. ASSUME NEW e \in Events, Wrote(e)
      PROVE  Ledger!Next
  <2> DEFINE D == DurableVerdict
             E == DurableVerdict'
  <2>1. /\ mode = "up" /\ log' = Append(log, e)
        /\ e \in CreatedEvents => e.id \notin issued
        /\ e \in ResolvedEvents => /\ inner.tickets[e.id] # None
                                   /\ inner.tickets[e.id].status = "pending"
    BY <1>3 DEF Wrote
  <2>2. /\ e \in Lines /\ e.id \in TicketIds
        /\ e.type = "created" <=> e \in CreatedEvents
        /\ e.type = "resolved" <=> e \in ResolvedEvents
        /\ e \in ResolvedEvents => e.status \in {"approved", "rejected"}
    BY LineKinds DEF Events, Lines, CreatedEvents, ResolvedEvents, Verdicts
  <2>3. /\ Len(log') = Len(log) + 1
        /\ \A i \in 1..Len(log) : log'[i] = log[i]
        /\ log'[Len(log) + 1] = e
        /\ \A i \in 1..Len(log') : i \in 1..Len(log) \/ i = Len(log) + 1
    BY <1>1, <2>1, <2>2
  <2>4. /\ D = [t \in TicketIds |-> D[t]]
        /\ \A t \in TicketIds, i \in 1..Len(log) :
             log[i].type = "resolved" /\ log[i].id = t => D[t] = log[i].status
        /\ \A t \in TicketIds :
             (\A i \in 1..Len(log) : ~(log[i].type = "resolved" /\ log[i].id = t)) =>
               D[t] = IF \E i \in 1..Len(log) : log[i].type = "created" /\ log[i].id = t
                      THEN "pending" ELSE "none"
    BY DEF VerdictsRead
  <2>5. /\ E = [t \in TicketIds |-> E[t]]
        /\ \A t \in TicketIds, i \in 1..Len(log') :
             log'[i].type = "resolved" /\ log'[i].id = t => E[t] = log'[i].status
        /\ \A t \in TicketIds :
             (\A i \in 1..Len(log') : ~(log'[i].type = "resolved" /\ log'[i].id = t)) =>
               E[t] = IF \E i \in 1..Len(log') : log'[i].type = "created" /\ log'[i].id = t
                      THEN "pending" ELSE "none"
    BY DEF VerdictsRead
  <2> HIDE DEF D, E
  <2>6. ASSUME NEW t \in TicketIds, t # e.id
        PROVE  E[t] = D[t]
    <3>1. CASE \E i \in 1..Len(log) : log[i].type = "resolved" /\ log[i].id = t
      <4>1. PICK i \in 1..Len(log) : log[i].type = "resolved" /\ log[i].id = t
        BY <3>1
      <4>2. i \in 1..Len(log') /\ log'[i] = log[i]
        BY <1>1, <2>3
      <4>3. QED
        BY <2>4, <2>5, <4>1, <4>2
    <3>2. CASE \A i \in 1..Len(log) : ~(log[i].type = "resolved" /\ log[i].id = t)
      <4>1. \A i \in 1..Len(log') : ~(log'[i].type = "resolved" /\ log'[i].id = t)
        BY <2>3, <2>6, <3>2
      <4>2. (\E i \in 1..Len(log') : log'[i].type = "created" /\ log'[i].id = t)
              <=> \E i \in 1..Len(log) : log[i].type = "created" /\ log[i].id = t
        BY <1>1, <2>3, <2>6
      <4>3. QED
        BY <2>4, <2>5, <3>2, <4>1, <4>2
    <3>3. QED
      BY <3>1, <3>2
  <2>7. \A i \in 1..Len(log) : ~(log[i].type = "resolved" /\ log[i].id = e.id)
    <3>1. CASE e \in CreatedEvents
      BY <1>1, <2>1, <3>1 DEF IInv, LogSound
    <3>2. CASE e \in ResolvedEvents
      BY <1>1, <2>1, <3>2, CleanReadable DEF IInv, MemorySound, Seen
    <3>3. QED
      BY <3>1, <3>2 DEF Events
  <2>8. CASE e \in CreatedEvents
    <3>1. \A i \in 1..Len(log) : ~(log[i].type = "created" /\ log[i].id = e.id)
      BY <1>1, <2>1, <2>8 DEF IInv, LogSound
    <3>2. D[e.id] = "none"
      BY <2>2, <2>4, <2>7, <3>1
    <3>3. e.type = "created" /\ e.type # "resolved"
      BY <2>2, <2>8
    <3>4. \A i \in 1..Len(log') : ~(log'[i].type = "resolved" /\ log'[i].id = e.id)
      BY <2>3, <2>7, <3>3
    <3>5. Len(log) + 1 \in 1..Len(log')
      BY <1>1, <2>3
    <3>6. E[e.id] = "pending"
      BY <2>2, <2>3, <2>5, <3>3, <3>4, <3>5
    <3>7. E = [D EXCEPT ![e.id] = "pending"]
      BY <2>2, <2>4, <2>5, <2>6, <3>6
    <3>8. Ledger!File(e.id)
      BY <3>2, <3>7 DEF Ledger!File, D, E
    <3>9. QED
      BY <2>2, <3>8 DEF Ledger!Next
  <2>9. CASE e \in ResolvedEvents
    <3>1. \E i \in 1..Len(log) : log[i].type = "created" /\ log[i].id = e.id
      BY <1>1, <2>1, <2>2, <2>9 DEF Filed
    <3>2. D[e.id] = "pending"
      BY <2>2, <2>4, <2>7, <3>1
    <3>3. Len(log) + 1 \in 1..Len(log')
      BY <1>1, <2>3
    <3>4. E[e.id] = e.status
      BY <2>2, <2>3, <2>5, <2>9, <3>3
    <3>5. E = [D EXCEPT ![e.id] = e.status]
      BY <2>2, <2>4, <2>5, <2>6, <3>4
    <3>6. Ledger!Decide(e.id, e.status)
      BY <3>2, <3>5 DEF Ledger!Decide, D, E
    <3>7. QED
      BY <2>2, <2>9, <3>6 DEF Ledger!Next
  <2>10. QED
    BY <2>8, <2>9 DEF Events
<1>4. \/ log' = log
      \/ \E e \in Events : Wrote(e)
  BY <1>1, StepKinds, ReplayOne DEF Quiet, Unwritten
<1>5. QED
  BY <1>2, <1>3, <1>4

\* Where an append completes or writes nothing, the event log implements the
\* ledger: each ticket filed once, decided once and never taken back, across
\* crashes and restarts.
THEOREM LogImplementsLedger ==
    ASSUME WholeAppends
    PROVE  Spec => LedgerSpec
<1>1. Init => Ledger!Init
  BY DEF Init, Ledger!Init, DurableVerdict
<1>2. DurableInv /\ VerdictsRead /\ VerdictsRead' /\ [Next]_vars => [Ledger!Next]_DurableVerdict
  BY LedgerStep
<1>3. QED
  BY <1>1, <1>2, DurableInvariance, DurableVerdictIs, PTL DEF Spec, LedgerSpec, Ledger!Spec

--------------------------------------------------------------------------------
(* A queue with room for every ticket                                       *)

\* An exact queue is no longer than the tickets there are.
LEMMA QueueFits ==
    ASSUME NEW s \in ReviewStoreInner, Queued(s), IsFiniteSet(TicketIds)
    PROVE  Len(s.order) <= Cardinality(TicketIds)
<1> DEFINE n == Len(s.order)
           f == [i \in 1..n |-> s.order[i]]
<1>1. s.order \in Seq(TicketIds) /\ n \in Nat
  BY DEF ReviewStoreInner
<1>2. f \in [1..n -> TicketIds] /\ \A i, j \in 1..n : f[i] = f[j] => i = j
  BY <1>1 DEF Queued
<1>3. f \in Injection(1..n, TicketIds)
  BY <1>2 DEF Injection, IsInjective
<1>4. Cardinality(1..n) <= Cardinality(TicketIds)
  BY <1>3, FS_Injection
<1>5. Cardinality(1..n) = n
  BY <1>1, FS_Interval
<1>6. QED
  BY <1>4, <1>5

\* trim_to_capacity leaves a queue that fits alone.
LEMMA TrimFits ==
    ASSUME NEW s \in ReviewStoreInner, Len(s.order) <= s.capacity
    PROVE  /\ trim_to_capacity(s).capacity = s.capacity
           /\ \A t \in TicketIds : trim_to_capacity(s).tickets[t] = s.tickets[t]
           /\ \A f \in Fingerprints : trim_to_capacity(s).pending[f] = s.pending[f]
           /\ \A f \in Fingerprints : trim_to_capacity(s).overrides[f] = s.overrides[f]
<1> DEFINE excess  == IF Len(s.order) > s.capacity THEN Len(s.order) - s.capacity ELSE 0
           evicted == {s.order[i] : i \in 1..excess}
           dropped == {f \in Fingerprints :
                         \E t \in evicted : s.tickets[t] # None /\ s.tickets[t].fp = f}
           kept    == SubSeq(s.order, excess + 1, Len(s.order))
           r       == trim_to_capacity(s)
<1>1. s.order \in Seq(TicketIds) /\ Len(s.order) \in Nat /\ s.capacity \in Nat
  BY DEF ReviewStoreInner
<1>2. excess = 0
  BY <1>1
<1>3. r = [s EXCEPT
           !.order     = kept,
           !.tickets   = [t \in TicketIds |-> IF t \in evicted THEN None ELSE s.tickets[t]],
           !.pending   = [f \in Fingerprints |-> IF f \in dropped THEN None ELSE s.pending[f]],
           !.overrides = [f \in Fingerprints |-> IF f \in dropped THEN None ELSE s.overrides[f]]]
  BY DEF trim_to_capacity
<1> HIDE DEF excess
<1>4. evicted = {}
  BY <1>2
<1> HIDE DEF evicted
<1>5. dropped = {}
  BY <1>4
<1>6. /\ r.capacity = s.capacity
      /\ r.tickets = [t \in TicketIds |-> IF t \in evicted THEN None ELSE s.tickets[t]]
      /\ r.pending = [f \in Fingerprints |-> IF f \in dropped THEN None ELSE s.pending[f]]
      /\ r.overrides = [f \in Fingerprints |-> IF f \in dropped THEN None ELSE s.overrides[f]]
  <2> HIDE DEF r, dropped, kept
  <2> QED BY <1>3 DEF ReviewStoreInner
<1> HIDE DEF r, dropped
<1>7. QED
  BY <1>4, <1>5, <1>6 DEF r

\* Memory keeps its tickets, their fingerprints and the pending index, and sees
\* as much of the same log as before.
SameFiling ==
    /\ log' = log
    /\ \A i \in 1..Len(log) : Seen(i)' <=> Seen(i)
    /\ \A t \in TicketIds :
         /\ inner'.tickets[t] = None <=> inner.tickets[t] = None
         /\ inner.tickets[t] # None => inner'.tickets[t].fp = inner.tickets[t].fp
    /\ \A f \in Fingerprints : inner'.pending[f] = inner.pending[f]
    /\ Cardinality(TicketIds) <= inner'.capacity

\* A restart: memory is empty and has seen nothing.
Restarted ==
    /\ log' = log
    /\ \A i \in 1..Len(log) : ~Seen(i)'
    /\ \A t \in TicketIds : inner'.tickets[t] = None
    /\ mode' # "down" => Cardinality(TicketIds) <= inner'.capacity

\* The ticket of filing e joins memory, when its fingerprint is not pending.
FiledTicket(e) ==
    /\ \A t \in TicketIds \ {e.id} : inner'.tickets[t] = inner.tickets[t]
    /\ inner'.tickets[e.id] # None
    /\ inner'.tickets[e.id].fp = e.fp
    /\ \A f \in Fingerprints : inner'.pending[f] = IF f = e.fp THEN e.id ELSE inner.pending[f]
    /\ inner'.capacity = inner.capacity

\* The ticket of verdict e is decided and its fingerprint waits no more.
Decided(e) ==
    /\ \A t \in TicketIds \ {e.id} : inner'.tickets[t] = inner.tickets[t]
    /\ inner.tickets[e.id] \in ReviewTicket
    /\ inner'.tickets[e.id] # None
    /\ inner'.tickets[e.id].fp = inner.tickets[e.id].fp
    /\ \A f \in Fingerprints :
         inner'.pending[f] = IF f = inner.tickets[e.id].fp THEN None ELSE inner.pending[f]
    /\ inner'.capacity = inner.capacity

\* A written event, and its effect on memory.
FiledAndWritten(e) ==
    /\ mode = "up" /\ mode' = "up"
    /\ log' = Append(log, e)
    /\ e \in CreatedEvents => FiledTicket(e) /\ ~HasPending(inner, e.fp) /\ e.id \notin issued
    /\ e \in ResolvedEvents => Decided(e) /\ inner.tickets[e.id].status = "pending"

\* Deciding a ticket in memory.
LEMMA DecidedIs ==
    ASSUME NEW s \in ReviewStoreInner, NEW e \in ResolvedEvents, s.tickets[e.id] # None,
           \A t \in TicketIds : s.tickets[t] = inner.tickets[t],
           s.pending = inner.pending, s.capacity = inner.capacity,
           inner' = WithOverride(WithStatus(s, e), e)
    PROVE  Decided(e)
<1> DEFINE m == WithStatus(s, e)
<1>1. e.id \in TicketIds /\ s.tickets[e.id] \in ReviewTicket
  BY InnerRecord DEF ResolvedEvents
<1>2. /\ m \in ReviewStoreInner
      /\ m.pending = s.pending
      /\ m.capacity = s.capacity
      /\ \A t \in TicketIds \ {e.id} : m.tickets[t] = s.tickets[t]
      /\ m.tickets[e.id] \in ReviewTicket
      /\ m.tickets[e.id].fp = s.tickets[e.id].fp
  BY WithStatusFields
<1>3. inner' = WithOverride(m, e)
  OBVIOUS
<1> HIDE DEF m
<1>4. /\ inner'.capacity = m.capacity
      /\ inner'.tickets = m.tickets
      /\ \A f \in Fingerprints :
           inner'.pending[f] = IF f = m.tickets[e.id].fp THEN None ELSE m.pending[f]
  <2>1. /\ WithOverride(m, e).capacity = m.capacity
        /\ WithOverride(m, e).tickets = m.tickets
        /\ \A f \in Fingerprints :
             WithOverride(m, e).pending[f] =
               IF f = m.tickets[e.id].fp THEN None ELSE m.pending[f]
    BY <1>2, WithOverrideFields, ZenonT(60)
  <2>2. QED
    BY <1>3, <2>1
<1>5. m.tickets[e.id] # None
  BY <1>2, ReviewStoreAssumption
<1>6. QED
  BY <1>1, <1>2, <1>4, <1>5 DEF Decided

\* The steps of a store that never evicts, by what they do to the filings.
LEMMA RoomyKinds ==
    ASSUME WholeAppends, RoomForAll, RoomyInv, [Next]_vars
    PROVE  \/ SameFiling
           \/ Restarted
           \/ load_line
           \/ mode = "down" /\ UNCHANGED <<mode, inner, cursor, log>>
           \/ \E e \in Events : FiledAndWritten(e)
<1> DEFINE s == prune_expired_overrides(inner)
           C == Cardinality(TicketIds)
<1>1. /\ IInv /\ CleanLog /\ inner \in ReviewStoreInner /\ Queued(inner)
      /\ cursor \in Nat /\ Len(log) \in Nat /\ openLine = FALSE
      /\ mode # "down" => C <= inner.capacity
  BY DEF RoomyInv, DurableInv, IInv, TypeOK, CleanLog, QueueExact, Queued, Unevicted
<1>2. C \in Nat
  BY FS_CardinalityType DEF RoomForAll
<1>3. /\ s \in ReviewStoreInner
      /\ s.tickets = inner.tickets
      /\ s.pending = inner.pending
      /\ s.order = inner.order
      /\ s.capacity = inner.capacity
      /\ Queued(s)
  <2>1. /\ s \in ReviewStoreInner
        /\ s.tickets = inner.tickets
        /\ s.pending = inner.pending
        /\ s.order = inner.order
        /\ s.capacity = inner.capacity
    BY <1>1, PruneFields
  <2> HIDE DEF s
  <2>2. Queued(s)
    BY <1>1, <2>1, SameQueued
  <2>3. QED
    BY <2>1, <2>2
<1> HIDE DEF C
<1>4. ASSUME NEW q \in ReviewStoreInner, Queued(q), C <= q.capacity
      PROVE  Len(q.order) <= q.capacity
  <2>1. Len(q.order) <= C
    BY <1>4, QueueFits DEF RoomForAll, C
  <2>2. q.capacity \in Nat /\ Len(q.order) \in Nat
    BY DEF ReviewStoreInner
  <2>3. QED
    BY <1>2, <1>4, <2>1, <2>2
<1>5. CASE UNCHANGED vars \/ tick
  <2>1. UNCHANGED <<mode, inner, cursor, log>>
    BY <1>5 DEF vars, tick
  <2>2. \A i \in 1..Len(log) : Seen(i)' <=> Seen(i)
    BY <2>1 DEF Seen, Readable
  <2>3. CASE mode = "down"
    BY <2>1, <2>3
  <2>4. CASE mode # "down"
    BY <1>1, <2>1, <2>2, <2>4 DEF SameFiling, C
  <2>5. QED
    BY <2>3, <2>4
<1>6. CASE query \/ \E fp \in Fingerprints : upsert_pending_existing(fp)
  <2>1. mode = "up" /\ UNCHANGED <<mode, cursor, log>> /\ inner' = s
    BY <1>6 DEF query, upsert_pending_existing
  <2>2. \A i \in 1..Len(log) : Seen(i)' <=> Seen(i)
    BY <2>1 DEF Seen, Readable
  <2> HIDE DEF s
  <2>3. QED
    BY <1>1, <1>3, <2>1, <2>2 DEF SameFiling, C
<1>7. ASSUME NEW id \in TicketIds, NEW fp \in Fingerprints, NEW p \in Principals,
             NEW post \in PostActions, NEW out \in WriteOutcomes,
             upsert_pending_new(id, fp, p, post, out)
      PROVE  SameFiling \/ \E e \in Events : FiledAndWritten(e)
  <2> DEFINE e == [type |-> "created", id |-> id, fp |-> fp, principal |-> p, post |-> post]
             w == WithTicket(s, e)
  <2>1. /\ e \in CreatedEvents /\ e \in Events /\ e \notin ResolvedEvents
        /\ e.id = id /\ e.fp = fp
    BY DEF CreatedEvents, Events, ResolvedEvents
  <2>2. /\ mode = "up"
        /\ ~HasPending(inner, fp)
        /\ id \notin issued
        /\ append_review_event(e, out)
        /\ inner' = AfterAppend(out, trim_to_capacity(w), s)
        /\ cursor' = cursor
    BY <1>7 DEF upsert_pending_new
  <2> HIDE DEF e, s
  <2>3. inner.tickets[id] = None
    BY <1>1, <2>2 DEF IInv, MemorySound
  <2>4. /\ w \in ReviewStoreInner
        /\ w.capacity = inner.capacity
        /\ \A f \in Fingerprints : w.pending[f] = IF f = fp THEN id ELSE inner.pending[f]
        /\ \A t \in TicketIds \ {id} : w.tickets[t] = inner.tickets[t]
        /\ w.tickets[id] \in ReviewTicket
        /\ w.tickets[id].fp = fp
        /\ Queued(w)
    BY <1>3, <2>1, <2>3, WithTicketFields, WithTicketQueued
  <2> HIDE DEF w
  <2>5. Len(w.order) <= w.capacity
    BY <1>1, <1>4, <2>2, <2>4
  <2>6. w.tickets[id] # None
    BY <2>4, ReviewStoreAssumption
  <2>7. CASE out = "ok"
    <3>1. inner' = trim_to_capacity(w)
      BY <2>2, <2>7 DEF AfterAppend
    <3>2. /\ inner'.capacity = w.capacity
          /\ \A t \in TicketIds : inner'.tickets[t] = w.tickets[t]
          /\ \A f \in Fingerprints : inner'.pending[f] = w.pending[f]
      BY <2>4, <2>5, <3>1, TrimFits
    <3>3. FiledTicket(e)
      BY <2>1, <2>4, <2>6, <3>2 DEF FiledTicket
    <3>4. mode' = "up" /\ log' = Append(log, e)
      BY <1>1, <2>2, <2>7, WholeAppend
    <3>5. FiledAndWritten(e)
      BY <2>1, <2>2, <3>3, <3>4 DEF FiledAndWritten
    <3>6. QED
      BY <2>1, <3>5
  <2>8. CASE out = "refused"
    <3>1. inner' = s
      BY <2>2, <2>8 DEF AfterAppend
    <3>2. mode' = mode /\ log' = log
      BY <1>1, <2>2, <2>8, WholeAppend
    <3>3. \A i \in 1..Len(log) : Seen(i)' <=> Seen(i)
      BY <2>2, <3>2 DEF Seen, Readable
    <3>4. QED
      BY <1>1, <1>3, <2>2, <3>1, <3>2, <3>3 DEF SameFiling, C
  <2>9. QED
    BY <2>7, <2>8 DEF WholeAppends
<1>8. ASSUME NEW id \in TicketIds, NEW v \in Verdicts, NEW ttl \in Ttls,
             NEW out \in WriteOutcomes, resolve(id, v, ttl, out)
      PROVE  SameFiling \/ \E e \in Events : FiledAndWritten(e)
  <2> DEFINE e == [type |-> "resolved", id |-> id, status |-> v, expires |-> now + ttl]
             w == WithStatus(s, e)
  <2>1. now + ttl \in Nat
    BY <1>1, ReviewStoreAssumption DEF IInv, TypeOK
  <2>2. /\ e \in ResolvedEvents /\ e \in Events /\ e \notin CreatedEvents
        /\ e.id = id
    BY <2>1 DEF ResolvedEvents, CreatedEvents, Events
  <2>3. /\ mode = "up"
        /\ inner.tickets[id] # None
        /\ inner.tickets[id].status = "pending"
        /\ append_review_event(e, out)
        /\ inner' = AfterAppend(out, WithOverride(w, e), w)
        /\ cursor' = cursor
    BY <1>8 DEF resolve
  <2> HIDE DEF e, s
  <2>4. CASE out = "ok"
    <3>1. inner' = WithOverride(w, e)
      BY <2>3, <2>4 DEF AfterAppend
    <3>2. Decided(e)
      BY <1>3, <2>2, <2>3, <3>1, DecidedIs
    <3>3. mode' = "up" /\ log' = Append(log, e)
      BY <1>1, <2>3, <2>4, WholeAppend
    <3>4. FiledAndWritten(e)
      BY <2>2, <2>3, <3>2, <3>3 DEF FiledAndWritten
    <3>5. QED
      BY <2>2, <3>4
  <2>5. CASE out = "refused"
    <3>1. inner' = w
      BY <2>3, <2>5 DEF AfterAppend
    <3>2. mode' = mode /\ log' = log
      BY <1>1, <2>3, <2>5, WholeAppend
    <3>3. \A i \in 1..Len(log) : Seen(i)' <=> Seen(i)
      BY <2>3, <3>2 DEF Seen, Readable
    <3>4. /\ w.capacity = s.capacity
          /\ w.pending = s.pending
          /\ \A t \in TicketIds \ {id} : w.tickets[t] = s.tickets[t]
          /\ w.tickets[id] \in ReviewTicket
          /\ w.tickets[id].fp = s.tickets[id].fp
      BY <1>3, <2>2, <2>3, WithStatusFields
    <3>5. w.tickets[id] # None
      BY <3>4, ReviewStoreAssumption
    <3> HIDE DEF w
    <3>6. QED
      BY <1>1, <1>3, <2>3, <3>1, <3>2, <3>3, <3>4, <3>5 DEF SameFiling, C
  <2>6. QED
    BY <2>4, <2>5 DEF WholeAppends
<1>9. ASSUME NEW c \in Capacities
      PROVE  AtLeastOne(c) \in Nat /\ C <= AtLeastOne(c)
  BY <1>2, ReviewStoreAssumption DEF AtLeastOne, RoomForAll, C
<1>10. ASSUME NEW c \in Capacities, set_capacity(c)
       PROVE  SameFiling
  <2> DEFINE q == [inner EXCEPT !.capacity = AtLeastOne(c)]
  <2>1. /\ q \in ReviewStoreInner
        /\ q.tickets = inner.tickets
        /\ q.pending = inner.pending
        /\ q.order = inner.order
        /\ q.capacity = AtLeastOne(c)
    BY <1>1, <1>9 DEF ReviewStoreInner
  <2>2. mode = "up" /\ inner' = trim_to_capacity(q) /\ UNCHANGED <<mode, cursor, log>>
    BY <1>10 DEF set_capacity
  <2> HIDE DEF q
  <2>3. Len(q.order) <= q.capacity
    BY <1>1, <1>4, <1>9, <2>1, SameQueued
  <2>4. /\ inner'.capacity = q.capacity
        /\ \A t \in TicketIds : inner'.tickets[t] = q.tickets[t]
        /\ \A f \in Fingerprints : inner'.pending[f] = q.pending[f]
    BY <2>1, <2>2, <2>3, TrimFits
  <2>5. \A i \in 1..Len(log) : Seen(i)' <=> Seen(i)
    BY <2>2 DEF Seen, Readable
  <2>6. QED
    BY <1>9, <2>1, <2>2, <2>4, <2>5 DEF SameFiling, C
<1>11. CASE crash
  <2>1. mode' = "down" /\ inner' = EmptyInner(1) /\ log' = log
    BY <1>11 DEF crash
  <2>2. QED
    BY <2>1 DEF Restarted, Seen, EmptyInner
<1>12. ASSUME NEW c \in Capacities, new(c)
       PROVE  Restarted
  <2>1. /\ mode' = "loading" /\ cursor' = 0 /\ log' = log
        /\ inner' = EmptyInner(AtLeastOne(c))
    BY <1>12 DEF new
  <2>2. /\ \A t \in TicketIds : inner'.tickets[t] = None
        /\ inner'.capacity = AtLeastOne(c)
    BY <2>1 DEF EmptyInner
  <2>3. \A i \in 1..Len(log) : ~Seen(i)'
    BY <2>1 DEF Seen
  <2>4. QED
    BY <1>9, <2>1, <2>2, <2>3 DEF Restarted, C
<1>13. CASE loaded
  <2>1. /\ mode = "loading" /\ cursor = Len(log) /\ mode' = "up"
        /\ inner' = trim_to_capacity(s)
        /\ cursor' = cursor /\ log' = log
    BY <1>13 DEF loaded
  <2>2. \A i \in 1..Len(log) : Seen(i)' <=> Seen(i)
    BY <1>1, <2>1 DEF Seen, Readable
  <2> HIDE DEF s
  <2>3. Len(s.order) <= s.capacity
    BY <1>1, <1>3, <1>4, <2>1
  <2>4. /\ inner'.capacity = s.capacity
        /\ \A t \in TicketIds : inner'.tickets[t] = s.tickets[t]
        /\ \A f \in Fingerprints : inner'.pending[f] = s.pending[f]
    BY <1>3, <2>1, <2>3, TrimFits
  <2>5. QED
    BY <1>1, <1>3, <2>1, <2>2, <2>4 DEF SameFiling, C
<1>14. QED
  BY <1>5, <1>6, <1>7, <1>8, <1>10, <1>11, <1>12, <1>13 DEF Next

\* One step of a store that never evicts.
LEMMA RoomyStep ==
    ASSUME WholeAppends, RoomForAll, RoomyInv, DurableInv', QueueExact', [Next]_vars
    PROVE  RoomyInv'
<1> USE DEF IsCreated, IsResolved
<1>1. /\ IInv /\ CleanLog /\ Unevicted /\ Refiled /\ Waiting
      /\ log \in Seq(Lines) /\ Len(log) \in Nat
      /\ issued \subseteq TicketIds /\ inner \in ReviewStoreInner
  BY DEF RoomyInv, DurableInv, IInv, TypeOK
<1>2. \A i \in 1..Len(log) :
        /\ IsResolved(i) => log[i].id \in TicketIds
        /\ IsCreated(i) => log[i].id \in TicketIds /\ log[i].fp \in Fingerprints
        /\ ~(IsResolved(i) /\ IsCreated(i))
  BY <1>1, LineKinds DEF CreatedEvents, ResolvedEvents
<1>3. \A t \in TicketIds : inner.tickets[t] # None => inner.tickets[t].fp \in Fingerprints
  BY <1>1 DEF ReviewStoreInner, ReviewTicket
<1>4. SUFFICES Unevicted' /\ Refiled' /\ Waiting'
  BY DEF RoomyInv
<1>5. CASE SameFiling
  <2>1. Refiled'
    BY <1>1, <1>5 DEF SameFiling, Refiled
  <2>2. Unevicted'
    BY <1>1, <1>2, <1>5 DEF SameFiling, Unevicted
  <2>3. Waiting'
    BY <1>1, <1>3, <1>5 DEF SameFiling, Waiting
  <2>4. QED
    BY <2>1, <2>2, <2>3
<1>6. CASE Restarted
  <2>1. Refiled'
    BY <1>1, <1>6 DEF Restarted, Refiled
  <2>2. Unevicted' /\ Waiting'
    BY <1>1, <1>6 DEF Restarted, Unevicted, Waiting
  <2>3. QED
    BY <2>1, <2>2
<1>7. CASE mode = "down" /\ UNCHANGED <<mode, inner, cursor, log>>
  BY <1>1, <1>7 DEF Refiled, Unevicted, Waiting, Seen, Readable
<1>8. ASSUME NEW e \in Events, FiledAndWritten(e)
      PROVE  Unevicted' /\ Refiled' /\ Waiting'
  <2>1. /\ mode = "up" /\ mode' = "up"
        /\ log' = Append(log, e)
        /\ e \in CreatedEvents => /\ FiledTicket(e)
                                  /\ ~HasPending(inner, e.fp)
                                  /\ e.id \notin issued
        /\ e \in ResolvedEvents => Decided(e) /\ inner.tickets[e.id].status = "pending"
    BY <1>8 DEF FiledAndWritten
  <2>2. /\ e \in Lines /\ e.id \in TicketIds
        /\ e.type = "created" <=> e \in CreatedEvents
        /\ e.type = "resolved" <=> e \in ResolvedEvents
        /\ e \in CreatedEvents => e.fp \in Fingerprints
    BY LineKinds DEF Events, Lines, CreatedEvents, ResolvedEvents
  <2>3. /\ Len(log') = Len(log) + 1
        /\ \A i \in 1..Len(log) : log'[i] = log[i] /\ i \in 1..Len(log')
        /\ log'[Len(log) + 1] = e /\ Len(log) + 1 \in 1..Len(log')
        /\ \A i \in 1..Len(log') : i \in 1..Len(log) \/ i = Len(log) + 1
    BY <1>1, <2>1, <2>2
  <2>4. \A i \in 1..Len(log) : Seen(i)
    BY <1>1, <2>1, CleanReadable DEF Seen
  <2>5. \A i \in 1..Len(log') : Seen(i)'
    <3>1. \A i \in 1..Len(log') : log'[i] # BadUtf8
      <4>1. e # BadUtf8
        BY <2>2, LineKinds
      <4>2. \A i \in 1..Len(log) : log[i] # BadUtf8
        BY <1>1, LineKinds DEF CleanLog
      <4>3. QED
        BY <2>3, <4>1, <4>2
    <3>2. Len(log') \in Nat
      BY <1>1, <2>3
    <3>3. QED
      BY <2>1, <3>1, <3>2 DEF Seen, Readable
  <2>6. CASE e \in CreatedEvents
    <3>1. /\ \A t \in TicketIds \ {e.id} : inner'.tickets[t] = inner.tickets[t]
          /\ inner'.tickets[e.id] # None
          /\ inner'.tickets[e.id].fp = e.fp
          /\ \A f \in Fingerprints :
               inner'.pending[f] = IF f = e.fp THEN e.id ELSE inner.pending[f]
          /\ inner'.capacity = inner.capacity
          /\ ~HasPending(inner, e.fp)
          /\ e.id \notin issued
      BY <2>1, <2>6 DEF FiledTicket
    <3>2. Unevicted'
      <4>1. Cardinality(TicketIds) <= inner'.capacity
        BY <1>1, <2>1, <3>1 DEF Unevicted
      <4>2. ASSUME NEW i \in 1..Len(log'), log'[i].type = "created"
            PROVE  /\ inner'.tickets[log'[i].id] # None
                   /\ inner'.tickets[log'[i].id].fp = log'[i].fp
        <5>1. CASE i = Len(log) + 1
          BY <2>3, <3>1, <5>1
        <5>2. CASE i \in 1..Len(log)
          <6>1. IsCreated(i) /\ log'[i] = log[i] /\ log[i].id \in TicketIds
                /\ log[i].id \in issued
            BY <1>1, <1>2, <2>3, <4>2, <5>2 DEF IInv, LogSound
          <6>2. inner.tickets[log[i].id] # None /\ inner.tickets[log[i].id].fp = log[i].fp
            BY <1>1, <2>4, <5>2, <6>1 DEF Unevicted
          <6>3. QED
            BY <3>1, <6>1, <6>2
        <5>3. QED
          BY <2>3, <5>1, <5>2
      <4>3. QED
        BY <4>1, <4>2 DEF Unevicted
    <3>3. ASSUME NEW t \in TicketIds, inner.tickets[t] # None, inner.tickets[t].fp = e.fp
          PROVE  \E i \in 1..Len(log) : IsResolved(i) /\ log[i].id = t
      <4>1. inner.pending[e.fp] # t
        BY <1>1, <2>2, <2>6, <3>1, <3>3, ReviewStoreAssumption DEF HasPending
      <4>2. QED
        BY <1>1, <3>3, <4>1 DEF Waiting
    <3>4. Refiled'
      <4> SUFFICES ASSUME NEW i \in 1..Len(log'), NEW j \in 1..Len(log'),
                          log'[i].type = "created", log'[j].type = "created",
                          log'[i].fp = log'[j].fp, i < j
                   PROVE  \E k \in 1..(j - 1) :
                            log'[k].type = "resolved" /\ log'[k].id = log'[i].id
        BY DEF Refiled
      <4>1. i \in 1..Len(log) /\ log'[i] = log[i]
        BY <1>1, <2>3
      <4>2. CASE j \in 1..Len(log)
        <5>1. PICK k \in 1..(j - 1) : IsResolved(k) /\ log[k].id = log[i].id
          BY <1>1, <2>3, <4>1, <4>2 DEF Refiled
        <5>2. k \in 1..Len(log)
          BY <1>1, <4>2
        <5>3. QED
          BY <2>3, <4>1, <5>1, <5>2
      <4>3. CASE j = Len(log) + 1
        <5>1. log[i].id \in TicketIds /\ IsCreated(i) /\ log[i].fp = e.fp
          BY <1>2, <2>3, <4>1, <4>3
        <5>2. inner.tickets[log[i].id] # None /\ inner.tickets[log[i].id].fp = e.fp
          BY <1>1, <2>4, <4>1, <5>1 DEF Unevicted
        <5>3. PICK k \in 1..Len(log) : IsResolved(k) /\ log[k].id = log[i].id
          BY <3>3, <5>1, <5>2
        <5>4. k \in 1..(j - 1) /\ log'[k] = log[k]
          BY <1>1, <2>3, <4>3
        <5>5. QED
          BY <4>1, <5>3, <5>4
      <4>4. QED
        BY <2>3, <4>2, <4>3
    <3>5. Waiting'
      <4> SUFFICES ASSUME NEW t \in TicketIds, inner'.tickets[t] # None
                   PROVE  \/ inner'.pending[inner'.tickets[t].fp] = t
                          \/ \E i \in 1..Len(log') :
                               Seen(i)' /\ log'[i].type = "resolved" /\ log'[i].id = t
        BY DEF Waiting
      <4>1. CASE t = e.id
        BY <2>2, <2>6, <3>1, <4>1
      <4>2. CASE t # e.id
        <5>1. inner'.tickets[t] = inner.tickets[t] /\ inner.tickets[t].fp \in Fingerprints
          BY <1>3, <3>1, <4>2
        <5>2. CASE \E i \in 1..Len(log) : IsResolved(i) /\ log[i].id = t
          BY <2>3, <2>5, <5>2
        <5>3. CASE ~\E i \in 1..Len(log) : IsResolved(i) /\ log[i].id = t
          <6>1. inner.tickets[t].fp # e.fp
            BY <3>3, <5>1, <5>3
          <6>2. inner.pending[inner.tickets[t].fp] = t
            BY <1>1, <5>1, <5>3 DEF Waiting
          <6>3. QED
            BY <3>1, <5>1, <6>1, <6>2
        <5>4. QED
          BY <5>2, <5>3
      <4>3. QED
        BY <4>1, <4>2
    <3>6. QED
      BY <3>2, <3>4, <3>5
  <2>7. CASE e \in ResolvedEvents
    <3>1. /\ \A t \in TicketIds \ {e.id} : inner'.tickets[t] = inner.tickets[t]
          /\ inner.tickets[e.id] \in ReviewTicket
          /\ inner'.tickets[e.id] # None
          /\ inner'.tickets[e.id].fp = inner.tickets[e.id].fp
          /\ \A f \in Fingerprints :
               inner'.pending[f] = IF f = inner.tickets[e.id].fp THEN None ELSE inner.pending[f]
          /\ inner'.capacity = inner.capacity
          /\ inner.tickets[e.id].status = "pending"
      BY <2>1, <2>7 DEF Decided
    <3>2. inner.tickets[e.id] # None /\ e.type = "resolved" /\ e.type # "created"
      BY <2>2, <2>7, <3>1, ReviewStoreAssumption
    <3>3. \A i \in 1..Len(log') : log'[i].type = "created" => i \in 1..Len(log) /\ IsCreated(i)
      BY <2>3, <3>2
    <3>4. Unevicted'
      <4>1. Cardinality(TicketIds) <= inner'.capacity
        BY <1>1, <2>1, <3>1 DEF Unevicted
      <4>2. ASSUME NEW i \in 1..Len(log'), log'[i].type = "created"
            PROVE  /\ inner'.tickets[log'[i].id] # None
                   /\ inner'.tickets[log'[i].id].fp = log'[i].fp
        <5>1. i \in 1..Len(log) /\ IsCreated(i) /\ log'[i] = log[i] /\ log[i].id \in TicketIds
          BY <1>2, <2>3, <3>3, <4>2
        <5>2. inner.tickets[log[i].id] # None /\ inner.tickets[log[i].id].fp = log[i].fp
          BY <1>1, <2>4, <5>1 DEF Unevicted
        <5>3. QED
          BY <3>1, <5>1, <5>2
      <4>3. QED
        BY <4>1, <4>2 DEF Unevicted
    <3>5. Refiled'
      <4> SUFFICES ASSUME NEW i \in 1..Len(log'), NEW j \in 1..Len(log'),
                          log'[i].type = "created", log'[j].type = "created",
                          log'[i].fp = log'[j].fp, i < j
                   PROVE  \E k \in 1..(j - 1) :
                            log'[k].type = "resolved" /\ log'[k].id = log'[i].id
        BY DEF Refiled
      <4>1. /\ i \in 1..Len(log) /\ log'[i] = log[i]
            /\ j \in 1..Len(log) /\ log'[j] = log[j]
        BY <2>3, <3>3
      <4>2. PICK k \in 1..(j - 1) : IsResolved(k) /\ log[k].id = log[i].id
        BY <1>1, <4>1 DEF Refiled
      <4>3. k \in 1..Len(log)
        BY <1>1, <4>1
      <4>4. QED
        BY <2>3, <4>1, <4>2, <4>3
    <3>6. Waiting'
      <4> SUFFICES ASSUME NEW t \in TicketIds, inner'.tickets[t] # None
                   PROVE  \/ inner'.pending[inner'.tickets[t].fp] = t
                          \/ \E i \in 1..Len(log') :
                               Seen(i)' /\ log'[i].type = "resolved" /\ log'[i].id = t
        BY DEF Waiting
      <4>1. CASE t = e.id
        BY <2>3, <2>5, <3>2, <4>1
      <4>2. CASE t # e.id
        <5>1. inner'.tickets[t] = inner.tickets[t] /\ inner.tickets[t].fp \in Fingerprints
          BY <1>3, <3>1, <4>2
        <5>2. CASE \E i \in 1..Len(log) : IsResolved(i) /\ log[i].id = t
          BY <2>3, <2>5, <5>2
        <5>3. CASE ~\E i \in 1..Len(log) : IsResolved(i) /\ log[i].id = t
          <6>1. inner.pending[inner.tickets[t].fp] = t
            BY <1>1, <5>1, <5>3 DEF Waiting
          <6>2. ~\E i \in 1..Len(log) : IsResolved(i) /\ log[i].id = e.id
            BY <1>1, <2>4, <3>1, <3>2 DEF IInv, MemorySound
          <6>3. inner.pending[inner.tickets[e.id].fp] = e.id
            BY <1>1, <2>2, <3>2, <6>2 DEF Waiting
          <6>4. inner.tickets[t].fp # inner.tickets[e.id].fp
            BY <4>2, <6>1, <6>3
          <6>5. QED
            BY <3>1, <5>1, <6>1, <6>4
        <5>4. QED
          BY <5>2, <5>3
      <4>3. QED
        BY <4>1, <4>2
    <3>7. QED
      BY <3>4, <3>5, <3>6
  <2>8. QED
    BY <2>6, <2>7 DEF Events
<1>9. CASE load_line
  <2> DEFINE n == cursor + 1
             l == log[n]
  <2>1. /\ mode = "loading" /\ mode' = "loading"
        /\ cursor \in Nat
        /\ n \in 1..Len(log) /\ cursor' = n
        /\ UNCHANGED <<log, openLine, acked, issued>>
        /\ inner \in ReviewStoreInner
        /\ \/ l \in CreatedEvents /\ IsCreated(n) /\ ~IsResolved(n) /\ l.id \in TicketIds
              /\ inner.tickets[l.id] = None /\ inner' = WithTicket(inner, l)
           \/ l \in ResolvedEvents /\ IsResolved(n) /\ ~IsCreated(n) /\ l.id \in TicketIds
              /\ inner.tickets[l.id] # None
              /\ inner' = WithOverride(WithStatus(inner, l), l)
           \/ l \in ResolvedEvents /\ IsResolved(n) /\ ~IsCreated(n) /\ l.id \in TicketIds
              /\ inner.tickets[l.id] = None /\ inner' = inner
    BY <1>1, <1>9, ReplayOne
  <2>2. Refiled'
    BY <1>1, <2>1 DEF Refiled
  <2>3. /\ \A i \in 1..Len(log) : Seen(i)' <=> i <= n
        /\ \A i \in 1..Len(log) : Seen(i) <=> i <= cursor
    <3>1. \A i \in 1..Len(log) : Readable(i)
      BY <1>1, CleanReadable
    <3>2. \A i \in 1..Len(log) : Readable(i)'
      BY <2>1, <3>1 DEF Readable
    <3>3. QED
      BY <2>1, <3>1, <3>2 DEF Seen
  <2>4. \A i \in 1..Len(log) : i <= n => i <= cursor \/ i = n
    BY <2>1
  <2>5. /\ Cardinality(TicketIds) <= inner.capacity
        /\ \A i \in 1..Len(log) : i <= cursor /\ IsCreated(i) =>
             /\ inner.tickets[log[i].id] # None
             /\ inner.tickets[log[i].id].fp = log[i].fp
    BY <1>1, <2>1, <2>3 DEF Unevicted
  <2>6. ASSUME NEW t \in TicketIds, inner.tickets[t] # None
        PROVE  \/ inner.pending[inner.tickets[t].fp] = t
               \/ \E i \in 1..Len(log) : i <= cursor /\ IsResolved(i) /\ log[i].id = t
    BY <1>1, <2>3, <2>6 DEF Waiting
  <2>7. CASE IsCreated(n)
    <3>1. /\ l \in CreatedEvents /\ l.id \in TicketIds /\ l.fp \in Fingerprints
          /\ inner.tickets[l.id] = None /\ inner' = WithTicket(inner, l)
          /\ ~IsResolved(n)
      BY <1>2, <2>1, <2>7
    <3> HIDE DEF l
    <3>2. /\ inner'.capacity = inner.capacity
          /\ \A f \in Fingerprints :
               inner'.pending[f] = IF f = l.fp THEN l.id ELSE inner.pending[f]
          /\ \A t \in TicketIds \ {l.id} : inner'.tickets[t] = inner.tickets[t]
          /\ inner'.tickets[l.id] \in ReviewTicket
          /\ inner'.tickets[l.id].fp = l.fp
      BY <2>1, <3>1, WithTicketFields
    <3>3. inner'.tickets[l.id] # None
      BY <3>2, ReviewStoreAssumption
    <3>4. ASSUME NEW i \in 1..Len(log), i <= n, IsCreated(i)
          PROVE  inner'.tickets[log[i].id] # None /\ inner'.tickets[log[i].id].fp = log[i].fp
      <4>1. CASE i = n
        BY <3>2, <3>3, <4>1 DEF l
      <4>2. CASE i <= cursor
        <5>1. inner.tickets[log[i].id] # None /\ inner.tickets[log[i].id].fp = log[i].fp
          BY <2>5, <3>4, <4>2
        <5>2. log[i].id \in TicketIds \ {l.id}
          BY <1>2, <3>1, <3>4, <5>1
        <5>3. QED
          BY <3>2, <5>1, <5>2
      <4>3. QED
        BY <2>4, <3>4, <4>1, <4>2
    <3>5. Unevicted'
      BY <2>1, <2>3, <2>5, <3>2, <3>4 DEF Unevicted
    <3>6. ASSUME NEW t \in TicketIds, inner'.tickets[t] # None
          PROVE  \/ inner'.pending[inner'.tickets[t].fp] = t
                 \/ \E i \in 1..Len(log) : i <= n /\ IsResolved(i) /\ log[i].id = t
      <4>1. CASE t = l.id
        BY <3>1, <3>2, <4>1
      <4>2. CASE t # l.id
        <5>1. /\ inner'.tickets[t] = inner.tickets[t] /\ inner.tickets[t] # None
              /\ inner.tickets[t].fp \in Fingerprints
          BY <1>3, <3>2, <3>6, <4>2
        <5>2. CASE \E i \in 1..Len(log) : i <= cursor /\ IsResolved(i) /\ log[i].id = t
          BY <2>1, <5>2
        <5>3. CASE inner.pending[inner.tickets[t].fp] = t /\ inner.tickets[t].fp # l.fp
          BY <3>2, <5>1, <5>3
        <5>4. CASE inner.tickets[t].fp = l.fp
          <6>1. PICK i \in 1..cursor : IsCreated(i) /\ log[i].id = t
            BY <1>1, <2>1, <5>1 DEF IInv, MemorySound
          <6>2. i \in 1..Len(log) /\ i <= cursor /\ i < n
            BY <1>1, <2>1
          <6>3. log[i].fp = l.fp
            BY <2>5, <5>4, <6>1, <6>2
          <6>4. PICK k \in 1..(n - 1) : IsResolved(k) /\ log[k].id = log[i].id
            BY <1>1, <2>1, <2>7, <6>1, <6>2, <6>3 DEF Refiled, l
          <6>5. k \in 1..Len(log) /\ k <= n
            BY <1>1, <2>1
          <6>6. QED
            BY <6>1, <6>4, <6>5
        <5>5. QED
          BY <2>6, <5>1, <5>2, <5>3, <5>4
      <4>3. QED
        BY <4>1, <4>2
    <3>7. Waiting'
      BY <2>1, <2>3, <3>6 DEF Waiting
    <3>8. QED
      BY <2>2, <3>5, <3>7
  <2>8. CASE IsResolved(n) /\ inner.tickets[l.id] # None
    <3>1. /\ l \in ResolvedEvents /\ l.id \in TicketIds
          /\ inner' = WithOverride(WithStatus(inner, l), l)
          /\ ~IsCreated(n)
      BY <1>2, <2>1, <2>8
    <3>2. Decided(l)
      <4> HIDE DEF l
      <4> QED BY <2>1, <2>8, <3>1, DecidedIs
    <3>3. /\ \A t \in TicketIds \ {l.id} : inner'.tickets[t] = inner.tickets[t]
          /\ inner'.tickets[l.id] # None
          /\ inner'.tickets[l.id].fp = inner.tickets[l.id].fp
          /\ \A f \in Fingerprints :
               inner'.pending[f] = IF f = inner.tickets[l.id].fp THEN None ELSE inner.pending[f]
          /\ inner'.capacity = inner.capacity
      BY <3>2 DEF Decided
    <3>4. ASSUME NEW i \in 1..Len(log), i <= n, IsCreated(i)
          PROVE  inner'.tickets[log[i].id] # None /\ inner'.tickets[log[i].id].fp = log[i].fp
      <4>1. i <= cursor /\ log[i].id \in TicketIds
        BY <1>2, <2>4, <3>1, <3>4
      <4>2. inner.tickets[log[i].id] # None /\ inner.tickets[log[i].id].fp = log[i].fp
        BY <2>5, <3>4, <4>1
      <4> HIDE DEF l
      <4>3. QED
        BY <3>3, <4>1, <4>2
    <3>5. Unevicted'
      BY <2>1, <2>3, <2>5, <3>3, <3>4 DEF Unevicted
    <3>6. ASSUME NEW t \in TicketIds, inner'.tickets[t] # None
          PROVE  \/ inner'.pending[inner'.tickets[t].fp] = t
                 \/ \E i \in 1..Len(log) : i <= n /\ IsResolved(i) /\ log[i].id = t
      <4>1. CASE t = l.id
        BY <2>1, <2>8, <4>1
      <4>2. CASE t # l.id
        <5>1. /\ inner'.tickets[t] = inner.tickets[t] /\ inner.tickets[t] # None
              /\ inner.tickets[t].fp \in Fingerprints
          BY <1>3, <3>3, <3>6, <4>2
        <5>2. CASE \E i \in 1..Len(log) : i <= cursor /\ IsResolved(i) /\ log[i].id = t
          BY <2>1, <5>2
        <5>3. CASE inner.pending[inner.tickets[t].fp] = t
          <6>1. \A i \in 1..Len(log) : i <= cursor /\ IsResolved(i) => log[i].id # l.id
            <7>1. \A i \in 1..Len(log) : Readable(i)
              BY <1>1, CleanReadable
            <7>2. \A i \in 1..Len(log) : i <= cursor => i # n
              BY <2>1
            <7>3. QED
              BY <1>1, <2>1, <2>8, <7>1, <7>2 DEF IInv, VerdictFinal
          <6>2. inner.pending[inner.tickets[l.id].fp] = l.id
            BY <2>6, <2>8, <3>1, <6>1
          <6>3. inner.tickets[t].fp # inner.tickets[l.id].fp
            BY <4>2, <5>3, <6>2
          <6>4. QED
            BY <3>3, <5>1, <5>3, <6>3
        <5>4. QED
          BY <2>6, <5>1, <5>2, <5>3
      <4>3. QED
        BY <4>1, <4>2
    <3>7. Waiting'
      BY <2>1, <2>3, <3>6 DEF Waiting
    <3>8. QED
      BY <2>2, <3>5, <3>7
  <2>9. CASE IsResolved(n) /\ inner.tickets[l.id] = None
    <3>1. inner' = inner /\ ~IsCreated(n)
      BY <1>2, <2>1, <2>9
    <3>2. Unevicted'
      BY <2>1, <2>3, <2>4, <2>5, <3>1 DEF Unevicted
    <3>3. \A i \in 1..Len(log) : i <= cursor => i <= n
      BY <2>1
    <3>4. Waiting'
      BY <2>1, <2>3, <2>6, <3>1, <3>3 DEF Waiting
    <3>5. QED
      BY <2>2, <3>2, <3>4
  <2>10. QED
    BY <2>1, <2>7, <2>8, <2>9
<1>10. QED
  BY <1>5, <1>6, <1>7, <1>8, <1>9, RoomyKinds

\* The invariant of a store that never evicts.
LEMMA RoomyInvariance ==
    ASSUME WholeAppends, RoomForAll
    PROVE  Spec => []RoomyInv
<1>1. Init /\ DurableInv /\ QueueExact => RoomyInv
  <2> SUFFICES ASSUME Init, DurableInv, QueueExact PROVE RoomyInv
    OBVIOUS
  <2>1. Unevicted /\ Refiled /\ Waiting
    BY DEF Init, Unevicted, Refiled, Waiting, EmptyInner
  <2>2. QED
    BY <2>1 DEF RoomyInv
<1>2. RoomyInv /\ DurableInv' /\ QueueExact' /\ [Next]_vars => RoomyInv'
  BY RoomyStep
<1>3. QED
  BY <1>1, <1>2, DurableInvariance, QueueStaysExact, PTL DEF Spec

\* Where appends are whole and the queue has room for every ticket, a request
\* waits under one ticket only: the pending index leads upsert_pending to every
\* undecided ticket, after any number of failed appends and restarts.
THEOREM OneTicket ==
    ASSUME WholeAppends, RoomForAll
    PROVE  Spec => []OneTicketPerRequest
<1>1. ASSUME RoomyInv PROVE OneTicketPerRequest
  <2> SUFFICES ASSUME mode = "up", NEW t \in TicketIds,
                      inner.tickets[t] # None, inner.tickets[t].status = "pending"
               PROVE  inner.pending[inner.tickets[t].fp] = t
    BY DEF OneTicketPerRequest
  <2>1. Waiting /\ MemorySound
    BY <1>1 DEF RoomyInv, DurableInv, IInv
  <2>2. \A i \in 1..Len(log) : Seen(i) /\ IsResolved(i) => log[i].id # t
    BY <2>1 DEF MemorySound
  <2>3. QED
    BY <2>1, <2>2 DEF Waiting
<1>2. QED
  BY <1>1, RoomyInvariance, PTL

--------------------------------------------------------------------------------
(* What a restart restores                                                  *)

\* Line i of the log is a verdict on a ticket of s.
VerdictIn(s, i) == IsResolved(i) /\ s.tickets[log[i].id] # None

\* Of the first n lines, i is the last verdict on its request.
LastVerdict(s, i, n) ==
    /\ VerdictIn(s, i)
    /\ \A j \in (i + 1)..n :
         VerdictIn(s, j) => s.tickets[log[j].id].fp # s.tickets[log[i].id].fp

\* The override of the request is that of verdict i.
LeftBy(s, i) ==
    LET o == s.overrides[s.tickets[log[i].id].fp]
    IN  o # None /\ o.ticket = log[i].id /\ o.expires = log[i].expires

\* A replay has restored the override of every last verdict it has read.
Restored ==
    mode = "loading" => \A i \in 1..cursor : LastVerdict(inner, i, cursor) => LeftBy(inner, i)

\* Replaying one line keeps it so.
LEMMA RestoredLine ==
    ASSUME IInv, CleanLog, Restored, load_line
    PROVE  Restored'
<1> DEFINE n == cursor + 1
           l == log[n]
<1>1. /\ mode = "loading" /\ mode' = "loading"
      /\ cursor \in Nat /\ Len(log) \in Nat
      /\ n \in 1..Len(log) /\ cursor' = n
      /\ log' = log
      /\ inner \in ReviewStoreInner
      /\ \/ /\ l \in CreatedEvents
            /\ IsCreated(n) /\ ~IsResolved(n)
            /\ l.id \in TicketIds
            /\ inner.tickets[l.id] = None
            /\ inner' = WithTicket(inner, l)
         \/ /\ l \in ResolvedEvents
            /\ IsResolved(n) /\ ~IsCreated(n)
            /\ l.id \in TicketIds
            /\ inner.tickets[l.id] # None
            /\ inner' = WithOverride(WithStatus(inner, l), l)
         \/ /\ l \in ResolvedEvents
            /\ IsResolved(n) /\ ~IsCreated(n)
            /\ l.id \in TicketIds
            /\ inner.tickets[l.id] = None
            /\ inner' = inner
  BY ReplayOne
<1>2. \A i \in 1..cursor : i \in 1..Len(log) /\ i \in 1..n /\ i < n /\ n \in (i + 1)..n
  BY <1>1
<1>3. \A i \in 1..n : i \in 1..cursor \/ i = n
  BY <1>1
<1>4. \A i \in 1..cursor : IsResolved(i) => log[i].id \in TicketIds
  <2>1. \A i \in 1..Len(log) : log[i] \in Lines
    BY DEF IInv, TypeOK
  <2>2. \A i \in 1..Len(log) : IsResolved(i) => log[i] \in ResolvedEvents
    BY <2>1, LineKinds DEF IsResolved
  <2> QED BY <1>2, <2>2 DEF ResolvedEvents
<1>5. \A i \in 1..cursor : LastVerdict(inner, i, cursor) => LeftBy(inner, i)
  BY <1>1 DEF Restored
<1>6. SUFFICES ASSUME NEW i \in 1..n, LastVerdict(inner', i, n)
               PROVE  LeftBy(inner', i)
  <2>1. ASSUME \A i \in 1..n : LastVerdict(inner', i, n) => LeftBy(inner', i)
        PROVE  Restored'
    BY <1>1, <2>1 DEF Restored, LastVerdict, LeftBy, VerdictIn, IsResolved
  <2> QED BY <2>1
<1> HIDE DEF n, l
<1>7. CASE i # n
  <2>0. i \in 1..cursor
    BY <1>3, <1>6, <1>7
  <2>1. ASSUME \A k \in 1..cursor : IsResolved(k) =>
                 /\ inner'.tickets[log[k].id] = None <=> inner.tickets[log[k].id] = None
                 /\ inner.tickets[log[k].id] # None =>
                      inner'.tickets[log[k].id].fp = inner.tickets[log[k].id].fp
        PROVE  /\ LastVerdict(inner, i, cursor)
               /\ inner'.tickets[log[i].id].fp = inner.tickets[log[i].id].fp
    <3>1. VerdictIn(inner, i)
      BY <1>6, <2>0, <2>1 DEF LastVerdict, VerdictIn
    <3>2. inner'.tickets[log[i].id].fp = inner.tickets[log[i].id].fp
      BY <2>0, <2>1, <3>1 DEF VerdictIn
    <3>3. ASSUME NEW j \in (i + 1)..cursor, VerdictIn(inner, j)
          PROVE  inner.tickets[log[j].id].fp # inner.tickets[log[i].id].fp
      <4>1. j \in 1..cursor /\ j \in (i + 1)..n
        BY <1>1, <2>0 DEF n
      <4>2. VerdictIn(inner', j) /\ inner'.tickets[log[j].id].fp = inner.tickets[log[j].id].fp
        BY <2>1, <3>3, <4>1 DEF VerdictIn
      <4>3. inner'.tickets[log[j].id].fp # inner'.tickets[log[i].id].fp
        BY <1>6, <4>1, <4>2 DEF LastVerdict
      <4> QED BY <3>2, <4>2, <4>3
    <3> QED BY <3>1, <3>2, <3>3 DEF LastVerdict
  <2>2. CASE IsCreated(n) /\ ~IsResolved(n)
    <3>1. l \in CreatedEvents /\ l.id \in TicketIds /\ inner' = WithTicket(inner, l)
      BY <1>1, <2>2
    <3>2. /\ inner'.overrides = inner.overrides
          /\ \A t \in TicketIds \ {l.id} : inner'.tickets[t] = inner.tickets[t]
      BY <1>1, <3>1, WithTicketFields
    <3>3. \A k \in 1..cursor : IsResolved(k) => log[k].id # l.id
      BY <1>1, <1>2, <2>2 DEF IInv, LogSound, l
    <3>4. \A k \in 1..cursor : IsResolved(k) => inner'.tickets[log[k].id] = inner.tickets[log[k].id]
      BY <1>4, <3>2, <3>3
    <3>5. LastVerdict(inner, i, cursor) /\ inner'.tickets[log[i].id].fp = inner.tickets[log[i].id].fp
      BY <2>1, <3>4
    <3> QED BY <1>5, <2>0, <3>2, <3>5 DEF LeftBy
  <2>3. CASE IsResolved(n) /\ inner.tickets[l.id] # None
    <3> DEFINE m == WithStatus(inner, l)
    <3>1. l \in ResolvedEvents /\ l.id \in TicketIds /\ inner' = WithOverride(m, l)
      BY <1>1, <2>3
    <3>2. /\ m \in ReviewStoreInner /\ m.overrides = inner.overrides
          /\ \A t \in TicketIds \ {l.id} : m.tickets[t] = inner.tickets[t]
          /\ m.tickets[l.id] \in ReviewTicket
          /\ m.tickets[l.id].fp = inner.tickets[l.id].fp
      BY <1>1, <2>3, <3>1, WithStatusFields
    <3> HIDE DEF m
    <3>3. /\ inner'.tickets = m.tickets
          /\ \A f \in Fingerprints : f # m.tickets[l.id].fp => inner'.overrides[f] = m.overrides[f]
      BY <3>1, <3>2, WithOverrideFields
    <3>4. m.tickets[l.id] # None
      BY <3>2, ReviewStoreAssumption
    <3>5. \A k \in 1..cursor : IsResolved(k) =>
            /\ inner'.tickets[log[k].id] = None <=> inner.tickets[log[k].id] = None
            /\ inner.tickets[log[k].id] # None =>
                 inner'.tickets[log[k].id].fp = inner.tickets[log[k].id].fp
      <4> TAKE k \in 1..cursor
      <4> HAVE IsResolved(k)
      <4>1. CASE log[k].id = l.id
        BY <2>3, <3>2, <3>3, <3>4, <4>1
      <4>2. CASE log[k].id # l.id
        <5>1. inner'.tickets[log[k].id] = inner.tickets[log[k].id]
          BY <1>4, <3>2, <3>3, <4>2
        <5> QED BY <5>1
      <4> QED BY <4>1, <4>2
    <3>6. LastVerdict(inner, i, cursor) /\ inner'.tickets[log[i].id].fp = inner.tickets[log[i].id].fp
      BY <2>1, <3>5
    <3>7. LeftBy(inner, i)
      BY <1>5, <2>0, <3>6
    <3>8. VerdictIn(inner', n)
      BY <2>3, <3>3, <3>4 DEF VerdictIn, l
    <3>9. inner'.tickets[l.id].fp # inner'.tickets[log[i].id].fp
      BY <1>2, <1>6, <2>0, <3>8 DEF LastVerdict, l
    <3>10. inner.tickets[log[i].id].fp \in Fingerprints
      <4>1. inner.tickets[log[i].id] \in ReviewTicket
        BY <1>1, <1>4, <2>0, <3>6, InnerRecord DEF LastVerdict, VerdictIn
      <4> QED BY <4>1 DEF ReviewTicket
    <3>11. inner'.overrides[inner.tickets[log[i].id].fp] = inner.overrides[inner.tickets[log[i].id].fp]
      BY <3>2, <3>3, <3>6, <3>9, <3>10
    <3> QED BY <3>6, <3>7, <3>11 DEF LeftBy
  <2>4. CASE IsResolved(n) /\ inner.tickets[l.id] = None
    <3>1. inner' = inner
      BY <1>1, <2>4
    <3>2. LastVerdict(inner, i, cursor)
      BY <2>1, <3>1
    <3> QED BY <1>5, <2>0, <3>1, <3>2
  <2> QED BY <1>1, <2>2, <2>3, <2>4
<1>8. CASE i = n
  <2>1. IsResolved(n) /\ inner'.tickets[l.id] # None
    BY <1>6, <1>8 DEF LastVerdict, VerdictIn, l
  <2>2. inner.tickets[l.id] # None
    BY <1>1, <2>1
  <2> DEFINE m == WithStatus(inner, l)
  <2>3. l \in ResolvedEvents /\ l.id \in TicketIds /\ inner' = WithOverride(m, l)
    BY <1>1, <2>1, <2>2
  <2>4. m \in ReviewStoreInner /\ m.tickets[l.id] \in ReviewTicket
    BY <1>1, <2>2, <2>3, WithStatusFields
  <2> HIDE DEF m
  <2>5. m.tickets[l.id].fp \in Fingerprints
    BY <2>4 DEF ReviewTicket
  <2>6. /\ inner'.tickets = m.tickets
        /\ inner'.overrides[m.tickets[l.id].fp] =
             [ticket |-> l.id, status |-> l.status, action |-> m.tickets[l.id].post,
              expires |-> l.expires]
    BY <2>3, <2>4, <2>5, WithOverrideFields
  <2>7. inner'.overrides[m.tickets[l.id].fp] \in StoredOverride
    BY <2>3, <2>4, <2>6 DEF StoredOverride, ResolvedEvents, ReviewTicket
  <2>8. inner'.overrides[m.tickets[l.id].fp] # None
    BY <2>7, ReviewStoreAssumption
  <2> QED BY <1>8, <2>6, <2>8 DEF LeftBy, l
<1> QED BY <1>7, <1>8

\* Every other step starts a replay, ends it or leaves it alone.
LEMMA RestoredStep ==
    ASSUME IInv, CleanLog, Restored, [Next]_vars
    PROVE  Restored'
<1>1. CASE load_line
  BY <1>1, RestoredLine
<1>2. CASE UNCHANGED <<mode, inner, cursor, log>>
  BY <1>2 DEF Restored, LastVerdict, LeftBy, VerdictIn, IsResolved
<1>3. CASE mode' # "loading"
  BY <1>3 DEF Restored
<1>4. CASE cursor' = 0
  BY <1>4 DEF Restored
<1>5. \/ load_line
      \/ UNCHANGED <<mode, inner, cursor, log>>
      \/ mode' # "loading"
      \/ cursor' = 0
  <2>1. ASSUME NEW e, NEW out, mode = "up", append_review_event(e, out)
        PROVE  mode' # "loading"
    BY <2>1 DEF append_review_event
  <2>2. CASE \E fp \in Fingerprints : upsert_pending_existing(fp)
    BY <2>2 DEF upsert_pending_existing
  <2>3. CASE \E id \in TicketIds, fp \in Fingerprints, p \in Principals,
               post \in PostActions, out \in WriteOutcomes : upsert_pending_new(id, fp, p, post, out)
    BY <2>1, <2>3 DEF upsert_pending_new
  <2>4. CASE \E id \in TicketIds, v \in Verdicts, ttl \in Ttls, out \in WriteOutcomes :
               resolve(id, v, ttl, out)
    BY <2>1, <2>4 DEF resolve
  <2>5. CASE query \/ \E c \in Capacities : set_capacity(c)
    BY <2>5 DEF query, set_capacity
  <2>6. CASE \E c \in Capacities : new(c)
    BY <2>6 DEF new
  <2>7. CASE loaded \/ crash
    BY <2>7 DEF loaded, crash
  <2>8. CASE tick \/ UNCHANGED vars
    BY <2>8 DEF tick, vars
  <2> QED BY <2>2, <2>3, <2>4, <2>5, <2>6, <2>7, <2>8 DEF Next
<1> QED BY <1>1, <1>2, <1>3, <1>4, <1>5

\* The end of a replay: what it restored is still there, if it has not expired.
LEMMA LoadedRestores ==
    ASSUME RoomyInv, Restored, RoomForAll, loaded
    PROVE  RestoresOverrides
<1> DEFINE s == prune_expired_overrides(inner)
<1>1. /\ mode = "loading" /\ cursor = Len(log) /\ inner \in ReviewStoreInner
      /\ log \in Seq(Lines) /\ inner' = trim_to_capacity(s)
  BY DEF loaded, RoomyInv, DurableInv, IInv, TypeOK
<1>2. /\ s \in ReviewStoreInner /\ s.capacity = inner.capacity /\ s.order = inner.order
      /\ s.tickets = inner.tickets
  BY <1>1, PruneFields
<1>3. \A f \in Fingerprints :
        s.overrides[f] = IF inner.overrides[f] # None /\ inner.overrides[f].expires > now
                         THEN inner.overrides[f] ELSE None
  BY <1>1 DEF prune_expired_overrides, ReviewStoreInner
<1> HIDE DEF s
<1>4. Len(s.order) <= s.capacity
  <2>1. Queued(inner)
    BY DEF RoomyInv, QueueExact, Queued
  <2>2. Len(inner.order) <= Cardinality(TicketIds)
    BY <1>1, <2>1, QueueFits DEF RoomForAll
  <2>3. Cardinality(TicketIds) <= inner.capacity
    BY <1>1 DEF RoomyInv, Unevicted
  <2>4. Len(inner.order) \in Nat /\ inner.capacity \in Nat /\ Cardinality(TicketIds) \in Nat
    BY <1>1, InnerRecord, FS_CardinalityType DEF RoomForAll
  <2> QED BY <1>2, <2>2, <2>3, <2>4
<1>5. /\ \A t \in TicketIds : inner'.tickets[t] = inner.tickets[t]
      /\ \A f \in Fingerprints : inner'.overrides[f] = s.overrides[f]
  BY <1>1, <1>2, <1>4, TrimFits
<1>6. \A i \in 1..Len(log) : IsResolved(i) => log[i].id \in TicketIds
  <2>1. \A i \in 1..Len(log) : IsResolved(i) => log[i] \in ResolvedEvents
    BY <1>1, LineKinds DEF IsResolved
  <2> QED BY <2>1 DEF ResolvedEvents
<1>7. \A i \in 1..Len(log) : IsResolved(i) => inner'.tickets[log[i].id] = inner.tickets[log[i].id]
  BY <1>5, <1>6
<1>8. SUFFICES ASSUME NEW i \in 1..Len(log), VerdictIn(inner', i), log[i].expires > now,
                      \A j \in (i + 1)..Len(log) : VerdictIn(inner', j) =>
                        inner'.tickets[log[j].id].fp # inner'.tickets[log[i].id].fp
               PROVE  /\ inner'.overrides[inner'.tickets[log[i].id].fp] # None
                      /\ inner'.overrides[inner'.tickets[log[i].id].fp].ticket = log[i].id
  BY DEF RestoresOverrides, VerdictIn, IsResolved
<1>9. \A j \in 1..Len(log) : VerdictIn(inner', j) <=> VerdictIn(inner, j)
  BY <1>7 DEF VerdictIn
<1>10. LastVerdict(inner, i, cursor)
  <2>1. \A j \in (i + 1)..Len(log) : j \in 1..Len(log)
    BY <1>1
  <2>2. VerdictIn(inner, i) /\ inner'.tickets[log[i].id] = inner.tickets[log[i].id]
    BY <1>7, <1>8, <1>9 DEF VerdictIn
  <2>3. ASSUME NEW j \in (i + 1)..Len(log), VerdictIn(inner, j)
        PROVE  inner.tickets[log[j].id].fp # inner.tickets[log[i].id].fp
    <3>1. VerdictIn(inner', j) /\ inner'.tickets[log[j].id] = inner.tickets[log[j].id]
      BY <1>7, <1>9, <2>1, <2>3 DEF VerdictIn
    <3> QED BY <1>8, <2>2, <3>1
  <2> QED BY <1>1, <2>2, <2>3 DEF LastVerdict
<1>11. LeftBy(inner, i)
  BY <1>1, <1>10 DEF Restored
<1>12. inner.tickets[log[i].id] \in ReviewTicket /\ inner'.tickets[log[i].id] = inner.tickets[log[i].id]
  <2>1. IsResolved(i) /\ inner.tickets[log[i].id] # None
    BY <1>10 DEF LastVerdict, VerdictIn
  <2> QED BY <1>1, <1>6, <1>7, <2>1, InnerRecord
<1>13. inner.tickets[log[i].id].fp \in Fingerprints
  BY <1>12 DEF ReviewTicket
<1>14. s.overrides[inner.tickets[log[i].id].fp] = inner.overrides[inner.tickets[log[i].id].fp]
  BY <1>3, <1>8, <1>11, <1>13 DEF LeftBy
<1> QED BY <1>5, <1>11, <1>12, <1>13, <1>14 DEF LeftBy

\* Where appends are whole and nothing is evicted, every restart, after any
\* number of crashes during earlier ones, brings back the override of the last
\* verdict on each request that has not expired (load_existing).
THEOREM RestartRestores ==
    ASSUME WholeAppends, RoomForAll
    PROVE  Spec => RestartRestoresOverride
<1>1. Init => Restored
  BY DEF Init, Restored
<1>2. RoomyInv /\ Restored /\ [Next]_vars => Restored'
  BY RestoredStep DEF RoomyInv, DurableInv
<1>3. RoomyInv /\ Restored /\ [Next]_vars =>
        [(mode = "loading" /\ mode' = "up") => RestoresOverrides]_vars
  <2> SUFFICES ASSUME RoomyInv, Restored, [Next]_vars, mode = "loading", mode' = "up"
               PROVE  RestoresOverrides
    OBVIOUS
  <2>1. loaded
    BY DEF Next, vars, upsert_pending_existing, upsert_pending_new, resolve, query, set_capacity,
           new, load_line, crash, tick
  <2> QED BY <2>1, LoadedRestores
<1>4. QED
  BY <1>1, <1>2, <1>3, RoomyInvariance, PTL DEF Spec, RestartRestoresOverride

================================================================================
