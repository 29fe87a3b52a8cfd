------------------------------ MODULE ReviewStore ------------------------------
(***************************************************************************)
(* The review queue of the gateway (src/review.rs): one mutex around the   *)
(* in-memory ReviewStoreInner, and an append-only JSONL event log that a   *)
(* restarted process replays.  Every public method holds the mutex from    *)
(* its first read to its last write, so one method call is one action.     *)
(*                                                                         *)
(* The log is a sequence of lines.  `writeln!' issues one write for the    *)
(* event and one for the newline, so a crash or an I/O error can leave the *)
(* last line without its newline, or cut in the middle of the event.  The  *)
(* next append then continues that same line.                              *)
(***************************************************************************)
EXTENDS Naturals, Sequences, FiniteSets

CONSTANTS
    TicketIds,      \* the uuids the process may draw
    Fingerprints,   \* hash of tenant, path and body: the key of both indexes
    Principals,     \* names of the callers that cause tickets
    PostActions,    \* what an approval turns the request into
    Capacities,     \* values of review.capacity an operator configures
    Ttls,           \* values of the override TTL, in ticks
    WriteOutcomes,  \* how an append to the log may end
    MaxTime,        \* bound on the clock
    MaxLines,       \* bound on the log
    None            \* absence: an empty Option, a missing map entry

\* "ok": event and newline are written.  "killed": the process dies between
\* the two writes.  The others return an error: nothing written, no newline,
\* the event cut short, or cut inside a multi-byte character.
Outcomes == {"ok", "killed", "refused", "unterminated", "cut", "cut_utf8"}

VARIABLES
    mode,       \* "down", "loading" (inside ReviewStore::new) or "up"
    inner,      \* ReviewStoreInner
    cursor,     \* lines of the log already replayed while loading
    log,        \* the lines of the JSONL file
    openLine,   \* the last line of the file has no newline
    now,        \* Utc::now()
    issued,     \* history: uuids drawn so far (a uuid is never drawn twice)
    acked,      \* history: events whose append returned Ok
    asked       \* history: verdicts an administrator asked for

vars == <<mode, inner, cursor, log, openLine, now, issued, acked, asked>>

--------------------------------------------------------------------------------
(* Data                                                                     *)

Verdicts == {"approved", "rejected"}

ReviewStatus == {"pending"} \cup Verdicts

\* expires is 0 until the ticket has a resolution.
ReviewTicket ==
    [fp: Fingerprints, principal: Principals, post: PostActions,
     status: ReviewStatus, expires: Nat]

StoredOverride ==
    [ticket: TicketIds, status: Verdicts, action: PostActions, expires: Nat]

ReviewStoreInner ==
    [capacity: Nat,
     order: Seq(TicketIds),
     tickets: [TicketIds -> ReviewTicket \cup {None}],
     pending: [Fingerprints -> TicketIds \cup {None}],
     overrides: [Fingerprints -> StoredOverride \cup {None}]]

CreatedEvents ==
    [type: {"created"}, id: TicketIds, fp: Fingerprints,
     principal: Principals, post: PostActions]

ResolvedEvents ==
    [type: {"resolved"}, id: TicketIds, status: Verdicts, expires: Nat]

\* A line that does not parse is skipped; one that is not UTF-8 ends the
\* replay, because the line iterator is consumed by map_while(Result::ok).
Garbage == [type |-> "garbage"]
BadUtf8 == [type |-> "bad_utf8"]

Lines == CreatedEvents \cup ResolvedEvents \cup {Garbage, BadUtf8}

ASSUME ReviewStoreAssumption ==
    /\ Capacities \subseteq Nat
    /\ Ttls \subseteq Nat
    /\ WriteOutcomes \subseteq Outcomes
    /\ MaxTime \in Nat
    /\ MaxLines \in Nat
    /\ None \notin TicketIds \cup ReviewTicket \cup StoredOverride

EmptyInner(capacity) ==
    [capacity  |-> capacity,
     order     |-> <<>>,
     tickets   |-> [t \in TicketIds |-> None],
     pending   |-> [f \in Fingerprints |-> None],
     overrides |-> [f \in Fingerprints |-> None]]

AtLeastOne(n) == IF n > 1 THEN n ELSE 1

--------------------------------------------------------------------------------
(* Helpers of the store, on a value s of ReviewStoreInner                   *)

prune_expired_overrides(s) ==
    [s EXCEPT !.overrides =
        [f \in Fingerprints |->
            IF s.overrides[f] # None /\ s.overrides[f].expires > now
            THEN s.overrides[f] ELSE None]]

\* Mutant: evicted tickets leave their index entries behind.
trim_keeping_indexes(s) ==
    LET excess == IF Len(s.order) > s.capacity THEN Len(s.order) - s.capacity ELSE 0
    IN  [s EXCEPT
           !.order   = SubSeq(s.order, excess + 1, Len(s.order)),
           !.tickets = [t \in TicketIds |->
                          IF t \in {s.order[i] : i \in 1..excess} THEN None ELSE s.tickets[t]]]

\* Mutant: nothing is evicted.
trim_nothing(s) == s

\* The while loop pops the oldest ids until the queue fits.  Both index
\* entries of an evicted ticket's fingerprint go, whichever ticket they name.
trim_to_capacity(s) ==
    LET excess  == IF Len(s.order) > s.capacity
                   THEN Len(s.order) - s.capacity ELSE 0
        evicted == {s.order[i] : i \in 1..excess}
        dropped == {f \in Fingerprints :
                      \E t \in evicted : s.tickets[t] # None /\ s.tickets[t].fp = f}
    IN  [s EXCEPT
           !.order     = SubSeq(s.order, excess + 1, Len(s.order)),
           !.tickets   = [t \in TicketIds |->
                            IF t \in evicted THEN None ELSE s.tickets[t]],
           !.pending   = [f \in Fingerprints |->
                            IF f \in dropped THEN None ELSE s.pending[f]],
           !.overrides = [f \in Fingerprints |->
                            IF f \in dropped THEN None ELSE s.overrides[f]]]

\* Mutant: the pending index gets the fingerprint where the id belongs.
WithTicketSwapped(s, e) ==
    [s EXCEPT
       !.order   = Append(s.order, e.id),
       !.pending = [s.pending EXCEPT ![e.fp] = e.fp],
       !.tickets = [s.tickets EXCEPT ![e.id] =
                      [fp |-> e.fp, principal |-> e.principal, post |-> e.post,
                       status |-> "pending", expires |-> 0]]]

\* A new pending ticket in memory: tail of the queue, pending index, map.
WithTicket(s, e) ==
    [s EXCEPT
       !.order   = Append(s.order, e.id),
       !.pending = [s.pending EXCEPT ![e.fp] = e.id],
       !.tickets = [s.tickets EXCEPT ![e.id] =
                      [fp |-> e.fp, principal |-> e.principal, post |-> e.post,
                       status |-> "pending", expires |-> 0]]]

\* The verdict on the ticket itself, before it is persisted.
WithStatus(s, e) ==
    [s EXCEPT !.tickets =
        [s.tickets EXCEPT ![e.id] =
            [s.tickets[e.id] EXCEPT !.status = e.status, !.expires = e.expires]]]

\* Mutant: every verdict leaves an approval behind.
WithOverrideApproved(s, e) ==
    LET ticket == s.tickets[e.id]
    IN  [s EXCEPT
           !.pending   = [s.pending EXCEPT ![ticket.fp] = None],
           !.overrides = [s.overrides EXCEPT ![ticket.fp] =
                            [ticket |-> e.id, status |-> "approved",
                             action |-> ticket.post, expires |-> e.expires]]]

\* Mutant: the fingerprint keeps waiting under the decided ticket.
WithOverrideStillPending(s, e) ==
    LET ticket == s.tickets[e.id]
    IN  [s EXCEPT !.overrides = [s.overrides EXCEPT ![ticket.fp] =
                    [ticket |-> e.id, status |-> e.status,
                     action |-> ticket.post, expires |-> e.expires]]]

\* The verdict in the indexes: the fingerprint is no longer pending and has
\* an override until the verdict expires.
WithOverride(s, e) ==
    LET ticket == s.tickets[e.id]
    IN  [s EXCEPT
           !.pending   = [s.pending EXCEPT ![ticket.fp] = None],
           !.overrides = [s.overrides EXCEPT ![ticket.fp] =
                            [ticket |-> e.id, status |-> e.status,
                             action |-> ticket.post, expires |-> e.expires]]]

\* Mutant: replay forgets the pending index.
apply_without_index(s, line) ==
    IF line.type = "created"
    THEN [WithTicket(s, line) EXCEPT !.pending = s.pending]
    ELSE IF line.type = "resolved" /\ s.tickets[line.id] # None
         THEN WithOverride(WithStatus(s, line), line)
         ELSE s

\* Mutant: replay restores the override but not the ticket's verdict.
apply_without_status(s, line) ==
    IF line.type = "created" THEN WithTicket(s, line)
    ELSE IF line.type = "resolved" /\ s.tickets[line.id] # None
         THEN WithOverride(s, line)
         ELSE s

\* Mutant: replay restores the ticket's verdict but not the override.
apply_without_override(s, line) ==
    IF line.type = "created" THEN WithTicket(s, line)
    ELSE IF line.type = "resolved" /\ s.tickets[line.id] # None
         THEN [WithStatus(s, line) EXCEPT !.pending[s.tickets[line.id].fp] = None]
         ELSE s

apply_review_event(s, line) ==
    IF line.type = "created" THEN WithTicket(s, line)
    ELSE IF line.type = "resolved" /\ s.tickets[line.id] # None
         THEN WithOverride(WithStatus(s, line), line)
         ELSE s

--------------------------------------------------------------------------------
(* The event log                                                            *)

\* Mutant: the file is opened with truncation instead of append.
WriteLineTruncating(t) == log' = <<t>>

\* What the text t becomes when it is written at the end of the file: a line
\* of its own, or the rest of an unfinished line, which then parses no more.
WriteLine(t) ==
    log' = IF openLine
           THEN [log EXCEPT ![Len(log)] =
                    IF BadUtf8 \in {log[Len(log)], t} THEN BadUtf8 ELSE Garbage]
           ELSE Append(log, t)

append_review_event(e, out) ==
    /\ openLine \/ Len(log) < MaxLines
    /\ \/ /\ out = "ok"
          /\ WriteLine(e)
          /\ openLine' = FALSE
       \/ /\ out = "refused"
          /\ UNCHANGED <<log, openLine>>
       \/ /\ out \in {"unterminated", "killed"}
          /\ WriteLine(e)
          /\ openLine' = TRUE
       \/ /\ out = "cut"
          /\ WriteLine(Garbage)
          /\ openLine' = TRUE
       \/ /\ out = "cut_utf8"
          /\ WriteLine(BadUtf8)
          /\ openLine' = TRUE
    /\ acked' = IF out = "ok" THEN acked \cup {e} ELSE acked
    /\ mode' = IF out = "killed" THEN "down" ELSE mode

\* Memory after a method that appended: s when it succeeded, t on an error.
AfterAppend(out, s, t) ==
    CASE out = "ok"     -> s
      [] out = "killed" -> EmptyInner(1)
      [] OTHER          -> t

--------------------------------------------------------------------------------
(* The methods                                                              *)

HasPending(s, fp) ==
    s.pending[fp] # None /\ s.tickets[s.pending[fp]] # None

\* upsert_pending: the request is already waiting under some ticket.
upsert_pending_existing(fp) ==
    /\ mode = "up"
    /\ HasPending(inner, fp)
    /\ inner' = prune_expired_overrides(inner)
    /\ UNCHANGED <<mode, cursor, log, openLine, now, issued, acked, asked>>

\* upsert_pending: a new ticket; memory changes only once the event is logged.
upsert_pending_new(id, fp, principal, post, out) ==
    LET e == [type |-> "created", id |-> id, fp |-> fp,
              principal |-> principal, post |-> post]
        s == prune_expired_overrides(inner)
    IN  /\ mode = "up"
        /\ ~HasPending(inner, fp)
        /\ id \notin issued
        /\ issued' = issued \cup {id}
        /\ append_review_event(e, out)
        /\ inner' = AfterAppend(out, trim_to_capacity(WithTicket(s, e)), s)
        /\ UNCHANGED <<cursor, now, asked>>

\* Mutant: a decided ticket can be decided again.
resolve_again(id, status, ttl, out) ==
    LET e == [type |-> "resolved", id |-> id, status |-> status,
              expires |-> now + ttl]
        s == prune_expired_overrides(inner)
    IN  /\ mode = "up"
        /\ inner.tickets[id] # None
        /\ asked' = asked \cup {e}
        /\ append_review_event(e, out)
        /\ inner' = AfterAppend(out, WithOverride(WithStatus(s, e), e), WithStatus(s, e))
        /\ UNCHANGED <<cursor, now, issued>>

\* resolve on a pending ticket.  The ticket takes the verdict before the
\* append, and keeps it when the append fails (the caller is told NotFound).
resolve(id, status, ttl, out) ==
    LET e == [type |-> "resolved", id |-> id, status |-> status,
              expires |-> now + ttl]
        s == prune_expired_overrides(inner)
    IN  /\ mode = "up"
        /\ inner.tickets[id] # None
        /\ inner.tickets[id].status = "pending"
        /\ asked' = asked \cup {e}
        /\ append_review_event(e, out)
        /\ inner' = AfterAppend(out, WithOverride(WithStatus(s, e), e), WithStatus(s, e))
        /\ UNCHANGED <<cursor, now, issued>>

\* lookup_override, get, list, pending_count, and resolve when it returns
\* NotFound or AlreadyResolved: they change nothing but the expired overrides.
query ==
    /\ mode = "up"
    /\ inner' = prune_expired_overrides(inner)
    /\ UNCHANGED <<mode, cursor, log, openLine, now, issued, acked, asked>>

set_capacity(c) ==
    /\ mode = "up"
    /\ inner' = trim_to_capacity([inner EXCEPT !.capacity = AtLeastOne(c)])
    /\ UNCHANGED <<mode, cursor, log, openLine, now, issued, acked, asked>>

\* ReviewStore::new, up to the start of load_existing.
new(c) ==
    /\ mode = "down"
    /\ mode' = "loading"
    /\ cursor' = 0
    /\ inner' = EmptyInner(AtLeastOne(c))
    /\ UNCHANGED <<log, openLine, now, issued, acked, asked>>

\* One line of load_existing.
load_line ==
    /\ mode = "loading"
    /\ cursor < Len(log)
    /\ IF log[cursor + 1] = BadUtf8
       THEN cursor' = Len(log) /\ UNCHANGED inner
       ELSE /\ cursor' = cursor + 1
            /\ inner' = apply_review_event(inner, log[cursor + 1])
    /\ UNCHANGED <<mode, log, openLine, now, issued, acked, asked>>

\* The end of load_existing and of new: prune, then trim.
loaded ==
    /\ mode = "loading"
    /\ cursor = Len(log)
    /\ mode' = "up"
    /\ inner' = trim_to_capacity(prune_expired_overrides(inner))
    /\ UNCHANGED <<cursor, log, openLine, now, issued, acked, asked>>

\* The process dies between two methods.
crash ==
    /\ mode # "down"
    /\ mode' = "down"
    /\ inner' = EmptyInner(1)
    /\ UNCHANGED <<cursor, log, openLine, now, issued, acked, asked>>

tick ==
    /\ now < MaxTime
    /\ now' = now + 1
    /\ UNCHANGED <<mode, inner, cursor, log, openLine, issued, acked, asked>>

--------------------------------------------------------------------------------
Init ==
    /\ mode = "down"
    /\ inner = EmptyInner(1)
    /\ cursor = 0
    /\ log = <<>>
    /\ openLine = FALSE
    /\ now = 0
    /\ issued = {}
    /\ acked = {}
    /\ asked = {}

Next ==
    \/ \E fp \in Fingerprints : upsert_pending_existing(fp)
    \/ \E id \in TicketIds, fp \in Fingerprints, p \in Principals,
         post \in PostActions, out \in WriteOutcomes :
           upsert_pending_new(id, fp, p, post, out)
    \/ \E id \in TicketIds, v \in Verdicts, ttl \in Ttls, out \in WriteOutcomes :
           resolve(id, v, ttl, out)
    \/ query
    \/ \E c \in Capacities : set_capacity(c)
    \/ \E c \in Capacities : new(c)
    \/ load_line
    \/ loaded
    \/ crash
    \/ tick

Spec == Init /\ [][Next]_vars

--------------------------------------------------------------------------------
(* Properties                                                               *)

\* The types of the store, the log and the histories, in every mode.
TypeOK ==
    /\ mode \in {"down", "loading", "up"}
    /\ inner \in ReviewStoreInner
    /\ cursor \in Nat
    /\ log \in Seq(Lines)
    /\ openLine \in BOOLEAN
    /\ now \in Nat
    /\ issued \subseteq TicketIds
    /\ acked \subseteq Lines
    /\ asked \subseteq ResolvedEvents

\* Lines a restart will get to see: those before the first non-UTF-8 line.
Readable(i) == \A j \in 1..i : log[j] # BadUtf8

\* On a value s of ReviewStoreInner: both indexes name tickets of s with the
\* same fingerprint, and an override agrees with its ticket's verdict, expiry
\* and post-approval action.
IndexesAgree(s) ==
    \A f \in Fingerprints :
        /\ s.pending[f] # None =>
             /\ s.tickets[s.pending[f]] # None
             /\ s.tickets[s.pending[f]].fp = f
        /\ s.overrides[f] # None =>
             LET o == s.overrides[f]
             IN  /\ s.tickets[o.ticket] # None
                 /\ s.tickets[o.ticket].fp = f
                 /\ s.tickets[o.ticket].status = o.status
                 /\ s.tickets[o.ticket].expires = o.expires
                 /\ s.tickets[o.ticket].post = o.action

\* No sequence of upsert_pending, resolve, eviction, crash and replay of a
\* damaged log leaves an index entry that dangles or an override that its
\* ticket does not carry.
IndexSound == IndexesAgree(inner)

\* The queue holds exactly the tickets of the map, each once, and once the
\* store is up never more than its capacity (trim_to_capacity).
QueueExact ==
    /\ \A i, j \in 1..Len(inner.order) :
         inner.order[i] = inner.order[j] => i = j
    /\ \A t \in TicketIds :
         inner.tickets[t] # None <=> \E i \in 1..Len(inner.order) : inner.order[i] = t
    /\ mode = "up" => Len(inner.order) <= inner.capacity

\* Whatever crashes, torn lines and failed appends happened: the part of the
\* log a restart reads never holds two verdicts for one ticket, so replay
\* order cannot turn a rejection into an approval.
VerdictFinal ==
    \A i, j \in 1..Len(log) :
        /\ Readable(i) /\ Readable(j)
        /\ log[i].type = "resolved" /\ log[j].type = "resolved"
        /\ log[i].id = log[j].id
        => i = j

\* An override can only come from a verdict an administrator asked for, with
\* that verdict and that expiry, also after replaying a damaged log.
OverrideAsked ==
    \A f \in Fingerprints :
        inner.overrides[f] # None =>
            [type |-> "resolved", id |-> inner.overrides[f].ticket,
             status |-> inner.overrides[f].status,
             expires |-> inner.overrides[f].expires] \in asked

\* Every event whose append was reported successful is there for the next
\* restart to read ("JSONL persistence survives restart"), and a running
\* process, restarted or not, holds the verdict that was reported.
AckedSurvives ==
    \A e \in acked :
        /\ \E i \in 1..Len(log) : Readable(i) /\ log[i] = e
        /\ (e.type = "resolved" /\ mode = "up" /\ inner.tickets[e.id] # None) =>
             inner.tickets[e.id].status = e.status

(* The inductive strengthening of VerdictFinal, IndexSound and OverrideAsked *)

IsCreated(i)  == log[i].type = "created"
IsResolved(i) == log[i].type = "resolved"

\* Uuids are fresh, so a ticket is filed once and before its verdicts, and
\* every verdict in the log was asked for.
LogSound ==
    /\ openLine => Len(log) > 0
    /\ \A i \in 1..Len(log) :
         /\ IsCreated(i) \/ IsResolved(i) => log[i].id \in issued
         /\ IsResolved(i) => log[i] \in asked
    /\ \A i, j \in 1..Len(log) :
         /\ IsCreated(i) /\ IsCreated(j) /\ log[i].id = log[j].id => i = j
         /\ IsCreated(i) /\ IsResolved(j) /\ log[i].id = log[j].id => i < j

\* The part of the log that memory reflects.
Seen(i) ==
    /\ Readable(i)
    /\ mode = "up" \/ (mode = "loading" /\ i <= cursor)

\* Memory holds issued tickets only, while loading only replayed ones, and no
\* ticket whose verdict it has seen is still pending.
MemorySound ==
    /\ mode = "down" => inner = EmptyInner(1)
    /\ mode = "loading" => cursor <= Len(log)
    /\ \A t \in TicketIds : inner.tickets[t] # None =>
         /\ t \in issued
         /\ mode = "loading" =>
              \E i \in 1..cursor : IsCreated(i) /\ log[i].id = t
    /\ \A i \in 1..Len(log) : Seen(i) /\ IsResolved(i) =>
         \/ inner.tickets[log[i].id] = None
         \/ inner.tickets[log[i].id].status # "pending"

IInv ==
    TypeOK /\ LogSound /\ MemorySound /\ VerdictFinal /\ IndexSound /\ OverrideAsked

\* Where the queue is large enough for every ticket (no eviction, ever), a
\* request waits under one ticket only: the pending index leads upsert_pending
\* to every undecided ticket, restarts and failed appends included.
OneTicketPerRequest ==
    mode = "up" =>
        \A t \in TicketIds :
            (inner.tickets[t] # None /\ inner.tickets[t].status = "pending") =>
                inner.pending[inner.tickets[t].fp] = t

\* The verdict a restart would read off the log.
DurableVerdict ==
    [t \in TicketIds |->
        IF \E i \in 1..Len(log) :
             Readable(i) /\ log[i].type = "resolved" /\ log[i].id = t
        THEN log[CHOOSE i \in 1..Len(log) :
                   Readable(i) /\ log[i].type = "resolved" /\ log[i].id = t].status
        ELSE IF \E i \in 1..Len(log) :
                  Readable(i) /\ log[i].type = "created" /\ log[i].id = t
             THEN "pending" ELSE "none"]

Ledger == INSTANCE ReviewLedger WITH verdict <- DurableVerdict

\* When an append either completes or writes nothing, the event log implements
\* the ledger: filed once, decided once, never withdrawn, across restarts.
LedgerSpec == Ledger!Spec

\* What the end of load_existing owes the verdicts of the log: the last one on a
\* request has left its override, unless it has expired.
RestoresOverrides ==
    LET Request(i) == inner'.tickets[log[i].id].fp
        Verdict(i) == log[i].type = "resolved" /\ inner'.tickets[log[i].id] # None
    IN  \A i \in 1..Len(log) :
          (/\ Verdict(i)
           /\ log[i].expires > now
           /\ \A j \in (i + 1)..Len(log) : Verdict(j) => Request(j) # Request(i))
          => /\ inner'.overrides[Request(i)] # None
             /\ inner'.overrides[Request(i)].ticket = log[i].id

\* Where nothing is evicted, a restart restores the override of the last
\* verdict on a request, unless it has expired (load_existing).
RestartRestoresOverride ==
    [][(mode = "loading" /\ mode' = "up") => RestoresOverrides]_vars

================================================================================
