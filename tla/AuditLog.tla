-------------------------------- MODULE AuditLog --------------------------------
(***************************************************************************)
(* The audit trail (src/audit.rs, and its use in src/app.rs): a ring of    *)
(* recent records that lives as long as the process, and one sink per      *)
(* loaded configuration, each an unbounded channel drained by a task that  *)
(* appends to the JSONL file.  After a reload the old sink still serves    *)
(* the requests that hold the old runtime, so two tasks may write the same *)
(* file.  A record is written by writeln!, which is two writes: the text,  *)
(* then the newline.                                                       *)
(***************************************************************************)
EXTENDS Naturals, Sequences, FiniteSets

SE == INSTANCE SequencesExt

CONSTANTS
    Emitters,       \* requests; each emits a first and a second record
    Capacities,     \* values of audit.buffer_capacity
    MaxSinks,       \* bound on the sinks opened, by starts and reloads
    WriteOutcomes,  \* "ok", "failed": how the write of a text may end
    None

ASSUME AuditLogAssumption ==
    /\ Capacities \subseteq Nat
    /\ Capacities # {}
    /\ MaxSinks \in Nat \ {0}
    /\ WriteOutcomes \subseteq {"ok", "failed"}
    /\ None \notin Nat

Sinks == 1..MaxSinks
AuditRecords == Emitters \X {1, 2}

VARIABLES
    up,         \* the process runs
    store,      \* AuditStoreInner: capacity and records
    sinks,      \* sinks opened so far; the last one is the current runtime's
    queue,      \* queue[g]: the channel of sink g
    half,       \* half[g]: the task of sink g wrote a text, not yet its newline
    file,       \* the lines of the file, each the sequence of texts in it
    open,       \* the last line has no newline yet
    em,         \* em[e]: the sink the request holds, records pushed and sent
    pushed,     \* history: records pushed since the process started
    lost        \* history: records whose write failed or that died in a channel

vars == <<up, store, sinks, queue, half, file, open, em, pushed, lost>>

--------------------------------------------------------------------------------
(* AuditStore                                                               *)

LastOf(s, n) == IF Len(s) > n THEN SubSeq(s, Len(s) - n + 1, Len(s)) ELSE s

set_capacity(s, c) ==
    LET n == IF c > 1 THEN c ELSE 1
    IN  [capacity |-> n, records |-> LastOf(s.records, n)]

\* Mutant: a full ring is not popped.
push_growing(s, record) == [s EXCEPT !.records = Append(s.records, record)]

\* A full ring loses its oldest record, and only one.
push(s, record) ==
    [s EXCEPT !.records =
        Append(IF Len(s.records) >= s.capacity THEN Tail(s.records) ELSE s.records,
               record)]

--------------------------------------------------------------------------------
(* AuditSink::emit, by a request                                            *)

Gone == [sink |-> None, pushed |-> 0, sent |-> 0]

\* The request takes its runtime, and with it its sink.
begin(e) ==
    /\ up
    /\ em[e] = Gone
    /\ em' = [em EXCEPT ![e].sink = sinks]
    /\ UNCHANGED <<up, store, sinks, queue, half, file, open, pushed, lost>>

\* store.push(record.clone())
emit_push(e) ==
    LET record == <<e, em[e].pushed + 1>>
    IN  /\ up
        /\ em[e].sink # None
        /\ em[e].pushed = em[e].sent
        /\ em[e].pushed < 2
        /\ store' = push(store, record)
        /\ pushed' = Append(pushed, record)
        /\ em' = [em EXCEPT ![e].pushed = em[e].pushed + 1]
        /\ UNCHANGED <<up, sinks, queue, half, file, open, lost>>

\* Mutant: the record goes to the sink of the current runtime.
emit_send_current(e) ==
    /\ up
    /\ em[e].sent < em[e].pushed
    /\ queue' = [queue EXCEPT ![sinks] = Append(queue[sinks], <<e, em[e].pushed>>)]
    /\ em' = [em EXCEPT ![e].sent = em[e].sent + 1]
    /\ UNCHANGED <<up, store, sinks, half, file, open, pushed, lost>>

\* self.sender.send(record): the mutex is no longer held.
emit_send(e) ==
    /\ up
    /\ em[e].sent < em[e].pushed
    /\ queue' = [queue EXCEPT ![em[e].sink] =
                                Append(queue[em[e].sink], <<e, em[e].pushed>>)]
    /\ em' = [em EXCEPT ![e].sent = em[e].sent + 1]
    /\ UNCHANGED <<up, store, sinks, half, file, open, pushed, lost>>

--------------------------------------------------------------------------------
(* The task of a sink                                                       *)

\* A text at the end of the file: a new line, or more of an unfinished one.
WriteText(record) ==
    /\ file' = IF open THEN [file EXCEPT ![Len(file)] = Append(file[Len(file)], record)]
                       ELSE Append(file, <<record>>)
    /\ open' = TRUE

\* The first write of writeln!; a failed one is logged and the task goes on.
write_text(g, out) ==
    LET record == Head(queue[g])
    IN  /\ up
        /\ queue[g] # <<>>
        /\ ~half[g]
        /\ IF out = "ok"
           THEN WriteText(record) /\ half' = [half EXCEPT ![g] = TRUE] /\ UNCHANGED lost
           ELSE lost' = lost \cup {record} /\ UNCHANGED <<file, open, half>>
        /\ queue' = [queue EXCEPT ![g] = Tail(queue[g])]
        /\ UNCHANGED <<up, store, sinks, em, pushed>>

\* The second write.
write_newline(g) ==
    /\ up
    /\ half[g]
    /\ half' = [half EXCEPT ![g] = FALSE]
    /\ IF open THEN open' = FALSE /\ UNCHANGED file
               ELSE file' = Append(file, <<>>) /\ UNCHANGED open
    /\ UNCHANGED <<up, store, sinks, queue, em, pushed, lost>>

--------------------------------------------------------------------------------
(* Start, reload, crash                                                     *)

\* build_state: a new store, and the first sink of the process.
start(c) ==
    /\ ~up
    /\ sinks < MaxSinks
    /\ up' = TRUE
    /\ store' = set_capacity([capacity |-> 0, records |-> <<>>], c)
    /\ sinks' = sinks + 1
    /\ UNCHANGED <<queue, half, file, open, em, pushed, lost>>

\* Mutant: a reload abandons the channel of the sink it replaces.
reload_abandoning(c) ==
    /\ up
    /\ sinks < MaxSinks
    /\ store' = set_capacity(store, c)
    /\ sinks' = sinks + 1
    /\ queue' = [queue EXCEPT ![sinks] = <<>>]
    /\ UNCHANGED <<up, half, file, open, em, pushed, lost>>

\* RuntimeState::from_config resizes the shared ring, then opens a sink.
reload(c) ==
    /\ up
    /\ sinks < MaxSinks
    /\ store' = set_capacity(store, c)
    /\ sinks' = sinks + 1
    /\ UNCHANGED <<up, queue, half, file, open, em, pushed, lost>>

\* The file of the new configuration cannot be opened: the reload fails, the
\* ring stays resized.
reload_fails(c) ==
    /\ up
    /\ store' = set_capacity(store, c)
    /\ UNCHANGED <<up, sinks, queue, half, file, open, em, pushed, lost>>

\* The process dies; what the channels held is gone.
crash ==
    /\ up
    /\ up' = FALSE
    /\ lost' = lost \cup UNION {SE!ToSet(queue[g]) : g \in Sinks}
    /\ queue' = [g \in Sinks |-> <<>>]
    /\ half' = [g \in Sinks |-> FALSE]
    /\ store' = [capacity |-> 1, records |-> <<>>]
    /\ pushed' = <<>>
    /\ em' = [e \in Emitters |->
                IF em[e] = Gone THEN Gone ELSE [sink |-> None, pushed |-> 2, sent |-> 2]]
    /\ UNCHANGED <<sinks, file, open>>

--------------------------------------------------------------------------------
(* GET /admin/audits                                                        *)

\* The elements of s at the places I, in their order.
Selected(s, I) ==
    LET upto[i \in 0..Len(s)] ==
          IF i = 0 THEN <<>>
          ELSE IF i \in I THEN Append(upto[i - 1], s[i]) ELSE upto[i - 1]
    IN  upto[Len(s)]

\* A line parses if it is the text of one record; the last ones are kept.
read_recent_audit_file(limit) ==
    LET parsed == Selected(file, {i \in DOMAIN file : Len(file[i]) = 1})
    IN  LastOf([i \in DOMAIN parsed |-> parsed[i][1]], limit)

\* Of one request the second record is the newer one; how records of different
\* requests are ordered does not show in the listing of one.
by_time(records) ==
    Selected(records, {i \in DOMAIN records : records[i][2] = 2})
        \o Selected(records, {i \in DOMAIN records : records[i][2] = 1})

\* Mutant: a record of ring and file is listed twice.
merged_twice(limit) == by_time(store.records \o read_recent_audit_file(limit))

\* Ring and file, newest first, each record once.
merged(limit) ==
    LET all == by_time(store.records \o read_recent_audit_file(limit))
    IN  Selected(all, {i \in DOMAIN all : \A j \in 1..(i - 1) : all[j] # all[i]})

\* The source of a query; what is neither "file" nor "both" is the memory.
records_of(source, limit) ==
    CASE source = "file" -> SE!Reverse(read_recent_audit_file(limit))
      [] source = "both" -> merged(limit)
      [] OTHER -> SE!Reverse(store.records)

\* The listing for one request: filtered, then cut to the limit.
admin_audits(source, limit, e) ==
    LET records == records_of(source, limit)
        own     == Selected(records, {i \in DOMAIN records : records[i][1] = e})
    IN  SubSeq(own, 1, IF limit < Len(own) THEN limit ELSE Len(own))

--------------------------------------------------------------------------------
Init ==
    /\ up = FALSE
    /\ store = [capacity |-> 1, records |-> <<>>]
    /\ sinks = 0
    /\ queue = [g \in Sinks |-> <<>>]
    /\ half = [g \in Sinks |-> FALSE]
    /\ file = <<>>
    /\ open = FALSE
    /\ em = [e \in Emitters |-> Gone]
    /\ pushed = <<>>
    /\ lost = {}

Write(g) == (\E out \in WriteOutcomes : write_text(g, out)) \/ write_newline(g)

Next ==
    \/ \E e \in Emitters : begin(e) \/ emit_push(e) \/ emit_send(e)
    \/ \E g \in Sinks : Write(g)
    \/ \E c \in Capacities : start(c) \/ reload(c) \/ reload_fails(c)
    \/ crash

\* Only the writer tasks are fair: the runtime polls a task that has work.
Spec == Init /\ [][Next]_vars /\ \A g \in Sinks : WF_vars(Write(g))

--------------------------------------------------------------------------------
(* Properties                                                               *)

\* The types of ring, channels and file; the ring has room for one record at
\* least (set_capacity).
TypeOK ==
    /\ up \in BOOLEAN
    /\ store.capacity \in Nat \ {0}
    /\ SE!ToSet(store.records) \subseteq AuditRecords
    /\ sinks \in 0..MaxSinks
    /\ \A g \in Sinks : SE!ToSet(queue[g]) \subseteq AuditRecords /\ half[g] \in BOOLEAN
    /\ \A i \in DOMAIN file : SE!ToSet(file[i]) \subseteq AuditRecords
    /\ open \in BOOLEAN
    /\ em \in [Emitters -> [sink: Sinks \cup {None}, pushed: 0..2, sent: 0..2]]
    /\ lost \subseteq AuditRecords

\* The ring is always the latest of what was pushed, without a gap, and within
\* its capacity, whichever reloads resized it in between (set_capacity, push).
RingIsRecent ==
    /\ TypeOK
    /\ Len(store.records) <= store.capacity
    /\ store.records = LastOf(pushed, Len(store.records))

\* The texts of the file, in order.
Written == SE!FlattenSeq(file)

\* No record is written twice, and of one request the second record never
\* stands before the first, though a reload may give the file another writer
\* between the two: a request keeps its sink.
FileOrder ==
    /\ \A i, j \in DOMAIN Written : Written[i] = Written[j] => i = j
    /\ \A e \in Emitters : \A i \in DOMAIN Written :
         Written[i] = <<e, 2>> =>
             \/ <<e, 1>> \in lost
             \/ \E j \in 1..(i - 1) : Written[j] = <<e, 1>>

\* An administrator who asks for the trail of one request, with room for its
\* two records, sees from memory exactly what the ring holds of it and from
\* both sources at least that, newest first and nothing twice: though the file
\* holds the same records, unreadable lines, or those of an earlier process.
TrailTold ==
    up => \A e \in Emitters :
        LET own   == {r \in SE!ToSet(store.records) : r[1] = e}
            told  == admin_audits("both", 2, e)
            brief == admin_audits("memory", 2, e)
        IN  /\ SE!ToSet(brief) = own
            /\ own \subseteq SE!ToSet(told)
            /\ SE!ToSet(told) \subseteq own \cup SE!ToSet(Written)
            /\ \A list \in {told, brief, admin_audits("file", 2, e)} :
                 Len(list) = 2 => list = <<<<e, 2>>, <<e, 1>>>>

\* A record that reached a channel reaches the file, unless its write fails or
\* the process dies: also when its sink is no longer the current one.
AuditReachesFile ==
    \A record \in AuditRecords :
        (\E g \in Sinks : record \in SE!ToSet(queue[g]))
            ~> (record \in SE!ToSet(Written) \/ record \in lost)
================================================================================
