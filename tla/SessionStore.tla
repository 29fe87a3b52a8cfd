------------------------------ MODULE SessionStore ------------------------------
(***************************************************************************)
(* The session store under concurrent requests.  A call reads the clock    *)
(* and then waits for the mutex, under which everything else happens: it   *)
(* works with a time t <= now, and calls may reach the table in another    *)
(* order than they read the clock.                                         *)
(***************************************************************************)
EXTENDS SessionOps, Sequences

CONSTANTS
    Config,     \* the SessionConfig in force: [enabled, ttl, max_entries, threshold]
    MaxTime,    \* bound on the clock
    MaxCalls    \* bound on the calls

ASSUME SessionStoreAssumption ==
    /\ Config \in [enabled: BOOLEAN, ttl: Nat, max_entries: Nat, threshold: Nat]
    /\ MaxTime \in Nat
    /\ MaxCalls \in Nat
    /\ None \notin SessionEntry(0..MaxTime)

VARIABLES
    sessions,   \* SessionStore::inner
    now,        \* Instant::now()
    calls,      \* history: per session, the calls made
    swept,      \* history: per session, the time of the call that expired its entry
    forgotten   \* history: sessions whose entry was evicted for room, or expired
                \* by a call that had read the clock after their own waiting call

vars == <<sessions, now, calls, swept, forgotten>>

Init ==
    /\ sessions = [id \in SessionIds |-> None]
    /\ now = 0
    /\ calls = [id \in SessionIds |-> <<>>]
    /\ swept = [id \in SessionIds |-> 0]
    /\ forgotten = {}

Sweep(t) == swept' = [id \in SessionIds |->
                IF sessions[id] # None /\ retain(sessions, Config, t)[id] = None
                THEN t ELSE swept[id]]

CallsMade == {c \in SessionIds \X (1..MaxCalls) : c[2] <= Len(calls[c[1]])}

record_and_check(id, labels, t) ==
    /\ Cardinality(CallsMade) < MaxCalls
    /\ IF Config.enabled
       THEN /\ sessions' \in recorded(sessions, id, labels, Config, t)
            /\ calls' = [calls EXCEPT ![id] = Append(@,
                  [labels |-> labels, at |-> t,
                   escalated |-> escalates(sessions', id, Config)])]
            /\ Sweep(t)
            /\ forgotten' = forgotten
                  \cup (Live(retain(sessions, Config, t)) \ Live(sessions'))
                  \cup (IF t < swept[id] THEN {id} ELSE {})
       ELSE /\ calls' = [calls EXCEPT ![id] = Append(@,
                  [labels |-> labels, at |-> t, escalated |-> FALSE])]
            /\ UNCHANGED <<sessions, swept, forgotten>>
    /\ UNCHANGED now

active_sessions(t) ==
    /\ Config.enabled
    /\ sessions' = retain(sessions, Config, t)
    /\ Sweep(t)
    /\ UNCHANGED <<now, calls, forgotten>>

tick ==
    /\ now < MaxTime
    /\ now' = now + 1
    /\ UNCHANGED <<sessions, calls, swept, forgotten>>

Next ==
    \/ \E id \in SessionIds, labels \in SUBSET Labels, t \in 0..now :
           record_and_check(id, labels, t)
    \/ \E t \in 0..now : active_sessions(t)
    \/ tick

Spec == Init /\ [][Next]_vars

--------------------------------------------------------------------------------
\* The types of the table and of the history of calls (record_and_check).
TypeOK ==
    /\ sessions \in [SessionIds -> SessionEntry(0..MaxTime) \cup {None}]
    /\ now \in 0..MaxTime
    /\ \A id \in SessionIds :
         /\ Len(calls[id]) <= MaxCalls
         /\ \A i \in 1..Len(calls[id]) :
              calls[id][i] \in [labels: SUBSET Labels, at: 0..MaxTime, escalated: BOOLEAN]
    /\ swept \in [SessionIds -> 0..MaxTime]
    /\ forgotten \subseteq SessionIds

\* The calls of a session that belong together at its k-th call: no pause
\* longer than the TTL since.
Turn(id, k) ==
    {i \in 1..k : \A j \in i..(k - 1) : calls[id][j + 1].at - calls[id][j].at <= Config.ttl}

LabelsOf(id, k) == UNION {calls[id][i].labels : i \in Turn(id, k)}

\* Splitting sensitive data over several requests of one session does not
\* help, in whatever order the requests read the clock and reach the table: a
\* call of record_and_check escalates exactly when the labels of its unbroken
\* turn reach the threshold.  A session that was evicted for room, or overtaken
\* by the call of another one that expired it, may be charged with less; none
\* is charged with labels of another session or of an earlier turn.
EscalationExact ==
    Config.enabled => \A id \in SessionIds :
        /\ sessions[id] # None =>
             sessions[id].labels \subseteq LabelsOf(id, Len(calls[id]))
        /\ id \notin forgotten => \A k \in 1..Len(calls[id]) :
             calls[id][k].escalated <=>
                 Cardinality(LabelsOf(id, k)) >= Config.threshold

\* The table keeps its shape and never outgrows its limit (one entry when the
\* limit is zero).
TableBounded ==
    /\ TypeOK
    /\ Cardinality(Live(sessions)) <= IF Config.max_entries > 1 THEN Config.max_entries ELSE 1
================================================================================
