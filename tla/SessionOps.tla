------------------------------- MODULE SessionOps -------------------------------
(***************************************************************************)
(* The session table of crates/ctxward-core/src/session.rs as functions of *)
(* its value: store[id] is an entry [labels, updated_at] or None.  cfg is  *)
(* the SessionConfig of the caller's runtime snapshot, t the clock.        *)
(***************************************************************************)
EXTENDS Integers, FiniteSets

CONSTANTS
    SessionIds,     \* values of the session header; an empty one is not recorded
    Labels,         \* labels of findings
    None            \* no entry

SessionEntry(times) == [labels: SUBSET Labels, updated_at: times]

Live(store) == {id \in SessionIds : store[id] # None}

\* guard.retain(...): an entry exactly ttl old is still there, and so is one
\* dated after t (duration_since saturates at zero).
retain(store, cfg, t) ==
    [id \in SessionIds |->
        IF store[id] # None /\ t - store[id].updated_at <= cfg.ttl
        THEN store[id] ELSE None]

\* The entries min_by_key may pick: ties are broken by hash order.
oldest(store) ==
    {id \in Live(store) :
        \A k \in Live(store) : store[id].updated_at <= store[k].updated_at}

\* Mutant: room is made only once the limit is exceeded.
make_room_late(store, id, cfg) ==
    IF Cardinality(Live(store)) > cfg.max_entries /\ store[id] = None /\ Live(store) # {}
    THEN {[store EXCEPT ![k] = None] : k \in oldest(store)}
    ELSE {store}

\* At most one entry makes room for a new session.
make_room(store, id, cfg) ==
    IF Cardinality(Live(store)) >= cfg.max_entries /\ store[id] = None /\ Live(store) # {}
    THEN {[store EXCEPT ![k] = None] : k \in oldest(store)}
    ELSE {store}

\* Mutant: the labels of the last request replace the earlier ones.
insert_replacing(store, id, labels, t) ==
    [store EXCEPT ![id] = [labels |-> labels, updated_at |-> t]]

insert(store, id, labels, t) ==
    [store EXCEPT ![id] =
        [labels     |-> labels \cup IF store[id] = None THEN {} ELSE store[id].labels,
         updated_at |-> t]]

\* The tables record_and_check may leave behind.
recorded(store, id, labels, cfg, t) ==
    {insert(room, id, labels, t) : room \in make_room(retain(store, cfg, t), id, cfg)}

\* Its result, read off the table it leaves behind.
escalates(store, id, cfg) == Cardinality(store[id].labels) >= cfg.threshold
================================================================================
